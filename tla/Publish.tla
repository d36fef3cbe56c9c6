------------------------------ MODULE Publish ------------------------------
(***************************************************************************)
(* Building and publishing generated models: buildGeneratedModelForTesting *)
(* of lib/CodeGen/Build.cpp with writeFileExclusive, publishImmutableStage *)
(* and writeCurrentPointer of lib/CodeGen/Staging.cpp.                     *)
(*                                                                         *)
(* Several compiler processes share one output root.  A build is a list of *)
(* filesystem effects: every one that another process can observe is an    *)
(* action, a process can fail at each (the BuildFailurePoint injections    *)
(* and every returned error), and can be killed between any two, in which  *)
(* case no destructor runs.  The files named by request.linkInputs belong  *)
(* to somebody else and may change at any time.                            *)
(*                                                                         *)
(* Contents are abstract and a fingerprint is the content it is taken of:  *)
(* SHA-256 is taken to be injective.                                       *)
(***************************************************************************)
EXTENDS Naturals, FiniteSets

CONSTANTS
    Builders,       \* compiler processes that share an output root
    Requests,       \* build requests: everything that is fixed before the build starts
    LinkContents,   \* what the link inputs may hold
    None,           \* no build
    MaxAttempts,    \* bound: builds that one process starts
    MaxEdits        \* bound: changes of the link inputs

ASSUME PublishAssumption ==
    /\ MaxAttempts \in Nat \ {0} /\ MaxEdits \in Nat
    /\ Builders # {} /\ Requests # {} /\ LinkContents # {}

VARIABLES
    pc,         \* the next step of each process
    attempt,    \* builds that each process has started
    fingerprint,\* publicationFingerprint of the running build
    artifacts,  \* path |-> content: what the running build has recorded so far
    stages,     \* private stage directories that exist: path |-> content
    builds,     \* <output>/builds: the directories that exist, by fingerprint
    current,    \* the build that current.json names, or None
    linkInput,  \* content of the link inputs on disk
    edits,
    overtaken   \* ghost: the fingerprints of builds that an edit overtook before they had linked

processVars == <<pc, attempt, fingerprint, artifacts>>
vars == <<processVars, stages, builds, current, linkInput, edits, overtaken>>

-----------------------------------------------------------------------------
(* publicationFingerprint covers the request and, through the compile      *)
(* plan, the contents of the link inputs when the plan was made.           *)
Fingerprints == Requests \X LinkContents
PublicationFingerprint(r, content) == <<r, content>>

\* createCompilePlan: everything in the plan but the content of the link inputs is the request's.
CompilePlan(content) == content

\* A mutant: two builds of one request share their stage.
StageNameOfRequest(b) == fingerprint[b]
\* The directory of a private stage: createUniqueDirectory draws a name that no directory has.
\* Two draws are assumed to differ even after the first directory is gone.
StageName(b) == <<b, attempt[b]>>
StageOf(b) == stages[StageName(b)]
HasStage(b) == StageName(b) \in DOMAIN stages

\* Files in a directory, or directories in a directory: name |-> content.
Empty == [n \in {} |-> n]
With(directory, name, content) ==
    [n \in DOMAIN directory \cup {name} |-> IF n = name THEN content ELSE directory[n]]
Without(directory, name) == [n \in DOMAIN directory \ {name} |-> directory[n]]

\* What a process finds in its stage: nothing where the directory is gone.
Staged(b) == IF HasStage(b) THEN StageOf(b) ELSE Empty
Published(f) == f \in DOMAIN builds

\* retargetBundle puts the fingerprint into the sources, once.
Sources(b) == <<"sources", fingerprint[b]>>

-----------------------------------------------------------------------------
Init ==
    /\ pc = [b \in Builders |-> "idle"]
    /\ attempt = [b \in Builders |-> 0]
    /\ fingerprint = [b \in Builders |-> None]
    /\ artifacts = [b \in Builders |-> Empty]
    /\ stages = Empty
    /\ builds = Empty
    /\ current = None
    /\ linkInput \in LinkContents
    /\ edits = 0
    /\ overtaken = {}

Ended == {"idle", "done", "failed"}

At(b, step) == pc[b] = step
Goto(b, step) == pc' = [pc EXCEPT ![b] = step]

\* preflightBuildRequest, buildModelPlan, generateModelSources, the preliminary compile plan.
Start(b) ==
    /\ pc[b] \in Ended /\ attempt[b] < MaxAttempts
    /\ \E r \in Requests :
         fingerprint' = [fingerprint EXCEPT ![b] = PublicationFingerprint(r, CompilePlan(linkInput))]
    /\ attempt' = [attempt EXCEPT ![b] = @ + 1]
    /\ artifacts' = [artifacts EXCEPT ![b] = Empty]
    /\ Goto(b, "plan")
    /\ UNCHANGED <<stages, builds, current, linkInput, edits, overtaken>>

\* The second compile plan, after retargetBundle, reads the link inputs again.
Plan(b) ==
    /\ At(b, "plan")
    /\ artifacts' = [artifacts EXCEPT ![b] = With(@, "compile-plan.json", CompilePlan(linkInput))]
    /\ Goto(b, "stage")
    /\ UNCHANGED <<attempt, fingerprint, stages, builds, current, linkInput, edits, overtaken>>

CreateStage(b) ==
    /\ At(b, "stage")
    /\ stages' = With(stages, StageName(b), Empty)
    /\ Goto(b, "write")
    /\ UNCHANGED <<attempt, fingerprint, artifacts, builds, current, linkInput, edits, overtaken>>

\* addArtifact for every input, source and the plan.  writeFileExclusive makes the directories
\* that are missing and refuses a file that is there.
WriteSources(b) ==
    /\ At(b, "write")
    /\ LET written == With(artifacts[b], "src", Sources(b))
           staged == Staged(b)
       IN  /\ DOMAIN written \cap DOMAIN staged = {}
           /\ stages' = With(stages, StageName(b),
                             [p \in DOMAIN written \cup DOMAIN staged |->
                                IF p \in DOMAIN written THEN written[p] ELSE staged[p]])
           /\ artifacts' = [artifacts EXCEPT ![b] = written]
    /\ Goto(b, "link")
    /\ UNCHANGED <<attempt, fingerprint, builds, current, linkInput, edits, overtaken>>

\* The contract check, the compile commands and the link command: the executable holds the
\* sources of the stage and the link inputs as they are now.
Link(b) ==
    /\ At(b, "link")
    /\ HasStage(b) /\ "src" \in DOMAIN StageOf(b)
    /\ stages' = With(stages, StageName(b),
                      With(StageOf(b), "bin/model", <<StageOf(b)["src"], linkInput>>))
    /\ Goto(b, "query")
    /\ UNCHANGED <<attempt, fingerprint, artifacts, builds, current, linkInput, edits, overtaken>>

\* queryFingerprint must print the planned fingerprint; then the executable is hashed.
Query(b) ==
    /\ At(b, "query")
    /\ HasStage(b) /\ "bin/model" \in DOMAIN StageOf(b)
    /\ StageOf(b)["bin/model"][1] = Sources(b)
    /\ artifacts' = [artifacts EXCEPT ![b] = With(@, "bin/model", StageOf(b)["bin/model"])]
    /\ Goto(b, "manifest")
    /\ UNCHANGED <<attempt, fingerprint, stages, builds, current, linkInput, edits, overtaken>>

\* makeManifest: what the manifest says beyond the request is the hash of every artifact.
Manifest(b) == artifacts[b]

\* build-manifest.json is the last file of the stage.
WriteManifest(b) ==
    /\ At(b, "manifest")
    /\ "build-manifest.json" \notin DOMAIN Staged(b)
    /\ stages' = With(stages, StageName(b),
                      With(Staged(b), "build-manifest.json", Manifest(b)))
    /\ Goto(b, "publish")
    /\ UNCHANGED <<attempt, fingerprint, artifacts, builds, current, linkInput, edits, overtaken>>

\* A mutant: any directory under the fingerprint is a hit.
SameBuildByName(b, directory) == TRUE
\* The destination has the manifest and, file by file, the artifacts of this build.
SameBuild(b, directory) ==
    /\ "build-manifest.json" \in DOMAIN directory
    /\ directory["build-manifest.json"] = Manifest(b)
    /\ \A path \in DOMAIN artifacts[b] :
         path \in DOMAIN directory /\ directory[path] = artifacts[b][path]

\* publishImmutableStage up to its rename: an exact cache hit removes the stage.
CheckDestination(b) ==
    /\ At(b, "publish")
    /\ IF ~Published(fingerprint[b]) THEN Goto(b, "rename") /\ UNCHANGED stages
       ELSE /\ SameBuild(b, builds[fingerprint[b]])
            /\ stages' = Without(stages, StageName(b))
            /\ Goto(b, "select")
    /\ UNCHANGED <<attempt, fingerprint, artifacts, builds, current, linkInput, edits, overtaken>>

\* A mutant: the rename replaces what is there.
CanRenameOnto(b) == TRUE
\* The rename: a directory that appeared since the check makes it fail.
CanRename(b) == ~Published(fingerprint[b])
RenameStage(b) ==
    /\ At(b, "rename")
    /\ HasStage(b) /\ CanRename(b)
    /\ builds' = With(builds, fingerprint[b], StageOf(b))
    /\ stages' = Without(stages, StageName(b))
    /\ Goto(b, "select")
    /\ UNCHANGED <<attempt, fingerprint, artifacts, current, linkInput, edits, overtaken>>

\* A mutant: the pointer is written as soon as the manifest is.
SelectCurrentEarly(b) ==
    /\ pc[b] \in {"publish", "select"}
    /\ current' = fingerprint[b]
    /\ IF At(b, "select") THEN Goto(b, "done") ELSE UNCHANGED pc
    /\ UNCHANGED <<attempt, fingerprint, artifacts, stages, builds, linkInput, edits, overtaken>>
\* writeCurrentPointer: the temporary file is renamed over current.json.
SelectCurrent(b) ==
    /\ At(b, "select")
    /\ current' = fingerprint[b]
    /\ Goto(b, "done")
    /\ UNCHANGED <<attempt, fingerprint, artifacts, stages, builds, linkInput, edits, overtaken>>
Busy(b) == pc[b] \notin Ended

\* The locals of a build that is over.
Forget(b) ==
    /\ fingerprint' = [fingerprint EXCEPT ![b] = None]
    /\ artifacts' = [artifacts EXCEPT ![b] = Empty]

\* Any error return: the Cleanup of the build removes its stage.
Cleaned(b) == Without(stages, StageName(b))
Fail(b) ==
    /\ Busy(b)
    /\ stages' = Cleaned(b)
    /\ Forget(b) /\ Goto(b, "failed")
    /\ UNCHANGED <<attempt, builds, current, linkInput, edits, overtaken>>

\* The process is killed: no destructor runs.
Kill(b) ==
    /\ Busy(b)
    /\ Forget(b) /\ Goto(b, "failed")
    /\ UNCHANGED <<attempt, stages, builds, current, linkInput, edits, overtaken>>

\* Builds between their fingerprint and their link: Plan and Link read the link inputs again and
\* compare them with nothing (Build.cpp).
Linking == {b \in Builders : pc[b] \in {"plan", "stage", "write", "link"}}

EditLinkInput ==
    /\ edits < MaxEdits
    /\ edits' = edits + 1
    /\ overtaken' = overtaken \cup {fingerprint[b] : b \in Linking}
    /\ \E c \in LinkContents \ {linkInput} : linkInput' = c
    /\ UNCHANGED <<processVars, stages, builds, current>>

Step(b) ==
    \/ Plan(b) \/ CreateStage(b) \/ WriteSources(b) \/ Link(b) \/ Query(b)
    \/ WriteManifest(b) \/ CheckDestination(b) \/ RenameStage(b) \/ SelectCurrent(b)

Next ==
    \/ \E b \in Builders : Start(b) \/ Step(b) \/ Fail(b) \/ Kill(b)
    \/ EditLinkInput

Spec == Init /\ [][Next]_vars

-----------------------------------------------------------------------------
(* Properties *)

\* Every file the manifest lists is there with the content the manifest records, and the
\* executable embeds f.
Whole(f, directory) ==
    /\ {"src", "compile-plan.json", "bin/model", "build-manifest.json"} = DOMAIN directory
    /\ LET manifest == directory["build-manifest.json"]
       IN  \A path \in DOMAIN directory \ {"build-manifest.json"} :
             path \in DOMAIN manifest /\ manifest[path] = directory[path]
    /\ directory["bin/model"][1] = <<"sources", f>>

\* The compile plan and the executable hold the link inputs that f names.  The exception is the
\* code's: of a build that an edit overtook, either may hold the new ones.
AsNamed(f, directory) ==
    f \notin overtaken =>
        directory["bin/model"][2] = f[2] /\ directory["compile-plan.json"] = CompilePlan(f[2])

\* What makes a directory a whole build of fingerprint f.
Complete(f, directory) == Whole(f, directory) /\ AsNamed(f, directory)

\* No failure, kill or race of two builds publishes partial output: whatever is under
\* builds/<fingerprint> is whole, embeds that fingerprint, and is linked with what the fingerprint
\* names, unless the link inputs changed between the fingerprint and the link of a build of it.
\* In that case acsim-gfsim-lowering-v0.2.md:521-524 does not hold: the plan that Build.cpp:348
\* makes after the fingerprint is compared with nothing.
PublishedComplete == \A f \in DOMAIN builds : Complete(f, builds[f])

\* A reader that follows current.json at any moment finds a published build.
CurrentIsPublished == current # None => Published(current)

\* A build that returned success, published or cache hit, is byte for byte the one that the
\* process staged, whoever renamed first and whatever happened to the link inputs meanwhile.
SuccessIsFaithful ==
    \A b \in Builders : pc[b] = "done" =>
        /\ Published(fingerprint[b])
        /\ \A path \in DOMAIN artifacts[b] : builds[fingerprint[b]][path] = artifacts[b][path]

\* A published build is never changed or removed, and a process that does not get as far as
\* selecting its build leaves current.json as it was.
KeepsPublished ==
    /\ \A f \in DOMAIN builds : f \in DOMAIN builds' /\ builds'[f] = builds[f]
    /\ current' # current => \E b \in Builders : pc[b] = "select" /\ pc'[b] = "done"
PublishedForGood == [][KeepsPublished]_vars
=============================================================================
