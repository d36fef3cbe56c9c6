--------------------------- MODULE ToolchainProofs ---------------------------
(***************************************************************************)
(* Proofs about the programs around a model: publication of builds, for    *)
(* any number of compiler processes, requests, link inputs, attempts and   *)
(* edits of the link inputs; the compiler driver, for any requests; the    *)
(* lock file of the binding passes; and the run of a model.                *)
(***************************************************************************)
EXTENDS Toolchain, Integers, TLAPS

-----------------------------------------------------------------------------
(* What a build has done when it is about to take a step. *)

Files == {"src", "compile-plan.json", "bin/model"}

Steps ==
    Ended \cup {"plan", "stage", "write", "link", "query", "manifest", "publish", "rename",
                "select"}

\* Every recorded artifact is in the directory as it was recorded.
Holds(directory, recorded) ==
    \A file \in DOMAIN recorded :
        file \in DOMAIN directory /\ directory[file] = recorded[file]

\* The artifacts recorded so far.
ArtifactsStand(b) ==
    /\ pc[b] = "plan" => DOMAIN artifacts[b] = {}
    /\ pc[b] \in {"stage", "write"} => DOMAIN artifacts[b] = {"compile-plan.json"}
    /\ pc[b] \in {"link", "query"} =>
         DOMAIN artifacts[b] = {"src", "compile-plan.json"} /\ artifacts[b]["src"] = Sources(b)
    /\ pc[b] \in {"manifest", "publish", "rename", "select", "done"} =>
         DOMAIN artifacts[b] = Files /\ artifacts[b]["bin/model"][1] = Sources(b)

\* The private stage: nobody has touched it but its process.
StageStands(b) ==
    /\ pc[b] \in {"plan", "stage"} => ~HasStage(b)
    /\ pc[b] \in {"write", "link", "query", "manifest", "publish", "rename"} => HasStage(b)
    /\ pc[b] = "write" => DOMAIN StageOf(b) = {}
    /\ pc[b] = "link" => DOMAIN StageOf(b) = {"src", "compile-plan.json"}
    /\ pc[b] \in {"query", "manifest"} => DOMAIN StageOf(b) = Files
    /\ pc[b] \in {"link", "query", "manifest", "publish", "rename"} =>
         Holds(StageOf(b), artifacts[b])
    /\ pc[b] \in {"publish", "rename"} =>
         /\ DOMAIN StageOf(b) = Files \cup {"build-manifest.json"}
         /\ StageOf(b)["build-manifest.json"] = artifacts[b]

\* What is published under the fingerprint of a build that got that far.
ResultStands(b) ==
    pc[b] \in {"select", "done"} =>
        Published(fingerprint[b]) /\ Holds(builds[fingerprint[b]], artifacts[b])

BuilderStands(b) ==
    pc[b] \in Steps /\ ArtifactsStand(b) /\ StageStands(b) /\ ResultStands(b)

\* A stage belongs to a process and to a build that it has started.
StagesStarted ==
    /\ attempt \in [Builders -> Nat]
    /\ \A n \in DOMAIN stages : \E b \in Builders, k \in Nat : n = <<b, k>> /\ k <= attempt[b]

ProcessFunctions ==
    /\ pc = [b \in Builders |-> pc[b]]
    /\ fingerprint = [b \in Builders |-> fingerprint[b]]
    /\ artifacts = [b \in Builders |-> artifacts[b]]

\* Every published directory is whole and embeds its fingerprint.
PublishedWhole == \A f \in DOMAIN builds : Whole(f, builds[f])

PublishInv ==
    /\ ProcessFunctions /\ StagesStarted /\ PublishedWhole /\ CurrentIsPublished
    /\ \A b \in Builders : BuilderStands(b)

-----------------------------------------------------------------------------
(* Directories *)

(* An empty directory. *)
LEMMA EmptyFacts == DOMAIN Empty = {}
  BY DEF Empty

-----------------------------------------------------------------------------
(* Steps of one process, seen by the others *)

\* Where a build by b may leave traces: its own locals, its own stage, and a
\* directory of builds that was not there.
OnlyBy(b) ==
    /\ \A c \in Builders \ {b} :
         /\ pc'[c] = pc[c] /\ attempt'[c] = attempt[c] /\ fingerprint'[c] = fingerprint[c]
         /\ artifacts'[c] = artifacts[c]
    /\ \A c \in Builders \ {b} :
         /\ StageName(c) \in DOMAIN stages' <=> StageName(c) \in DOMAIN stages
         /\ StageName(c) \in DOMAIN stages => stages'[StageName(c)] = stages[StageName(c)]
    /\ \A f \in DOMAIN builds : f \in DOMAIN builds' /\ builds'[f] = builds[f]

(* A step of one process leaves the builds of the others where they stood. *)
LEMMA OthersStand ==
    ASSUME NEW b, OnlyBy(b), NEW c \in Builders \ {b}, BuilderStands(c)
    PROVE  BuilderStands(c)'
<1>1. /\ pc'[c] = pc[c] /\ attempt'[c] = attempt[c] /\ fingerprint'[c] = fingerprint[c]
      /\ artifacts'[c] = artifacts[c] /\ StageName(c)' = StageName(c) /\ Sources(c)' = Sources(c)
  BY DEF OnlyBy, StageName, Sources
<1>2. /\ HasStage(c)' <=> HasStage(c)
      /\ HasStage(c) => StageOf(c)' = StageOf(c)
  BY <1>1 DEF OnlyBy, HasStage, StageOf
<1>3. ArtifactsStand(c)'
  BY <1>1 DEF BuilderStands, ArtifactsStand
<1>4. StageStands(c)'
  BY <1>1, <1>2 DEF BuilderStands, StageStands, Holds
<1>5. ResultStands(c)'
  BY <1>1 DEF BuilderStands, ResultStands, OnlyBy, Published, Holds
<1> QED
  BY <1>1, <1>3, <1>4, <1>5 DEF BuilderStands

\* The shapes a step of a build can have, apart from its start.
StepOf(b, step) ==
    /\ pc' = [pc EXCEPT ![b] = step] /\ attempt' = attempt
    /\ \/ fingerprint' = fingerprint
       \/ fingerprint' = [fingerprint EXCEPT ![b] = None]
    /\ \/ artifacts' = artifacts
       \/ \E a : artifacts' = [artifacts EXCEPT ![b] = a]
    /\ \/ stages' = stages
       \/ stages' = Without(stages, StageName(b))
       \/ \E d : stages' = With(stages, StageName(b), d)
    /\ \/ builds' = builds
       \/ ~Published(fingerprint[b]) /\ \E d : builds' = With(builds, fingerprint[b], d)

(* Such a step is the business of its process alone. *)
LEMMA StepFrame ==
    ASSUME PublishInv, NEW b \in Builders, NEW step, StepOf(b, step)
    PROVE  /\ ProcessFunctions' /\ StagesStarted'
           /\ pc'[b] = step /\ OnlyBy(b)
           /\ \A c \in Builders \ {b} : BuilderStands(c)'
<1>1. ProcessFunctions'
  BY DEF PublishInv, ProcessFunctions, StepOf
<1>2. pc'[b] = step
  BY DEF PublishInv, ProcessFunctions, StepOf
<1>3. StagesStarted'
  <2>1. DOMAIN stages' \subseteq DOMAIN stages \cup {StageName(b)}
    BY DEF StepOf, With, Without
  <2>2. attempt' = attempt /\ attempt \in [Builders -> Nat]
    BY DEF StepOf, PublishInv, StagesStarted
  <2>3. \E c \in Builders, k \in Nat : StageName(b) = <<c, k>> /\ k <= attempt[c]
    <3>1. attempt[b] \in Nat /\ attempt[b] <= attempt[b]
      BY <2>2
    <3> QED
      BY <3>1 DEF StageName
  <2> QED
    BY <2>1, <2>2, <2>3 DEF PublishInv, StagesStarted
<1>4. OnlyBy(b)
  <2>1. \A c \in Builders \ {b} :
          /\ pc'[c] = pc[c] /\ attempt'[c] = attempt[c] /\ fingerprint'[c] = fingerprint[c]
          /\ artifacts'[c] = artifacts[c]
    BY DEF PublishInv, ProcessFunctions, StepOf
  <2>2. ASSUME NEW c \in Builders \ {b}
        PROVE  /\ StageName(c) \in DOMAIN stages' <=> StageName(c) \in DOMAIN stages
               /\ StageName(c) \in DOMAIN stages => stages'[StageName(c)] = stages[StageName(c)]
    <3>1. StageName(c) # StageName(b)
      BY DEF StageName
    <3> QED
      BY <3>1 DEF StepOf, With, Without
  <2>3. ASSUME NEW f \in DOMAIN builds
        PROVE  f \in DOMAIN builds' /\ builds'[f] = builds[f]
    BY DEF StepOf, Published, With, Without
  <2> QED
    BY <2>1, <2>2, <2>3 DEF OnlyBy
<1>5. \A c \in Builders \ {b} : BuilderStands(c)'
  BY <1>4, OthersStand DEF PublishInv
<1> QED
  BY <1>1, <1>2, <1>3, <1>4, <1>5

(* What remains to be shown of a step that leaves builds and current.json. *)
LEMMA PrivateStep ==
    ASSUME PublishInv, NEW b \in Builders, NEW step, StepOf(b, step),
           builds' = builds, current' = current, BuilderStands(b)'
    PROVE  PublishInv'
<1>1. PublishedWhole' /\ CurrentIsPublished'
  BY DEF PublishInv, PublishedWhole, Whole, CurrentIsPublished, Published
<1> QED
  BY <1>1, StepFrame DEF PublishInv

(* The compile plan made after retargetBundle. *)
LEMMA PlanInv ==
    ASSUME PublishInv, NEW b \in Builders, Plan(b)
    PROVE  PublishInv'
<1>1. StepOf(b, "stage") /\ builds' = builds /\ current' = current /\ pc[b] = "plan"
  BY DEF Plan, StepOf, Goto, At
<1>2. pc'[b] = "stage" /\ UNCHANGED <<stages, attempt, fingerprint>>
  BY <1>1, StepFrame DEF Plan
<1>3. BuilderStands(b)
  BY DEF PublishInv
<1>4. ArtifactsStand(b)'
  <2>1. artifacts'[b] = With(artifacts[b], "compile-plan.json", CompilePlan(linkInput))
    BY DEF Plan, PublishInv, ProcessFunctions
  <2>2. DOMAIN artifacts'[b] = {"compile-plan.json"}
    BY <1>1, <1>3, <2>1 DEF BuilderStands, ArtifactsStand, With, Without
  <2> QED
    BY <1>2, <2>2 DEF ArtifactsStand
<1>5. StageStands(b)'
  BY <1>1, <1>2, <1>3 DEF StageStands, BuilderStands, HasStage, StageName
<1>6. BuilderStands(b)'
  BY <1>2, <1>4, <1>5 DEF BuilderStands, ResultStands, Steps
<1> QED
  BY <1>1, <1>6, PrivateStep

(* createUniqueDirectory. *)
LEMMA CreateStageInv ==
    ASSUME PublishInv, NEW b \in Builders, CreateStage(b)
    PROVE  PublishInv'
<1>1. StepOf(b, "write") /\ builds' = builds /\ current' = current /\ pc[b] = "stage"
  BY DEF CreateStage, StepOf, Goto, At
<1>2. pc'[b] = "write" /\ UNCHANGED <<artifacts, attempt, fingerprint>>
  BY <1>1, StepFrame DEF CreateStage
<1>3. BuilderStands(b)
  BY DEF PublishInv
<1>4. ArtifactsStand(b)'
  BY <1>1, <1>2, <1>3 DEF BuilderStands, ArtifactsStand
<1>5. StageStands(b)'
  <2>1. stages' = With(stages, StageName(b), Empty) /\ StageName(b)' = StageName(b)
    BY <1>2 DEF CreateStage, StageName
  <2>2. HasStage(b)' /\ DOMAIN StageOf(b)' = {}
    BY <2>1, EmptyFacts DEF HasStage, StageOf, With, Without
  <2> QED
    BY <1>2, <2>2 DEF StageStands
<1>6. BuilderStands(b)'
  BY <1>2, <1>4, <1>5 DEF BuilderStands, ResultStands, Steps
<1> QED
  BY <1>1, <1>6, PrivateStep

(* addArtifact and writeFileExclusive for the sources and the plan. *)
LEMMA WriteSourcesInv ==
    ASSUME PublishInv, NEW b \in Builders, WriteSources(b)
    PROVE  PublishInv'
<1> DEFINE written == With(artifacts[b], "src", Sources(b))
           merged == [p \in DOMAIN written \cup DOMAIN Staged(b) |->
                        IF p \in DOMAIN written THEN written[p] ELSE Staged(b)[p]]
<1>1. pc[b] = "write" /\ stages' = With(stages, StageName(b), merged)
      /\ artifacts' = [artifacts EXCEPT ![b] = written] /\ pc' = [pc EXCEPT ![b] = "link"]
      /\ UNCHANGED <<attempt, fingerprint, builds, current>>
  BY DEF WriteSources, At, Goto
<1>2. StepOf(b, "link")
  BY <1>1 DEF StepOf
<1>3. pc'[b] = "link" /\ BuilderStands(b) /\ artifacts'[b] = written
  BY <1>1, <1>2, StepFrame DEF PublishInv, ProcessFunctions
<1>4. StageName(b)' = StageName(b) /\ Sources(b)' = Sources(b)
  BY <1>1 DEF StageName, Sources
<1>5. DOMAIN written = {"src", "compile-plan.json"} /\ written["src"] = Sources(b)
  BY <1>1, <1>3 DEF BuilderStands, ArtifactsStand, With
<1>6. DOMAIN merged = {"src", "compile-plan.json"} /\ Holds(merged, written)
  <2>1. DOMAIN Staged(b) = {}
    BY <1>1, <1>3 DEF BuilderStands, StageStands, Staged
  <2> HIDE DEF written
  <2> QED
    BY <1>5, <2>1 DEF Holds
<1> HIDE DEF written, merged
<1>7. HasStage(b)' /\ StageOf(b)' = merged
  BY <1>1, <1>4 DEF HasStage, StageOf, With
<1>8. ArtifactsStand(b)'
  BY <1>3, <1>4, <1>5 DEF ArtifactsStand
<1>9. StageStands(b)'
  BY <1>3, <1>6, <1>7 DEF StageStands
<1>10. BuilderStands(b)'
  BY <1>3, <1>8, <1>9 DEF BuilderStands, ResultStands, Steps
<1> QED
  BY <1>1, <1>2, <1>10, PrivateStep

(* The compile and link commands. *)
LEMMA LinkInv ==
    ASSUME PublishInv, NEW b \in Builders, Link(b)
    PROVE  PublishInv'
<1> DEFINE linked == With(StageOf(b), "bin/model", <<StageOf(b)["src"], linkInput>>)
<1>1. pc[b] = "link" /\ stages' = With(stages, StageName(b), linked)
      /\ pc' = [pc EXCEPT ![b] = "query"]
      /\ UNCHANGED <<attempt, fingerprint, artifacts, builds, current>>
  BY DEF Link, At, Goto
<1>2. StepOf(b, "query")
  BY <1>1 DEF StepOf
<1>3. pc'[b] = "query" /\ BuilderStands(b)
  BY <1>1, <1>2, StepFrame DEF PublishInv
<1>4. StageName(b)' = StageName(b) /\ Sources(b)' = Sources(b)
  BY <1>1 DEF StageName, Sources
<1>5. DOMAIN linked = Files /\ Holds(linked, artifacts[b])
  BY <1>1, <1>3 DEF BuilderStands, ArtifactsStand, StageStands, Holds, Files, With
<1> HIDE DEF linked
<1>6. HasStage(b)' /\ StageOf(b)' = linked
  BY <1>1, <1>4 DEF HasStage, StageOf, With
<1>7. ArtifactsStand(b)'
  BY <1>1, <1>3, <1>4 DEF BuilderStands, ArtifactsStand
<1>8. StageStands(b)'
  BY <1>1, <1>3, <1>5, <1>6 DEF StageStands
<1>9. BuilderStands(b)'
  BY <1>3, <1>7, <1>8 DEF BuilderStands, ResultStands, Steps
<1> QED
  BY <1>1, <1>2, <1>9, PrivateStep

(* queryFingerprint: the executable embeds the planned fingerprint. *)
LEMMA QueryInv ==
    ASSUME PublishInv, NEW b \in Builders, Query(b)
    PROVE  PublishInv'
<1> DEFINE recorded == With(artifacts[b], "bin/model", StageOf(b)["bin/model"])
<1>1. pc[b] = "query" /\ artifacts' = [artifacts EXCEPT ![b] = recorded]
      /\ pc' = [pc EXCEPT ![b] = "manifest"] /\ StageOf(b)["bin/model"][1] = Sources(b)
      /\ UNCHANGED <<attempt, fingerprint, stages, builds, current>>
  BY DEF Query, At, Goto
<1>2. StepOf(b, "manifest")
  BY <1>1 DEF StepOf
<1>3. pc'[b] = "manifest" /\ BuilderStands(b) /\ artifacts'[b] = recorded
  BY <1>1, <1>2, StepFrame DEF PublishInv, ProcessFunctions
<1>4. StageName(b)' = StageName(b) /\ Sources(b)' = Sources(b)
  BY <1>1 DEF StageName, Sources
<1>5. /\ DOMAIN recorded = Files /\ recorded["bin/model"][1] = Sources(b)
      /\ Holds(StageOf(b), recorded) /\ DOMAIN StageOf(b) = Files
  BY <1>1, <1>3 DEF BuilderStands, ArtifactsStand, StageStands, Holds, Files, With
<1> HIDE DEF recorded
<1>6. (HasStage(b)' <=> HasStage(b)) /\ StageOf(b)' = StageOf(b)
  BY <1>1, <1>4 DEF HasStage, StageOf
<1>7. ArtifactsStand(b)'
  BY <1>3, <1>4, <1>5 DEF ArtifactsStand
<1>8. StageStands(b)'
  BY <1>1, <1>3, <1>5, <1>6 DEF BuilderStands, StageStands
<1>9. BuilderStands(b)'
  BY <1>3, <1>7, <1>8 DEF BuilderStands, ResultStands, Steps
<1> QED
  BY <1>1, <1>2, <1>9, PrivateStep

(* makeManifest. *)
LEMMA WriteManifestInv ==
    ASSUME PublishInv, NEW b \in Builders, WriteManifest(b)
    PROVE  PublishInv'
<1> DEFINE whole == With(Staged(b), "build-manifest.json", Manifest(b))
<1>1. pc[b] = "manifest" /\ stages' = With(stages, StageName(b), whole)
      /\ pc' = [pc EXCEPT ![b] = "publish"]
      /\ UNCHANGED <<attempt, fingerprint, artifacts, builds, current>>
  BY DEF WriteManifest, At, Goto
<1>2. StepOf(b, "publish")
  BY <1>1 DEF StepOf
<1>3. pc'[b] = "publish" /\ BuilderStands(b)
  BY <1>1, <1>2, StepFrame DEF PublishInv
<1>4. StageName(b)' = StageName(b) /\ Sources(b)' = Sources(b)
  BY <1>1 DEF StageName, Sources
<1>5. Staged(b) = StageOf(b)
  BY <1>1, <1>3 DEF BuilderStands, StageStands, Staged
<1>6. /\ DOMAIN whole = Files \cup {"build-manifest.json"} /\ Holds(whole, artifacts[b])
      /\ whole["build-manifest.json"] = artifacts[b]
  BY <1>1, <1>3, <1>5
     DEF BuilderStands, ArtifactsStand, StageStands, Holds, Files, Manifest, With
<1> HIDE DEF whole
<1>7. HasStage(b)' /\ StageOf(b)' = whole
  BY <1>1, <1>4 DEF HasStage, StageOf, With
<1>8. ArtifactsStand(b)'
  BY <1>1, <1>3, <1>4 DEF BuilderStands, ArtifactsStand
<1>9. StageStands(b)'
  BY <1>1, <1>3, <1>6, <1>7 DEF StageStands
<1>10. BuilderStands(b)'
  BY <1>3, <1>8, <1>9 DEF BuilderStands, ResultStands, Steps
<1> QED
  BY <1>1, <1>2, <1>10, PrivateStep

(* publishImmutableStage up to its rename: nothing there, or an exact hit. *)
LEMMA CheckDestinationInv ==
    ASSUME PublishInv, NEW b \in Builders, CheckDestination(b)
    PROVE  PublishInv'
<1>1. pc[b] = "publish" /\ UNCHANGED <<attempt, fingerprint, artifacts, builds, current>>
  BY DEF CheckDestination, At
<1>2. BuilderStands(b) /\ StageName(b)' = StageName(b) /\ Sources(b)' = Sources(b)
  BY <1>1 DEF PublishInv, StageName, Sources
<1>3. CASE ~Published(fingerprint[b])
  <2>1. stages' = stages /\ pc' = [pc EXCEPT ![b] = "rename"]
    BY <1>3 DEF CheckDestination, Goto
  <2>2. StepOf(b, "rename")
    BY <1>1, <2>1 DEF StepOf
  <2>3. pc'[b] = "rename"
    BY <2>2, StepFrame
  <2>4. (HasStage(b)' <=> HasStage(b)) /\ StageOf(b)' = StageOf(b)
    BY <1>2, <2>1 DEF HasStage, StageOf
  <2>5. ArtifactsStand(b)' /\ StageStands(b)'
    BY <1>1, <1>2, <2>3, <2>4 DEF BuilderStands, ArtifactsStand, StageStands, Holds
  <2>6. BuilderStands(b)'
    BY <2>3, <2>5 DEF BuilderStands, ResultStands, Steps
  <2> QED
    BY <1>1, <2>2, <2>6, PrivateStep
<1>4. CASE Published(fingerprint[b])
  <2>1. /\ SameBuild(b, builds[fingerprint[b]]) /\ stages' = Without(stages, StageName(b))
        /\ pc' = [pc EXCEPT ![b] = "select"]
    BY <1>4 DEF CheckDestination, Goto
  <2>2. StepOf(b, "select")
    BY <1>1, <2>1 DEF StepOf
  <2>3. pc'[b] = "select"
    BY <2>2, StepFrame
  <2>4. ArtifactsStand(b)'
    BY <1>1, <1>2, <2>3 DEF BuilderStands, ArtifactsStand
  <2>5. ResultStands(b)'
    BY <1>1, <1>4, <2>1 DEF ResultStands, SameBuild, Holds, Published
  <2>6. BuilderStands(b)'
    BY <2>3, <2>4, <2>5 DEF BuilderStands, StageStands, Steps
  <2> QED
    BY <1>1, <2>2, <2>6, PrivateStep
<1> QED
  BY <1>3, <1>4

(* The rename publishes a whole build, under a name nobody had. *)
LEMMA RenameStageInv ==
    ASSUME PublishInv, NEW b \in Builders, RenameStage(b)
    PROVE  PublishInv'
<1> DEFINE f == fingerprint[b]
<1>1. /\ pc[b] = "rename" /\ HasStage(b) /\ ~Published(f)
      /\ builds' = With(builds, f, StageOf(b)) /\ stages' = Without(stages, StageName(b))
      /\ pc' = [pc EXCEPT ![b] = "select"]
      /\ UNCHANGED <<attempt, fingerprint, artifacts, current>>
  BY DEF RenameStage, At, Goto, CanRename
<1>2. StepOf(b, "select")
  BY <1>1 DEF StepOf
<1>3. pc'[b] = "select" /\ BuilderStands(b) /\ Sources(b)' = Sources(b)
  BY <1>1, <1>2, StepFrame DEF PublishInv, Sources
<1>4. builds'[f] = StageOf(b) /\ f \in DOMAIN builds'
  BY <1>1 DEF With
<1>5. \A g \in DOMAIN builds : g \in DOMAIN builds' /\ builds'[g] = builds[g]
  BY <1>1 DEF With, Published
<1>6. DOMAIN builds' = DOMAIN builds \cup {f}
  BY <1>1 DEF With
<1>7. Whole(f, StageOf(b))
  BY <1>1, <1>3 DEF BuilderStands, ArtifactsStand, StageStands, Holds, Files, Whole, Sources
<1>8. PublishedWhole'
  <2>1. ASSUME NEW g \in DOMAIN builds' PROVE Whole(g, builds'[g])
    <3>1. CASE g = f
      BY <1>4, <1>7, <3>1
    <3>2. CASE g # f
      BY <1>5, <1>6, <3>2 DEF PublishInv, PublishedWhole
    <3> QED
      BY <3>1, <3>2
  <2> QED
    BY <2>1 DEF PublishedWhole, Whole
<1>9. CurrentIsPublished'
  BY <1>1, <1>6 DEF PublishInv, CurrentIsPublished, Published
<1>10. ArtifactsStand(b)'
  BY <1>1, <1>3 DEF BuilderStands, ArtifactsStand
<1>11. ResultStands(b)'
  BY <1>1, <1>3, <1>4 DEF BuilderStands, StageStands, ResultStands, Holds, Published
<1>12. BuilderStands(b)'
  BY <1>3, <1>10, <1>11 DEF BuilderStands, StageStands, Steps
<1> QED
  BY <1>2, <1>8, <1>9, <1>12, StepFrame DEF PublishInv

(* writeCurrentPointer names a build that is published. *)
LEMMA SelectCurrentInv ==
    ASSUME PublishInv, NEW b \in Builders, SelectCurrent(b)
    PROVE  PublishInv'
<1>1. /\ pc[b] = "select" /\ pc' = [pc EXCEPT ![b] = "done"] /\ current' = fingerprint[b]
      /\ UNCHANGED <<attempt, fingerprint, artifacts, stages, builds>>
  BY DEF SelectCurrent, At, Goto
<1>2. StepOf(b, "done")
  BY <1>1 DEF StepOf
<1>3. pc'[b] = "done" /\ BuilderStands(b) /\ Sources(b)' = Sources(b)
  BY <1>1, <1>2, StepFrame DEF PublishInv, Sources
<1>4. CurrentIsPublished'
  BY <1>1, <1>3 DEF BuilderStands, ResultStands, CurrentIsPublished, Published
<1>5. PublishedWhole'
  BY <1>1 DEF PublishInv, PublishedWhole, Whole
<1>6. ArtifactsStand(b)' /\ ResultStands(b)'
  BY <1>1, <1>3 DEF BuilderStands, ArtifactsStand, ResultStands, Published, Holds
<1>7. BuilderStands(b)'
  BY <1>3, <1>6 DEF BuilderStands, StageStands, Steps, Ended
<1> QED
  BY <1>2, <1>4, <1>5, <1>7, StepFrame DEF PublishInv

(* A build that fails removes its stage; one that is killed leaves it. *)
LEMMA AbortInv ==
    ASSUME PublishInv, NEW b \in Builders, Fail(b) \/ Kill(b)
    PROVE  PublishInv'
<1>1. StepOf(b, "failed") /\ builds' = builds /\ current' = current
  BY DEF Fail, Kill, Forget, Goto, StepOf, Cleaned
<1>2. pc'[b] = "failed"
  BY <1>1, StepFrame
<1>3. BuilderStands(b)'
  BY <1>2 DEF BuilderStands, ArtifactsStand, StageStands, ResultStands, Steps, Ended
<1> QED
  BY <1>1, <1>3, PrivateStep

(* The name of the next stage of a process is no directory yet. *)
LEMMA NextStageFresh ==
    ASSUME StagesStarted, NEW b \in Builders, attempt' = [attempt EXCEPT ![b] = @ + 1],
           stages' = stages
    PROVE  StagesStarted' /\ <<b, attempt'[b]>> \notin DOMAIN stages
<1>1. attempt \in [Builders -> Nat] /\ attempt'[b] = attempt[b] + 1
  BY DEF StagesStarted
<1>2. attempt' \in [Builders -> Nat]
  BY <1>1
<1>3. ASSUME NEW n \in DOMAIN stages
      PROVE  /\ \E c \in Builders, k \in Nat : n = <<c, k>> /\ k <= attempt'[c]
             /\ n # <<b, attempt'[b]>>
  <2>1. PICK c \in Builders, k \in Nat : n = <<c, k>> /\ k <= attempt[c]
    BY DEF StagesStarted
  <2>2. attempt[c] \in Nat /\ attempt'[c] = IF c = b THEN attempt[c] + 1 ELSE attempt[c]
    BY <1>1
  <2>3. k <= attempt'[c]
    BY <2>1, <2>2
  <2>4. c = b => k # attempt'[b]
    BY <2>1, <2>2
  <2> QED
    BY <2>1, <2>3, <2>4
<1> QED
  BY <1>2, <1>3 DEF StagesStarted

(* A new build starts without a stage, whatever its predecessors left. *)
LEMMA StartInv ==
    ASSUME PublishInv, NEW b \in Builders, Start(b)
    PROVE  PublishInv'
<1>1. /\ attempt' = [attempt EXCEPT ![b] = @ + 1] /\ artifacts' = [artifacts EXCEPT ![b] = Empty]
      /\ pc' = [pc EXCEPT ![b] = "plan"] /\ UNCHANGED <<stages, builds, current>>
  BY DEF Start, Goto
<1>2. PICK f : fingerprint' = [fingerprint EXCEPT ![b] = f]
  BY DEF Start
<1>3. StagesStarted' /\ <<b, attempt'[b]>> \notin DOMAIN stages
  BY <1>1, NextStageFresh DEF PublishInv
<1>4. ProcessFunctions' /\ pc'[b] = "plan" /\ artifacts'[b] = Empty
  BY <1>1, <1>2 DEF PublishInv, ProcessFunctions
<1>5. OnlyBy(b)
  BY <1>1, <1>2 DEF PublishInv, ProcessFunctions, StagesStarted, OnlyBy
<1>6. \A c \in Builders \ {b} : BuilderStands(c)'
  BY <1>5, OthersStand DEF PublishInv
<1>7. ~HasStage(b)'
  BY <1>1, <1>3 DEF HasStage, StageName
<1>8. BuilderStands(b)'
  BY <1>4, <1>7, EmptyFacts DEF BuilderStands, ArtifactsStand, StageStands, ResultStands, Steps
<1>9. PublishedWhole' /\ CurrentIsPublished'
  BY <1>1 DEF PublishInv, PublishedWhole, Whole, CurrentIsPublished, Published
<1> QED
  BY <1>3, <1>4, <1>6, <1>8, <1>9 DEF PublishInv

(* A change of the link inputs, or a step of another program. *)
LEMMA IdleInv ==
    ASSUME PublishInv, UNCHANGED <<pc, attempt, fingerprint, artifacts, stages, builds, current>>
    PROVE  PublishInv'
<1>1. ProcessFunctions' /\ StagesStarted' /\ PublishedWhole' /\ CurrentIsPublished'
  BY DEF PublishInv, ProcessFunctions, StagesStarted, PublishedWhole, Whole,
         CurrentIsPublished, Published
<1>2. ASSUME NEW b \in Builders PROVE BuilderStands(b)'
  <2>1. BuilderStands(b)
    BY DEF PublishInv
  <2>2. ArtifactsStand(b)' /\ ResultStands(b)'
    BY <2>1 DEF BuilderStands, ArtifactsStand, ResultStands, Sources, Published, Holds
  <2>3. StageStands(b)'
    BY <2>1 DEF BuilderStands, StageStands, HasStage, StageOf, StageName, Holds
  <2> QED
    BY <2>1, <2>2, <2>3 DEF BuilderStands
<1> QED
  BY <1>1, <1>2 DEF PublishInv

(* Every step of Publish keeps the invariant. *)
LEMMA PublishNextInv ==
    ASSUME PublishInv, Next
    PROVE  PublishInv'
<1>1. CASE EditLinkInput
  BY <1>1, IdleInv DEF EditLinkInput, processVars
<1>2. ASSUME NEW b \in Builders, Start(b) \/ Fail(b) \/ Kill(b) PROVE PublishInv'
  BY <1>2, StartInv, AbortInv
<1>3. ASSUME NEW b \in Builders, Step(b) PROVE PublishInv'
  BY <1>3, PlanInv, CreateStageInv, WriteSourcesInv, LinkInv, QueryInv, WriteManifestInv,
     CheckDestinationInv, RenameStageInv, SelectCurrentInv DEF Step
<1> QED
  BY <1>1, <1>2, <1>3 DEF Next

(* An output root before anything is built. *)
LEMMA PublishInitInv ==
    ASSUME Init
    PROVE  PublishInv
<1>1. ProcessFunctions
  BY DEF Init, ProcessFunctions
<1>2. StagesStarted /\ PublishedWhole /\ CurrentIsPublished
  BY EmptyFacts DEF Init, StagesStarted, PublishedWhole, CurrentIsPublished
<1>3. \A b \in Builders : BuilderStands(b)
  BY DEF Init, BuilderStands, ArtifactsStand, StageStands, ResultStands, Steps, Ended
<1> QED
  BY <1>1, <1>2, <1>3 DEF PublishInv

(* A step of Publish never takes back or changes what is published. *)
LEMMA PublishStepKeeps ==
    ASSUME PublishInv, Next
    PROVE  KeepsPublished
<1>1. ASSUME builds' = builds, current' = current PROVE KeepsPublished
  BY <1>1 DEF KeepsPublished
<1>2. CASE EditLinkInput
  BY <1>1, <1>2 DEF EditLinkInput
<1>3. ASSUME NEW b \in Builders, Start(b) \/ Fail(b) \/ Kill(b) PROVE KeepsPublished
  BY <1>1, <1>3 DEF Start, Fail, Kill
<1>4. ASSUME NEW b \in Builders, Step(b) PROVE KeepsPublished
  <2>1. CASE RenameStage(b)
    <3>1. ~Published(fingerprint[b]) /\ builds' = With(builds, fingerprint[b], StageOf(b))
          /\ current' = current
      BY <2>1 DEF RenameStage, CanRename
    <3> QED
      BY <3>1 DEF KeepsPublished, Published, With
  <2>2. CASE SelectCurrent(b)
    <3>1. builds' = builds /\ pc[b] = "select" /\ pc'[b] = "done"
      BY <2>2 DEF SelectCurrent, At, Goto, PublishInv, ProcessFunctions
    <3> QED
      BY <3>1 DEF KeepsPublished
  <2>3. CASE Plan(b) \/ CreateStage(b) \/ WriteSources(b) \/ Link(b) \/ Query(b)
             \/ WriteManifest(b) \/ CheckDestination(b)
    BY <1>1, <2>3
       DEF Plan, CreateStage, WriteSources, Link, Query, WriteManifest, CheckDestination
  <2> QED
    BY <1>4, <2>1, <2>2, <2>3 DEF Step
<1> QED
  BY <1>2, <1>3, <1>4 DEF Next

-----------------------------------------------------------------------------
(* What a build has read of the link inputs.  As long as no edit overtakes *)
(* it, that is what its fingerprint names.                                 *)

NamedStands(b) ==
    fingerprint[b] \notin overtaken =>
        /\ pc[b] \in {"plan", "stage", "write", "link"} => linkInput = fingerprint[b][2]
        /\ pc[b] \in {"stage", "write", "link", "query", "manifest", "publish", "rename"} =>
             artifacts[b]["compile-plan.json"] = fingerprint[b][2]
        /\ pc[b] \in {"query", "manifest", "publish", "rename"} =>
             StageOf(b)["bin/model"][2] = fingerprint[b][2]

LinkedInv ==
    /\ \A b \in Builders : NamedStands(b)
    /\ \A f \in DOMAIN builds : AsNamed(f, builds[f])

(* What remains to be shown of a step of one process: its own build. *)
LEMMA LinkedFrame ==
    ASSUME PublishInv, LinkedInv, NEW b \in Builders, OnlyBy(b),
           UNCHANGED <<linkInput, overtaken>>, builds' = builds, NamedStands(b)'
    PROVE  LinkedInv'
<1>1. ASSUME NEW c \in Builders \ {b} PROVE NamedStands(c)'
  <2>1. BuilderStands(c) /\ NamedStands(c)
    BY DEF PublishInv, LinkedInv
  <2>2. /\ pc'[c] = pc[c] /\ fingerprint'[c] = fingerprint[c] /\ artifacts'[c] = artifacts[c]
        /\ StageName(c)' = StageName(c)
    BY DEF OnlyBy, StageName
  <2>3. HasStage(c) => StageOf(c)' = StageOf(c)
    BY <2>2 DEF OnlyBy, HasStage, StageOf
  <2> QED
    BY <2>1, <2>2, <2>3 DEF NamedStands, BuilderStands, StageStands
<1>2. \A f \in DOMAIN builds' : AsNamed(f, builds[f])'
  BY DEF LinkedInv, AsNamed
<1> QED
  BY <1>1, <1>2 DEF LinkedInv

(* A step of a build reads the link inputs, or carries on what it has read. *)
LEMMA StepLinked ==
    ASSUME PublishInv, LinkedInv, NEW b \in Builders, Step(b)
    PROVE  LinkedInv'
<1>1. BuilderStands(b) /\ NamedStands(b) /\ ProcessFunctions
  BY DEF PublishInv, LinkedInv
<1>2. CASE Plan(b)
  <2>1. StepOf(b, "stage") /\ pc[b] = "plan" /\ UNCHANGED <<fingerprint, linkInput, builds, overtaken>>
    BY <1>2 DEF Plan, StepOf, Goto, At
  <2>2. artifacts'[b]["compile-plan.json"] = linkInput
    BY <1>1, <1>2 DEF Plan, ProcessFunctions, With, CompilePlan
  <2>3. NamedStands(b)'
    BY <1>1, <2>1, <2>2, StepFrame DEF NamedStands
  <2> QED
    BY <2>1, <2>3, StepFrame, LinkedFrame
<1>3. CASE CreateStage(b)
  <2>1. StepOf(b, "write") /\ pc[b] = "stage"
        /\ UNCHANGED <<fingerprint, artifacts, linkInput, builds, overtaken>>
    BY <1>3 DEF CreateStage, StepOf, Goto, At
  <2>2. NamedStands(b)'
    BY <1>1, <2>1, StepFrame DEF NamedStands
  <2> QED
    BY <2>1, <2>2, StepFrame, LinkedFrame
<1>4. CASE WriteSources(b)
  <2>1. StepOf(b, "link") /\ pc[b] = "write" /\ UNCHANGED <<fingerprint, linkInput, builds, overtaken>>
    BY <1>4 DEF WriteSources, StepOf, Goto, At
  <2>2. artifacts'[b]["compile-plan.json"] = artifacts[b]["compile-plan.json"]
    <3>1. artifacts'[b] = With(artifacts[b], "src", Sources(b)) /\ "compile-plan.json" \in DOMAIN artifacts[b]
      BY <1>1, <1>4, <2>1 DEF WriteSources, ProcessFunctions, BuilderStands, ArtifactsStand
    <3> QED
      BY <3>1 DEF With
  <2>3. NamedStands(b)'
    BY <1>1, <2>1, <2>2, StepFrame DEF NamedStands
  <2> QED
    BY <2>1, <2>3, StepFrame, LinkedFrame
<1>5. CASE Link(b)
  <2>1. StepOf(b, "query") /\ pc[b] = "link" /\ attempt' = attempt
        /\ UNCHANGED <<fingerprint, artifacts, linkInput, builds, overtaken>>
    BY <1>5 DEF Link, StepOf, Goto, At
  <2>2. StageOf(b)'["bin/model"] = <<StageOf(b)["src"], linkInput>>
    BY <1>5, <2>1 DEF Link, StageOf, StageName, With
  <2>3. StageOf(b)'["bin/model"][2] = linkInput
    BY <2>2
  <2>4. NamedStands(b)'
    BY <1>1, <2>1, <2>3, StepFrame DEF NamedStands
  <2> QED
    BY <2>1, <2>4, StepFrame, LinkedFrame
<1>6. CASE Query(b)
  <2>1. StepOf(b, "manifest") /\ pc[b] = "query"
        /\ UNCHANGED <<attempt, fingerprint, stages, linkInput, builds, overtaken>>
    BY <1>6 DEF Query, StepOf, Goto, At
  <2>2. artifacts'[b]["compile-plan.json"] = artifacts[b]["compile-plan.json"]
    <3>1. artifacts'[b] = With(artifacts[b], "bin/model", StageOf(b)["bin/model"])
          /\ "compile-plan.json" \in DOMAIN artifacts[b]
      BY <1>1, <1>6, <2>1 DEF Query, ProcessFunctions, BuilderStands, ArtifactsStand
    <3> QED
      BY <3>1 DEF With
  <2>3. StageOf(b)' = StageOf(b)
    BY <2>1 DEF StageOf, StageName
  <2>4. NamedStands(b)'
    BY <1>1, <2>1, <2>2, <2>3, StepFrame DEF NamedStands
  <2> QED
    BY <2>1, <2>4, StepFrame, LinkedFrame
<1>7. CASE WriteManifest(b)
  <2>1. StepOf(b, "publish") /\ pc[b] = "manifest"
        /\ UNCHANGED <<attempt, fingerprint, artifacts, linkInput, builds, overtaken>>
    BY <1>7 DEF WriteManifest, StepOf, Goto, At
  <2>2. StageOf(b)'["bin/model"] = StageOf(b)["bin/model"]
    <3>1. Staged(b) = StageOf(b) /\ "bin/model" \in DOMAIN StageOf(b)
      BY <1>1, <2>1 DEF BuilderStands, StageStands, Staged, Files
    <3>2. StageOf(b)' = With(StageOf(b), "build-manifest.json", Manifest(b))
      BY <1>7, <2>1, <3>1 DEF WriteManifest, StageOf, StageName, With
    <3> QED
      BY <3>1, <3>2 DEF With
  <2>3. NamedStands(b)'
    BY <1>1, <2>1, <2>2, StepFrame DEF NamedStands
  <2> QED
    BY <2>1, <2>3, StepFrame, LinkedFrame
<1>8. CASE CheckDestination(b)
  <2>1. pc[b] = "publish" /\ UNCHANGED <<attempt, fingerprint, artifacts, linkInput, builds, overtaken>>
    BY <1>8 DEF CheckDestination, At
  <2>2. CASE ~Published(fingerprint[b])
    <3>1. StepOf(b, "rename") /\ stages' = stages
      BY <1>8, <2>1, <2>2 DEF CheckDestination, Goto, StepOf
    <3>2. StageOf(b)' = StageOf(b)
      BY <2>1, <3>1 DEF StageOf, StageName
    <3>3. NamedStands(b)'
      BY <1>1, <2>1, <3>1, <3>2, StepFrame DEF NamedStands
    <3> QED
      BY <2>1, <3>1, <3>3, StepFrame, LinkedFrame
  <2>3. CASE Published(fingerprint[b])
    <3>1. StepOf(b, "select")
      BY <1>8, <2>1, <2>3 DEF CheckDestination, Goto, StepOf
    <3>2. NamedStands(b)'
      BY <3>1, StepFrame DEF NamedStands
    <3> QED
      BY <2>1, <3>1, <3>2, StepFrame, LinkedFrame
  <2> QED
    BY <2>2, <2>3
<1>9. CASE RenameStage(b)
  <2> DEFINE f == fingerprint[b]
  <2>1. /\ StepOf(b, "select") /\ pc[b] = "rename" /\ ~Published(f)
        /\ builds' = With(builds, f, StageOf(b))
        /\ UNCHANGED <<fingerprint, linkInput, overtaken>>
    BY <1>9 DEF RenameStage, CanRename, StepOf, Goto, At
  <2>2. AsNamed(f, StageOf(b))
    <3>1. "compile-plan.json" \in DOMAIN artifacts[b] /\ Holds(StageOf(b), artifacts[b])
      BY <1>1, <2>1 DEF BuilderStands, ArtifactsStand, StageStands, Files
    <3>2. StageOf(b)["compile-plan.json"] = artifacts[b]["compile-plan.json"]
      BY <3>1 DEF Holds
    <3> QED
      BY <1>1, <2>1, <3>2 DEF NamedStands, AsNamed, CompilePlan
  <2>3. ASSUME NEW g \in DOMAIN builds' PROVE AsNamed(g, builds[g])'
    <3>1. AsNamed(g, builds'[g])
      BY <2>1, <2>2 DEF LinkedInv, With
    <3> QED
      BY <2>1, <3>1 DEF AsNamed
  <2>4. pc'[b] = "select" /\ OnlyBy(b)
    BY <2>1, StepFrame
  <2>5. ASSUME NEW c \in Builders PROVE NamedStands(c)'
    <3>1. CASE c = b
      BY <2>4, <3>1 DEF NamedStands
    <3>2. CASE c # b
      <4>1. BuilderStands(c) /\ NamedStands(c)
        BY DEF PublishInv, LinkedInv
      <4>2. /\ pc'[c] = pc[c] /\ fingerprint'[c] = fingerprint[c] /\ artifacts'[c] = artifacts[c]
            /\ StageName(c)' = StageName(c)
        BY <2>4, <3>2 DEF OnlyBy, StageName
      <4>3. HasStage(c) => StageOf(c)' = StageOf(c)
        BY <2>4, <3>2, <4>2 DEF OnlyBy, HasStage, StageOf
      <4> QED
        BY <2>1, <4>1, <4>2, <4>3 DEF NamedStands, BuilderStands, StageStands
    <3> QED
      BY <3>1, <3>2
  <2> QED
    BY <2>3, <2>5 DEF LinkedInv
<1>10. CASE SelectCurrent(b)
  <2>1. StepOf(b, "done") /\ UNCHANGED <<linkInput, builds, overtaken>>
    BY <1>10 DEF SelectCurrent, StepOf, Goto
  <2>2. NamedStands(b)'
    BY <2>1, StepFrame DEF NamedStands
  <2> QED
    BY <2>1, <2>2, StepFrame, LinkedFrame
<1> QED
  BY <1>2, <1>3, <1>4, <1>5, <1>6, <1>7, <1>8, <1>9, <1>10 DEF Step

(* A new fingerprint names the link inputs of the moment. *)
LEMMA StartLinked ==
    ASSUME PublishInv, LinkedInv, NEW b \in Builders, Start(b)
    PROVE  LinkedInv'
<1>1. /\ attempt' = [attempt EXCEPT ![b] = @ + 1] /\ artifacts' = [artifacts EXCEPT ![b] = Empty]
      /\ pc' = [pc EXCEPT ![b] = "plan"] /\ UNCHANGED <<stages, builds, linkInput, overtaken>>
  BY DEF Start, Goto
<1>2. PICK r : fingerprint' = [fingerprint EXCEPT ![b] = <<r, linkInput>>]
  BY DEF Start, PublicationFingerprint, CompilePlan
<1>3. OnlyBy(b)
  BY <1>1, <1>2 DEF PublishInv, ProcessFunctions, StagesStarted, OnlyBy
<1>4. pc'[b] = "plan" /\ fingerprint'[b] = <<r, linkInput>>
  BY <1>1, <1>2 DEF PublishInv, ProcessFunctions
<1>5. fingerprint'[b][2] = linkInput
  BY <1>4
<1>6. NamedStands(b)'
  BY <1>1, <1>4, <1>5 DEF NamedStands
<1> QED
  BY <1>1, <1>3, <1>6, LinkedFrame

(* An edit overtakes every build that has still to read the link inputs. *)
LEMMA EditLinked ==
    ASSUME LinkedInv, EditLinkInput
    PROVE  LinkedInv'
<1>1. UNCHANGED <<pc, attempt, fingerprint, artifacts, stages, builds>>
      /\ overtaken' = overtaken \cup {fingerprint[b] : b \in Linking}
  BY DEF EditLinkInput, processVars
<1>2. ASSUME NEW b \in Builders PROVE NamedStands(b)'
  <2>1. NamedStands(b) /\ StageOf(b)' = StageOf(b)
    BY <1>1 DEF LinkedInv, StageOf, StageName
  <2>2. CASE b \in Linking
    BY <1>1, <2>2 DEF NamedStands
  <2>3. CASE b \notin Linking
    BY <1>1, <2>1, <2>3 DEF NamedStands, Linking
  <2> QED
    BY <2>2, <2>3
<1>3. \A f \in DOMAIN builds' : AsNamed(f, builds[f])'
  BY <1>1 DEF LinkedInv, AsNamed
<1> QED
  BY <1>2, <1>3 DEF LinkedInv

(* Every step of Publish carries what was read of the link inputs. *)
LEMMA PublishNextLinked ==
    ASSUME PublishInv, LinkedInv, Next
    PROVE  LinkedInv'
<1>1. ASSUME NEW b \in Builders, Fail(b) \/ Kill(b) PROVE LinkedInv'
  <2>1. StepOf(b, "failed") /\ UNCHANGED <<linkInput, builds, overtaken>>
    BY <1>1 DEF Fail, Kill, Forget, Goto, StepOf, Cleaned
  <2>2. NamedStands(b)'
    BY <2>1, StepFrame DEF NamedStands
  <2> QED
    BY <2>1, <2>2, StepFrame, LinkedFrame
<1> QED
  BY <1>1, StepLinked, StartLinked, EditLinked DEF Next

(* Nothing is read and nothing published at first. *)
LEMMA PublishInitLinked ==
    ASSUME Init
    PROVE  LinkedInv
  BY EmptyFacts DEF Init, LinkedInv, NamedStands

(* A step of another program leaves all of it. *)
LEMMA IdleLinked ==
    ASSUME LinkedInv,
           UNCHANGED <<pc, attempt, fingerprint, artifacts, stages, builds, linkInput, overtaken>>
    PROVE  LinkedInv'
  BY DEF LinkedInv, NamedStands, AsNamed, StageOf, StageName

-----------------------------------------------------------------------------
(* The theorems *)

\* The invariant of publication in the composition of the programs.
PublicationInv == program = "publish" => PublishInv /\ LinkedInv

(* The program that is followed never changes, and a step of it is a step of
   Publish where it is the publication of builds. *)
LEMMA FollowsPublish ==
    ASSUME ToolchainNext
    PROVE  program' = program /\ (program = "publish" => Next)
  BY DEF ToolchainNext

LEMMA PublicationInvHolds == ToolchainSpec => []PublicationInv
<1>1. ToolchainInit => PublicationInv
  BY PublishInitInv, PublishInitLinked DEF ToolchainInit, PublicationInv
<1>2. PublicationInv /\ [ToolchainNext]_all => PublicationInv'
  <2> SUFFICES ASSUME PublicationInv, [ToolchainNext]_all, program' = "publish"
               PROVE  PublishInv' /\ LinkedInv'
    BY DEF PublicationInv
  <2>1. CASE ToolchainNext
    BY <2>1, FollowsPublish, PublishNextInv, PublishNextLinked DEF PublicationInv
  <2>2. CASE UNCHANGED all
    BY <2>2, IdleInv, IdleLinked DEF PublicationInv, all, publishOnly
  <2> QED
    BY <2>1, <2>2
<1> QED
  BY <1>1, <1>2, PTL DEF ToolchainSpec

(* However many compiler processes share an output root, wherever they fail
   or are killed and however often the link inputs change: every directory
   under builds is a whole build of its fingerprint, linked with the inputs
   the fingerprint names unless an edit overtook a build of that fingerprint
   before it had linked; current.json names a published build; and a build that returned success is, file by file, what
   its process staged (buildGeneratedModelForTesting, publishImmutableStage). *)
THEOREM PublicationSoundTheorem == ToolchainSpec => []PublicationSound
<1>1. PublicationInv => PublicationSound
  <2>1. PublishInv => SuccessIsFaithful
    BY DEF PublishInv, BuilderStands, ResultStands, Holds, SuccessIsFaithful
  <2>2. PublishInv /\ LinkedInv => PublishedComplete
    BY DEF PublishInv, PublishedWhole, LinkedInv, PublishedComplete, Complete
  <2> QED
    BY <2>1, <2>2 DEF PublicationInv, PublicationSound, PublishInv
<1> QED
  BY <1>1, PublicationInvHolds, PTL

(* A published build is never changed or removed, and current.json moves only
   in the last step of a build that succeeds. *)
THEOREM PublishedStaysTheorem == ToolchainSpec => PublishedStays
<1>1. PublicationInv /\ [ToolchainNext]_all => [program = "publish" => KeepsPublished]_all
  BY FollowsPublish, PublishStepKeeps DEF PublicationInv
<1> QED
  BY <1>1, PublicationInvHolds, PTL DEF ToolchainSpec, PublishedStays

-----------------------------------------------------------------------------
(* The compiler driver.  The invariant follows the number of stages that   *)
(* have been passed: the module, what is kept, and exactly the artifacts   *)
(* and dumps those stages owe to the request.                              *)

\* The module of request q after n stages.
NormalPass(q) == IF q.profile = "custom" THEN q.custom ELSE "normalize"
Lowering(q) ==
    [lock |-> [providers |-> q.selections], providers |-> q.selections, profile |-> q.profile,
     target |-> IF q.target = "" THEN "unknown-unknown" ELSE q.target]
ModuleOf(q, n) ==
    CASE n = 0 -> <<>>
      [] n \in 1..2 -> <<q.acir>>
      [] n = 3 -> <<q.acir, NormalPass(q)>>
      [] n = 4 -> <<q.acir, NormalPass(q), "canonicalize", "cse", "freeze">>
      [] n \in 5..11 -> <<q.acir, NormalPass(q), "canonicalize", "cse", "freeze", Lowering(q)>>

\* The module that Driver states for the n-th stage is that of the request.
LEMMA ModuleOfRequest ==
    ASSUME NEW n \in 0..11
    PROVE  D!ModuleAfter(n) = ModuleOf(request, n)
BY DEF D!ModuleAfter, ModuleOf, D!Normalized, D!Frozen, D!Lowered, D!LoweringPass, NormalPass, Lowering,
       D!ResolvedLock, D!LoweredTarget

StageNameSet ==
    {"acir-parse", "acir-verify", "acir-normalize", "acir-freeze", "acsim-lower", "acsim-verify",
     "cxx-emit", "cxx-contract", "compile", "link", "publish"}

\* The stages of the pipeline, in order.
LEMMA StageNames ==
    /\ D!Stages \in Seq(StageNameSet) /\ Len(D!Stages) = 11 /\ DOMAIN D!Stages = 1..11
    /\ D!Stages[1] = "acir-parse" /\ D!Stages[2] = "acir-verify" /\ D!Stages[3] = "acir-normalize"
    /\ D!Stages[4] = "acir-freeze" /\ D!Stages[5] = "acsim-lower" /\ D!Stages[6] = "acsim-verify"
    /\ D!Stages[7] = "cxx-emit" /\ D!Stages[8] = "cxx-contract" /\ D!Stages[9] = "compile"
    /\ D!Stages[10] = "link" /\ D!Stages[11] = "publish"
<1>1. D!Stages \in Seq(StageNameSet)
  BY DEF D!Stages, StageNameSet
<1>2. Len(D!Stages) = 11
  BY DEF D!Stages
<1>3. DOMAIN D!Stages = 1..11
  BY <1>1, <1>2
<1>4. /\ D!Stages[1] = "acir-parse" /\ D!Stages[2] = "acir-verify" /\ D!Stages[3] = "acir-normalize"
      /\ D!Stages[4] = "acir-freeze" /\ D!Stages[5] = "acsim-lower" /\ D!Stages[6] = "acsim-verify"
      /\ D!Stages[7] = "cxx-emit" /\ D!Stages[8] = "cxx-contract" /\ D!Stages[9] = "compile"
      /\ D!Stages[10] = "link" /\ D!Stages[11] = "publish"
  BY DEF D!Stages
<1>5. QED BY <1>1, <1>2, <1>3, <1>4

\* No stage is named twice.
LEMMA StagesDiffer ==
    ASSUME NEW i \in 1..11, NEW j \in 1..11, D!Stages[i] = D!Stages[j]
    PROVE  i = j
<1>1. i \in {1,2,3,4,5,6,7,8,9,10,11} /\ j \in {1,2,3,4,5,6,7,8,9,10,11}
  OBVIOUS
<1>2. QED BY <1>1, StageNames

\* Ordinal numbers the stages.
LEMMA OrdinalOfStage ==
    ASSUME NEW i \in 1..11
    PROVE  D!Ordinal(D!Stages[i]) = i
<1>1. \E j \in DOMAIN D!Stages : D!Stages[j] = D!Stages[i]
  BY StageNames
<1>2. D!Ordinal(D!Stages[i]) \in DOMAIN D!Stages /\ D!Stages[D!Ordinal(D!Stages[i])] = D!Stages[i]
  BY <1>1 DEF D!Ordinal
<1>3. QED BY <1>2, StageNames, StagesDiffer


\* Sequences of one length with the same items are equal.
LEMMA SameSequence ==
    ASSUME NEW S, NEW s \in Seq(S), NEW t \in Seq(S), Len(s) = Len(t), \A i \in 1..Len(s) : s[i] = t[i]
    PROVE  s = t
OBVIOUS

\* The items of a concatenation.
LEMMA ConcatItems ==
    ASSUME NEW S, NEW s \in Seq(S), NEW t \in Seq(S)
    PROVE  /\ s \o t \in Seq(S) /\ Len(s \o t) = Len(s) + Len(t)
           /\ \A i \in 1..Len(s) : (s \o t)[i] = s[i]
           /\ \A i \in 1..Len(t) : (s \o t)[Len(s) + i] = t[i]
OBVIOUS

\* A sequence that lists the items of two others, one after the other, is their concatenation.
LEMMA JoinShape ==
    ASSUME NEW S, NEW s \in Seq(S), NEW t \in Seq(S), NEW u \in Seq(S), Len(u) = Len(s) + Len(t),
           \A i \in 1..Len(s) : u[i] = s[i],
           \A i \in 1..Len(t) : u[Len(s) + i] = t[i]
    PROVE  s \o t = u
<1>1. Len(s \o t) = Len(u) /\ s \o t \in Seq(S)
  OBVIOUS
<1>2. ASSUME NEW i \in 1..Len(u) PROVE (s \o t)[i] = u[i]
  <2>1. CASE i \in 1..Len(s)
    BY <2>1
  <2>2. CASE i - Len(s) \in 1..Len(t)
    <3>1. i = Len(s) + (i - Len(s))
      OBVIOUS
    <3>2. (s \o t)[Len(s) + (i - Len(s))] = t[i - Len(s)]
      BY <2>2, ConcatItems
    <3>3. u[Len(s) + (i - Len(s))] = t[i - Len(s)]
      BY <2>2
    <3>4. QED BY <3>1, <3>2, <3>3
  <2>3. QED BY <2>1, <2>2
<1>3. QED BY <1>1, <1>2, SameSequence

\* A sequence that lists the items of another and then one more is that append.
LEMMA AppendShape ==
    ASSUME NEW S, NEW s \in Seq(S), NEW e \in S, NEW u \in Seq(S), Len(u) = Len(s) + 1, u[Len(s) + 1] = e,
           \A i \in 1..Len(s) : u[i] = s[i]
    PROVE  Append(s, e) = u
<1>1. Len(Append(s, e)) = Len(u) /\ Append(s, e) \in Seq(S)
  OBVIOUS
<1>2. ASSUME NEW i \in 1..Len(u) PROVE Append(s, e)[i] = u[i]
  OBVIOUS
<1>3. QED BY <1>1, <1>2, SameSequence

\* acir-freeze adds its three passes to a module of two (the pass pipeline of freeze).
LEMMA JoinFreeze ==
    ASSUME NEW a, NEW b, NEW c, NEW d, NEW e
    PROVE  <<a, b>> \o <<c, d, e>> = <<a, b, c, d, e>>
<1> DEFINE S == {a, b, c, d, e}
<1> DEFINE s == <<a, b>>
<1> DEFINE t == <<c, d, e>>
<1> DEFINE u == <<a, b, c, d, e>>
<1>1. s \in Seq(S) /\ t \in Seq(S) /\ u \in Seq(S) 
  OBVIOUS
<1>2. /\ Len(s) = 2 /\ Len(t) = 3 /\ Len(u) = 5
      /\ s[1] = a /\ s[2] = b /\ t[1] = c /\ t[2] = d /\ t[3] = e
      /\ u[1] = a /\ u[2] = b /\ u[3] = c /\ u[4] = d /\ u[5] = e
  OBVIOUS
<1> HIDE DEF s, t, u, S
<1>3. Len(u) = Len(s) + Len(t)
  BY <1>2
<1>4. \A i \in 1..Len(s) : u[i] = s[i]
  <2>1. \A i \in 1..2 : u[i] = s[i]
    BY <1>2
  <2>2. QED BY <2>1, <1>2
<1>5. \A i \in 1..Len(t) : u[Len(s) + i] = t[i]
  <2>1. \A i \in 1..3 : u[2 + i] = t[i]
    BY <1>2
  <2>2. QED BY <2>1, <1>2
<1>6. s \o t = u
  BY <1>1, <1>3, <1>4, <1>5, JoinShape
<1>7. QED BY <1>6 DEF s, t, u

\* acir-normalize adds one pass to the parsed module.
LEMMA AppendNormal ==
    ASSUME NEW a, NEW b
    PROVE  Append(<<a>>, b) = <<a, b>>
<1> DEFINE S == {a, b}
<1> DEFINE s == <<a>>
<1> DEFINE u == <<a, b>>
<1>1. s \in Seq(S) /\ u \in Seq(S) /\ b \in S
  OBVIOUS
<1>2. Len(s) = 1 /\ Len(u) = 2 /\ s[1] = a /\ u[1] = a /\ u[2] = b
  OBVIOUS
<1> HIDE DEF s, u, S
<1>3. \A i \in 1..Len(s) : u[i] = s[i]
  <2>1. \A i \in 1..1 : u[i] = s[i]
    BY <1>2
  <2>2. QED BY <2>1, <1>2
<1>4. Len(u) = Len(s) + 1 /\ u[Len(s) + 1] = b
  BY <1>2
<1>5. Append(s, b) = u
  BY <1>1, <1>3, <1>4, AppendShape
<1>6. QED BY <1>5 DEF s, u

\* acsim-lower adds one pass to the frozen module.
LEMMA AppendLowering ==
    ASSUME NEW a, NEW b, NEW c, NEW d, NEW e, NEW f
    PROVE  Append(<<a, b, c, d, e>>, f) = <<a, b, c, d, e, f>>
<1> DEFINE S == {a, b, c, d, e, f}
<1> DEFINE s == <<a, b, c, d, e>>
<1> DEFINE u == <<a, b, c, d, e, f>>
<1>1. s \in Seq(S) /\ u \in Seq(S) /\ f \in S
  OBVIOUS
<1>2. /\ Len(s) = 5 /\ Len(u) = 6
      /\ s[1] = a /\ s[2] = b /\ s[3] = c /\ s[4] = d /\ s[5] = e
      /\ u[1] = a /\ u[2] = b /\ u[3] = c /\ u[4] = d /\ u[5] = e /\ u[6] = f
  OBVIOUS
<1> HIDE DEF s, u, S
<1>3. \A i \in 1..Len(s) : u[i] = s[i]
  <2>1. \A i \in 1..5 : u[i] = s[i]
    BY <1>2
  <2>2. QED BY <2>1, <1>2
<1>4. Len(u) = Len(s) + 1 /\ u[Len(s) + 1] = f
  BY <1>2
<1>5. Append(s, f) = u
  BY <1>1, <1>3, <1>4, AppendShape
<1>6. QED BY <1>5 DEF s, u
-----------------------------------------------------------------------------
\* What each stage owes to the request.
IfAsked(q, kind, file, bytes) ==
    IF kind \in D!ToSet(q.emits) THEN {D!Artifact(<<file, "">>, bytes)} ELSE {}
DueBefore(q, j) ==
    IF j > 1 /\ D!Stages[j] \in D!ToSet(q.before)
    THEN {D!Artifact(<<D!Stages[j], "before">>, ModuleOf(q, j - 1))} ELSE {}
DueEmitted(q, j) ==
    CASE j = 4 -> IfAsked(q, "acir", "frozen.ac.mlir", ModuleOf(q, 4))
      [] j = 6 -> IfAsked(q, "acsim", "model.acsim.mlir", ModuleOf(q, 6))
      [] j = 7 -> IfAsked(q, "header", "model.h", D!SourcesOf(ModuleOf(q, 6)))
                    \cup IfAsked(q, "source", "model.cpp", D!SourcesOf(ModuleOf(q, 6)))
      [] j = 11 -> IfAsked(q, "executable", "bin/model", <<"executable", ModuleOf(q, 6)>>)
      [] OTHER -> {}
DueAfter(q, j) ==
    IF q.afterEach \/ D!Stages[j] \in D!ToSet(q.after)
    THEN {D!Artifact(<<D!Stages[j], "after">>, ModuleOf(q, j))} ELSE {}
Due(q, j) == (DueBefore(q, j) \cup DueEmitted(q, j)) \cup DueAfter(q, j)
DueUpTo(q, k) == UNION {Due(q, j) : j \in 1..k}

\* The sequence holds the members of the set, no two with one path.
Yields(s, S) ==
    /\ s \in Seq(S) /\ D!ToSet(s) = S
    /\ \A i, j \in DOMAIN s : s[i].path = s[j].path => i = j

\* The driver after k stages of its pipeline.
Length(q) == IF q.stop = "none" THEN 11 ELSE D!Ordinal(q.stop)
Remaining(q, k) ==
    /\ pipeline \in Seq(StageNameSet) /\ Len(pipeline) = Length(q) - k
    /\ \A i \in 1..(Length(q) - k) : pipeline[i] = D!Stages[k + i]
KeptAfter(q, k) ==
    /\ k >= 4 => kept.frozen = ModuleOf(q, 4)
    /\ k >= 6 => kept.acsim = ModuleOf(q, 6)
    /\ k >= 7 => kept.sources = D!SourcesOf(ModuleOf(q, 6))
    /\ k < 9 => build = <<>>
Reached(q, k) ==
    Remaining(q, k) /\ ir = ModuleOf(q, k) /\ Yields(artifacts, DueUpTo(q, k)) /\ KeptAfter(q, k)

KeptFields == {"frozen", "acsim", "sources", "lock", "providers"}
BuiltFrom(q, b) ==
    /\ b.frozen = ModuleOf(q, 4) /\ b.acsim = ModuleOf(q, 6) /\ b.module = ModuleOf(q, 6)
    /\ b.lock.providers = b.providers
    /\ b.profile = q.profile
    /\ kept.sources = D!SourcesOf(b.module)

DriverBody ==
    /\ request \in CompilerRequests
    /\ DOMAIN kept = KeptFields
    /\ result = "new" => ir = <<>> /\ artifacts = <<>> /\ build = <<>>
    /\ result = "failed" => D!FailureTold
    /\ result = "running" => D!Accepted(request) /\ \E k \in 0..(Length(request) - 1) : Reached(request, k)
    /\ result = "done" => D!Accepted(request) /\ Reached(request, Length(request))
    /\ build # <<>> => BuiltFrom(request, build[1])
DriverInv == program = "driver" => DriverBody


\* The empty sequence holds nothing.
LEMMA YieldsNone == Yields(<<>>, {})
BY DEF Yields, D!ToSet

\* One artifact.
LEMMA YieldsOne ==
    ASSUME NEW a
    PROVE  Yields(<<a>>, {a})
<1>1. <<a>> \in Seq({a}) /\ DOMAIN <<a>> = 1..1 /\ <<a>>[1] = a
  OBVIOUS
<1>2. D!ToSet(<<a>>) = {a}
  BY <1>1 DEF D!ToSet
<1>3. \A i, j \in DOMAIN <<a>> : i = j
  BY <1>1
<1>4. QED BY <1>1, <1>2, <1>3 DEF Yields

\* Every item of a concatenation is an item of one side, and the other way round.
LEMMA ConcatMembers ==
    ASSUME NEW A, NEW T, NEW s \in Seq(A), NEW t \in Seq(T)
    PROVE  /\ s \o t \in Seq(A \cup T)
           /\ s \in Seq(A \cup T) /\ t \in Seq(A \cup T)
           /\ \A i \in DOMAIN (s \o t) :
                 \/ i \in DOMAIN s /\ (s \o t)[i] = s[i]
                 \/ i - Len(s) \in DOMAIN t /\ (s \o t)[i] = t[i - Len(s)]
           /\ \A i \in DOMAIN s : i \in DOMAIN (s \o t) /\ (s \o t)[i] = s[i]
           /\ \A i \in DOMAIN t : Len(s) + i \in DOMAIN (s \o t) /\ (s \o t)[Len(s) + i] = t[i]
           /\ DOMAIN s = 1..Len(s) /\ DOMAIN t = 1..Len(t) /\ Len(s) \in Nat /\ Len(t) \in Nat
           /\ DOMAIN (s \o t) = 1..(Len(s) + Len(t))
<1>1. s \in Seq(A \cup T) /\ t \in Seq(A \cup T)
  OBVIOUS
<1>2. /\ s \o t \in Seq(A \cup T) /\ Len(s \o t) = Len(s) + Len(t)
      /\ \A i \in 1..Len(s) : (s \o t)[i] = s[i]
      /\ \A i \in 1..Len(t) : (s \o t)[Len(s) + i] = t[i]
  BY <1>1, ConcatItems
<1>3. /\ DOMAIN s = 1..Len(s) /\ DOMAIN t = 1..Len(t) /\ Len(s) \in Nat /\ Len(t) \in Nat
      /\ DOMAIN (s \o t) = 1..(Len(s) + Len(t))
  BY <1>1, <1>2
<1>4. ASSUME NEW i \in DOMAIN (s \o t)
      PROVE  \/ i \in DOMAIN s /\ (s \o t)[i] = s[i]
             \/ i - Len(s) \in DOMAIN t /\ (s \o t)[i] = t[i - Len(s)]
  <2>1. CASE i <= Len(s)
    BY <2>1, <1>2, <1>3
  <2>2. CASE i > Len(s)
    <3>1. i - Len(s) \in 1..Len(t) /\ i = Len(s) + (i - Len(s))
      BY <2>2, <1>3
    <3>2. QED BY <3>1, <1>2, <1>3
  <2>3. QED BY <2>1, <2>2, <1>3
<1>5. \A i \in DOMAIN s : i \in DOMAIN (s \o t) /\ (s \o t)[i] = s[i]
  BY <1>2, <1>3
<1>6. \A i \in DOMAIN t : Len(s) + i \in DOMAIN (s \o t) /\ (s \o t)[Len(s) + i] = t[i]
  BY <1>2, <1>3
<1>7. QED BY <1>1, <1>2, <1>3, <1>4, <1>5, <1>6

\* Two lists of artifacts whose paths differ, one after the other.
LEMMA JoinYields ==
    ASSUME NEW A, NEW T, NEW s, NEW t, Yields(s, A), Yields(t, T),
           \A a \in A, b \in T : a.path # b.path
    PROVE  Yields(s \o t, A \cup T)
<1> DEFINE u == s \o t
<1>1. /\ s \in Seq(A) /\ t \in Seq(T) /\ D!ToSet(s) = A /\ D!ToSet(t) = T
      /\ \A i, j \in DOMAIN s : s[i].path = s[j].path => i = j
      /\ \A i, j \in DOMAIN t : t[i].path = t[j].path => i = j
  BY DEF Yields
<1>2. /\ u \in Seq(A \cup T)
      /\ \A i \in DOMAIN u :
            \/ i \in DOMAIN s /\ u[i] = s[i]
            \/ i - Len(s) \in DOMAIN t /\ u[i] = t[i - Len(s)]
      /\ \A i \in DOMAIN s : i \in DOMAIN u /\ u[i] = s[i]
      /\ \A i \in DOMAIN t : Len(s) + i \in DOMAIN u /\ u[Len(s) + i] = t[i]
      /\ Len(s) \in Nat /\ DOMAIN u \subseteq Int
  BY <1>1, ConcatMembers
<1> HIDE DEF u
<1>3. (\A i \in DOMAIN s : s[i] \in A) /\ (\A i \in DOMAIN t : t[i] \in T)
  BY <1>1 DEF D!ToSet
<1>4. D!ToSet(u) = A \cup T
  <2>1. ASSUME NEW i \in DOMAIN u PROVE u[i] \in A \cup T
    BY <1>2, <1>3
  <2>2. ASSUME NEW a \in A PROVE \E i \in DOMAIN u : u[i] = a
    <3>1. PICK i \in DOMAIN s : s[i] = a
      BY <1>1 DEF D!ToSet
    <3>2. QED BY <3>1, <1>2
  <2>3. ASSUME NEW b \in T PROVE \E i \in DOMAIN u : u[i] = b
    <3>1. PICK i \in DOMAIN t : t[i] = b
      BY <1>1 DEF D!ToSet
    <3>2. QED BY <3>1, <1>2
  <2>4. QED BY <2>1, <2>2, <2>3 DEF D!ToSet
<1>5. ASSUME NEW i \in DOMAIN u, NEW j \in DOMAIN u, u[i].path = u[j].path
      PROVE  i = j
  <2>1. CASE i \in DOMAIN s /\ u[i] = s[i] /\ j \in DOMAIN s /\ u[j] = s[j]
    BY <2>1, <1>1, <1>5
  <2>2. CASE i - Len(s) \in DOMAIN t /\ u[i] = t[i - Len(s)] /\ j - Len(s) \in DOMAIN t /\ u[j] = t[j - Len(s)]
    <3>1. i - Len(s) = j - Len(s)
      BY <2>2, <1>1, <1>5
    <3>2. i \in Int /\ j \in Int /\ Len(s) \in Int
      BY <1>2
    <3>3. QED BY <3>1, <3>2
  <2>3. CASE i \in DOMAIN s /\ u[i] = s[i] /\ j - Len(s) \in DOMAIN t /\ u[j] = t[j - Len(s)]
    BY <2>3, <1>3, <1>5
  <2>4. CASE i - Len(s) \in DOMAIN t /\ u[i] = t[i - Len(s)] /\ j \in DOMAIN s /\ u[j] = s[j]
    BY <2>4, <1>3, <1>5
  <2>5. QED BY <2>1, <2>2, <2>3, <2>4, <1>2
<1>6. Yields(u, A \cup T)
  BY <1>2, <1>4, <1>5 DEF Yields
<1>7. QED BY <1>6 DEF u

\* The path of an artifact.
LEMMA ArtifactPath ==
    ASSUME NEW p, NEW b
    PROVE  D!Artifact(p, b).path = p
BY DEF D!Artifact

\* The stage that writes to a path.
Turn(p) ==
    IF p[2] # "" THEN D!Ordinal(p[1])
    ELSE CASE p[1] = "frozen.ac.mlir" -> 4
           [] p[1] = "model.acsim.mlir" -> 6
           [] p[1] \in {"model.h", "model.cpp"} -> 7
           [] p[1] = "bin/model" -> 11

\* The files the compiler emits, each in one stage.
LEMMA FilePath ==
    /\ Turn(<<"frozen.ac.mlir", "">>) = 4 /\ <<"frozen.ac.mlir", "">>[2] = ""
    /\ Turn(<<"model.acsim.mlir", "">>) = 6 /\ <<"model.acsim.mlir", "">>[2] = ""
    /\ Turn(<<"model.h", "">>) = 7 /\ <<"model.h", "">>[2] = ""
    /\ Turn(<<"model.cpp", "">>) = 7 /\ <<"model.cpp", "">>[2] = ""
    /\ Turn(<<"bin/model", "">>) = 11 /\ <<"bin/model", "">>[2] = ""
BY DEF Turn

\* A dump is named after its stage.
LEMMA DumpPath ==
    ASSUME NEW s
    PROVE  /\ Turn(<<s, "before">>) = D!Ordinal(s) /\ <<s, "before">>[2] = "before"
           /\ Turn(<<s, "after">>) = D!Ordinal(s) /\ <<s, "after">>[2] = "after"
BY DEF Turn

\* Where a requested artifact goes.
LEMMA AskedPath ==
    ASSUME NEW q, NEW kind, NEW file, NEW bytes, NEW a \in IfAsked(q, kind, file, bytes)
    PROVE  a.path = <<file, "">>
BY ArtifactPath DEF IfAsked

\* Where the dump before a stage goes.
LEMMA BeforePath ==
    ASSUME NEW q, NEW j, NEW a \in DueBefore(q, j)
    PROVE  a.path = <<D!Stages[j], "before">>
BY ArtifactPath DEF DueBefore

\* Where the dump after a stage goes.
LEMMA AfterPath ==
    ASSUME NEW q, NEW j, NEW a \in DueAfter(q, j)
    PROVE  a.path = <<D!Stages[j], "after">>
BY ArtifactPath DEF DueAfter

\* An artifact of a stage has the path of a file, and no other stage writes there.
LEMMA EmittedPath ==
    ASSUME NEW q, NEW j \in 1..11, NEW a \in DueEmitted(q, j)
    PROVE  a.path[2] = "" /\ Turn(a.path) = j
<1>1. CASE j = 4
  <2>1. a \in IfAsked(q, "acir", "frozen.ac.mlir", ModuleOf(q, 4))
    BY <1>1 DEF DueEmitted
  <2>2. a.path = <<"frozen.ac.mlir", "">>
    BY <2>1, AskedPath
  <2>3. QED BY <1>1, <2>2, FilePath
<1>2. CASE j = 6
  <2>1. a \in IfAsked(q, "acsim", "model.acsim.mlir", ModuleOf(q, 6))
    BY <1>2 DEF DueEmitted
  <2>2. a.path = <<"model.acsim.mlir", "">>
    BY <2>1, AskedPath
  <2>3. QED BY <1>2, <2>2, FilePath
<1>3. CASE j = 7
  <2>1. \/ a \in IfAsked(q, "header", "model.h", D!SourcesOf(ModuleOf(q, 6)))
        \/ a \in IfAsked(q, "source", "model.cpp", D!SourcesOf(ModuleOf(q, 6)))
    BY <1>3 DEF DueEmitted
  <2>2. a.path = <<"model.h", "">> \/ a.path = <<"model.cpp", "">>
    BY <2>1, AskedPath
  <2>3. QED BY <1>3, <2>2, FilePath
<1>4. CASE j = 11
  <2>1. a \in IfAsked(q, "executable", "bin/model", <<"executable", ModuleOf(q, 6)>>)
    BY <1>4 DEF DueEmitted
  <2>2. a.path = <<"bin/model", "">>
    BY <2>1, AskedPath
  <2>3. QED BY <1>4, <2>2, FilePath
<1>5. CASE j \notin {4, 6, 7, 11}
  BY <1>5 DEF DueEmitted
<1>6. QED BY <1>1, <1>2, <1>3, <1>4, <1>5

\* The path of whatever a stage writes tells the stage: no two stages write to one path.
LEMMA DuePath ==
    ASSUME NEW q, NEW j \in 1..11, NEW a \in Due(q, j)
    PROVE  Turn(a.path) = j
<1>1. CASE a \in DueBefore(q, j)
  <2>1. a.path = <<D!Stages[j], "before">>
    BY <1>1, BeforePath
  <2>2. Turn(<<D!Stages[j], "before">>) = D!Ordinal(D!Stages[j])
    BY DumpPath
  <2>3. D!Ordinal(D!Stages[j]) = j
    BY OrdinalOfStage
  <2>4. QED BY <2>1, <2>2, <2>3
<1>2. CASE a \in DueAfter(q, j)
  <2>1. a.path = <<D!Stages[j], "after">>
    BY <1>2, AfterPath
  <2>2. Turn(<<D!Stages[j], "after">>) = D!Ordinal(D!Stages[j])
    BY DumpPath
  <2>3. D!Ordinal(D!Stages[j]) = j
    BY OrdinalOfStage
  <2>4. QED BY <2>1, <2>2, <2>3
<1>3. CASE a \in DueEmitted(q, j)
  BY <1>3, EmittedPath
<1>4. QED BY <1>1, <1>2, <1>3 DEF Due

\* One more stage adds what it owes, to paths that are still free.
LEMMA DueGrows ==
    ASSUME NEW q, NEW k \in 0..10
    PROVE  /\ DueUpTo(q, k + 1) = DueUpTo(q, k) \cup Due(q, k + 1)
           /\ \A a \in DueUpTo(q, k), b \in Due(q, k + 1) : a.path # b.path
<1>1. 1..(k + 1) = 1..k \cup {k + 1}
  OBVIOUS
<1>2. DueUpTo(q, k + 1) = DueUpTo(q, k) \cup Due(q, k + 1)
  BY <1>1 DEF DueUpTo
<1>3. ASSUME NEW a \in DueUpTo(q, k), NEW b \in Due(q, k + 1)
      PROVE  a.path # b.path
  <2>1. PICK j \in 1..k : a \in Due(q, j)
    BY DEF DueUpTo
  <2>2. j \in 1..11 /\ k + 1 \in 1..11 /\ j # k + 1
    OBVIOUS
  <2>3. Turn(a.path) = j /\ Turn(b.path) = k + 1
    BY <2>1, <2>2, DuePath
  <2>4. QED BY <2>2, <2>3
<1>4. QED BY <1>2, <1>3

\* Before the first stage nothing is owed.
LEMMA NothingDue ==
    ASSUME NEW q
    PROVE  DueUpTo(q, 0) = {}
BY DEF DueUpTo


\* From the first stage on there is a module to dump.
LEMMA ModuleThere ==
    ASSUME NEW q, NEW k \in 1..11
    PROVE  ModuleOf(q, k) # <<>>
<1>1. k \in 1..2 \/ k = 3 \/ k = 4 \/ k \in 5..11
  OBVIOUS
<1>2. CASE k \in 1..2
  <2>1. ModuleOf(q, k) = <<q.acir>>
    BY <1>2 DEF ModuleOf
  <2>2. QED BY <2>1
<1>3. CASE k = 3
  <2>1. ModuleOf(q, k) = <<q.acir, NormalPass(q)>>
    BY <1>3 DEF ModuleOf
  <2>2. QED BY <2>1
<1>4. CASE k = 4
  <2>1. ModuleOf(q, k) = <<q.acir, NormalPass(q), "canonicalize", "cse", "freeze">>
    BY <1>4 DEF ModuleOf
  <2>2. QED BY <2>1
<1>5. CASE k \in 5..11
  <2>1. ModuleOf(q, k) = <<q.acir, NormalPass(q), "canonicalize", "cse", "freeze", Lowering(q)>>
    BY <1>5 DEF ModuleOf
  <2>2. QED BY <2>1
<1>6. QED BY <1>1, <1>2, <1>3, <1>4, <1>5

\* Before the first stage there is none.
LEMMA NoModuleYet ==
    ASSUME NEW q
    PROVE  ModuleOf(q, 0) = <<>>
BY DEF ModuleOf

\* The items of a prefix.
LEMMA PrefixItems ==
    ASSUME NEW S, NEW s \in Seq(S), NEW n \in Nat, n <= Len(s)
    PROVE  /\ SubSeq(s, 1, n) \in Seq(S) /\ Len(SubSeq(s, 1, n)) = n
           /\ \A m \in 1..n : SubSeq(s, 1, n)[m] = s[m]
<1>1. \A m \in 1..n : s[m] \in S
  OBVIOUS
<1>2. SubSeq(s, 1, n) = [m \in 1..n |-> s[m]]
  OBVIOUS
<1>3. QED BY <1>1, <1>2

\* The pipeline of an accepted request is a prefix of the stages, up to the one it stops after (selectPipeline).
LEMMA Selected ==
    ASSUME NEW q \in CompilerRequests, D!Accepted(q)
    PROVE  /\ Length(q) \in 1..11
           /\ D!selectPipeline(q) \in Seq(StageNameSet) /\ Len(D!selectPipeline(q)) = Length(q)
           /\ \A i \in 1..Length(q) : D!selectPipeline(q)[i] = D!Stages[i]
<1>1. D!CustomConsistent(q)
  BY DEF D!Accepted, D!selectPipeline
<1>2. CASE q.stop = "none"
  <2>1. D!selectPipeline(q) = D!Stages /\ Length(q) = 11
    BY <1>1, <1>2 DEF D!selectPipeline, Length
  <2>2. QED BY <2>1, StageNames
<1>3. CASE q.stop # "none"
  <2>1. PICK i \in DOMAIN D!Stages : D!Stages[i] = q.stop
    BY <1>3, DriverAssumption DEF D!ToSet
  <2>2. i \in 1..11 /\ D!Ordinal(q.stop) = i
    BY <2>1, StageNames, OrdinalOfStage
  <2>3. D!selectPipeline(q) = SubSeq(D!Stages, 1, i) /\ Length(q) = i
    BY <1>1, <1>3, <2>2 DEF D!selectPipeline, Length
  <2>4. /\ SubSeq(D!Stages, 1, i) \in Seq(StageNameSet) /\ Len(SubSeq(D!Stages, 1, i)) = i
        /\ \A m \in 1..i : SubSeq(D!Stages, 1, i)[m] = D!Stages[m]
    <3>1. D!Stages \in Seq(StageNameSet) /\ i \in Nat /\ i <= Len(D!Stages)
      BY <2>2, StageNames
    <3>2. QED BY <3>1, PrefixItems
  <2>5. QED BY <2>2, <2>3, <2>4
<1>4. QED BY <1>2, <1>3

\* What a stage emits for a kind is what the request asks of that kind.
LEMMA EmitYields ==
    ASSUME NEW kind, NEW file, NEW bytes
    PROVE  Yields(D!Emit(kind, file, bytes), IfAsked(request, kind, file, bytes))
BY YieldsNone, YieldsOne DEF D!Emit, D!Requested, IfAsked

\* The dump before a stage holds the module that the stage before it left.
LEMMA BeforeYields ==
    ASSUME NEW k \in 0..10, ir = ModuleOf(request, k)
    PROVE  Yields(D!DumpBefore(D!Stages[k + 1]), DueBefore(request, k + 1))
<1>1. ir # <<>> <=> k + 1 > 1
  BY ModuleThere, NoModuleYet
<1>2. (k + 1) - 1 = k
  OBVIOUS
<1>3. QED BY <1>1, <1>2, YieldsNone, YieldsOne DEF D!DumpBefore, DueBefore

\* The dump after a stage holds the module it left.
LEMMA AfterYields ==
    ASSUME NEW k \in 0..10
    PROVE  Yields(D!DumpAfter(D!Stages[k + 1], ModuleOf(request, k + 1)), DueAfter(request, k + 1))
<1>1. ModuleOf(request, k + 1) # <<>>
  BY ModuleThere
<1>3. QED BY <1>1, YieldsNone, YieldsOne DEF D!DumpAfter, DueAfter

\* A stage adds exactly what it owes to the artifacts (runStage and the dumps around it).
LEMMA StageYields ==
    ASSUME NEW k \in 0..10, ir = ModuleOf(request, k), Yields(artifacts, DueUpTo(request, k)),
           NEW emitted, Yields(emitted, DueEmitted(request, k + 1))
    PROVE  Yields(artifacts \o D!DumpBefore(D!Stages[k + 1]) \o emitted
                    \o D!DumpAfter(D!Stages[k + 1], ModuleOf(request, k + 1)),
                  DueUpTo(request, k + 1))
<1> DEFINE O == DueUpTo(request, k)
<1> DEFINE T == DueBefore(request, k + 1)
<1> DEFINE E == DueEmitted(request, k + 1)
<1> DEFINE F == DueAfter(request, k + 1)
<1> DEFINE b == D!DumpBefore(D!Stages[k + 1])
<1> DEFINE f == D!DumpAfter(D!Stages[k + 1], ModuleOf(request, k + 1))
<1>1. Yields(artifacts, O) /\ Yields(b, T) /\ Yields(emitted, E) /\ Yields(f, F)
  BY BeforeYields, AfterYields
<1>2. DueUpTo(request, k + 1) = ((O \cup T) \cup E) \cup F
  BY DueGrows DEF Due
<1>3. \A x \in O, y \in (T \cup E) \cup F : x.path # y.path
  BY DueGrows DEF Due
<1>4. k + 1 \in 1..11
  OBVIOUS
<1>5. \A x \in T : x.path[2] = "before"
  BY BeforePath
<1>6. \A x \in E : x.path[2] = ""
  BY <1>4, EmittedPath
<1>7. \A x \in F : x.path[2] = "after"
  BY AfterPath
<1> HIDE DEF O, T, E, F, b, f
<1>8. Yields(artifacts \o b, O \cup T)
  BY <1>1, <1>3, JoinYields
<1>9. Yields((artifacts \o b) \o emitted, (O \cup T) \cup E)
  <2>1. \A x \in O \cup T, y \in E : x.path # y.path
    BY <1>3, <1>5, <1>6
  <2>2. QED BY <1>1, <1>8, <2>1, JoinYields
<1>10. Yields(((artifacts \o b) \o emitted) \o f, ((O \cup T) \cup E) \cup F)
  <2>1. \A x \in (O \cup T) \cup E, y \in F : x.path # y.path
    BY <1>3, <1>5, <1>6, <1>7
  <2>2. QED BY <1>1, <1>9, <2>1, JoinYields
<1>11. QED BY <1>2, <1>10 DEF b, f

\* The stage at the head of the pipeline is the next one, and all before it have been passed.
LEMMA StageAt ==
    ASSUME DriverBody, NEW n \in 1..11, D!At(D!Stages[n])
    PROVE  /\ D!Accepted(request) /\ n <= Length(request) /\ Length(request) \in 1..11
           /\ Reached(request, n - 1)
<1>1. result = "running" /\ pipeline # <<>> /\ Head(pipeline) = D!Stages[n]
  BY DEF D!At
<1>2. D!Accepted(request) /\ request \in CompilerRequests /\ \E k \in 0..(Length(request) - 1) : Reached(request, k)
  BY <1>1 DEF DriverBody
<1>3. PICK k \in 0..(Length(request) - 1) : Reached(request, k)
  BY <1>2
<1>4. Length(request) \in 1..11
  BY <1>2, Selected
<1>5. pipeline[1] = D!Stages[k + 1] /\ Head(pipeline) = pipeline[1]
  <2>1. 1 \in 1..(Length(request) - k)
    BY <1>3, <1>4
  <2>2. pipeline[1] = D!Stages[k + 1]
    BY <1>3, <2>1 DEF Reached, Remaining
  <2>3. pipeline \in Seq(StageNameSet)
    BY <1>3 DEF Reached, Remaining
  <2>4. QED BY <2>2, <2>3, <1>1
<1>6. k + 1 \in 1..11 /\ D!Stages[k + 1] = D!Stages[n]
  BY <1>1, <1>3, <1>4, <1>5
<1>7. k + 1 = n
  BY <1>6, StagesDiffer
<1>8. k = n - 1 /\ n <= Length(request)
  BY <1>3, <1>4, <1>7
<1>9. QED BY <1>2, <1>3, <1>4, <1>8


\* A failure keeps everything but the result and the diagnostics.
LEMMA DriverFails ==
    ASSUME DriverBody, result' = "failed", D!FailureTold',
           UNCHANGED <<request, pipeline, ir, kept, artifacts, build>>
    PROVE  DriverBody'
<1>1. request' = request /\ kept' = kept /\ build' = build
  OBVIOUS
<1>2. request' \in CompilerRequests /\ DOMAIN kept' = KeptFields
  BY <1>1 DEF DriverBody
<1>3. build' # <<>> => BuiltFrom(request, build[1])'
  BY <1>1 DEF DriverBody, BuiltFrom
<1>4. QED BY <1>2, <1>3 DEF DriverBody

\* Each way to fail leaves an error behind, or the warnings of acsim-verify (compilerFailure, takeFailure).
LEMMA EveryFailure ==
    ASSUME DriverBody, NEW s,
           D!Refuse(s) \/ D!PassFails(s) \/ (D!At("acsim-verify") /\ D!FailsSilently(s))
    PROVE  DriverBody'
<1>1. result' = "failed" /\ UNCHANGED <<request, pipeline, ir, kept, artifacts, build>>
  BY DEF D!Refuse, D!PassFails, D!FailsSilently
<1>2. D!FailureTold'
  <2>1. CASE D!Refuse(s) \/ D!PassFails(s)
    <3>1. D!Diagnostic(s, "error") \in diagnostics' /\ D!Diagnostic(s, "error").severity = "error"
      BY <2>1 DEF D!Refuse, D!PassFails, D!Diagnostic
    <3> QED
      BY <3>1 DEF D!FailureTold
  <2>2. CASE D!At("acsim-verify") /\ D!FailsSilently(s)
    <3>1. diagnostics' # {} /\ pipeline' = pipeline
      BY <2>2 DEF D!FailsSilently, D!takeFailure
    <3> QED
      BY <2>2, <3>1 DEF D!FailureTold, D!At
  <2> QED
    BY <2>1, <2>2
<1>3. QED BY <1>1, <1>2, DriverFails

\* Dropping the head of the pipeline passes one stage.
LEMMA PipelineMoves ==
    ASSUME NEW n \in 1..11, NEW l \in 1..11, n <= l, NEW s \in Seq(StageNameSet), Len(s) = l - (n - 1),
           \A i \in 1..(l - (n - 1)) : s[i] = D!Stages[(n - 1) + i]
    PROVE  /\ Tail(s) \in Seq(StageNameSet) /\ Len(Tail(s)) = l - n
           /\ \A i \in 1..(l - n) : Tail(s)[i] = D!Stages[n + i]
           /\ Len(s) = 1 <=> n = l
<1>1. s # <<>>
  OBVIOUS
<1>2. Tail(s) \in Seq(StageNameSet) /\ Len(Tail(s)) = Len(s) - 1
  BY <1>1
<1>3. Len(Tail(s)) = l - n
  BY <1>2
<1>4. ASSUME NEW i \in 1..(l - n) PROVE Tail(s)[i] = D!Stages[n + i]
  <2>1. i + 1 \in 1..(l - (n - 1)) /\ (n - 1) + (i + 1) = n + i /\ i \in 1..(Len(s) - 1)
    OBVIOUS
  <2>2. Tail(s)[i] = s[i + 1]
    BY <2>1, <1>1
  <2>3. QED BY <2>1, <2>2
<1>5. Len(s) = 1 <=> n = l
  OBVIOUS
<1>6. QED BY <1>2, <1>3, <1>4, <1>5

\* A stage that leaves the right module, emits what is due and keeps what it should preserves the invariant.
LEMMA StageSucceeds ==
    ASSUME DriverBody, NEW n \in 1..11, D!At(D!Stages[n]),
           NEW emitted, Yields(emitted, DueEmitted(request, n)),
           D!Succeed(D!Stages[n], ModuleOf(request, n), emitted),
           KeptAfter(request, n)', DOMAIN kept' = KeptFields,
           build' # <<>> => BuiltFrom(request, build[1])'
    PROVE  DriverBody'
<1>1. /\ D!Accepted(request) /\ n <= Length(request) /\ Length(request) \in 1..11
      /\ Reached(request, n - 1) /\ request \in CompilerRequests
  BY StageAt DEF DriverBody
<1>2. /\ ir' = ModuleOf(request, n) /\ pipeline' = Tail(pipeline)
      /\ result' = IF Len(pipeline) = 1 THEN "done" ELSE "running"
      /\ artifacts' = artifacts \o D!DumpBefore(D!Stages[n]) \o emitted \o D!DumpAfter(D!Stages[n], ModuleOf(request, n))
      /\ request' = request
  BY DEF D!Succeed
<1>3. Remaining(request, n - 1) /\ ir = ModuleOf(request, n - 1) /\ Yields(artifacts, DueUpTo(request, n - 1))
  BY <1>1 DEF Reached
<1>4. /\ pipeline' \in Seq(StageNameSet) /\ Len(pipeline') = Length(request) - n
      /\ \A i \in 1..(Length(request) - n) : pipeline'[i] = D!Stages[n + i]
      /\ Len(pipeline) = 1 <=> n = Length(request)
  <2> DEFINE l == Length(request)
  <2>1. l \in 1..11 /\ n <= l
    BY <1>1
  <2>2. /\ pipeline \in Seq(StageNameSet) /\ Len(pipeline) = l - (n - 1)
        /\ \A i \in 1..(l - (n - 1)) : pipeline[i] = D!Stages[(n - 1) + i]
    BY <1>3 DEF Remaining
  <2> HIDE DEF l
  <2>3. /\ Tail(pipeline) \in Seq(StageNameSet) /\ Len(Tail(pipeline)) = l - n
        /\ \A i \in 1..(l - n) : Tail(pipeline)[i] = D!Stages[n + i]
        /\ Len(pipeline) = 1 <=> n = l
    BY <2>1, <2>2, PipelineMoves
  <2>4. QED BY <1>2, <2>3 DEF l
<1>5. Yields(artifacts', DueUpTo(request, n))
  <2>1. n - 1 \in 0..10 /\ (n - 1) + 1 = n
    OBVIOUS
  <2>2. QED BY <2>1, <1>2, <1>3, StageYields
<1>6. Reached(request, n)'
  BY <1>2, <1>4, <1>5 DEF Reached, Remaining
<1>7. CASE n = Length(request)
  <2>1. result' = "done"
    BY <1>2, <1>4, <1>7
  <2>2. Reached(request, Length(request))'
    BY <1>2, <1>6, <1>7
  <2>3. QED BY <1>1, <1>2, <2>1, <2>2 DEF DriverBody
<1>8. CASE n # Length(request)
  <2>1. result' = "running"
    BY <1>2, <1>4, <1>8
  <2>2. n \in 0..(Length(request) - 1)
    BY <1>1, <1>8
  <2>3. (\E k \in 0..(Length(request) - 1) : Reached(request, k))'
    BY <1>2, <1>6, <2>2
  <2>4. QED BY <1>1, <1>2, <2>1, <2>3 DEF DriverBody
<1>9. QED BY <1>7, <1>8



\* What each stage does to the module.
LEMMA ModuleSteps ==
    ASSUME NEW q
    PROVE  /\ ModuleOf(q, 1) = <<q.acir>> /\ ModuleOf(q, 2) = ModuleOf(q, 1)
           /\ ModuleOf(q, 3) = Append(ModuleOf(q, 2), NormalPass(q))
           /\ ModuleOf(q, 4) = ModuleOf(q, 3) \o <<"canonicalize", "cse", "freeze">>
           /\ ModuleOf(q, 5) = Append(ModuleOf(q, 4), Lowering(q))
           /\ ModuleOf(q, 6) = ModuleOf(q, 5) /\ ModuleOf(q, 7) = ModuleOf(q, 6) /\ ModuleOf(q, 8) = ModuleOf(q, 7)
           /\ ModuleOf(q, 9) = ModuleOf(q, 8) /\ ModuleOf(q, 10) = ModuleOf(q, 9) /\ ModuleOf(q, 11) = ModuleOf(q, 10)
<1>1. ModuleOf(q, 1) = <<q.acir>> /\ ModuleOf(q, 2) = ModuleOf(q, 1)
  BY DEF ModuleOf
<1>2. ModuleOf(q, 3) = Append(ModuleOf(q, 2), NormalPass(q))
  <2>1. ModuleOf(q, 2) = <<q.acir>> /\ ModuleOf(q, 3) = <<q.acir, NormalPass(q)>>
    BY DEF ModuleOf
  <2>2. QED BY <2>1, AppendNormal
<1>3. ModuleOf(q, 4) = ModuleOf(q, 3) \o <<"canonicalize", "cse", "freeze">>
  <2>1. ModuleOf(q, 3) = <<q.acir, NormalPass(q)>>
    BY DEF ModuleOf
  <2>2. ModuleOf(q, 4) = <<q.acir, NormalPass(q), "canonicalize", "cse", "freeze">>
    BY DEF ModuleOf
  <2>3. <<q.acir, NormalPass(q)>> \o <<"canonicalize", "cse", "freeze">>
            = <<q.acir, NormalPass(q), "canonicalize", "cse", "freeze">>
    BY JoinFreeze
  <2>4. QED BY <2>1, <2>2, <2>3
<1>4. ModuleOf(q, 5) = Append(ModuleOf(q, 4), Lowering(q))
  <2>1. ModuleOf(q, 4) = <<q.acir, NormalPass(q), "canonicalize", "cse", "freeze">>
    BY DEF ModuleOf
  <2>2. ModuleOf(q, 5) = <<q.acir, NormalPass(q), "canonicalize", "cse", "freeze", Lowering(q)>>
    BY DEF ModuleOf
  <2>3. Append(<<q.acir, NormalPass(q), "canonicalize", "cse", "freeze">>, Lowering(q))
            = <<q.acir, NormalPass(q), "canonicalize", "cse", "freeze", Lowering(q)>>
    BY AppendLowering
  <2>4. QED BY <2>1, <2>2, <2>3
<1>5. /\ ModuleOf(q, 6) = ModuleOf(q, 5) /\ ModuleOf(q, 7) = ModuleOf(q, 6) /\ ModuleOf(q, 8) = ModuleOf(q, 7)
      /\ ModuleOf(q, 9) = ModuleOf(q, 8) /\ ModuleOf(q, 10) = ModuleOf(q, 9) /\ ModuleOf(q, 11) = ModuleOf(q, 10)
  BY DEF ModuleOf
<1>6. QED BY <1>1, <1>2, <1>3, <1>4, <1>5

\* A stage that emits nothing of its own and leaves what is kept alone.
QuietStages == {1, 2, 3, 8, 10}

\* The stages that emit nothing and keep nothing: parse, verify, normalize, contract and link.
LEMMA QuietStage ==
    ASSUME DriverBody, NEW n \in QuietStages, D!At(D!Stages[n]),
           D!Succeed(D!Stages[n], ModuleOf(request, n), <<>>), UNCHANGED <<kept, build>>
    PROVE  DriverBody'
<1>1. n \in 1..11 /\ DueEmitted(request, n) = {}
  BY DEF QuietStages, DueEmitted
<1>2. Reached(request, n - 1)
  BY <1>1, StageAt
<1>3. request' = request /\ kept' = kept /\ build' = build
  BY DEF D!Succeed
<1>4. KeptAfter(request, n)'
  <2>1. KeptAfter(request, n - 1)
    BY <1>2 DEF Reached
  <2>2. (n >= 4 => n - 1 >= 4) /\ (n >= 6 => n - 1 >= 6) /\ (n >= 7 => n - 1 >= 7) /\ (n < 9 => n - 1 < 9)
    BY DEF QuietStages
  <2>3. QED BY <1>3, <2>1, <2>2 DEF KeptAfter
<1>5. DOMAIN kept' = KeptFields
  BY <1>3 DEF DriverBody
<1>6. build' # <<>> => BuiltFrom(request, build[1])'
  BY <1>3 DEF DriverBody, BuiltFrom
<1>7. QED BY <1>1, <1>4, <1>5, <1>6, YieldsNone, StageSucceeds

\* acir-parse.
LEMMA ParseInv == DriverBody /\ D!AcirParse => DriverBody'
<1>1. ASSUME DriverBody, D!At("acir-parse"), D!Succeed("acir-parse", <<request.acir>>, <<>>), UNCHANGED <<kept, build>>
      PROVE  DriverBody'
  <2>1. D!Stages[1] = "acir-parse" /\ ModuleOf(request, 1) = <<request.acir>> /\ 1 \in QuietStages
    BY StageNames, ModuleSteps DEF QuietStages
  <2>2. QED BY <1>1, <2>1, QuietStage
<1>2. QED BY <1>1, EveryFailure DEF D!AcirParse

\* acir-verify.
LEMMA VerifyInv == DriverBody /\ D!AcirVerify => DriverBody'
<1>1. ASSUME DriverBody, D!At("acir-verify"), D!Succeed("acir-verify", ir, <<>>), UNCHANGED <<kept, build>>
      PROVE  DriverBody'
  <2>1. D!Stages[2] = "acir-verify" /\ 2 \in QuietStages /\ 2 \in 1..11 /\ 2 - 1 = 1
    BY StageNames DEF QuietStages
  <2>2. ir = ModuleOf(request, 1)
    BY <1>1, <2>1, StageAt DEF Reached
  <2>3. QED BY <1>1, <2>1, <2>2, ModuleSteps, QuietStage
<1>2. QED BY <1>1, EveryFailure DEF D!AcirVerify

\* acir-normalize.
LEMMA NormalizeInv == DriverBody /\ D!AcirNormalize => DriverBody'
<1>1. ASSUME DriverBody, D!At("acir-normalize"), D!Succeed("acir-normalize", D!Through(NormalPass(request)), <<>>),
             UNCHANGED <<kept, build>>
      PROVE  DriverBody'
  <2>1. D!Stages[3] = "acir-normalize" /\ 3 \in QuietStages /\ 3 \in 1..11 /\ 3 - 1 = 2
    BY StageNames DEF QuietStages
  <2>2. ir = ModuleOf(request, 2)
    BY <1>1, <2>1, StageAt DEF Reached
  <2>3. D!Through(NormalPass(request)) = ModuleOf(request, 3)
    BY <2>2, ModuleSteps DEF D!Through
  <2>4. QED BY <1>1, <2>1, <2>3, QuietStage
<1>2. QED BY <1>1, EveryFailure DEF D!AcirNormalize, NormalPass

\* cxx-contract.
LEMMA ContractInv == DriverBody /\ D!CxxContract => DriverBody'
<1>1. ASSUME DriverBody, D!At("cxx-contract"), D!Succeed("cxx-contract", ir, <<>>), UNCHANGED <<kept, build>>
      PROVE  DriverBody'
  <2>1. D!Stages[8] = "cxx-contract" /\ 8 \in QuietStages /\ 8 \in 1..11 /\ 8 - 1 = 7
    BY StageNames DEF QuietStages
  <2>2. ir = ModuleOf(request, 7)
    BY <1>1, <2>1, StageAt DEF Reached
  <2>3. QED BY <1>1, <2>1, <2>2, ModuleSteps, QuietStage
<1>2. QED BY <1>1, EveryFailure DEF D!CxxContract

\* link.
LEMMA LinkStageInv == DriverBody /\ D!Link => DriverBody'
<1>1. ASSUME DriverBody, D!At("link"), D!Succeed("link", ir, <<>>), UNCHANGED <<kept, build>>
      PROVE  DriverBody'
  <2>1. D!Stages[10] = "link" /\ 10 \in QuietStages /\ 10 \in 1..11 /\ 10 - 1 = 9
    BY StageNames DEF QuietStages
  <2>2. ir = ModuleOf(request, 9)
    BY <1>1, <2>1, StageAt DEF Reached
  <2>3. QED BY <1>1, <2>1, <2>2, ModuleSteps, QuietStage
<1>2. QED BY <1>1, EveryFailure DEF D!Link


\* Updates of what DriverState keeps.
LEMMA KeptExcept ==
    ASSUME NEW r, DOMAIN r = KeptFields, NEW v, NEW w
    PROVE  /\ DOMAIN [r EXCEPT !.frozen = v] = KeptFields /\ DOMAIN [r EXCEPT !.acsim = v] = KeptFields
           /\ DOMAIN [r EXCEPT !.sources = v] = KeptFields
           /\ DOMAIN [r EXCEPT !.lock = v, !.providers = w] = KeptFields
           /\ DOMAIN [r EXCEPT !.lock = v] = KeptFields
           /\ [r EXCEPT !.frozen = v].frozen = v
           /\ [r EXCEPT !.acsim = v].acsim = v /\ [r EXCEPT !.acsim = v].frozen = r.frozen
           /\ [r EXCEPT !.sources = v].sources = v /\ [r EXCEPT !.sources = v].frozen = r.frozen
           /\ [r EXCEPT !.sources = v].acsim = r.acsim
           /\ [r EXCEPT !.lock = v, !.providers = w].frozen = r.frozen
<1>1. /\ "frozen" \in DOMAIN r /\ "acsim" \in DOMAIN r /\ "sources" \in DOMAIN r /\ "lock" \in DOMAIN r
      /\ "providers" \in DOMAIN r
  BY DEF KeptFields
<1>2. QED BY <1>1

\* Up to the contract stage there is no build.
LEMMA NoBuildYet ==
    ASSUME NEW n \in 1..8, Reached(request, n - 1), build' = build
    PROVE  build' = <<>>
BY DEF Reached, KeptAfter

\* acir-freeze keeps the frozen module and emits it.
LEMMA FreezeInv == DriverBody /\ D!AcirFreeze => DriverBody'
<1>1. ASSUME DriverBody, D!At("acir-freeze"), NEW m, m = ir \o <<"canonicalize", "cse", "freeze">>,
             kept' = [kept EXCEPT !.frozen = m], D!Succeed("acir-freeze", m, D!Emit("acir", "frozen.ac.mlir", m)),
             build' = build
      PROVE  DriverBody'
  <2>1. D!Stages[4] = "acir-freeze" /\ 4 \in 1..11 /\ 4 \in 1..8 /\ 4 - 1 = 3
    BY StageNames
  <2>2. Reached(request, 3)
    BY <1>1, <2>1, StageAt
  <2>3. m = ModuleOf(request, 4)
    BY <1>1, <2>2, ModuleSteps DEF Reached
  <2>4. build' = <<>>
    BY <1>1, <2>1, <2>2, NoBuildYet
  <2>5. DOMAIN kept' = KeptFields /\ kept'.frozen = m
    BY <1>1, KeptExcept DEF DriverBody
  <2>6. KeptAfter(request, 4)'
    <3>1. request' = request
      BY <1>1 DEF D!Succeed
    <3>2. QED BY <2>3, <2>4, <2>5, <3>1 DEF KeptAfter
  <2>7. DueEmitted(request, 4) = IfAsked(request, "acir", "frozen.ac.mlir", m)
    BY <2>3 DEF DueEmitted
  <2>8. QED BY <1>1, <2>1, <2>3, <2>4, <2>5, <2>6, <2>7, EmitYields, StageSucceeds
<1>2. QED BY <1>1, EveryFailure DEF D!AcirFreeze

\* acsim-lower replaces the lock and keeps the providers.
LEMMA LowerInv == DriverBody /\ D!AcsimLower => DriverBody'
<1>1. ASSUME DriverBody, D!At("acsim-lower"), D!Succeed("acsim-lower", D!LoweredModel, <<>>),
             kept' = [kept EXCEPT !.lock = D!LockAfter, !.providers = request.selections], build' = build
      PROVE  DriverBody'
  <2>1. D!Stages[5] = "acsim-lower" /\ 5 \in 1..11 /\ 5 \in 1..8 /\ 5 - 1 = 4
    BY StageNames
  <2>2. Reached(request, 4)
    BY <1>1, <2>1, StageAt
  <2>3. D!LoweredModel = ModuleOf(request, 5)
    BY <2>2, ModuleSteps DEF Reached, D!LoweredModel, D!Through, Lowering, D!ResolvedLock, D!LoweredTarget
  <2>4. build' = <<>>
    BY <1>1, <2>1, <2>2, NoBuildYet
  <2>5. DOMAIN kept' = KeptFields /\ kept'.frozen = kept.frozen
    BY <1>1, KeptExcept DEF DriverBody
  <2>6. KeptAfter(request, 5)'
    <3>1. request' = request
      BY <1>1 DEF D!Succeed
    <3>2. kept.frozen = ModuleOf(request, 4)
      BY <2>2 DEF Reached, KeptAfter
    <3>3. QED BY <2>4, <2>5, <3>1, <3>2 DEF KeptAfter
  <2>7. DueEmitted(request, 5) = {}
    BY DEF DueEmitted
  <2>8. QED BY <1>1, <2>1, <2>3, <2>4, <2>5, <2>6, <2>7, YieldsNone, StageSucceeds
<1>2. QED BY <1>1, EveryFailure DEF D!AcsimLower

\* acsim-verify keeps the canonical module and emits it.
LEMMA AcsimVerifyInv == DriverBody /\ D!AcsimVerify => DriverBody'
<1>1. ASSUME DriverBody, D!At("acsim-verify"), D!Succeed("acsim-verify", ir, D!Emit("acsim", "model.acsim.mlir", ir)),
             kept' = [kept EXCEPT !.acsim = ir], build' = build
      PROVE  DriverBody'
  <2>1. D!Stages[6] = "acsim-verify" /\ 6 \in 1..11 /\ 6 \in 1..8 /\ 6 - 1 = 5
    BY StageNames
  <2>2. Reached(request, 5)
    BY <1>1, <2>1, StageAt
  <2>3. ir = ModuleOf(request, 6)
    BY <2>2, ModuleSteps DEF Reached
  <2>4. build' = <<>>
    BY <1>1, <2>1, <2>2, NoBuildYet
  <2>5. DOMAIN kept' = KeptFields /\ kept'.frozen = kept.frozen /\ kept'.acsim = ir
    BY <1>1, KeptExcept DEF DriverBody
  <2>6. KeptAfter(request, 6)'
    <3>1. request' = request
      BY <1>1 DEF D!Succeed
    <3>2. kept.frozen = ModuleOf(request, 4)
      BY <2>2 DEF Reached, KeptAfter
    <3>3. QED BY <2>3, <2>4, <2>5, <3>1, <3>2 DEF KeptAfter
  <2>7. DueEmitted(request, 6) = IfAsked(request, "acsim", "model.acsim.mlir", ir)
    BY <2>3 DEF DueEmitted
  <2>8. QED BY <1>1, <2>1, <2>3, <2>4, <2>5, <2>6, <2>7, EmitYields, StageSucceeds
<1>2. QED BY <1>1, EveryFailure DEF D!AcsimVerify

\* cxx-emit keeps the generated sources and emits both files.
LEMMA CxxEmitInv == DriverBody /\ D!CxxEmit => DriverBody'
<1>1. ASSUME DriverBody, D!At("cxx-emit"),
             D!Succeed("cxx-emit", ir, D!Emit("header", "model.h", D!SourcesOf(ir))
                                          \o D!Emit("source", "model.cpp", D!SourcesOf(ir))),
             kept' = [kept EXCEPT !.sources = D!SourcesOf(ir)], build' = build
      PROVE  DriverBody'
  <2>1. D!Stages[7] = "cxx-emit" /\ 7 \in 1..11 /\ 7 \in 1..8 /\ 7 - 1 = 6
    BY StageNames
  <2>2. Reached(request, 6)
    BY <1>1, <2>1, StageAt
  <2>3. ir = ModuleOf(request, 6) /\ ir = ModuleOf(request, 7)
    BY <2>2, ModuleSteps DEF Reached
  <2>4. build' = <<>>
    BY <1>1, <2>1, <2>2, NoBuildYet
  <2>5. /\ DOMAIN kept' = KeptFields /\ kept'.frozen = kept.frozen /\ kept'.acsim = kept.acsim
        /\ kept'.sources = D!SourcesOf(ir)
    BY <1>1, KeptExcept DEF DriverBody
  <2>6. KeptAfter(request, 7)'
    <3>1. request' = request
      BY <1>1 DEF D!Succeed
    <3>2. kept.frozen = ModuleOf(request, 4) /\ kept.acsim = ModuleOf(request, 6)
      BY <2>2 DEF Reached, KeptAfter
    <3>3. QED BY <2>3, <2>4, <2>5, <3>1, <3>2 DEF KeptAfter, D!SourcesOf
  <2> DEFINE H == IfAsked(request, "header", "model.h", D!SourcesOf(ir))
  <2> DEFINE C == IfAsked(request, "source", "model.cpp", D!SourcesOf(ir))
  <2>7. DueEmitted(request, 7) = H \cup C
    BY <2>3 DEF DueEmitted
  <2>8. \A a \in H, b \in C : a.path # b.path
    <3>1. ASSUME NEW a \in H, NEW b \in C PROVE a.path # b.path
      <4>1. a.path = <<"model.h", "">> /\ b.path = <<"model.cpp", "">>
        BY AskedPath
      <4>2. <<"model.h", "">>[1] = "model.h" /\ <<"model.cpp", "">>[1] = "model.cpp"
        OBVIOUS
      <4>3. QED BY <4>1, <4>2
    <3>2. QED BY <3>1
  <2>9. Yields(D!Emit("header", "model.h", D!SourcesOf(ir)), H)
    BY EmitYields
  <2>10. Yields(D!Emit("source", "model.cpp", D!SourcesOf(ir)), C)
    BY EmitYields
  <2> HIDE DEF H, C
  <2>11. Yields(D!Emit("header", "model.h", D!SourcesOf(ir)) \o D!Emit("source", "model.cpp", D!SourcesOf(ir)),
               DueEmitted(request, 7))
    BY <2>7, <2>8, <2>9, <2>10, JoinYields
  <2>12. QED BY <1>1, <2>1, <2>3, <2>4, <2>5, <2>6, <2>11, StageSucceeds
<1>2. QED BY <1>1, EveryFailure DEF D!CxxEmit

\* What createCompilePlan accepts was lowered from the request: the lock it records is the one the model
\* names, also when the caller's lock was kept.
LEMMA MatchingBuild ==
    ASSUME Reached(request, 8), D!FingerprintsMatch(D!BuildInputs)
    PROVE  /\ D!BuildInputs.frozen = ModuleOf(request, 4) /\ D!BuildInputs.acsim = ModuleOf(request, 6)
           /\ D!BuildInputs.module = ModuleOf(request, 6)
           /\ D!BuildInputs.lock.providers = D!BuildInputs.providers
           /\ D!BuildInputs.profile = request.profile
<1> DEFINE b == D!BuildInputs
<1>1. /\ ir = ModuleOf(request, 8) /\ kept.frozen = ModuleOf(request, 4) /\ kept.acsim = ModuleOf(request, 6)
  BY DEF Reached, KeptAfter
<1>2. b.frozen = kept.frozen /\ b.acsim = kept.acsim /\ b.module = ir
  BY DEF D!BuildInputs
<1>3. ModuleOf(request, 8) = ModuleOf(request, 6)
  BY ModuleSteps
<1>4. D!Last(ir) = Lowering(request)
  <2>1. ir = <<request.acir, NormalPass(request), "canonicalize", "cse", "freeze", Lowering(request)>>
    BY <1>1 DEF ModuleOf
  <2>2. Len(ir) = 6 /\ ir[6] = Lowering(request)
    BY <2>1
  <2>3. QED BY <2>2 DEF D!Last
<1>5. /\ b.lock = D!Last(b.module).lock /\ b.profile = D!Last(b.module).profile
      /\ b.providers = D!Last(b.module).providers
  BY DEF D!FingerprintsMatch
<1>6. /\ Lowering(request).lock.providers = request.selections /\ Lowering(request).providers = request.selections
      /\ Lowering(request).profile = request.profile
  BY DEF Lowering
<1> HIDE DEF b
<1>7. /\ b.frozen = ModuleOf(request, 4) /\ b.acsim = ModuleOf(request, 6) /\ b.module = ModuleOf(request, 6)
      /\ b.lock.providers = b.providers /\ b.profile = request.profile
  BY <1>1, <1>2, <1>3, <1>4, <1>5, <1>6
<1>8. QED BY <1>7 DEF b

\* compile: the build it records is consistent.
LEMMA CompileInv == DriverBody /\ D!Compile => DriverBody'
<1>1. ASSUME DriverBody, D!At("compile"), D!FingerprintsMatch(D!BuildInputs), build' = <<D!BuildInputs>>,
             D!Succeed("compile", ir, <<>>), kept' = kept
      PROVE  DriverBody'
  <2>1. D!Stages[9] = "compile" /\ 9 \in 1..11 /\ 9 - 1 = 8
    BY StageNames
  <2>2. Reached(request, 8)
    BY <1>1, <2>1, StageAt
  <2>3. ir = ModuleOf(request, 9) /\ request' = request
    BY <1>1, <2>2, ModuleSteps DEF Reached, D!Succeed
  <2>4. KeptAfter(request, 9)'
    BY <1>1, <2>2, <2>3 DEF Reached, KeptAfter
  <2>5. DOMAIN kept' = KeptFields
    BY <1>1 DEF DriverBody
  <2>6. BuiltFrom(request, build[1])'
    <3>1. build'[1] = D!BuildInputs
      BY <1>1
    <3>2. kept'.sources = D!SourcesOf(ModuleOf(request, 6))
      BY <1>1, <2>2 DEF Reached, KeptAfter
    <3>3. D!BuildInputs.module = ModuleOf(request, 6)
      BY <1>1, <2>2, MatchingBuild
    <3>4. QED BY <1>1, <2>2, <2>3, <3>1, <3>2, <3>3, MatchingBuild DEF BuiltFrom, D!SourcesOf
  <2>7. DueEmitted(request, 9) = {}
    BY DEF DueEmitted
  <2>8. QED BY <1>1, <2>1, <2>3, <2>4, <2>5, <2>6, <2>7, YieldsNone, StageSucceeds
<1>2. QED BY <1>1, EveryFailure DEF D!Compile

\* publish emits the executable of the build.
LEMMA PublishStageInv == DriverBody /\ D!Publish => DriverBody'
<1>1. ASSUME DriverBody, D!At("publish"), build # <<>>,
             D!Succeed("publish", ir, D!Emit("executable", "bin/model", D!ExecutableOf(build[1]))),
             UNCHANGED <<kept, build>>
      PROVE  DriverBody'
  <2>1. D!Stages[11] = "publish" /\ 11 \in 1..11 /\ 11 - 1 = 10
    BY StageNames
  <2>2. Reached(request, 10)
    BY <1>1, <2>1, StageAt
  <2>3. ir = ModuleOf(request, 11) /\ request' = request /\ kept' = kept /\ build' = build
    BY <1>1, <2>2, ModuleSteps DEF Reached, D!Succeed
  <2>4. KeptAfter(request, 11)'
    BY <2>2, <2>3 DEF Reached, KeptAfter
  <2>5. DOMAIN kept' = KeptFields
    BY <2>3, <1>1 DEF DriverBody
  <2>6. build' # <<>> => BuiltFrom(request, build[1])'
    BY <2>3, <1>1 DEF DriverBody, BuiltFrom
  <2>7. D!ExecutableOf(build[1]) = <<"executable", ModuleOf(request, 6)>>
    BY <1>1 DEF DriverBody, BuiltFrom, D!ExecutableOf
  <2>8. DueEmitted(request, 11) = IfAsked(request, "executable", "bin/model", D!ExecutableOf(build[1]))
    BY <2>7 DEF DueEmitted
  <2>9. QED BY <1>1, <2>1, <2>3, <2>4, <2>5, <2>6, <2>8, EmitYields, StageSucceeds
<1>2. QED BY <1>1, EveryFailure DEF D!Publish

\* The verifier that runs after each stage.
LEMMA VerifyEachInv == DriverBody /\ D!VerifyAfterEach => DriverBody'
BY EveryFailure DEF D!VerifyAfterEach

\* runCompiler: from nothing to the first stage.
LEMMA BeginInv == DriverBody /\ D!runCompiler => DriverBody'
<1>1. ASSUME DriverBody, result = "new", D!Accepted(request), result' = "running",
             pipeline' = D!selectPipeline(request), NEW v, kept' = [kept EXCEPT !.lock = v],
             UNCHANGED <<request, ir, artifacts, build, diagnostics>>
      PROVE  DriverBody'
  <2>1. request \in CompilerRequests /\ DOMAIN kept = KeptFields /\ ir = <<>> /\ artifacts = <<>> /\ build = <<>>
    BY <1>1 DEF DriverBody
  <2>2. request' = request /\ ir' = <<>> /\ artifacts' = <<>> /\ build' = <<>>
    BY <1>1, <2>1
  <2>3. DOMAIN kept' = KeptFields
    BY <1>1, <2>1, KeptExcept
  <2>4. /\ Length(request) \in 1..11
        /\ pipeline' \in Seq(StageNameSet) /\ Len(pipeline') = Length(request)
        /\ \A i \in 1..Length(request) : pipeline'[i] = D!Stages[i]
    BY <1>1, <2>1, Selected
  <2>5. Remaining(request, 0)'
    <3>1. /\ Length(request) - 0 = Length(request)
          /\ \A i \in 1..Length(request) : 0 + i = i
      BY <2>4
    <3>2. QED BY <2>2, <2>4, <3>1 DEF Remaining
  <2>6. KeptAfter(request, 0)'
    BY <2>2 DEF KeptAfter
  <2>7. Yields(artifacts, DueUpTo(request, 0))'
    BY <2>2, NothingDue, YieldsNone
  <2>8. Reached(request, 0)'
    BY <2>2, <2>5, <2>6, <2>7, NoModuleYet DEF Reached
  <2>9. 0 \in 0..(Length(request') - 1)
    BY <2>2, <2>4
  <2>10. (\E k \in 0..(Length(request) - 1) : Reached(request, k))'
    BY <2>8, <2>9
  <2>11. QED BY <1>1, <2>1, <2>2, <2>3, <2>10 DEF DriverBody
<1>2. QED BY <1>1, EveryFailure DEF D!runCompiler


\* A kind that is accepted has its stage in the pipeline (validateRequest).
LEMMA AcceptedKinds ==
    ASSUME request \in CompilerRequests, D!Accepted(request)
    PROVE  /\ D!Requested("acir") => 4 <= Length(request)
           /\ D!Requested("acsim") => 6 <= Length(request)
           /\ D!Requested("header") => 7 <= Length(request)
           /\ D!Requested("source") => 7 <= Length(request)
           /\ D!Requested("executable") => 11 <= Length(request)
<1> DEFINE sel == D!selectPipeline(request)
<1>1. /\ Length(request) \in 1..11 /\ sel \in Seq(StageNameSet) /\ Len(sel) = Length(request)
      /\ \A i \in 1..Length(request) : sel[i] = D!Stages[i]
  BY Selected
<1>2. D!Ordinal(D!Last(sel)) = Length(request)
  <2>1. D!Last(sel) = D!Stages[Length(request)]
    BY <1>1 DEF D!Last
  <2>2. QED BY <1>1, <2>1, OrdinalOfStage
<1>3. \A kind \in D!ToSet(request.emits) : D!Ordinal(D!Required(kind)) <= Length(request)
  <2>1. \A kind \in D!ToSet(request.emits) : D!Ordinal(D!Required(kind)) <= D!Ordinal(D!Last(sel))
    BY DEF D!Accepted, D!validateRequest
  <2>2. QED BY <2>1, <1>2
<1>4. /\ D!Required("acir") = D!Stages[4] /\ D!Required("acsim") = D!Stages[6]
      /\ D!Required("header") = D!Stages[7] /\ D!Required("source") = D!Stages[7]
      /\ D!Required("executable") = D!Stages[11]
  BY StageNames DEF D!Required
<1>5. /\ D!Ordinal(D!Stages[4]) = 4 /\ D!Ordinal(D!Stages[6]) = 6 /\ D!Ordinal(D!Stages[7]) = 7
      /\ D!Ordinal(D!Stages[11]) = 11
  BY OrdinalOfStage
<1>6. QED BY <1>3, <1>4, <1>5 DEF D!Requested

\* The names in the pipeline.
LEMMA SelectedNames ==
    ASSUME request \in CompilerRequests, D!Accepted(request)
    PROVE  D!ToSet(D!selectPipeline(request)) = {D!Stages[i] : i \in 1..Length(request)}
<1> DEFINE sel == D!selectPipeline(request)
<1>1. /\ Length(request) \in 1..11 /\ sel \in Seq(StageNameSet) /\ Len(sel) = Length(request)
      /\ \A i \in 1..Length(request) : sel[i] = D!Stages[i]
  BY Selected
<1>2. DOMAIN sel = 1..Length(request)
  BY <1>1
<1>3. QED BY <1>1, <1>2 DEF D!ToSet

\* The artifact of a kind, as Asked states it.
AskedOf(kind, file, bytes) == {D!Artifact(<<file, "">>, bytes) : k \in {x \in {kind} : D!Requested(x)}}

\* A kind that is asked for.
LEMMA AskedOne ==
    ASSUME NEW kind, NEW file, NEW bytes
    PROVE  AskedOf(kind, file, bytes) = IfAsked(request, kind, file, bytes)
BY DEF AskedOf, D!Requested, IfAsked

\* The emitted artifacts that the request asks for, by kind.
AskedEmits ==
    IfAsked(request, "acir", "frozen.ac.mlir", ModuleOf(request, 4))
    \cup IfAsked(request, "acsim", "model.acsim.mlir", ModuleOf(request, 6))
    \cup IfAsked(request, "header", "model.h", D!SourcesOf(ModuleOf(request, 6)))
    \cup IfAsked(request, "source", "model.cpp", D!SourcesOf(ModuleOf(request, 6)))
    \cup IfAsked(request, "executable", "bin/model", <<"executable", ModuleOf(request, 6)>>)
AskedBefores ==
    {D!Artifact(<<s, "before">>, D!ModuleAfter(D!Ordinal(s) - 1)) : s \in D!ToSet(request.before) \ {"acir-parse"}}
AskedAfters ==
    {D!Artifact(<<s, "after">>, D!ModuleAfter(D!Ordinal(s))) :
       s \in IF request.afterEach THEN D!ToSet(D!selectPipeline(request)) ELSE D!ToSet(request.after)}

\* What a request asks for: artifacts, dumps before and dumps after.
LEMMA AskedParts == D!Emitted = (AskedEmits \cup AskedBefores) \cup AskedAfters
<1>1. D!ModuleAfter(4) = ModuleOf(request, 4) /\ D!ModuleAfter(6) = ModuleOf(request, 6)
  BY ModuleOfRequest
<1>2. D!Emitted = ((((((AskedOf("acir", "frozen.ac.mlir", D!ModuleAfter(4)) \cup AskedOf("acsim", "model.acsim.mlir", D!ModuleAfter(6)))
                 \cup AskedOf("header", "model.h", D!SourcesOf(D!ModuleAfter(6))))
                 \cup AskedOf("source", "model.cpp", D!SourcesOf(D!ModuleAfter(6))))
                 \cup AskedOf("executable", "bin/model", <<"executable", D!ModuleAfter(6)>>)) \cup AskedBefores) \cup AskedAfters)
  BY Zenon DEF D!Emitted, AskedOf, AskedBefores, AskedAfters
<1>3. AskedOf("acir", "frozen.ac.mlir", D!ModuleAfter(4)) = IfAsked(request, "acir", "frozen.ac.mlir", ModuleOf(request, 4))
  BY <1>1, AskedOne
<1>4. AskedOf("acsim", "model.acsim.mlir", D!ModuleAfter(6)) = IfAsked(request, "acsim", "model.acsim.mlir", ModuleOf(request, 6))
  BY <1>1, AskedOne
<1>5. AskedOf("header", "model.h", D!SourcesOf(D!ModuleAfter(6)))
        = IfAsked(request, "header", "model.h", D!SourcesOf(ModuleOf(request, 6)))
  BY <1>1, AskedOne
<1>6. AskedOf("source", "model.cpp", D!SourcesOf(D!ModuleAfter(6)))
        = IfAsked(request, "source", "model.cpp", D!SourcesOf(ModuleOf(request, 6)))
  BY <1>1, AskedOne
<1>7. AskedOf("executable", "bin/model", <<"executable", D!ModuleAfter(6)>>)
        = IfAsked(request, "executable", "bin/model", <<"executable", ModuleOf(request, 6)>>)
  BY <1>1, AskedOne
<1>8. QED BY <1>2, <1>3, <1>4, <1>5, <1>6, <1>7 DEF AskedEmits

\* The artifacts asked for are those the stages of the pipeline owe.
LEMMA EmitsAreDue ==
    ASSUME request \in CompilerRequests, D!Accepted(request)
    PROVE  AskedEmits = UNION {DueEmitted(request, j) : j \in 1..Length(request)}
<1> DEFINE l == Length(request)
<1>1. l \in 1..11
  BY Selected
<1>2. /\ DueEmitted(request, 4) = IfAsked(request, "acir", "frozen.ac.mlir", ModuleOf(request, 4))
      /\ DueEmitted(request, 6) = IfAsked(request, "acsim", "model.acsim.mlir", ModuleOf(request, 6))
      /\ DueEmitted(request, 7) = IfAsked(request, "header", "model.h", D!SourcesOf(ModuleOf(request, 6)))
                                    \cup IfAsked(request, "source", "model.cpp", D!SourcesOf(ModuleOf(request, 6)))
      /\ DueEmitted(request, 11) = IfAsked(request, "executable", "bin/model", <<"executable", ModuleOf(request, 6)>>)
  BY DEF DueEmitted
<1>3. \A j \in 1..11 : j \notin {4, 6, 7, 11} => DueEmitted(request, j) = {}
  BY DEF DueEmitted
<1>4. /\ DueEmitted(request, 4) # {} => 4 <= l
      /\ DueEmitted(request, 6) # {} => 6 <= l
      /\ DueEmitted(request, 7) # {} => 7 <= l
      /\ DueEmitted(request, 11) # {} => 11 <= l
  BY <1>2, AcceptedKinds DEF IfAsked, D!Requested
<1>5. AskedEmits = ((DueEmitted(request, 4) \cup DueEmitted(request, 6)) \cup DueEmitted(request, 7))
                      \cup DueEmitted(request, 11)
  BY <1>2 DEF AskedEmits
<1> HIDE DEF l
<1>6. ASSUME NEW a \in AskedEmits PROVE \E j \in 1..l : a \in DueEmitted(request, j)
  <2>1. CASE a \in DueEmitted(request, 4)
    BY <2>1, <1>1, <1>4
  <2>2. CASE a \in DueEmitted(request, 6)
    BY <2>2, <1>1, <1>4
  <2>3. CASE a \in DueEmitted(request, 7)
    BY <2>3, <1>1, <1>4
  <2>4. CASE a \in DueEmitted(request, 11)
    BY <2>4, <1>1, <1>4
  <2>5. QED BY <2>1, <2>2, <2>3, <2>4, <1>5
<1>7. ASSUME NEW j \in 1..l, NEW a \in DueEmitted(request, j) PROVE a \in AskedEmits
  <2>1. j \in {4, 6, 7, 11}
    BY <1>1, <1>3
  <2>2. QED BY <2>1, <1>5
<1>8. AskedEmits = UNION {DueEmitted(request, j) : j \in 1..l}
  BY <1>6, <1>7
<1>9. QED BY <1>8 DEF l

\* The dumps asked for before a stage are those the pipeline owes.
LEMMA BeforesAreDue ==
    ASSUME request \in CompilerRequests, D!Accepted(request)
    PROVE  AskedBefores = UNION {DueBefore(request, j) : j \in 1..Length(request)}
<1> DEFINE l == Length(request)
<1>1. l \in 1..11
  BY Selected
<1>2. \A s \in D!ToSet(request.before) : \E i \in 1..l : s = D!Stages[i]
  BY SelectedNames DEF D!Accepted, D!validateRequest, D!DumpsValid
<1> HIDE DEF l
<1>3. ASSUME NEW a \in AskedBefores PROVE \E j \in 1..l : a \in DueBefore(request, j)
  <2>1. PICK s \in D!ToSet(request.before) \ {"acir-parse"} :
            a = D!Artifact(<<s, "before">>, D!ModuleAfter(D!Ordinal(s) - 1))
    BY DEF AskedBefores
  <2>2. PICK i \in 1..l : s = D!Stages[i]
    BY <1>2
  <2>3. i # 1
    BY <2>1, <2>2, StageNames
  <2>4. i \in 1..11 /\ i > 1 /\ i - 1 \in 0..11
    BY <1>1, <2>3
  <2>5. D!Ordinal(s) = i
    BY <2>2, <2>4, OrdinalOfStage
  <2>6. a = D!Artifact(<<D!Stages[i], "before">>, ModuleOf(request, i - 1))
    BY <2>1, <2>2, <2>4, <2>5, ModuleOfRequest
  <2>7. a \in DueBefore(request, i)
    BY <2>2, <2>4, <2>6 DEF DueBefore
  <2>8. QED BY <2>7
<1>4. ASSUME NEW j \in 1..l, NEW a \in DueBefore(request, j) PROVE a \in AskedBefores
  <2>1. /\ j > 1 /\ D!Stages[j] \in D!ToSet(request.before)
        /\ a = D!Artifact(<<D!Stages[j], "before">>, ModuleOf(request, j - 1))
    BY DEF DueBefore
  <2>2. j \in 1..11 /\ 1 \in 1..11 /\ j # 1 /\ j - 1 \in 0..11
    BY <1>1, <2>1
  <2>3. D!Stages[j] # "acir-parse"
    BY <2>2, StageNames, StagesDiffer
  <2>4. D!Ordinal(D!Stages[j]) = j /\ D!ModuleAfter(j - 1) = ModuleOf(request, j - 1)
    BY <2>2, OrdinalOfStage, ModuleOfRequest
  <2>5. QED BY <2>1, <2>3, <2>4 DEF AskedBefores
<1>5. AskedBefores = UNION {DueBefore(request, j) : j \in 1..l}
  BY <1>3, <1>4
<1>6. QED BY <1>5 DEF l

\* The dumps asked for after a stage, or after each, are those the pipeline owes.
LEMMA AftersAreDue ==
    ASSUME request \in CompilerRequests, D!Accepted(request)
    PROVE  AskedAfters = UNION {DueAfter(request, j) : j \in 1..Length(request)}
<1> DEFINE l == Length(request)
<1> DEFINE T == IF request.afterEach THEN D!ToSet(D!selectPipeline(request)) ELSE D!ToSet(request.after)
<1>1. l \in 1..11
  BY Selected
<1>2. \A s \in T : \E i \in 1..l : s = D!Stages[i]
  BY SelectedNames DEF D!Accepted, D!validateRequest, D!DumpsValid
<1>3. \A i \in 1..l : D!Stages[i] \in T <=> (request.afterEach \/ D!Stages[i] \in D!ToSet(request.after))
  <2>1. CASE request.afterEach
    BY <2>1, SelectedNames
  <2>2. CASE ~request.afterEach
    BY <2>2
  <2>3. QED BY <2>1, <2>2
<1>4. AskedAfters = {D!Artifact(<<s, "after">>, D!ModuleAfter(D!Ordinal(s))) : s \in T}
  BY DEF AskedAfters
<1> HIDE DEF l, T
<1>5. ASSUME NEW a \in AskedAfters PROVE \E j \in 1..l : a \in DueAfter(request, j)
  <2>1. PICK s \in T : a = D!Artifact(<<s, "after">>, D!ModuleAfter(D!Ordinal(s)))
    BY <1>4
  <2>2. PICK i \in 1..l : s = D!Stages[i]
    BY <1>2
  <2>3. i \in 1..11 /\ i \in 0..11
    BY <1>1
  <2>4. D!Ordinal(s) = i
    BY <2>2, <2>3, OrdinalOfStage
  <2>5. a = D!Artifact(<<D!Stages[i], "after">>, ModuleOf(request, i))
    BY <2>1, <2>2, <2>3, <2>4, ModuleOfRequest
  <2>6. a \in DueAfter(request, i)
    BY <1>3, <2>1, <2>2, <2>5 DEF DueAfter
  <2>7. QED BY <2>6
<1>6. ASSUME NEW j \in 1..l, NEW a \in DueAfter(request, j) PROVE a \in AskedAfters
  <2>1. /\ request.afterEach \/ D!Stages[j] \in D!ToSet(request.after)
        /\ a = D!Artifact(<<D!Stages[j], "after">>, ModuleOf(request, j))
    BY DEF DueAfter
  <2>2. j \in 1..11 /\ j \in 0..11
    BY <1>1
  <2>3. D!Ordinal(D!Stages[j]) = j /\ D!ModuleAfter(j) = ModuleOf(request, j)
    BY <2>2, OrdinalOfStage, ModuleOfRequest
  <2>4. D!Stages[j] \in T
    BY <1>3, <2>1
  <2>5. QED BY <1>4, <2>1, <2>3, <2>4
<1>7. AskedAfters = UNION {DueAfter(request, j) : j \in 1..l}
  BY <1>5, <1>6
<1>8. QED BY <1>7 DEF l

\* What an accepted request asks for is what the stages of its pipeline owe, together.
LEMMA AskedIsDue ==
    ASSUME request \in CompilerRequests, D!Accepted(request)
    PROVE  D!Emitted = DueUpTo(request, Length(request))
BY AskedParts, EmitsAreDue, BeforesAreDue, AftersAreDue DEF DueUpTo, Due

\* No stage emits a report or names a dump like one.
LEMMA NoReportEmitted ==
    ASSUME NEW a \in D!Emitted
    PROVE  a \notin D!Reports
<1>1. \A x, y : D!Artifact(x, y).path = x
  BY DEF D!Artifact
<1>2. ASSUME NEW r \in D!Reports PROVE r.path = <<"report", "">>
  <2>1. r = D!Artifact(<<"report", "">>, D!ModuleAfter(8))
    BY Zenon DEF D!Reports
  <2> QED
    BY <1>1, <2>1
<1>3. \/ a.path \in {<<"frozen.ac.mlir", "">>, <<"model.acsim.mlir", "">>, <<"model.h", "">>, <<"model.cpp", "">>,
                    <<"bin/model", "">>}
      \/ \E s : a.path = <<s, "before">> \/ a.path = <<s, "after">>
  <2>1. CASE a \in AskedBefores \cup AskedAfters
    <3>1. \E s, c : a = D!Artifact(<<s, "before">>, c) \/ a = D!Artifact(<<s, "after">>, c)
      BY <2>1, Zenon DEF AskedBefores, AskedAfters
    <3>2. PICK s, c : a = D!Artifact(<<s, "before">>, c) \/ a = D!Artifact(<<s, "after">>, c)
      BY <3>1
    <3>3. a.path = <<s, "before">> \/ a.path = <<s, "after">>
      BY <1>1, <3>2, Zenon
    <3> QED
      BY <3>3, Zenon
  <2>2. CASE \E kind, content :
               \/ a \in AskedOf(kind, "frozen.ac.mlir", content) \/ a \in AskedOf(kind, "model.acsim.mlir", content)
               \/ a \in AskedOf(kind, "model.h", content) \/ a \in AskedOf(kind, "model.cpp", content)
               \/ a \in AskedOf(kind, "bin/model", content)
    <3>1. \A kind, file, content, x : x \in AskedOf(kind, file, content) => x.path = <<file, "">>
      BY <1>1, Zenon DEF AskedOf
    <3> QED
      BY <2>2, <3>1, Zenon
  <2> QED
    BY <2>1, <2>2, Zenon DEF D!Emitted, AskedOf, AskedBefores, AskedAfters
<1>4. a.path # <<"report", "">>
  <2>1. \A x, y, u, v : <<x, y>> = <<u, v>> => x = u /\ y = v
    OBVIOUS
  <2>2. "" # "before" /\ "" # "after" /\ "report" \notin {"frozen.ac.mlir", "model.acsim.mlir", "model.h", "model.cpp", "bin/model"}
    OBVIOUS
  <2> QED
    BY <1>3, <2>1, <2>2, Zenon
<1> QED
  BY <1>2, <1>4

\* The invariant is strong enough.
LEMMA DriverBodySound == DriverBody => D!RequestHonoured /\ D!BuildConsistent
<1> SUFFICES ASSUME DriverBody PROVE D!RequestHonoured /\ D!BuildConsistent
  OBVIOUS
<1>1. ASSUME result = "done"
      PROVE  /\ D!ToSet(artifacts) = D!Asked \ D!Reports
             /\ \A i, j \in DOMAIN artifacts : artifacts[i].path = artifacts[j].path => i = j
  <2>1. request \in CompilerRequests /\ D!Accepted(request) /\ Reached(request, Length(request))
    BY <1>1 DEF DriverBody
  <2>2. Yields(artifacts, D!Emitted)
    BY <2>1, AskedIsDue DEF Reached
  <2>3. D!Emitted = D!Asked \ D!Reports
    BY NoReportEmitted DEF D!Asked
  <2>4. QED BY <2>2, <2>3 DEF Yields
<1>2. D!RequestHonoured
  BY <1>1 DEF D!RequestHonoured, DriverBody
<1>3. D!ModuleAfter(4) = ModuleOf(request, 4) /\ D!ModuleAfter(6) = ModuleOf(request, 6)
  BY ModuleOfRequest
<1>4. D!BuildConsistent
  BY <1>3 DEF D!BuildConsistent, DriverBody, BuiltFrom
<1>5. QED BY <1>2, <1>4

\* Every step of the driver preserves the invariant.
LEMMA DriverStepInv == DriverBody /\ D!DriverNext => DriverBody'
BY BeginInv, ParseInv, VerifyInv, NormalizeInv, FreezeInv, LowerInv, AcsimVerifyInv, CxxEmitInv, ContractInv,
   CompileInv, LinkStageInv, PublishStageInv, VerifyEachInv DEF D!DriverNext

\* The invariant holds at first.
LEMMA DriverInitInv == D!DriverInit => DriverBody
BY DEF D!DriverInit, DriverBody, KeptFields

\* The invariant is about the variables of the driver alone.
LEMMA DriverBodyStutters ==
    DriverBody /\ UNCHANGED <<artifacts, result, driverOnly>> => DriverBody'
<1> SUFFICES ASSUME DriverBody, UNCHANGED <<artifacts, result, driverOnly>> PROVE DriverBody'
  OBVIOUS
<1>1. /\ request' = request /\ kept' = kept /\ build' = build /\ result' = result /\ ir' = ir
      /\ artifacts' = artifacts /\ pipeline' = pipeline /\ diagnostics' = diagnostics
  BY DEF driverOnly
<1>2. \A k : Reached(request, k)' = Reached(request, k)
  BY <1>1 DEF Reached, Remaining, KeptAfter
<1>3. D!FailureTold' = D!FailureTold
  BY <1>1 DEF D!FailureTold
<1>4. QED BY <1>1, <1>2, <1>3 DEF DriverBody, BuiltFrom

\* The invariant of the driver, of the composed toolchain.
LEMMA DriverInvHolds == ToolchainSpec => []DriverInv
<1>1. ToolchainInit => DriverInv
  BY DriverInitInv DEF ToolchainInit, DriverInv
<1>2. DriverInv /\ [ToolchainNext]_all => DriverInv'
  <2> SUFFICES ASSUME DriverInv, [ToolchainNext]_all, program' = "driver" PROVE DriverBody'
    BY DEF DriverInv
  <2>1. CASE UNCHANGED all
    <3>1. program = "driver" /\ UNCHANGED <<artifacts, result, driverOnly>>
      BY <2>1 DEF all
    <3>2. QED BY <3>1, DriverBodyStutters DEF DriverInv
  <2>2. CASE ToolchainNext
    <3>1. program = "driver" /\ D!DriverNext
      BY <2>2 DEF ToolchainNext
    <3>2. QED BY <3>1, DriverStepInv DEF DriverInv
  <2>3. QED BY <2>1, <2>2
<1>3. QED BY <1>1, <1>2, PTL DEF ToolchainSpec

\* A compilation that ends well returns exactly what its request asks for except a report, which is accepted
\* and never emitted, no path twice and each with the module of its stage; one that fails has an error, or the
\* earlier warnings where acsim-verify found no single model; and what is recorded with a build is what its model
\* was lowered from: for any requests and any outcome of every pass (runCompiler, createCompilePlan).
THEOREM DriverSoundTheorem == ToolchainSpec => []DriverSound
<1>1. DriverInv => DriverSound
  BY DriverBodySound DEF DriverInv, DriverSound
<1>2. QED BY <1>1, DriverInvHolds, PTL

-----------------------------------------------------------------------------
(* Binding passes that write one lock file.                                *)

\* A flushed temporary holds the whole lock of its pass, and so does the file.
PassesStand ==
    /\ \A p \in Passes : phase[p] = "flushed" => temp[p] = B!Whole(outcome[p].lock)
    /\ B!LockWhole
    /\ phase \in [Passes -> {"start", "parsed", "failed", "resolved", "writing", "flushed", "published", "killed"}]
    /\ DOMAIN outcome = Passes /\ DOMAIN temp = Passes

\* Every step of two binding passes keeps it: whoever renames has flushed all it wrote.
LEMMA PassesStep == PassesStand /\ B!Next => PassesStand'
<1> SUFFICES ASSUME PassesStand, NEW p \in Passes,
                    \/ B!ParseRegistry(p) \/ B!RunPass(p) \/ B!WriteTemporary(p)
                    \/ B!FlushTemporary(p) \/ B!Publish(p) \/ B!Killed(p)
             PROVE  PassesStand'
  BY DEF B!Next
<1>1. CASE B!ParseRegistry(p)
  BY <1>1 DEF B!ParseRegistry, PassesStand, B!LockWhole
<1>2. CASE B!RunPass(p)
  <2>1. PICK out, next : /\ phase[p] = "parsed" /\ next \in {"resolved", "failed"}
                         /\ outcome' = [outcome EXCEPT ![p] = out] /\ phase' = [phase EXCEPT ![p] = next]
                         /\ temp' = temp /\ path' = path
    BY <1>2 DEF B!RunPass
  <2>2. QED BY <2>1 DEF PassesStand, B!LockWhole
<1>3. CASE B!WriteTemporary(p)
  BY <1>3 DEF B!WriteTemporary, PassesStand, B!LockWhole
<1>4. CASE B!FlushTemporary(p)
  BY <1>4 DEF B!FlushTemporary, PassesStand, B!LockWhole
<1>5. CASE B!Publish(p)
  BY <1>5 DEF B!Publish, PassesStand, B!LockWhole
<1>6. CASE B!Killed(p)
  BY <1>6 DEF B!Killed, PassesStand, B!LockWhole
<1>7. QED BY <1>1, <1>2, <1>3, <1>4, <1>5, <1>6

\* It holds before a pass has started.
LEMMA PassesInit == B!Init => PassesStand
BY DEF B!Init, PassesStand, B!LockWhole

PassesInv == program = "bindings" => PassesStand

\* However many binding passes write one lock file at a time, and wherever each is killed, the file is absent
\* or the whole lock of one pass (writeLockFile: temporary, flush, rename).
THEOREM LockWholeTheorem == ToolchainSpec => [](program = "bindings" => B!LockWhole)
<1>1. ToolchainInit => PassesInv
  BY PassesInit DEF ToolchainInit, PassesInv
<1>2. PassesInv /\ [ToolchainNext]_all => PassesInv'
  <2> SUFFICES ASSUME PassesInv, [ToolchainNext]_all, program' = "bindings" PROVE PassesStand'
    BY DEF PassesInv
  <2>1. CASE UNCHANGED all
    <3>1. program = "bindings" /\ phase' = phase /\ outcome' = outcome /\ temp' = temp /\ path' = path
      BY <2>1 DEF all, bindingsOnly
    <3>2. QED BY <3>1 DEF PassesInv, PassesStand, B!LockWhole
  <2>2. CASE ToolchainNext
    <3>1. program = "bindings" /\ B!Next
      BY <2>2 DEF ToolchainNext
    <3>2. QED BY <3>1, PassesStep DEF PassesInv
  <2>3. QED BY <2>1, <2>2
<1>3. PassesInv => (program = "bindings" => B!LockWhole)
  BY DEF PassesInv, PassesStand
<1>4. QED BY <1>1, <1>2, <1>3, PTL DEF ToolchainSpec

-----------------------------------------------------------------------------
(* A run of a model: the barrier of its epochs, the report, the statistics *)
(* and the accounts of its queue.                                          *)

\* An operation of the process in its Work phase.
ProcessWorks ==
    \/ \E v \in Values : M!PushValue(v)
    \/ M!PopValue
    \/ \E i \in 0..Entries, p \in 0..ReadPorts : M!ReadCell(i, p)
    \/ \E i \in 0..Entries, v \in Values, p \in 0..WritePorts : M!ProposeWrite(i, v, p)
    \/ \E n \in Amounts : M!AddStatistic(n)
    \/ \E n \in Amounts : M!ObserveStatistic(n)
    \/ \E n \in Amounts : M!SetStatistic(n)
    \/ \E name \in {"start", "end"}, f \in FlowIds : M!EmitFlow(name, f)

\* A step of the harness that leaves the model alone.
HarnessSteps ==
    \/ M!Preflight \/ M!EndRun \/ M!CreateStage \/ M!CreateFile \/ M!WriteStatistics \/ M!WriteEvents \/ M!WriteValidation
    \/ M!WriteResult \/ M!WriteFails \/ M!Killed

\* A step of a run is work of the process, the commit of an epoch or a step of the harness.
LEMMA RunSteps == M!Next => ProcessWorks \/ M!CommitEpoch \/ HarnessSteps
BY DEF M!Next, ProcessWorks, HarnessSteps

\* The harness changes nothing of the model.
LEMMA HarnessFrame ==
    ASSUME HarnessSteps
    PROVE  /\ proposals' = proposals /\ participants' = participants /\ time' = time /\ manifest' = manifest
           /\ queue' = queue /\ array' = array /\ counter' = counter /\ histogram' = histogram /\ gauge' = gauge
           /\ recorder' = recorder /\ ledger' = ledger
           /\ phase' = "work" => phase = "load"
BY DEF HarnessSteps, M!Publishing, M!Preflight, M!EndRun, M!CreateStage, M!CreateFile, M!WriteStatistics, M!WriteEvents, M!WriteValidation,
       M!WriteResult, M!WriteFails, M!Killed, M!modelVars

\* The barrier: whoever touched the array in this epoch is registered.
ArrayFresh ==
    (\A p \in DOMAIN array.reads : array.reads[p] = M!Free) /\ array.used = {} /\ array.writes = <<>>
BarrierStands ==
    /\ phase = "load" => proposals = 0 /\ participants = {}
    /\ phase = "work" => proposals \in Nat /\ (proposals = 0 => participants = {})
    /\ phase \in {"load", "work"} => (M!ArrayId \notin participants => ArrayFresh)

\* The commit of the array frees its ports (StateArray::doXfer).
LEMMA ArrayXferFresh == M!ArrayXfer(array) = array' => ArrayFresh'
BY DEF M!ArrayXfer, ArrayFresh

\* An operation that touches the array registers it, also when it only reads (StateArray::ensureRegistered).
LEMMA BarrierWorks == BarrierStands /\ ProcessWorks => BarrierStands'
<1> SUFFICES ASSUME BarrierStands, ProcessWorks PROVE BarrierStands'
  OBVIOUS
<1>1. PICK ids : /\ M!Work(ids)
                 /\ array' = array \/ M!ArrayId \in ids
  BY DEF ProcessWorks, M!PushValue, M!PopValue, M!ReadCell, M!ProposeWrite, M!AddStatistic, M!ObserveStatistic,
         M!SetStatistic, M!EmitFlow
<1>2. /\ phase = "work" /\ phase' = "work" /\ proposals' = proposals + 1 /\ participants' = participants \cup ids
  BY <1>1 DEF M!Work
<1>3. proposals' \in Nat /\ proposals' # 0
  BY <1>2 DEF BarrierStands
<1>4. M!ArrayId \notin participants' => ArrayFresh'
  BY <1>1, <1>2 DEF BarrierStands, ArrayFresh
<1>5. QED BY <1>2, <1>3, <1>4 DEF BarrierStands

\* After the commit nobody is registered and every port is free.
LEMMA BarrierCommits == BarrierStands /\ M!CommitEpoch => BarrierStands'
<1> SUFFICES ASSUME BarrierStands, M!CommitEpoch PROVE BarrierStands'
  OBVIOUS
<1>1. CASE phase' = "ended"
  BY <1>1 DEF BarrierStands
<1>2. CASE phase' # "ended"
  <2>0. PICK scheduled \in SUBSET {M!CounterId, M!HistogramId, M!GaugeId} :
          /\ phase = "work" /\ phase' = phase /\ participants' = {} /\ proposals' = 0
          /\ array' = IF M!ArrayId \in participants \cup {M!Process} \cup scheduled THEN M!ArrayXfer(array) ELSE array
    BY <1>2 DEF M!CommitEpoch, M!Fail
  <2>1. /\ phase = "work" /\ phase' = phase /\ participants' = {} /\ proposals' = 0
        /\ array' = IF M!ArrayId \in participants THEN M!ArrayXfer(array) ELSE array
    BY <2>0 DEF M!ArrayId, M!Process, M!CounterId, M!HistogramId, M!GaugeId
  <2>3. ArrayFresh'
    BY <2>1, ArrayXferFresh DEF BarrierStands, ArrayFresh
  <2>4. QED BY <2>1, <2>3 DEF BarrierStands
<1>3. QED BY <1>1, <1>2

\* A new array is fresh.
LEMMA BarrierInit == M!Init => BarrierStands
<1> SUFFICES ASSUME M!Init PROVE BarrierStands
  OBVIOUS
<1>1. array = M!NoArray /\ phase = "load" /\ proposals = 0 /\ participants = {}
  BY DEF M!Init
<1>2. ArrayFresh
  BY <1>1 DEF ArrayFresh, M!NoArray
<1>3. QED BY <1>1, <1>2 DEF BarrierStands

\* Every step keeps the registration.
LEMMA BarrierStep == BarrierStands /\ M!Next => BarrierStands'
<1>1. ASSUME BarrierStands, HarnessSteps PROVE BarrierStands'
  <2>1. /\ proposals' = proposals /\ participants' = participants /\ array' = array
        /\ phase' = "work" => phase = "load"
    BY <1>1, HarnessFrame
  <2>2. phase' # "load"
    BY <1>1 DEF HarnessSteps, M!Publishing, M!Preflight, M!EndRun, M!CreateStage, M!CreateFile, M!WriteStatistics, M!WriteEvents, M!WriteValidation,
       M!WriteResult, M!WriteFails, M!Killed
  <2>3. QED BY <1>1, <2>1, <2>2 DEF BarrierStands, ArrayFresh
<1>2. QED BY <1>1, BarrierWorks, BarrierCommits, RunSteps

\* At the start of an epoch nobody is registered, so the ports are free.
LEMMA BarrierSound == BarrierStands => M!PortsFresh
BY DEF BarrierStands, M!PortsFresh, ArrayFresh

ResultFields == {"status", "reason", "validation", "report", "outputs", "model", "code"}

\* The outcome the model itself gave to a result.
Outcome(r) == M!MakeRunResult(r.model, r.code)
OwnOutcome(r) == r.status = Outcome(r).status /\ r.reason = Outcome(r).reason

\* The verdict of the validation is the one the expectation of the manifest gives.
Judged(r) ==
    /\ (r.validation = "passed") = M!ExpectationMatches(manifest, Outcome(r))
    /\ r.status = "completed" => r.model = "completed"
    /\ r.validation = "passed" => OwnOutcome(r)

\* The files of a directory that were written to their end.
WholeFiles(directory) == {f \in DOMAIN directory : directory[f] # M!Truncated}

\* No result that a reader could take for whole.
NoResult(directory) == "run-result.json" \notin WholeFiles(directory)

\* What each phase of the publication has left in the directory and in the result.
ReportStands ==
    /\ DOMAIN result = ResultFields /\ result.outputs \in Seq(M!Publishing)
    /\ phase \in {"load", "work", "ended"} => stage = manifest.existing
    /\ phase \in {"load", "work", "ended", "stats.json"} => result.outputs = <<>>
    /\ phase \in {"load", "work", "ended", "stats.json", "events.jsonl", "validation-report.json"} => OwnOutcome(result)
    /\ phase \in M!Publishing => M!ToSet(result.outputs) \subseteq WholeFiles(stage) /\ NoResult(stage)
    /\ phase \in {"validation-report.json", "run-result.json"} /\ manifest.eventLog = "jsonl" =>
         "events.jsonl" \in DOMAIN stage /\ stage["events.jsonl"] = M!Whole(recorder.committed)
    /\ phase = "run-result.json" =>
         /\ Judged(result)
         /\ "validation-report.json" \in DOMAIN stage /\ stage["validation-report.json"] = M!Whole(result.validation)
    /\ M!ReportHonest

\* The fields of a result (makeRunResult).
LEMMA MadeResult ==
    ASSUME NEW class, NEW code
    PROVE  /\ M!MakeRunResult(class, code).status = class /\ M!MakeRunResult(class, code).model = class
           /\ M!MakeRunResult(class, code).code = code /\ M!MakeRunResult(class, code).outputs = <<>>
           /\ DOMAIN M!MakeRunResult(class, code) = ResultFields
BY DEF M!MakeRunResult, ResultFields

\* A result as the model made it is its own outcome.
LEMMA OwnResult ==
    ASSUME NEW class, NEW code
    PROVE  OwnOutcome(M!MakeRunResult(class, code))
BY MadeResult DEF OwnOutcome, Outcome

\* The updates of a result that the harness makes.
WithOutputs(r, v) == [r EXCEPT !.outputs = v]
WithVerdict(r, v, w) == [r EXCEPT !.validation = v, !.report = w]
WithStatus(r, v, w) == [r EXCEPT !.status = v, !.reason = w]

\* The fields a result is updated in.
LEMMA ResultHas ==
    ASSUME NEW r, DOMAIN r = ResultFields
    PROVE  /\ "outputs" \in DOMAIN r /\ "validation" \in DOMAIN r /\ "report" \in DOMAIN r /\ "status" \in DOMAIN r
           /\ "reason" \in DOMAIN r /\ "model" \in DOMAIN r /\ "code" \in DOMAIN r
BY DEF ResultFields

\* Listing an output changes nothing else.
LEMMA OutputsSet ==
    ASSUME NEW r, DOMAIN r = ResultFields, NEW v
    PROVE  /\ DOMAIN WithOutputs(r, v) = ResultFields /\ WithOutputs(r, v).outputs = v
           /\ WithOutputs(r, v).status = r.status /\ WithOutputs(r, v).reason = r.reason
           /\ WithOutputs(r, v).validation = r.validation
           /\ WithOutputs(r, v).model = r.model /\ WithOutputs(r, v).code = r.code
BY ResultHas DEF WithOutputs

\* Entering the verdict changes nothing else.
LEMMA VerdictSet ==
    ASSUME NEW r, DOMAIN r = ResultFields, NEW v, NEW w
    PROVE  /\ DOMAIN WithVerdict(r, v, w) = ResultFields /\ WithVerdict(r, v, w).validation = v
           /\ WithVerdict(r, v, w).status = r.status /\ WithVerdict(r, v, w).reason = r.reason
           /\ WithVerdict(r, v, w).outputs = r.outputs
           /\ WithVerdict(r, v, w).model = r.model /\ WithVerdict(r, v, w).code = r.code
BY ResultHas DEF WithVerdict

\* Overruling the status keeps what the model said.
LEMMA StatusSet ==
    ASSUME NEW r, DOMAIN r = ResultFields, NEW v, NEW w
    PROVE  /\ DOMAIN WithStatus(r, v, w) = ResultFields /\ WithStatus(r, v, w).status = v
           /\ WithStatus(r, v, w).outputs = r.outputs
           /\ WithStatus(r, v, w).model = r.model /\ WithStatus(r, v, w).code = r.code
BY ResultHas DEF WithStatus

\* The expectation looks at the status and the reason alone.
LEMMA SameVerdict ==
    ASSUME NEW r, NEW s, r.status = s.status, r.reason = s.reason
    PROVE  M!ExpectationMatches(manifest, r) = M!ExpectationMatches(manifest, s)
BY DEF M!ExpectationMatches

\* An empty directory.
LEMMA NoFiles == DOMAIN <<>> = {} /\ M!ToSet(<<>>) = {}
BY DEF M!ToSet

\* One more file, listed.
LEMMA OneMoreOutput ==
    ASSUME NEW s \in Seq(M!Publishing), NEW name \in M!Publishing, NEW F, M!ToSet(s) \subseteq F
    PROVE  Append(s, name) \in Seq(M!Publishing) /\ M!ToSet(Append(s, name)) \subseteq F \cup {name}
<1>1. /\ Append(s, name) \in Seq(M!Publishing) /\ Len(Append(s, name)) = Len(s) + 1
      /\ \A i \in 1..Len(s) : Append(s, name)[i] = s[i] /\ s[i] \in F
      /\ Append(s, name)[Len(s) + 1] = name
  BY DEF M!ToSet
<1>2. \A i \in DOMAIN Append(s, name) : Append(s, name)[i] \in F \cup {name}
  BY <1>1
<1>3. QED BY <1>1, <1>2 DEF M!ToSet

\* No result in the directory: nothing to be honest about.
LEMMA NoResultHonest ==
    ASSUME NoResult(stage')
    PROVE  M!ReportHonest'
BY DEF M!ReportHonest, NoResult, WholeFiles

\* Before the run the directory is the one the manifest found.
LEMMA ReportInit == M!Init => ReportStands
<1> SUFFICES ASSUME M!Init PROVE ReportStands
  OBVIOUS
<1>1. phase = "load" /\ stage = manifest.existing /\ result = M!MakeRunResult("failed", "")
  BY DEF M!Init
<1>2. DOMAIN result = ResultFields /\ result.outputs = <<>> /\ OwnOutcome(result)
  <2>1. \A class, code : /\ DOMAIN M!MakeRunResult(class, code) = ResultFields
                         /\ M!MakeRunResult(class, code).outputs = <<>>
                         /\ OwnOutcome(M!MakeRunResult(class, code))
    BY MadeResult, OwnResult
  <2>2. PICK class, code : result = M!MakeRunResult(class, code)
    BY <1>1
  <2>3. QED BY <2>1, <2>2
<1>3. M!ReportHonest
  BY <1>1, NoFiles DEF M!ReportHonest
<1>4. <<>> \in Seq(M!Publishing) /\ "load" \notin M!Publishing
  BY DEF M!Publishing
<1>5. QED BY <1>1, <1>2, <1>3, <1>4 DEF ReportStands

\* During the run the directory is not touched.
LEMMA ReportWaits ==
    ASSUME ReportStands, phase \in {"load", "work"}, phase' \in {"load", "work", "ended", "refused"},
           stage' = stage, manifest' = manifest,
           result' = result \/ \E class, code : result' = M!MakeRunResult(class, code)
    PROVE  ReportStands'
<1>1. stage' = manifest'.existing
  BY DEF ReportStands
<1>2. DOMAIN result' = ResultFields /\ result'.outputs = <<>> /\ OwnOutcome(result')
  BY MadeResult, OwnResult DEF ReportStands
<1>3. (OwnOutcome(result))'
  BY <1>2 DEF OwnOutcome, Outcome
<1>4. M!ReportHonest'
  BY <1>1, NoFiles DEF M!ReportHonest
<1>5. <<>> \in Seq(M!Publishing) /\ \A s \in {"load", "work", "ended", "refused"} : s \notin M!Publishing
  BY DEF M!Publishing
<1>6. QED BY <1>1, <1>2, <1>3, <1>4, <1>5 DEF ReportStands

\* publishRunResult begins in an empty directory, or refuses.
LEMMA ReportCreates == ReportStands /\ M!CreateStage => ReportStands'
<1> SUFFICES ASSUME ReportStands, M!CreateStage PROVE ReportStands'
  OBVIOUS
<1>1. /\ phase = "ended" /\ result' = result /\ stage' = stage /\ manifest' = manifest
      /\ phase' = IF stage = <<>> THEN "stats.json" ELSE "refused"
      /\ stage = manifest.existing /\ result.outputs = <<>> /\ OwnOutcome(result)
      /\ DOMAIN result = ResultFields /\ result.outputs \in Seq(M!Publishing)
  BY DEF M!CreateStage, ReportStands
<1>2. (OwnOutcome(result))'
  BY <1>1 DEF OwnOutcome, Outcome
<1>3. M!ReportHonest'
  BY <1>1, NoFiles DEF M!ReportHonest
<1>4. "refused" \notin M!Publishing
  BY DEF M!Publishing
<1>5. phase' = "stats.json" => M!ToSet(result'.outputs) \subseteq WholeFiles(stage') /\ NoResult(stage')
  BY <1>1, NoFiles DEF WholeFiles, NoResult
<1>6. QED BY <1>1, <1>2, <1>3, <1>4, <1>5 DEF ReportStands

\* A file that holds its content is not truncated.
LEMMA WholeIsNotTruncated ==
    ASSUME NEW content
    PROVE  M!Whole(content) # M!Truncated
<1>1. Len(<<content>>) = 1 /\ Len(<<>>) = 0
  OBVIOUS
<1>2. QED BY <1>1 DEF M!Whole, M!Truncated

\* What the end of one exclusive write does to the directory.
LEMMA WrittenFile ==
    ASSUME NEW name, NEW content, M!Written(name, content)
    PROVE  /\ DOMAIN stage' = DOMAIN stage /\ name \in DOMAIN stage /\ stage'[name] = M!Whole(content)
           /\ \A f \in DOMAIN stage : f # name => stage'[f] = stage[f]
           /\ WholeFiles(stage') = WholeFiles(stage) \cup {name}
<1>1. /\ DOMAIN stage' = DOMAIN stage /\ name \in DOMAIN stage /\ stage'[name] = M!Whole(content)
      /\ \A f \in DOMAIN stage : f # name => stage'[f] = stage[f]
  BY DEF M!Written
<1>2. QED BY <1>1, WholeIsNotTruncated DEF WholeFiles

\* The file of a phase is created, and is not whole yet.
LEMMA ReportOpens == ReportStands /\ M!CreateFile => ReportStands'
<1> SUFFICES ASSUME ReportStands, M!CreateFile PROVE ReportStands'
  OBVIOUS
<1>1. /\ phase \in M!Publishing /\ phase \notin DOMAIN stage /\ phase' = phase /\ result' = result
      /\ manifest' = manifest /\ recorder' = recorder
      /\ stage' = [f \in DOMAIN stage \cup {phase} |-> IF f = phase THEN M!Truncated ELSE stage[f]]
  BY DEF M!CreateFile, M!modelVars
<1>2. /\ \A f \in DOMAIN stage : f \in DOMAIN stage' /\ stage'[f] = stage[f]
      /\ WholeFiles(stage') = WholeFiles(stage)
  BY <1>1 DEF WholeFiles
<1>3. NoResult(stage') /\ M!ReportHonest'
  BY <1>1, <1>2, NoResultHonest DEF ReportStands, NoResult
<1>4. (OwnOutcome(result)' <=> OwnOutcome(result)) /\ (Judged(result)' <=> Judged(result))
  BY <1>1 DEF OwnOutcome, Outcome, Judged
<1>5. phase \notin {"load", "work", "ended"}
  BY <1>1 DEF M!Publishing
<1>6. QED BY <1>1, <1>2, <1>3, <1>4, <1>5 DEF ReportStands

\* A written file is listed, and all that are listed are there.
LEMMA OutputListed ==
    ASSUME NEW r, DOMAIN r = ResultFields, r.outputs \in Seq(M!Publishing), NEW name \in M!Publishing,
           M!ToSet(r.outputs) \subseteq WholeFiles(stage), WholeFiles(stage') = WholeFiles(stage) \cup {name},
           result' = M!Output(r, name)
    PROVE  /\ DOMAIN result' = ResultFields /\ result'.outputs \in Seq(M!Publishing)
           /\ M!ToSet(result'.outputs) \subseteq WholeFiles(stage')
           /\ result'.status = r.status /\ result'.reason = r.reason /\ result'.validation = r.validation
           /\ result'.model = r.model /\ result'.code = r.code
<1>1. result' = WithOutputs(r, Append(r.outputs, name))
  BY DEF M!Output, WithOutputs
<1> DEFINE o == Append(r.outputs, name)
<1>2. o \in Seq(M!Publishing) /\ M!ToSet(o) \subseteq WholeFiles(stage')
  BY OneMoreOutput
<1> HIDE DEF o
<1>3. result' = WithOutputs(r, o)
  BY <1>1 DEF o
<1>4. DOMAIN result' = ResultFields /\ result'.outputs = o
  BY <1>3, OutputsSet
<1>5. /\ result'.status = r.status /\ result'.reason = r.reason /\ result'.validation = r.validation
      /\ result'.model = r.model /\ result'.code = r.code
  BY <1>3, OutputsSet
<1>6. QED BY <1>2, <1>4, <1>5

\* stats.json.
LEMMA ReportStatistics == ReportStands /\ M!WriteStatistics => ReportStands'
<1> SUFFICES ASSUME ReportStands, M!WriteStatistics PROVE ReportStands'
  OBVIOUS
<1>1. /\ phase = "stats.json" /\ M!Written("stats.json", "statistics") /\ result' = M!Output(result, "stats.json")
      /\ phase' = IF manifest.eventLog = "jsonl" THEN "events.jsonl" ELSE "validation-report.json"
      /\ manifest' = manifest
  BY DEF M!WriteStatistics
<1>2. "stats.json" \in M!Publishing /\ phase \in M!Publishing
  BY <1>1 DEF M!Publishing
<1>3. /\ DOMAIN result = ResultFields /\ result.outputs \in Seq(M!Publishing) /\ OwnOutcome(result)
      /\ M!ToSet(result.outputs) \subseteq WholeFiles(stage) /\ NoResult(stage)
  BY <1>1, <1>2 DEF ReportStands
<1>4. WholeFiles(stage') = WholeFiles(stage) \cup {"stats.json"}
  BY <1>1, WrittenFile
<1>5. /\ DOMAIN result' = ResultFields /\ result'.outputs \in Seq(M!Publishing)
      /\ M!ToSet(result'.outputs) \subseteq WholeFiles(stage')
      /\ result'.status = result.status /\ result'.reason = result.reason
      /\ result'.model = result.model /\ result'.code = result.code
  BY <1>1, <1>2, <1>3, <1>4, OutputListed
<1>6. (OwnOutcome(result))'
  BY <1>3, <1>5 DEF OwnOutcome, Outcome
<1>7. NoResult(stage') /\ M!ReportHonest'
  BY <1>3, <1>4, NoResultHonest DEF NoResult
<1>8. QED BY <1>1, <1>5, <1>6, <1>7 DEF ReportStands

\* events.jsonl holds the committed log.
LEMMA ReportEvents == ReportStands /\ M!WriteEvents => ReportStands'
<1> SUFFICES ASSUME ReportStands, M!WriteEvents PROVE ReportStands'
  OBVIOUS
<1>1. /\ phase = "events.jsonl" /\ M!Written("events.jsonl", recorder.committed)
      /\ result' = M!Output(result, "events.jsonl")
      /\ phase' = "validation-report.json" /\ manifest' = manifest /\ recorder' = recorder
  BY DEF M!WriteEvents, M!modelVars
<1>2. "events.jsonl" \in M!Publishing /\ phase \in M!Publishing
  BY <1>1 DEF M!Publishing
<1>3. /\ DOMAIN result = ResultFields /\ result.outputs \in Seq(M!Publishing) /\ OwnOutcome(result)
      /\ M!ToSet(result.outputs) \subseteq WholeFiles(stage) /\ NoResult(stage)
  BY <1>1, <1>2 DEF ReportStands
<1>4. /\ WholeFiles(stage') = WholeFiles(stage) \cup {"events.jsonl"} /\ "events.jsonl" \in DOMAIN stage'
      /\ stage'["events.jsonl"] = M!Whole(recorder.committed)
  BY <1>1, WrittenFile
<1>5. /\ DOMAIN result' = ResultFields /\ result'.outputs \in Seq(M!Publishing)
      /\ M!ToSet(result'.outputs) \subseteq WholeFiles(stage')
      /\ result'.status = result.status /\ result'.reason = result.reason
      /\ result'.model = result.model /\ result'.code = result.code
  BY <1>1, <1>2, <1>3, <1>4, OutputListed
<1>6. (OwnOutcome(result))'
  BY <1>3, <1>5 DEF OwnOutcome, Outcome
<1>7. NoResult(stage') /\ M!ReportHonest'
  BY <1>3, <1>4, NoResultHonest DEF NoResult
<1>8. "events.jsonl" \in DOMAIN stage' /\ stage'["events.jsonl"] = M!Whole(recorder'.committed)
  BY <1>1, <1>4
<1>9. QED BY <1>1, <1>5, <1>6, <1>7, <1>8 DEF ReportStands

\* The judgement of the validation, before the report is listed.
JudgedResult(r) ==
    LET passed == M!ExpectationMatches(manifest, r)
        report == IF passed THEN "passed" ELSE "failed"
        judged == IF passed THEN r ELSE WithStatus(r, "failed", "invariant_violation")
    IN  WithVerdict(judged, report, report)

\* The verdict is on the model's own outcome.
LEMMA JudgedFacts ==
    ASSUME NEW r, DOMAIN r = ResultFields, OwnOutcome(r)
    PROVE  /\ DOMAIN JudgedResult(r) = ResultFields /\ JudgedResult(r).outputs = r.outputs
           /\ JudgedResult(r).validation = IF M!ExpectationMatches(manifest, r) THEN "passed" ELSE "failed"
           /\ Judged(JudgedResult(r))
<1> DEFINE j == JudgedResult(r)
<1>0. M!ExpectationMatches(manifest, r) = M!ExpectationMatches(manifest, Outcome(r))
  BY SameVerdict DEF OwnOutcome
<1>1. CASE M!ExpectationMatches(manifest, r)
  <2>1. j = WithVerdict(r, "passed", "passed")
    BY <1>1 DEF JudgedResult
  <2> HIDE DEF j
  <2>2. DOMAIN j = ResultFields /\ j.validation = "passed"
    BY <2>1, VerdictSet
  <2>3. /\ j.status = r.status /\ j.reason = r.reason /\ j.outputs = r.outputs /\ j.model = r.model /\ j.code = r.code
    BY <2>1, VerdictSet
  <2>4. Outcome(j) = Outcome(r)
    BY <2>3 DEF Outcome
  <2>5. OwnOutcome(j) /\ Outcome(j).status = j.model
    BY <2>3, <2>4, MadeResult DEF OwnOutcome, Outcome
  <2>6. Judged(j)
    BY <1>0, <1>1, <2>2, <2>4, <2>5 DEF Judged, OwnOutcome
  <2>7. QED BY <1>1, <2>2, <2>3, <2>6 DEF j
<1>2. CASE ~M!ExpectationMatches(manifest, r)
  <2> DEFINE s == WithStatus(r, "failed", "invariant_violation")
  <2>1. j = WithVerdict(s, "failed", "failed")
    BY <1>2 DEF JudgedResult
  <2>2. /\ DOMAIN s = ResultFields /\ s.status = "failed" /\ s.outputs = r.outputs
        /\ s.model = r.model /\ s.code = r.code
    BY StatusSet
  <2> HIDE DEF s, j
  <2>3. /\ DOMAIN j = ResultFields /\ j.validation = "failed" /\ j.status = s.status /\ j.outputs = s.outputs
        /\ j.model = s.model /\ j.code = s.code
    BY <2>1, <2>2, VerdictSet
  <2>4. j.status = "failed" /\ j.outputs = r.outputs /\ j.model = r.model /\ j.code = r.code
    BY <2>2, <2>3
  <2>5. Outcome(j) = Outcome(r)
    BY <2>4 DEF Outcome
  <2>6. Judged(j)
    BY <1>0, <1>2, <2>3, <2>4, <2>5 DEF Judged, M!ExpectationMatches
  <2>7. QED BY <1>2, <2>3, <2>4, <2>6 DEF j
<1>3. QED BY <1>1, <1>2

\* validation-report.json holds the verdict that the result enters.
LEMMA ReportValidates == ReportStands /\ M!WriteValidation => ReportStands'
<1> SUFFICES ASSUME ReportStands, M!WriteValidation PROVE ReportStands'
  OBVIOUS
<1> DEFINE j == JudgedResult(result)
<1> DEFINE v == IF M!ExpectationMatches(manifest, result) THEN "passed" ELSE "failed"
<1> DEFINE name == "validation-report.json"
<1>1. /\ phase = name /\ M!Written(name, v) /\ result' = M!Output(j, name)
      /\ phase' = "run-result.json" /\ manifest' = manifest /\ recorder' = recorder
  BY DEF M!WriteValidation, M!modelVars, JudgedResult, WithVerdict, WithStatus
<1>2. name \in M!Publishing /\ phase \in M!Publishing
  BY <1>1 DEF M!Publishing
<1>3. /\ DOMAIN result = ResultFields /\ result.outputs \in Seq(M!Publishing) /\ OwnOutcome(result)
      /\ M!ToSet(result.outputs) \subseteq WholeFiles(stage) /\ NoResult(stage)
      /\ manifest.eventLog = "jsonl" => "events.jsonl" \in DOMAIN stage /\ stage["events.jsonl"] = M!Whole(recorder.committed)
  BY <1>1, <1>2 DEF ReportStands
<1>4. DOMAIN j = ResultFields /\ j.outputs = result.outputs /\ j.validation = v /\ Judged(j)
  BY <1>3, JudgedFacts
<1> HIDE DEF j, v
<1>5. /\ DOMAIN stage' = DOMAIN stage /\ name \in DOMAIN stage /\ stage'[name] = M!Whole(v)
      /\ WholeFiles(stage') = WholeFiles(stage) \cup {name}
      /\ \A f \in DOMAIN stage : f # name => stage'[f] = stage[f]
  BY <1>1, WrittenFile
<1>6. /\ DOMAIN result' = ResultFields /\ result'.outputs \in Seq(M!Publishing)
      /\ M!ToSet(result'.outputs) \subseteq WholeFiles(stage')
      /\ result'.status = j.status /\ result'.reason = j.reason /\ result'.validation = j.validation
      /\ result'.model = j.model /\ result'.code = j.code
  BY <1>1, <1>2, <1>3, <1>4, <1>5, OutputListed
<1>7. (Judged(result))'
  <2>1. Outcome(result') = Outcome(j)
    BY <1>6 DEF Outcome
  <2>2. QED BY <1>1, <1>4, <1>6, <2>1 DEF Judged, OwnOutcome
<1>8. NoResult(stage') /\ M!ReportHonest'
  BY <1>3, <1>5, NoResultHonest DEF NoResult
<1>9. manifest'.eventLog = "jsonl" => "events.jsonl" \in DOMAIN stage' /\ stage'["events.jsonl"] = M!Whole(recorder'.committed)
  BY <1>1, <1>3, <1>5
<1>10. name \in DOMAIN stage' /\ stage'[name] = M!Whole(result'.validation)
  BY <1>4, <1>5, <1>6
<1>11. QED BY <1>1, <1>6, <1>7, <1>8, <1>9, <1>10 DEF ReportStands

\* After the end nothing is claimed but what is published.
LEMMA ReportEnds ==
    ASSUME ReportStands, phase' \in {"refused", "published"}, result' = result, M!ReportHonest'
    PROVE  ReportStands'
<1>1. phase' \notin M!Publishing
  BY DEF M!Publishing
<1>2. QED BY <1>1 DEF ReportStands

\* run-result.json is written last.
LEMMA ReportResult == ReportStands /\ M!WriteResult => ReportStands'
<1> SUFFICES ASSUME ReportStands, M!WriteResult PROVE ReportStands'
  OBVIOUS
<1>1. /\ phase = "run-result.json" /\ manifest' = manifest /\ recorder' = recorder /\ result' = result
      /\ M!Written("run-result.json", result) /\ phase' = "published"
  BY DEF M!WriteResult, M!modelVars
<1>2. phase \in M!Publishing
  BY <1>1 DEF M!Publishing
<1>3. /\ M!ToSet(result.outputs) \subseteq WholeFiles(stage) /\ Judged(result)
      /\ manifest.eventLog = "jsonl" =>
           "events.jsonl" \in DOMAIN stage /\ stage["events.jsonl"] = M!Whole(recorder.committed)
      /\ "validation-report.json" \in DOMAIN stage /\ stage["validation-report.json"] = M!Whole(result.validation)
  BY <1>1, <1>2 DEF ReportStands
<1>4. /\ DOMAIN stage' = DOMAIN stage /\ stage'["run-result.json"] = M!Whole(result)
      /\ WholeFiles(stage') = WholeFiles(stage) \cup {"run-result.json"}
      /\ \A f \in DOMAIN stage : f # "run-result.json" => stage'[f] = stage[f]
  BY <1>1, WrittenFile
<1>5. stage'["run-result.json"][1] = result
  BY <1>4 DEF M!Whole
<1>6. \A f \in M!ToSet(result.outputs) : f \in DOMAIN stage' /\ stage'[f] # M!Truncated
  BY <1>3, <1>4 DEF WholeFiles
<1>7. /\ manifest'.eventLog = "jsonl" => stage'["events.jsonl"] = M!Whole(recorder'.committed)
      /\ stage'["validation-report.json"] = M!Whole(result.validation)
  BY <1>1, <1>3, <1>4
<1>8. M!ReportHonest'
  BY <1>1, <1>3, <1>5, <1>6, <1>7 DEF M!ReportHonest, Judged, OwnOutcome, Outcome
<1>9. QED BY <1>1, <1>8, ReportEnds

\* A failed write or a kill happens before run-result.json is whole.
LEMMA ReportBreaks == ReportStands /\ (M!WriteFails \/ M!Killed) => ReportStands'
<1> SUFFICES ASSUME ReportStands, M!WriteFails \/ M!Killed PROVE ReportStands'
  OBVIOUS
<1>1. /\ phase \in M!Publishing /\ phase' = "refused" /\ result' = result
      /\ stage' = <<>> \/ stage' = stage
  BY DEF M!WriteFails, M!Killed
<1>2. NoResult(stage')
  BY <1>1, NoFiles DEF ReportStands, NoResult, WholeFiles
<1>3. QED BY <1>1, <1>2, NoResultHonest, ReportEnds

\* Every step of a run keeps the report honest.
LEMMA ReportStep == ReportStands /\ M!Next => ReportStands'
<1> SUFFICES ASSUME ReportStands, M!Next PROVE ReportStands'
  OBVIOUS
<1>1. CASE ProcessWorks
  <2>1. PICK ids : M!Work(ids)
    BY <1>1 DEF ProcessWorks, M!PushValue, M!PopValue, M!ReadCell, M!ProposeWrite, M!AddStatistic,
         M!ObserveStatistic, M!SetStatistic, M!EmitFlow
  <2>2. QED BY <2>1, ReportWaits DEF M!Work
<1>2. CASE M!CommitEpoch
  <2>1. /\ phase = "work" /\ stage' = stage /\ manifest' = manifest
        /\ phase' \in {"work", "ended"} /\ (result' = result \/ \E class, code : result' = M!MakeRunResult(class, code))
    BY <1>2 DEF M!CommitEpoch, M!Fail
  <2>2. QED BY <2>1, ReportWaits
<1>3. CASE M!Preflight
  BY <1>3, ReportWaits DEF M!Preflight
<1>4. CASE M!EndRun
  <2>1. /\ phase = "work" /\ stage' = stage /\ manifest' = manifest
        /\ phase' = "ended" /\ \E class, code : result' = M!MakeRunResult(class, code)
    BY <1>4 DEF M!EndRun
  <2>2. QED BY <2>1, ReportWaits
<1>5. QED BY <1>1, <1>2, <1>3, <1>4, RunSteps, ReportCreates, ReportOpens, ReportStatistics, ReportEvents, ReportValidates,
         ReportResult, ReportBreaks DEF HarnessSteps

\* The maximum of two.
LEMMA Largest ==
    ASSUME NEW a \in Nat, NEW b \in Nat
    PROVE  M!Max({a, b}) \in Nat /\ M!Max({a, b}) >= a /\ M!Max({a, b}) >= b
<1>1. \E x \in {a, b} : \A y \in {a, b} : x >= y
  <2>1. a >= b \/ b >= a
    OBVIOUS
  <2>2. QED BY <2>1
<1>2. M!Max({a, b}) \in {a, b} /\ \A y \in {a, b} : M!Max({a, b}) >= y
  BY <1>1 DEF M!Max
<1>3. QED BY <1>2

\* The minimum of two.
LEMMA Smallest ==
    ASSUME NEW a \in Nat, NEW b \in Nat
    PROVE  M!Min({a, b}) \in Nat /\ M!Min({a, b}) <= a /\ M!Min({a, b}) <= b
<1>1. \E x \in {a, b} : \A y \in {a, b} : x <= y
  <2>1. a <= b \/ b <= a
    OBVIOUS
  <2>2. QED BY <2>1
<1>2. M!Min({a, b}) \in {a, b} /\ \A y \in {a, b} : M!Min({a, b}) <= y
  BY <1>1 DEF M!Min
<1>3. QED BY <1>2

\* A set of observations: its extremes bound its mean.
Consistent(o) ==
    /\ o.count \in Nat /\ o.sum \in Nat /\ o.min \in Nat /\ o.max \in Nat
    /\ o.count = 0 => o.sum = 0 /\ o.min = 0 /\ o.max = 0
    /\ o.min * o.count <= o.sum /\ o.sum <= o.max * o.count

\* A product grows with its factor.
LEMMA TimesGrows ==
    ASSUME NEW x \in Nat, NEW y \in Nat, NEW c \in Nat, x <= y
    PROVE  x * c <= y * c
OBVIOUS

\* Distribution.
LEMMA TimesSum ==
    ASSUME NEW m \in Nat, NEW c \in Nat, NEW d \in Nat
    PROVE  m * (c + d) = m * c + m * d /\ m * c \in Nat /\ m * d \in Nat
OBVIOUS

\* A lower bound of two sums of observations bounds their sum.
LEMMA LowMean ==
    ASSUME NEW m \in Nat, NEW x \in Nat, NEW y \in Nat, NEW c \in Nat, NEW d \in Nat, NEW s \in Nat, NEW t \in Nat,
           m <= x \/ c = 0, m <= y \/ d = 0, x * c <= s, y * d <= t
    PROVE  m * (c + d) <= s + t
<1>1. m * c <= s
  <2>1. CASE c = 0
    BY <2>1
  <2>2. CASE m <= x
    BY <2>2, TimesGrows
  <2>3. QED BY <2>1, <2>2
<1>2. m * d <= t
  <2>1. CASE d = 0
    BY <2>1
  <2>2. CASE m <= y
    BY <2>2, TimesGrows
  <2>3. QED BY <2>1, <2>2
<1>3. QED BY <1>1, <1>2, TimesSum

\* An upper bound of two sums of observations bounds their sum.
LEMMA HighMean ==
    ASSUME NEW m \in Nat, NEW x \in Nat, NEW y \in Nat, NEW c \in Nat, NEW d \in Nat, NEW s \in Nat, NEW t \in Nat,
           m >= x, m >= y, s <= x * c, t <= y * d
    PROVE  s + t <= m * (c + d)
<1>1. s <= m * c
  <2>1. x * c <= m * c
    BY TimesGrows
  <2>2. QED BY <2>1, TimesSum
<1>2. t <= m * d
  <2>1. y * d <= m * d
    BY TimesGrows
  <2>2. QED BY <2>1, TimesSum
<1>3. QED BY <1>1, <1>2, TimesSum

\* The minimum of a merge; an empty set has none.
MergedMin(a, b) == IF a.count = 0 THEN b.min ELSE IF b.count = 0 THEN a.min ELSE M!Min({a.min, b.min})

\* The fields of a merge.
LEMMA MergeFields ==
    ASSUME NEW a, NEW b
    PROVE  /\ M!Merge(a, b).count = a.count + b.count /\ M!Merge(a, b).sum = a.sum + b.sum
           /\ M!Merge(a, b).min = MergedMin(a, b) /\ M!Merge(a, b).max = M!Max({a.max, b.max})
BY DEF M!Merge, MergedMin

\* Two consistent sets of observations merge into one (Histogram::doXfer).
LEMMA MergeConsistent ==
    ASSUME NEW a, NEW b, Consistent(a), Consistent(b)
    PROVE  Consistent(M!Merge(a, b))
<1> DEFINE low == MergedMin(a, b)
<1> DEFINE high == M!Max({a.max, b.max})
<1> DEFINE o == M!Merge(a, b)
<1>1. o.count = a.count + b.count /\ o.sum = a.sum + b.sum /\ o.min = low /\ o.max = high
  BY MergeFields
<1>2. /\ a.count \in Nat /\ a.sum \in Nat /\ a.min \in Nat /\ a.max \in Nat
      /\ b.count \in Nat /\ b.sum \in Nat /\ b.min \in Nat /\ b.max \in Nat
  BY DEF Consistent
<1>3. /\ a.count = 0 => a.sum = 0 /\ a.min = 0 /\ a.max = 0
      /\ b.count = 0 => b.sum = 0 /\ b.min = 0 /\ b.max = 0
      /\ a.min * a.count <= a.sum /\ a.sum <= a.max * a.count
      /\ b.min * b.count <= b.sum /\ b.sum <= b.max * b.count
  BY DEF Consistent
<1>4. M!Min({a.min, b.min}) \in Nat /\ M!Min({a.min, b.min}) <= a.min /\ M!Min({a.min, b.min}) <= b.min
  BY <1>2, Smallest
<1>5. high \in Nat /\ high >= a.max /\ high >= b.max
  BY <1>2, Largest
<1>6. low \in Nat /\ (low <= a.min \/ a.count = 0) /\ (low <= b.min \/ b.count = 0)
  BY <1>2, <1>4 DEF MergedMin
<1>7. a.count + b.count = 0 => low = 0 /\ high = 0
  <2> SUFFICES ASSUME a.count + b.count = 0 PROVE low = 0 /\ high = 0
    OBVIOUS
  <2>1. a.count = 0 /\ b.count = 0
    BY <1>2
  <2>2. a.max = 0 /\ b.max = 0 /\ b.min = 0
    BY <2>1, <1>3
  <2>3. M!Max({0, 0}) = 0
    BY DEF M!Max
  <2>4. QED BY <2>1, <2>2, <2>3 DEF MergedMin
<1> HIDE DEF low, high, o
<1>8. low * (a.count + b.count) <= a.sum + b.sum
  BY <1>2, <1>3, <1>6, LowMean
<1>9. a.sum + b.sum <= high * (a.count + b.count)
  BY <1>2, <1>3, <1>5, HighMean
<1>10. a.count + b.count = 0 => a.sum + b.sum = 0
  BY <1>2, <1>3
<1>11. Consistent(o)
  <2>1. a.count + b.count \in Nat /\ a.sum + b.sum \in Nat
    BY <1>2
  <2>2. QED BY <1>1, <1>5, <1>6, <1>7, <1>8, <1>9, <1>10, <2>1 DEF Consistent
<1>12. QED BY <1>11 DEF o

\* One observation.
LEMMA OneConsistent ==
    ASSUME NEW v \in Nat
    PROVE  Consistent(M!One(v)) /\ M!One(v).sum = v /\ M!One(v).count = 1
<1>1. M!One(v).count = 1 /\ M!One(v).sum = v /\ M!One(v).min = v /\ M!One(v).max = v
  BY DEF M!One
<1>2. QED BY <1>1 DEF Consistent

\* No observation.
LEMMA NoneConsistent == Consistent(M!NoObservations) /\ M!NoObservations.sum = 0 /\ M!NoObservations.count = 0
<1>1. /\ M!NoObservations.count = 0 /\ M!NoObservations.sum = 0 /\ M!NoObservations.min = 0
      /\ M!NoObservations.max = 0
  BY DEF M!NoObservations
<1>2. QED BY <1>1 DEF Consistent

\* A counter or gauge; the statistics agree with the ledger of accepted updates, committed and proposed together.
Cells == [value : Nat, proposed : Nat, pending : BOOLEAN]
CounterStands == counter.value + counter.proposed = ledger.adds /\ ledger.adds <= MaxValue
GaugeStands == (IF gauge.pending THEN gauge.proposed ELSE gauge.value) = ledger.set
HistogramStands ==
    /\ DOMAIN histogram = {"total", "proposed"}
    /\ Consistent(histogram.total) /\ Consistent(histogram.proposed)
    /\ histogram.total.sum + histogram.proposed.sum = ledger.observed /\ ledger.observed <= MaxValue
    /\ histogram.total.count + histogram.proposed.count <= MaxValue

StatisticsStand ==
    /\ counter \in Cells /\ gauge \in Cells
    /\ ledger \in [adds : Nat, observed : Nat, set : Nat]
    /\ CounterStands /\ GaugeStands /\ HistogramStands

\* Statistics start at zero.
LEMMA StatisticsInit == M!Init => StatisticsStand
<1> SUFFICES ASSUME M!Init PROVE StatisticsStand
  OBVIOUS
<1>1. /\ counter = M!NoCounter /\ gauge = M!NoCounter /\ histogram = M!NoHistogram
      /\ ledger = [adds |-> 0, observed |-> 0, set |-> 0]
  BY DEF M!Init
<1>2. counter \in Cells /\ gauge \in Cells /\ ledger \in [adds : Nat, observed : Nat, set : Nat]
  BY <1>1 DEF M!NoCounter, Cells
<1>3. CounterStands /\ GaugeStands
  BY <1>1, RunAssumption DEF M!NoCounter, CounterStands, GaugeStands
<1>4. HistogramStands
  <2>1. /\ DOMAIN histogram = {"total", "proposed"} /\ histogram.total = M!NoObservations
        /\ histogram.proposed = M!NoObservations /\ ledger.observed = 0
    BY <1>1 DEF M!NoHistogram
  <2>2. QED BY <2>1, NoneConsistent, RunAssumption DEF HistogramStands
<1>5. QED BY <1>2, <1>3, <1>4 DEF StatisticsStand, CounterStands, GaugeStands, HistogramStands

\* Counter: an amount is accepted only if committed, proposed and new fit together (proposeAdd).
LEMMA AddStands ==
    ASSUME StatisticsStand, NEW n \in Amounts, M!AddStatistic(n)
    PROVE  StatisticsStand'
<1>1. n \in Nat /\ MaxValue \in Nat
  BY RunAssumption
<1>2. histogram' = histogram /\ gauge' = gauge
  BY DEF M!AddStatistic
<1>3. CASE ~M!AddFits(counter, n)
  BY <1>2, <1>3 DEF M!AddStatistic, StatisticsStand, CounterStands, GaugeStands, HistogramStands
<1>4. CASE M!AddFits(counter, n)
  <2>1. /\ counter' = [counter EXCEPT !.proposed = @ + n, !.pending = TRUE]
        /\ ledger' = [ledger EXCEPT !.adds = @ + n]
        /\ counter.proposed + n <= MaxValue - counter.value
    BY <1>4 DEF M!AddStatistic, M!ProposeAdd, M!AddFits
  <2>2. counter \in Cells /\ ledger \in [adds : Nat, observed : Nat, set : Nat]
    BY DEF StatisticsStand, CounterStands, GaugeStands, HistogramStands
  <2>3. counter' \in Cells /\ ledger' \in [adds : Nat, observed : Nat, set : Nat]
    <3>1. counter.proposed + n \in Nat /\ ledger.adds + n \in Nat
      BY <1>1, <2>2 DEF Cells
    <3>2. QED BY <2>1, <2>2, <3>1 DEF Cells
  <2>4. /\ counter'.value = counter.value /\ counter'.proposed = counter.proposed + n
        /\ ledger'.adds = ledger.adds + n /\ ledger'.observed = ledger.observed /\ ledger'.set = ledger.set
    BY <2>1, <2>2 DEF Cells
  <2>5. counter.value \in Nat /\ counter.proposed \in Nat /\ ledger.adds \in Nat
    BY <2>2 DEF Cells
  <2>6. CounterStands'
    BY <1>1, <2>1, <2>4, <2>5 DEF StatisticsStand, CounterStands, GaugeStands, HistogramStands
  <2>7. GaugeStands' /\ HistogramStands'
    BY <1>2, <2>4 DEF StatisticsStand, CounterStands, GaugeStands, HistogramStands
  <2>8. gauge' \in Cells
    BY <1>2 DEF StatisticsStand, CounterStands, GaugeStands, HistogramStands
  <2>9. QED BY <2>3, <2>6, <2>7, <2>8 DEF StatisticsStand, CounterStands, GaugeStands, HistogramStands
<1>5. QED BY <1>3, <1>4

\* Gauge: the last accepted value.
LEMMA SetStands ==
    ASSUME StatisticsStand, NEW n \in Amounts, M!SetStatistic(n)
    PROVE  StatisticsStand'
<1>1. n \in Nat
  BY RunAssumption
<1>2. histogram' = histogram /\ counter' = counter
  BY DEF M!SetStatistic
<1>3. CASE ~M!SetFits(gauge)
  BY <1>2, <1>3 DEF M!SetStatistic, StatisticsStand, CounterStands, GaugeStands, HistogramStands
<1>4. CASE M!SetFits(gauge)
  <2>1. /\ gauge' = [gauge EXCEPT !.proposed = n, !.pending = TRUE] /\ ledger' = [ledger EXCEPT !.set = n]
    BY <1>4 DEF M!SetStatistic, M!ProposeSet
  <2>2. gauge \in Cells /\ ledger \in [adds : Nat, observed : Nat, set : Nat]
    BY DEF StatisticsStand, CounterStands, GaugeStands, HistogramStands
  <2>3. gauge' \in Cells /\ ledger' \in [adds : Nat, observed : Nat, set : Nat]
    BY <1>1, <2>1, <2>2 DEF Cells
  <2>4. /\ gauge'.pending = TRUE /\ gauge'.proposed = n
        /\ ledger'.adds = ledger.adds /\ ledger'.observed = ledger.observed /\ ledger'.set = n
    BY <2>1, <2>2 DEF Cells
  <2>5. GaugeStands'
    BY <2>4 DEF GaugeStands
  <2>6. CounterStands' /\ HistogramStands'
    BY <1>2, <2>4 DEF StatisticsStand, CounterStands, GaugeStands, HistogramStands
  <2>7. counter' \in Cells
    BY <1>2 DEF StatisticsStand, CounterStands, GaugeStands, HistogramStands
  <2>8. QED BY <2>3, <2>5, <2>6, <2>7 DEF StatisticsStand, CounterStands, GaugeStands, HistogramStands
<1>5. QED BY <1>3, <1>4

\* Histogram: a value is accepted only if count and sum still fit (proposeObserve).
LEMMA ObserveStands ==
    ASSUME StatisticsStand, NEW n \in Amounts, M!ObserveStatistic(n)
    PROVE  StatisticsStand'
<1>1. n \in Nat /\ MaxValue \in Nat
  BY RunAssumption
<1>2. counter' = counter /\ gauge' = gauge
  BY DEF M!ObserveStatistic
<1>3. CASE ~M!ObserveFits(histogram, n)
  BY <1>2, <1>3 DEF M!ObserveStatistic, StatisticsStand, CounterStands, GaugeStands, HistogramStands
<1>4. CASE M!ObserveFits(histogram, n)
  <2> DEFINE t == histogram.total
  <2> DEFINE p == histogram.proposed
  <2> DEFINE q == M!Merge(p, M!One(n))
  <2>1. /\ histogram' = [histogram EXCEPT !.proposed = q]
        /\ ledger' = [ledger EXCEPT !.observed = @ + n]
        /\ p.count < MaxValue - t.count /\ p.sum + n <= MaxValue - t.sum
    BY <1>4 DEF M!ObserveStatistic, M!ProposeObserve, M!ObserveFits
  <2>2. DOMAIN histogram = {"total", "proposed"} /\ ledger \in [adds : Nat, observed : Nat, set : Nat]
    BY DEF StatisticsStand, CounterStands, GaugeStands, HistogramStands
  <2>3. DOMAIN histogram' = {"total", "proposed"} /\ histogram'.total = t /\ histogram'.proposed = q
    BY <2>1, <2>2
  <2>4. /\ ledger' \in [adds : Nat, observed : Nat, set : Nat] /\ ledger'.observed = ledger.observed + n
        /\ ledger'.adds = ledger.adds /\ ledger'.set = ledger.set
    BY <1>1, <2>1, <2>2
  <2>5. Consistent(t) /\ Consistent(p)
    BY DEF StatisticsStand, CounterStands, GaugeStands, HistogramStands
  <2>6. Consistent(q) /\ q.count = p.count + 1 /\ q.sum = p.sum + n
    <3>1. Consistent(M!One(n)) /\ M!One(n).sum = n /\ M!One(n).count = 1
      BY <1>1, OneConsistent
    <3>2. Consistent(q)
      BY <2>5, <3>1, MergeConsistent
    <3>3. q.count = p.count + M!One(n).count /\ q.sum = p.sum + M!One(n).sum
      BY MergeFields
    <3>4. QED BY <3>1, <3>2, <3>3
  <2>7. t.count \in Nat /\ t.sum \in Nat /\ p.count \in Nat /\ p.sum \in Nat
    BY <2>5 DEF Consistent
  <2>8. t.sum + p.sum = ledger.observed
    BY DEF StatisticsStand, CounterStands, GaugeStands, HistogramStands
  <2> HIDE DEF t, p, q
  <2>9. t.sum + q.sum = ledger.observed + n /\ ledger.observed + n <= MaxValue /\ t.count + q.count <= MaxValue
    BY <1>1, <2>1, <2>6, <2>7, <2>8
  <2>10. HistogramStands'
    BY <2>3, <2>4, <2>5, <2>6, <2>9 DEF HistogramStands
  <2>11. CounterStands' /\ GaugeStands'
    BY <1>2, <2>4 DEF StatisticsStand, CounterStands, GaugeStands, HistogramStands
  <2>12. counter' \in Cells /\ gauge' \in Cells
    BY <1>2 DEF StatisticsStand, CounterStands, GaugeStands, HistogramStands
  <2>13. QED BY <2>4, <2>10, <2>11, <2>12 DEF StatisticsStand, CounterStands, GaugeStands, HistogramStands
<1>5. QED BY <1>3, <1>4

\* The commit moves what was proposed into what is committed, and loses nothing.
LEMMA CommitStands ==
    ASSUME StatisticsStand, M!CommitEpoch
    PROVE  StatisticsStand'
<1>1. /\ counter' = counter \/ counter' = M!CommitCounter(counter)
      /\ gauge' = gauge \/ gauge' = M!CommitGauge(gauge)
      /\ histogram' = histogram \/ histogram' = M!CommitHistogram(histogram)
      /\ ledger' = ledger
  BY DEF M!CommitEpoch, M!modelVars
<1>2. counter' \in Cells /\ CounterStands'
  <2>1. CASE counter' = counter
    BY <1>1, <2>1 DEF StatisticsStand, CounterStands, GaugeStands, HistogramStands
  <2>2. CASE counter' = M!CommitCounter(counter)
    <3>1. counter.value \in Nat /\ counter.proposed \in Nat
      BY DEF Cells, StatisticsStand, CounterStands, GaugeStands, HistogramStands
    <3>2. counter' \in Cells /\ counter'.value = counter.value + counter.proposed /\ counter'.proposed = 0
      BY <2>2, <3>1 DEF M!CommitCounter, Cells
    <3>3. QED BY <1>1, <3>1, <3>2 DEF StatisticsStand, CounterStands, GaugeStands, HistogramStands
  <2>3. QED BY <1>1, <2>1, <2>2
<1>3. gauge' \in Cells /\ GaugeStands'
  <2>1. CASE gauge' = gauge
    BY <1>1, <2>1 DEF StatisticsStand, CounterStands, GaugeStands, HistogramStands
  <2>2. CASE gauge' = M!CommitGauge(gauge) /\ gauge.pending
    <3>1. gauge.proposed \in Nat /\ gauge.proposed = ledger.set
      BY <2>2 DEF Cells, StatisticsStand, CounterStands, GaugeStands, HistogramStands
    <3>2. gauge' \in Cells /\ gauge'.value = gauge.proposed /\ gauge'.pending = FALSE
      BY <2>2, <3>1 DEF M!CommitGauge, Cells
    <3>3. QED BY <1>1, <3>1, <3>2 DEF GaugeStands
  <2>3. QED BY <1>1, <2>1, <2>2 DEF M!CommitGauge
<1>4. HistogramStands'
  <2>1. CASE histogram' = histogram
    BY <1>1, <2>1 DEF StatisticsStand, CounterStands, GaugeStands, HistogramStands
  <2>2. CASE histogram' = M!CommitHistogram(histogram)
    <3> DEFINE t == histogram.total
    <3> DEFINE p == histogram.proposed
    <3> DEFINE q == M!Merge(t, p)
    <3>1. DOMAIN histogram' = {"total", "proposed"} /\ histogram'.total = q /\ histogram'.proposed = M!NoObservations
      BY <2>2 DEF M!CommitHistogram
    <3>2. Consistent(t) /\ Consistent(p)
      BY DEF StatisticsStand, CounterStands, GaugeStands, HistogramStands
    <3>3. Consistent(q) /\ q.count = t.count + p.count /\ q.sum = t.sum + p.sum
      BY <3>2, MergeConsistent, MergeFields
    <3>4. t.count \in Nat /\ t.sum \in Nat /\ p.count \in Nat /\ p.sum \in Nat
      BY <3>2 DEF Consistent
    <3>5. t.sum + p.sum = ledger.observed /\ ledger.observed <= MaxValue /\ t.count + p.count <= MaxValue
      BY DEF StatisticsStand, CounterStands, GaugeStands, HistogramStands
    <3> HIDE DEF t, p, q
    <3>6. q.sum + 0 = ledger.observed /\ q.count + 0 <= MaxValue
      BY <3>3, <3>4, <3>5
    <3>7. QED BY <1>1, <3>1, <3>3, <3>5, <3>6, NoneConsistent DEF HistogramStands
  <2>3. QED BY <1>1, <2>1, <2>2
<1>5. ledger' \in [adds : Nat, observed : Nat, set : Nat]
  BY <1>1 DEF StatisticsStand, CounterStands, GaugeStands, HistogramStands
<1>6. QED BY <1>2, <1>3, <1>4, <1>5 DEF StatisticsStand, CounterStands, GaugeStands, HistogramStands

\* Every step keeps the statistics exact.
LEMMA StatisticsStep == StatisticsStand /\ M!Next => StatisticsStand'
<1> SUFFICES ASSUME StatisticsStand, M!Next PROVE StatisticsStand'
  OBVIOUS
<1>1. ASSUME UNCHANGED <<counter, gauge, histogram, ledger>> PROVE StatisticsStand'
  BY <1>1 DEF StatisticsStand, CounterStands, GaugeStands, HistogramStands
<1>2. CASE HarnessSteps
  BY <1>1, <1>2, HarnessFrame
<1>3. CASE ProcessWorks
  <2>1. \/ \E n \in Amounts : M!AddStatistic(n) \/ M!ObserveStatistic(n) \/ M!SetStatistic(n)
        \/ UNCHANGED <<counter, gauge, histogram, ledger>>
    BY <1>3 DEF ProcessWorks, M!PushValue, M!PopValue, M!ReadCell, M!ProposeWrite, M!EmitFlow
  <2>2. QED BY <1>1, <2>1, AddStands, ObserveStands, SetStands
<1>4. QED BY <1>2, <1>3, RunSteps, CommitStands

\* The invariant is strong enough.
LEMMA StatisticsSound == StatisticsStand => M!SumsExact
<1> SUFFICES ASSUME StatisticsStand PROVE M!SumsExact
  OBVIOUS
<1> DEFINE t == histogram.total
<1> DEFINE p == histogram.proposed
<1> DEFINE o == M!Merge(t, p)
<1>1. Consistent(t) /\ Consistent(p)
  BY DEF StatisticsStand, CounterStands, GaugeStands, HistogramStands
<1>2. Consistent(o) /\ o.count = t.count + p.count /\ o.sum = t.sum + p.sum
  BY <1>1, MergeConsistent, MergeFields
<1>3. /\ t.sum + p.sum = ledger.observed /\ ledger.observed <= MaxValue /\ t.count + p.count <= MaxValue
      /\ counter.value + counter.proposed = ledger.adds /\ ledger.adds <= MaxValue /\ ledger.adds \in Nat
      /\ (IF gauge.pending THEN gauge.proposed ELSE gauge.value) = ledger.set
  BY DEF StatisticsStand, CounterStands, GaugeStands, HistogramStands
<1>4. M!Observed = o
  BY DEF M!Observed
<1> HIDE DEF t, p, o
<1>5. {ledger.adds, o.sum, o.count} \subseteq 0..MaxValue
  BY <1>2, <1>3, RunAssumption DEF Consistent
<1>6. o.min * o.count <= o.sum /\ o.sum <= o.max * o.count
  BY <1>2 DEF Consistent
<1>7. QED BY <1>2, <1>3, <1>4, <1>5, <1>6 DEF M!SumsExact

\* Nothing is popped that was not there, and all that was accepted is there or was completed.
QueueStands ==
    /\ DOMAIN queue = {"items", "pushes", "pops", "peak", "accepted", "completed"}
    /\ queue.items \in Seq(Values) /\ queue.pushes \in Seq(Values)
    /\ queue.pops \in 0..Len(queue.items) /\ queue.accepted \in Nat /\ queue.completed \in Nat
    /\ M!QueueBalances

\* A new queue is empty.
LEMMA QueueInit == M!Init => QueueStands
<1> SUFFICES ASSUME M!Init PROVE QueueStands
  OBVIOUS
<1>1. queue = M!NoQueue
  BY DEF M!Init
<1>2. QED BY <1>1 DEF M!NoQueue, QueueStands, M!QueueBalances

\* A push only proposes.
LEMMA QueuePushes ==
    ASSUME QueueStands, NEW v \in Values, M!PushValue(v)
    PROVE  QueueStands'
<1>1. queue' = [queue EXCEPT !.pushes = Append(@, v)]
  BY DEF M!PushValue
<1>2. /\ DOMAIN queue' = DOMAIN queue /\ queue'.items = queue.items /\ queue'.pops = queue.pops
      /\ queue'.accepted = queue.accepted /\ queue'.completed = queue.completed
      /\ queue'.pushes = Append(queue.pushes, v)
  BY <1>1 DEF QueueStands
<1>3. queue'.pushes \in Seq(Values)
  BY <1>2 DEF QueueStands
<1>4. QED BY <1>2, <1>3 DEF QueueStands, M!QueueBalances

\* A pop only proposes, and only what is there.
LEMMA QueuePops ==
    ASSUME QueueStands, M!PopValue
    PROVE  QueueStands'
<1>1. queue' = [queue EXCEPT !.pops = @ + 1] /\ queue.pops < Len(queue.items)
  BY DEF M!PopValue
<1>2. /\ DOMAIN queue' = DOMAIN queue /\ queue'.items = queue.items /\ queue'.pushes = queue.pushes
      /\ queue'.accepted = queue.accepted /\ queue'.completed = queue.completed
      /\ queue'.pops = queue.pops + 1
  BY <1>1 DEF QueueStands
<1>3. queue'.pops \in 0..Len(queue'.items)
  BY <1>1, <1>2 DEF QueueStands
<1>4. QED BY <1>2, <1>3 DEF QueueStands, M!QueueBalances

\* Appending and then dropping a prefix: how many are left.
LEMMA XferLength ==
    ASSUME NEW V, NEW s \in Seq(V), NEW t \in Seq(V), NEW n \in 0..Len(s)
    PROVE  /\ SubSeq(s \o t, n + 1, Len(s) + Len(t)) \in Seq(V)
           /\ Len(SubSeq(s \o t, n + 1, Len(s) + Len(t))) = Len(s) + Len(t) - n
<1> DEFINE u == s \o t
<1>1. u \in Seq(V) /\ Len(u) = Len(s) + Len(t)
  OBVIOUS
<1>2. Len(s) \in Nat /\ Len(t) \in Nat
  OBVIOUS
<1> HIDE DEF u
<1>3. n + 1 \in 1..(Len(u) + 1) /\ Len(u) \in Nat
  BY <1>1, <1>2
<1>4. SubSeq(u, n + 1, Len(u)) \in Seq(V)
  BY <1>1, <1>3
<1>5. Len(SubSeq(u, n + 1, Len(u))) = Len(u) - n
  BY <1>1, <1>2, <1>3
<1>6. QED BY <1>1, <1>4, <1>5 DEF u

\* The commit of a queue moves both accounts by what it moves (SimQueue::doXfer).
LEMMA QueueCommits ==
    ASSUME QueueStands, queue' = M!QueueXfer(queue)
    PROVE  QueueStands'
<1> DEFINE n == Len(queue.items)
<1> DEFINE p == Len(queue.pushes)
<1> DEFINE left == SubSeq(queue.items \o queue.pushes, queue.pops + 1, n + p)
<1>1. /\ queue.items \in Seq(Values) /\ queue.pushes \in Seq(Values) /\ queue.pops \in 0..n
      /\ queue.accepted \in Nat /\ queue.completed \in Nat /\ queue.accepted - queue.completed = n
  BY DEF QueueStands, M!QueueBalances
<1>2. left \in Seq(Values) /\ Len(left) = n + p - queue.pops
  BY <1>1, XferLength
<1>3. /\ DOMAIN queue' = {"items", "pushes", "pops", "peak", "accepted", "completed"}
      /\ queue'.items = left /\ queue'.pushes = <<>> /\ queue'.pops = 0
      /\ queue'.accepted = queue.accepted + p /\ queue'.completed = queue.completed + queue.pops
  BY DEF M!QueueXfer
<1>4. n \in Nat /\ p \in Nat
  BY <1>1
<1> HIDE DEF n, p, left
<1>5. Len(left) \in Nat /\ (queue.accepted + p) - (queue.completed + queue.pops) = Len(left)
  BY <1>1, <1>2, <1>4
<1>6. queue.accepted + p \in Nat /\ queue.completed + queue.pops \in Nat
  BY <1>1, <1>4
<1>7. queue'.pops \in 0..Len(queue'.items)
  BY <1>3, <1>5
<1>8. QED BY <1>2, <1>3, <1>5, <1>6, <1>7 DEF QueueStands, M!QueueBalances

\* Every step keeps the accounts of the queue.
LEMMA QueueStep == QueueStands /\ M!Next => QueueStands'
<1> SUFFICES ASSUME QueueStands, M!Next PROVE QueueStands'
  OBVIOUS
<1>1. ASSUME queue' = queue PROVE QueueStands'
  BY <1>1 DEF QueueStands, M!QueueBalances
<1>2. CASE HarnessSteps
  BY <1>1, <1>2, HarnessFrame
<1>3. CASE ProcessWorks
  <2>1. \/ \E v \in Values : M!PushValue(v)
        \/ M!PopValue
        \/ queue' = queue
    BY <1>3 DEF ProcessWorks, M!AddStatistic, M!ObserveStatistic, M!SetStatistic, M!ReadCell, M!ProposeWrite, M!EmitFlow
  <2>2. QED BY <1>1, <2>1, QueuePushes, QueuePops
<1>4. CASE M!CommitEpoch
  <2>1. queue' = queue \/ queue' = M!QueueXfer(queue)
    BY <1>4 DEF M!CommitEpoch, M!modelVars
  <2>2. QED BY <1>1, <2>1, QueueCommits
<1>5. QED BY <1>2, <1>3, <1>4, RunSteps

RunStands == BarrierStands /\ ReportStands /\ StatisticsStand /\ QueueStands
RunInv == program = "run" => RunStands

\* The invariant is about the variables of the run alone.
LEMMA RunStutters ==
    ASSUME RunStands, UNCHANGED <<runOnly, phase, result>>
    PROVE  RunStands'
<1>1. /\ manifest' = manifest /\ proposals' = proposals /\ participants' = participants /\ array' = array
      /\ recorder' = recorder /\ stage' = stage /\ phase' = phase /\ result' = result
      /\ counter' = counter /\ gauge' = gauge /\ histogram' = histogram /\ ledger' = ledger /\ queue' = queue
  BY DEF runOnly
<1>2. BarrierStands'
  BY <1>1 DEF RunStands, BarrierStands, ArrayFresh
<1>3. ReportStands'
  BY <1>1 DEF RunStands, ReportStands, M!ReportHonest, Judged, OwnOutcome, Outcome
<1>4. StatisticsStand'
  BY <1>1 DEF RunStands, StatisticsStand, CounterStands, GaugeStands, HistogramStands
<1>5. QueueStands'
  BY <1>1 DEF RunStands, QueueStands, M!QueueBalances
<1>6. QED BY <1>2, <1>3, <1>4, <1>5 DEF RunStands

\* The invariant of a run, of the composed toolchain.
LEMMA RunInvHolds == ToolchainSpec => []RunInv
<1>1. ToolchainInit => RunInv
  BY BarrierInit, ReportInit, StatisticsInit, QueueInit DEF ToolchainInit, RunInv, RunStands
<1>2. RunInv /\ [ToolchainNext]_all => RunInv'
  <2> SUFFICES ASSUME RunInv, [ToolchainNext]_all, program' = "run" PROVE RunStands'
    BY DEF RunInv
  <2>1. CASE UNCHANGED all
    <3>1. program = "run" /\ UNCHANGED <<runOnly, phase, result>>
      BY <2>1 DEF all
    <3>2. QED BY <3>1, RunStutters DEF RunInv
  <2>2. CASE ToolchainNext
    <3>1. program = "run" /\ M!Next
      BY <2>2 DEF ToolchainNext
    <3>2. QED BY <3>1, BarrierStep, ReportStep, StatisticsStep, QueueStep DEF RunInv, RunStands
  <2>3. QED BY <2>1, <2>2
<1>3. QED BY <1>1, <1>2, PTL DEF ToolchainSpec

\* No port of a StateArray is taken when an epoch begins, also after an epoch that only read, for any number
\* of entries, ports and operations (StateArray::ensureRegistered, doXfer).
THEOREM PortsFreshTheorem == ToolchainSpec => [](program = "run" => M!PortsFresh)
<1>1. RunInv => (program = "run" => M!PortsFresh)
  BY BarrierSound DEF RunInv, RunStands
<1>2. QED BY <1>1, RunInvHolds, PTL

\* A result that is whole is honest, whatever write failed and wherever the program was killed, also in the
\* middle of a write: its files are there and whole, its log is the committed one, and it says passed exactly
\* when the model's own outcome is the expected one (publishRunResult, writeExclusive).
THEOREM ReportHonestTheorem == ToolchainSpec => [](program = "run" => M!ReportHonest)
<1>1. RunInv => (program = "run" => M!ReportHonest)
  BY DEF RunInv, RunStands, ReportStands
<1>2. QED BY <1>1, RunInvHolds, PTL

\* Counters, gauges and histograms hold exactly what was accepted and stay below the largest value, the
\* extremes of a histogram bound its mean, and a queue holds what it accepted and did not complete: for any
\* largest value, amounts and epochs (Statistic::proposeAdd, proposeObserve, doXfer, SimQueue::doXfer).
THEOREM SumsExactTheorem == ToolchainSpec => [](program = "run" => M!SumsExact /\ M!QueueBalances)
<1>1. RunInv => (program = "run" => M!SumsExact /\ M!QueueBalances)
  BY StatisticsSound DEF RunInv, RunStands, QueueStands
<1>2. QED BY <1>1, RunInvHolds, PTL
=============================================================================
