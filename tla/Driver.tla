---- MODULE Driver ----
(***************************************************************************)
(* The compiler driver: runCompiler selects the pipeline of stages,        *)
(* validates what the request asks for, then takes the module through the  *)
(* stages, collecting artifacts and dumps, until a stage fails or the last *)
(* one is done (src/lib/Compiler/Driver.cpp, Pipeline.cpp).  Whether a pass*)
(* accepts the module and whether it warns is free; what the driver does   *)
(* with the module, the printed bytes, the binding lock and the build is   *)
(* modelled.  A module is the sequence of the transformations it has been  *)
(* through, so printed bytes are equal exactly when the modules are.       *)
(***************************************************************************)
EXTENDS Integers, Sequences, SequencesExt

CONSTANTS Requests  \* the compiler requests

VARIABLES request,
          pipeline,   \* the stages still to run, the current one first
          result,     \* "new", "running", "done" or "failed"
          ir,         \* DriverState::module: the transformations it went through, <<>> when there is none
          kept,       \* DriverState: frozenAcir, canonicalAcsim, sources, bindingLock, providerInputs
          artifacts,  \* CompilerResult::artifacts, a sequence of [path, bytes]
          build,      \* CompilerResult::build: <<>> or <<what it was built from>>
          diagnostics \* of DiagnosticCapture while running, of the CompilerError after a failure

driverVars == <<request, pipeline, result, ir, kept, artifacts, build, diagnostics>>

Stages == <<"acir-parse", "acir-verify", "acir-normalize", "acir-freeze", "acsim-lower", "acsim-verify",
            "cxx-emit", "cxx-contract", "compile", "link", "publish">>
Ordinal(stage) == CHOOSE i \in DOMAIN Stages : Stages[i] = stage

\* selectPipeline: <<>> when the request is refused.
CustomConsistent(q) == IF q.profile = "custom" THEN q.custom \notin {"none", ""} ELSE q.custom = "none"
selectPipeline(q) ==
    IF ~CustomConsistent(q) THEN <<>>
    ELSE IF q.stop = "none" THEN Stages
    ELSE SubSeq(Stages, 1, Ordinal(q.stop))

\* validateRequest: the stage each kind of artifact needs; the native compiler emits no ACPy.
RequiredEarly(kind) ==
    CASE kind = "acir" -> "acir-freeze"
      [] kind = "acsim" -> "acsim-verify"
      [] kind \in {"header", "source"} -> "cxx-emit"
      [] kind = "report" -> "cxx-contract"
      [] kind = "executable" -> "link"
Required(kind) ==
    CASE kind = "acir" -> "acir-freeze"
      [] kind = "acsim" -> "acsim-verify"
      [] kind \in {"header", "source"} -> "cxx-emit"
      [] kind = "report" -> "cxx-contract"
      [] kind = "executable" -> "publish"

DumpsValid(names, stages) == IsInjective(names) /\ ToSet(names) \subseteq ToSet(stages)
validateRequest(q, stages) ==
    /\ q.acir # ""
    /\ IsInjective(q.emits)
    /\ \A kind \in ToSet(q.emits) :
          kind # "acpy" /\ stages # <<>> /\ Ordinal(Required(kind)) <= Ordinal(Last(stages))
    /\ DumpsValid(q.before, stages) /\ DumpsValid(q.after, stages)

Requested(kind) == kind \in ToSet(request.emits)
Artifact(path, bytes) == [path |-> path, bytes |-> bytes]
\* A path is a pair: of an artifact its file, of a dump the stage and the side of it.
Emit(kind, file, bytes) == IF Requested(kind) THEN <<Artifact(<<file, "">>, bytes)>> ELSE <<>>

Diagnostic(stage, severity) == [stage |-> stage, severity |-> severity]
takeFailure(stage) ==
    IF diagnostics = {} THEN {Diagnostic(stage, "error")} ELSE diagnostics

\* profile and target as the lowering writes them into the model.
LoweredTarget == IF request.target = "" THEN "unknown-unknown" ELSE request.target
ResolvedLock == [providers |-> request.selections]
EmptyLock == [providers |-> {}]

DriverInit ==
    /\ request \in Requests
    /\ pipeline = <<>>
    /\ result = "new"
    /\ ir = <<>>
    /\ kept = [frozen |-> <<>>, acsim |-> <<>>, sources |-> <<>>, lock |-> EmptyLock, providers |-> {}]
    /\ artifacts = <<>>
    /\ build = <<>>
    /\ diagnostics = {}

\* A compilerFailure: one error, and whatever was captured is dropped.
Refuse(stage) ==
    /\ result' = "failed"
    /\ diagnostics' = {Diagnostic(stage, "error")}
    /\ UNCHANGED <<request, pipeline, ir, kept, artifacts, build>>

Accepted(q) == selectPipeline(q) # <<>> /\ validateRequest(q, selectPipeline(q)) /\ q.registry # "malformed"

runCompiler ==
    /\ result = "new"
    /\ IF Accepted(request)
       THEN /\ result' = "running"
            /\ pipeline' = selectPipeline(request)
            /\ kept' = [kept EXCEPT !.lock = IF request.lock = "" THEN EmptyLock ELSE [providers |-> request.locked]]
            /\ UNCHANGED <<request, ir, artifacts, build, diagnostics>>
       ELSE Refuse("acir-parse")

-----------------------------------------------------------------------------
\* The loop over the stages.

At(stage) == result = "running" /\ pipeline # <<>> /\ Head(pipeline) = stage

DumpBefore(stage) ==
    IF ir # <<>> /\ stage \in ToSet(request.before) THEN <<Artifact(<<stage, "before">>, ir)>> ELSE <<>>
DumpAfter(stage, module) ==
    IF module # <<>> /\ (request.afterEach \/ stage \in ToSet(request.after))
    THEN <<Artifact(<<stage, "after">>, module)>> ELSE <<>>

\* The stages that run MLIR passes may warn; one warning of a run is kept.
Warnings(stage) ==
    IF Ordinal(stage) <= Ordinal("acsim-verify") /\ diagnostics = {} THEN {{}, {Diagnostic(stage, "warning")}} ELSE {{}}

\* A stage that succeeds, with or without a warning, verifies when asked to, and dumps.
Succeed(stage, module, emitted) ==
    /\ ir' = module
    /\ pipeline' = Tail(pipeline)
    /\ result' = IF Len(pipeline) = 1 THEN "done" ELSE "running"
    /\ artifacts' = artifacts \o DumpBefore(stage) \o emitted \o DumpAfter(stage, module)
    /\ \E warned \in Warnings(stage) : diagnostics' = diagnostics \cup warned
    /\ UNCHANGED request

\* A pass that fails reports why.
PassFails(stage) ==
    /\ result' = "failed"
    /\ diagnostics' = diagnostics \cup {Diagnostic(stage, "error")}
    /\ UNCHANGED <<request, pipeline, ir, kept, artifacts, build>>

\* A stage that fails without a diagnostic of its own.
FailsSilently(stage) ==
    /\ result' = "failed"
    /\ diagnostics' = takeFailure(stage)
    /\ UNCHANGED <<request, pipeline, ir, kept, artifacts, build>>

Through(pass) == Append(ir, pass)

AcirParse ==
    /\ At("acir-parse")
    /\ \/ Succeed("acir-parse", <<request.acir>>, <<>>) /\ UNCHANGED <<kept, build>>
       \/ PassFails("acir-parse")

AcirVerify ==
    /\ At("acir-verify")
    /\ \/ Succeed("acir-verify", ir, <<>>) /\ UNCHANGED <<kept, build>>
       \/ PassFails("acir-verify")

AcirNormalize ==
    /\ At("acir-normalize")
    /\ \/ /\ Succeed("acir-normalize", Through(IF request.profile = "custom" THEN request.custom ELSE "normalize"), <<>>)
          /\ UNCHANGED <<kept, build>>
       \/ PassFails("acir-normalize")
       \/ request.profile = "custom" /\ Refuse("acir-normalize")

AcirFreeze ==
    /\ At("acir-freeze")
    /\ \/ /\ \E module \in {ir \o <<"canonicalize", "cse", "freeze">>} :
                /\ kept' = [kept EXCEPT !.frozen = module]
                /\ Succeed("acir-freeze", module, Emit("acir", "frozen.ac.mlir", module))
          /\ UNCHANGED build
       \/ PassFails("acir-freeze")

\* The lock of the resolution replaces the caller's, unless nothing was selected.
LockAfter ==
    IF request.selections # {} \/ request.lock = "" THEN ResolvedLock ELSE kept.lock
\* The lowered model carries the fingerprints of what it was lowered from.
LoweredModel == Through([lock |-> ResolvedLock, providers |-> request.selections, profile |-> request.profile, target |-> LoweredTarget])

AcsimLower ==
    /\ At("acsim-lower")
    /\ \/ /\ Succeed("acsim-lower", LoweredModel, <<>>)
          /\ kept' = [kept EXCEPT !.lock = LockAfter, !.providers = request.selections]
          /\ UNCHANGED build
       \/ Refuse("acsim-lower")
       \/ PassFails("acsim-lower")

\* The module may verify and yet hold no model, or several: then nothing was reported.
AcsimVerify ==
    /\ At("acsim-verify")
    /\ \/ /\ Succeed("acsim-verify", ir, Emit("acsim", "model.acsim.mlir", ir))
          /\ kept' = [kept EXCEPT !.acsim = ir]
          /\ UNCHANGED build
       \/ PassFails("acsim-verify")
       \/ FailsSilently("acsim-verify")

SourcesOf(module) == <<"generated", module>>
CxxEmit ==
    /\ At("cxx-emit")
    /\ \/ /\ kept' = [kept EXCEPT !.sources = SourcesOf(ir)]
          /\ Succeed("cxx-emit", ir, Emit("header", "model.h", SourcesOf(ir)) \o Emit("source", "model.cpp", SourcesOf(ir)))
          /\ UNCHANGED build
       \/ Refuse("cxx-emit")

CxxContract ==
    /\ At("cxx-contract")
    /\ \/ /\ kept.sources = SourcesOf(ir)
          /\ Succeed("cxx-contract", ir, <<>>) /\ UNCHANGED <<kept, build>>
       \/ Refuse("cxx-contract")

\* What the build is given, and what createCompilePlan asks of it: the bytes it will record are
\* the ones the model was lowered from.
BuildInputs ==
    [module |-> ir, frozen |-> kept.frozen, acsim |-> kept.acsim, lock |-> kept.lock, providers |-> kept.providers,
     profile |-> IF request.buildProfile = "" THEN request.profile ELSE request.buildProfile,
     target |-> request.target]
FingerprintsMatchBytes(b) ==
    /\ b.frozen # <<>> /\ b.frozen = Front(b.module)
    /\ b.profile = Last(b.module).profile
    /\ b.target = Last(b.module).target
    /\ b.providers = Last(b.module).providers
    /\ b.acsim = b.module
FingerprintsMatch(b) ==
    /\ b.frozen # <<>> /\ b.frozen = Front(b.module)
    /\ b.lock = Last(b.module).lock
    /\ b.profile = Last(b.module).profile
    /\ b.target = Last(b.module).target
    /\ b.providers = Last(b.module).providers
    /\ b.acsim = b.module

Compile ==
    /\ At("compile")
    /\ \/ /\ FingerprintsMatch(BuildInputs)
          /\ build' = <<BuildInputs>>
          /\ Succeed("compile", ir, <<>>)
          /\ UNCHANGED kept
       \/ Refuse("compile")

Link ==
    /\ At("link")
    /\ IF build # <<>> THEN Succeed("link", ir, <<>>) /\ UNCHANGED <<kept, build>>
       ELSE Refuse("link")

ExecutableOf(b) == <<"executable", b.module>>
Publish ==
    /\ At("publish")
    /\ \/ /\ build # <<>>
          /\ Succeed("publish", ir, Emit("executable", "bin/model", ExecutableOf(build[1])))
          /\ UNCHANGED <<kept, build>>
       \/ (build = <<>> \/ Requested("executable")) /\ Refuse("publish")

\* verifyAfterEach: the verifier may refuse the module a stage left behind.
VerifyAfterEach ==
    /\ result = "running" /\ request.verifyEach /\ ir # <<>> /\ Len(pipeline) < Len(selectPipeline(request))
    /\ PassFails(selectPipeline(request)[Len(selectPipeline(request)) - Len(pipeline)])

DriverNext ==
    \/ runCompiler \/ AcirParse \/ AcirVerify \/ AcirNormalize \/ AcirFreeze \/ AcsimLower \/ AcsimVerify
    \/ CxxEmit \/ CxxContract \/ Compile \/ Link \/ Publish \/ VerifyAfterEach

DriverSpec == DriverInit /\ [][DriverNext]_driverVars

-----------------------------------------------------------------------------
\* The module after the first n stages of a run that reached them.
Normalized == <<request.acir, IF request.profile = "custom" THEN request.custom ELSE "normalize">>
Frozen == <<Normalized[1], Normalized[2], "canonicalize", "cse", "freeze">>
LoweringPass ==
    [lock |-> ResolvedLock, providers |-> request.selections, profile |-> request.profile, target |-> LoweredTarget]
Lowered == <<Normalized[1], Normalized[2], "canonicalize", "cse", "freeze", LoweringPass>>
ModuleAfter(n) ==
    CASE n = 0 -> <<>>
      [] n \in 1..2 -> <<request.acir>>
      [] n = 3 -> Normalized
      [] n = 4 -> Frozen
      [] n \in 5..11 -> Lowered

\* The report of the contract stage that a request may ask for: validateRequest accepts the kind.
Reports == {Artifact(<<"report", "">>, ModuleAfter(8)) : k \in {x \in {"report"} : Requested(x)}}

\* What a request asks for that some stage emits.
Emitted ==
    {Artifact(<<"frozen.ac.mlir", "">>, ModuleAfter(4)) : k \in {x \in {"acir"} : Requested(x)}}
    \cup {Artifact(<<"model.acsim.mlir", "">>, ModuleAfter(6)) : k \in {x \in {"acsim"} : Requested(x)}}
    \cup {Artifact(<<"model.h", "">>, SourcesOf(ModuleAfter(6))) : k \in {x \in {"header"} : Requested(x)}}
    \cup {Artifact(<<"model.cpp", "">>, SourcesOf(ModuleAfter(6))) : k \in {x \in {"source"} : Requested(x)}}
    \cup {Artifact(<<"bin/model", "">>, <<"executable", ModuleAfter(6)>>) : k \in {x \in {"executable"} : Requested(x)}}
    \cup {Artifact(<<s, "before">>, ModuleAfter(Ordinal(s) - 1)) : s \in ToSet(request.before) \ {"acir-parse"}}
    \cup {Artifact(<<s, "after">>, ModuleAfter(Ordinal(s))) :
            s \in IF request.afterEach THEN ToSet(selectPipeline(request)) ELSE ToSet(request.after)}

Asked == Emitted \cup Reports

\* A failure is told by an error.  The exception is the code's: mlir::verify may accept a module with
\* no model or with several, and takeFailure then adds nothing to the warnings it finds.
FailureTold ==
    \/ \E d \in diagnostics : d.severity = "error"
    \/ pipeline # <<>> /\ Head(pipeline) = "acsim-verify" /\ diagnostics # {}

(* A compilation that ends well returns exactly the artifacts and dumps the request asks for except
   a report, no path twice and each holding the module as that stage left it.  Of a report there is
   never one, although validateRequest accepts the kind (Driver.cpp:223): no stage emits it.  A
   compilation that fails says so in an error, unless the module count of acsim-verify refuses a
   module after a warning: then only the warning is returned (runStage, runCompiler, takeFailure). *)
RequestHonoured ==
    /\ result = "done" =>
         /\ ToSet(artifacts) = Asked \ Reports
         /\ \A i, j \in DOMAIN artifacts : artifacts[i].path = artifacts[j].path => i = j
    /\ result = "failed" => FailureTold

(* Whatever is built, the frozen ACIR, the canonical ACSim, the binding lock and the provider list
   that are recorded with it are the ones its model was lowered from, and the generated sources are
   that model's, even when the caller supplied a lock or a profile of its own (the hand-over of
   DriverState to the build, and createCompilePlan's fingerprint checks). *)
BuildConsistent ==
    build # <<>> =>
        /\ build[1].frozen = ModuleAfter(4) /\ build[1].acsim = ModuleAfter(6) /\ build[1].module = ModuleAfter(6)
        /\ build[1].lock.providers = build[1].providers
        /\ build[1].profile = request.profile
        /\ kept.sources = SourcesOf(build[1].module)
====
