------------------------------ MODULE Toolchain ------------------------------
(***************************************************************************)
(* The programs around a model, checked together: each run follows the     *)
(* compiler processes that publish builds (Publish), the harness that runs *)
(* a model and writes its report (ModelRun), the compiler driver (Driver)  *)
(* or the binding passes (Bindings).  They meet only in files, so a        *)
(* program that is not followed stands still.                              *)
(***************************************************************************)
EXTENDS Publish, Sequences, TLC

CONSTANTS
    Values, Amounts, Capacity, Entries, ReadPorts, WritePorts, Bounds,      \* of ModelRun
    MaxValue, FlowIds, MaxProposals, MaxTicks, Manifests,
    CompilerRequests,                           \* of Driver
    Registries, Modules, Selections, Passes     \* of Bindings

VARIABLES
    program,    \* the program that is followed
    phase, result,
    manifest, time, proposals, queue, array, counter, histogram, gauge, recorder, failure,
    participants, stage, ledger,
    request, pipeline, ir, kept, build, diagnostics,
    input, outcome, temp, path

M == INSTANCE ModelRun
D == INSTANCE Driver WITH Requests <- CompilerRequests
B == INSTANCE Bindings

-----------------------------------------------------------------------------
(* The small instances: run manifests a harness may be given, requests to  *)
(* the driver, and libraries for the binding passes (written with operators *)
(* of Bindings, none of which depends on its constants).                   *)

GoodManifest == [trace |-> "t", traceHash |-> "h", output |-> "out", eventLog |-> "jsonl",
         kind |-> "any", reason |-> "", limits |-> {}, domains |-> {"core"},
         files |-> [p \in {"t", "b"} |-> "h"],
         build |-> "b", buildHash |-> "h", identity |-> "model", stage |-> "s", existing |-> <<>>]

RunManifests ==
  {[GoodManifest EXCEPT !.kind = "complete", !.eventLog = "disabled"],
   [GoodManifest EXCEPT !.kind = "incomplete", !.reason = "max_ticks"],
   [GoodManifest EXCEPT !.reason = "trace_drained"],
   [GoodManifest EXCEPT !.existing = [f \in {"run-result.json"} |-> <<"old">>], !.reason = "trace_drained"]}
  \cup {[GoodManifest EXCEPT !.kind = "complete", !.reason = "max_ticks"],
        [GoodManifest EXCEPT !.reason = "deadlock"], [GoodManifest EXCEPT !.eventLog = "xml"],
        [GoodManifest EXCEPT !.traceHash = "other"], [GoodManifest EXCEPT !.limits = {"bus"}],
        [GoodManifest EXCEPT !.build = "c"], [GoodManifest EXCEPT !.identity = "other"],
        [GoodManifest EXCEPT !.trace = "../up"], [GoodManifest EXCEPT !.stage = ""]}

RunBounds == <<1>>

PlainRequest ==
    [acir |-> "a", profile |-> "fast", custom |-> "none", stop |-> "none", emits |-> <<>>, before |-> <<>>,
     after |-> <<>>, afterEach |-> FALSE, verifyEach |-> FALSE, lock |-> "", locked |-> {}, registry |-> "none",
     selections |-> {}, buildProfile |-> "", target |-> "t"]

EmitKinds == {"acir", "acsim", "header", "source", "executable", "report", "acpy"}
EmitLists == {<<>>} \cup {<<k>> : k \in EmitKinds} \cup {<<"acir", "acir">>, <<"acir", "acsim", "header", "source", "executable">>}
DumpLists == {<<>>, <<"acir-parse">>, <<"acir-freeze", "acsim-lower">>, <<"acir-freeze", "acir-freeze">>, <<"publish">>}

DriverStops == {"none", "acir-parse", "acir-verify", "acir-normalize", "acir-freeze", "acsim-lower",
                "acsim-verify", "cxx-emit", "cxx-contract", "compile", "link", "publish"}

DriverRequests ==
    {[PlainRequest EXCEPT !.stop = stop, !.emits = emits] : stop \in DriverStops, emits \in EmitLists}
    \cup {[PlainRequest EXCEPT !.stop = stop, !.before = before, !.after = after, !.afterEach = each] :
            stop \in {"acir-freeze", "none"}, before \in DumpLists, after \in DumpLists, each \in BOOLEAN}
    \cup {[PlainRequest EXCEPT !.emits = emits, !.before = before, !.afterEach = TRUE] :
            emits \in EmitLists, before \in DumpLists}
    \cup {[PlainRequest EXCEPT !.profile = profile, !.custom = custom, !.buildProfile = own] :
            profile \in {"fast", "validated", "custom"}, custom \in {"none", "", "p"}, own \in {"", "fast", "validated"}}
    \cup {[PlainRequest EXCEPT !.lock = lock, !.locked = locked, !.selections = chosen, !.registry = registry] :
            lock \in {"", "given"}, locked \in SUBSET {"x", "y"}, chosen \in SUBSET {"x", "y"},
            registry \in {"given", "malformed"}}
    \cup {[PlainRequest EXCEPT !.verifyEach = TRUE], [PlainRequest EXCEPT !.target = ""], [PlainRequest EXCEPT !.acir = ""]}

Libraries == INSTANCE BindingsMC WITH Registries <- {}, Modules <- {}, Selections <- {}, Passes <- {}
BindingRegistries == Libraries!SmallRegistries
BindingModules == Libraries!SmallModules
BindingSelections == Libraries!SmallSelections

\* No action and no property of Publish tells two processes, requests or
\* contents apart, and the other programs do not mention them.
Symmetry == Permutations(Builders) \cup Permutations(Requests) \cup Permutations(LinkContents)

-----------------------------------------------------------------------------
\* Statistics are unsigned integers up to a largest one, and so is what a
\* model adds to them (statistics.h).
ASSUME RunAssumption == MaxValue \in Nat /\ Amounts \subseteq Nat

\* A request stops after a stage of the pipeline or runs it to its end
\* (CompilerRequest::stopAfter, an optional CompilerStage).
ASSUME DriverAssumption == \A q \in CompilerRequests : q.stop \in {"none"} \cup D!ToSet(D!Stages)

publishOnly == <<pc, attempt, fingerprint, stages, builds, current, linkInput, edits, overtaken>>
runOnly == <<manifest, time, proposals, queue, array, counter, histogram, gauge, recorder, failure,
             participants, stage, ledger>>
driverOnly == <<request, pipeline, ir, kept, build, diagnostics>>
bindingsOnly == <<input, outcome, temp, path>>
all == <<program, publishOnly, artifacts, runOnly, phase, result, driverOnly, bindingsOnly>>

\* A variable of a program that is not followed.
Off == "off"
PublishOff ==
    /\ pc = Off /\ attempt = Off /\ fingerprint = Off /\ stages = Off /\ builds = Off
    /\ current = Off /\ linkInput = Off /\ edits = Off /\ overtaken = Off
RunOff ==
    /\ manifest = Off /\ time = Off /\ proposals = Off /\ queue = Off /\ array = Off /\ counter = Off
    /\ histogram = Off /\ gauge = Off /\ recorder = Off /\ failure = Off /\ participants = Off
    /\ stage = Off /\ ledger = Off
DriverOff ==
    /\ request = Off /\ pipeline = Off /\ ir = Off /\ kept = Off /\ build = Off /\ diagnostics = Off
BindingsOff == input = Off /\ outcome = Off /\ temp = Off /\ path = Off

ToolchainInit ==
    \/ /\ program = "publish" /\ Init
       /\ phase = Off /\ result = Off /\ RunOff /\ DriverOff /\ BindingsOff
    \/ /\ program = "run" /\ M!Init
       /\ artifacts = Off /\ PublishOff /\ DriverOff /\ BindingsOff
    \/ /\ program = "driver" /\ D!DriverInit
       /\ phase = Off /\ PublishOff /\ RunOff /\ BindingsOff
    \/ /\ program = "bindings" /\ B!Init
       /\ artifacts = Off /\ result = Off /\ PublishOff /\ RunOff /\ DriverOff

ToolchainNext ==
    \/ program = "publish" /\ Next /\ UNCHANGED <<program, phase, result, runOnly, driverOnly, bindingsOnly>>
    \/ program = "run" /\ M!Next /\ UNCHANGED <<program, artifacts, publishOnly, driverOnly, bindingsOnly>>
    \/ program = "driver" /\ D!DriverNext /\ UNCHANGED <<program, phase, publishOnly, runOnly, bindingsOnly>>
    \/ program = "bindings" /\ B!Next /\ UNCHANGED <<program, artifacts, result, publishOnly, runOnly, driverOnly>>

ToolchainSpec == ToolchainInit /\ [][ToolchainNext]_all

-----------------------------------------------------------------------------
(* Properties *)

\* Whatever two compiler processes do to one output root, and wherever they
\* are killed (Staging.cpp, Build.cpp): a directory under builds is a whole
\* build of its fingerprint, linked with the inputs the fingerprint names
\* unless they changed between the fingerprint and the link (Build.cpp:348
\* reads them again and compares them with nothing); current.json names such
\* a directory; and a build that succeeded is byte for byte what it staged.
PublicationSound == program = "publish" => PublishedComplete /\ CurrentIsPublished /\ SuccessIsFaithful

\* A published build is never changed and never goes away (Build.cpp renames
\* onto a path only when nothing is there), and current.json changes only in
\* the last step of a build that succeeds.
PublishedStays == [][program = "publish" => KeepsPublished]_all

\* A model's run and its report: the log and the statistics hold exactly what
\* the process was told it did, in canonical order and below the largest
\* value; no port of the array stays taken from one epoch to the next; and a
\* result that is whole lists only whole files that are there and says passed
\* exactly when the outcome is the expected one, whatever write failed.  A
\* kill in the middle of its write leaves a result that is not whole (queue.h,
\* observation.cpp, statistics.h, harness.cpp).
ModelRunSound == program = "run" => M!LogExact /\ M!StatisticsExact /\ M!PortsFresh /\ M!ReportHonest

\* The compiler driver returns exactly the artifacts and dumps a request asks
\* for except a report, which it accepts (Driver.cpp:223) and never emits, or
\* fails with an error, except that a module without exactly one model may be
\* refused with nothing but an earlier warning; and the frozen ACIR, the canonical ACSim,
\* the lock, the providers and the sources it records with a build are those
\* of the model it built (Driver.cpp, CompilePlan.cpp).
DriverSound == program = "driver" => D!RequestHonoured /\ D!BuildConsistent

\* The binding passes bind each request to the one candidate that matches
\* all of its record, whatever order the registry lists them in; a refusal
\* names the true reason; and the lock file is whole at any time although
\* two passes write it (Registry.cpp, ResolveBindings.cpp).
BindingsSound == program = "bindings" => B!BoundExactly /\ B!OrderFree /\ B!DiagnosisHonest /\ B!LockWhole
=============================================================================
