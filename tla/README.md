# TLA+ models of agentic-circuit

agentic-circuit compiles hardware descriptions written in Python into a C++
simulator.  The compiler lowers them through two dialects, ACIR and ACSim; what
it emits runs on `gfsim`, a discrete-event runtime in `include/gfsim` and
`lib/gfsim`.  These modules specify the runtime, the devices that ship with it,
the passes and verifiers of the compiler, and the programs that build and run a
model.  TLC checks them on small instances; TLAPS proves the runtime - scheduler,
queues, links and processes, event queues, resources - and the publication of
builds correct for all instances.

## Inventory

| Part | State | Operations | Interacts with |
|---|---|---|---|
| Scheduler (`SimSystem`, `EventQueue`, `DispatchTable`, `ActivationPlan`) | exact epoch `(time, delta)`, scheduled work, events and event proposals, commit participants, caps, deadlock window, domain cycles, verdict | `step`, `run`, `reset`, `scheduleWork`, `scheduleEvent`, `registerCommitParticipant` | calls `doWork`, `doArbitrate`, `doXfer`, `activateFrom`, `deliverEvent`, `requestTraceEnd` of every object, which call back into the scheduling services |
| `SimQueue`, `QueueLink`, `StateArray` | committed contents, proposals, ports taken | `proposePush`, `proposePop`, `proposeTransferTo`, reads and writes, `doXfer` | proposed to by processes, links and host bridges; commits activate them |
| `ProcessRuntime` and the generated step function | committed and proposed program counter, slots, status, wake subscription | `doWork`, `doXfer`, `activateFrom`, `requestTraceEnd` | woken by the commits of the objects it waits for |
| `HostIngress`, `HostEgress`, `Model::stepTick` | one-entry mailboxes | `stage`, `take`, `doWork`, `doXfer` | the host, between ticks |
| `TimedEventQueue` | entries by ready epoch, schedule and pop proposals | `trySchedule`, `tryRecv`, `doXfer`, `deliverEvent` | one notification per entry in the scheduler's event queue |
| `Resource` | reservations, active capacity, proposals | `proposeReserve`, `proposeRelease`, `proposeCancel`, `doArbitrate`, `doXfer` | its owners |
| Protocols of `components.h` | offers, correlations, ordered entries, memory | propose during Work, apply at Xfer | the devices |
| `TraceSource`, trace reader | cursor, offer, completed sequences, issue wake | `proposeAccept`, `markDependencyComplete`, `doWork`, `doXfer` | consumers; the scheduler's events |
| NPU and showcase devices | instruction window, units, tiles, memory; scenario actors | one commit or epoch at a time | protocols |
| Statistics, observations, harness | per-epoch proposals, counters, flows, result directory | `commitOwner`, run, report | every object; files |
| ACIR verifiers | none beyond the verdict | record types, packets, interfaces, protocols, address maps, queue endpoints, arbiters, process bodies | what they accept is executed by the runtime |
| Model analysis and freeze | manifest, skeletons, digest | freeze, re-verification by every later pass | later passes |
| Process state planning | program counters, blocks, slots, wakes, helpers | plan, audit | lowering |
| Lowering and ACSim verifiers | rows, dispatch table, activation edges | lower, verify | generator, scheduler |
| Bindings, JSON | registry, selection, lock file | resolve, write the lock | driver; files |
| Driver, build and publication | stages, artifacts, staged and published directories, current pointer | run stages, stage, compile, rename | other compiler processes; files |
| Python front end | syntax trees | capture, normalise, lower | ACIR |

What is hard about it.  In one epoch many objects act on the same committed
snapshot, propose, and commit together; wakeups are edge-triggered by commits
and planned statically by the compiler; zero-delay events run in causal deltas
of the same tick; runs end through about a dozen exits.  The errors to fear are
lost wakeups, work or events left behind the clock, proposals that overflow a
capacity together although each fits alone, two accounts of one fact that drift
apart, and verdicts given too early.  In the compiler the same fact is computed
twice and far apart: by a planner and its verifier, by a sweep and the addresses
it stands for, by a digest and the file it protects.  Compiler processes share
directories, may be killed anywhere, and read files others write.  `hazards` in
PROJECT.json lists these at their lines.

What makes each part correct:

* scheduler - time only moves forward, nothing pending is ever stale, events are
  delivered at exactly their epoch, caps hold on every exit, a run that
  is called completed or stuck has nothing pending, and every run ends;
* queues and links - capacities hold whatever is proposed together, values are
  neither lost, repeated nor overtaken;
* processes - whoever is not scheduled could not move, and the state machine
  made of a process does what the process says;
* event queues - entries and notifications agree, no consumer sleeps through an
  event;
* resources - capacity is conserved, arbitration ignores the order of proposals,
  owners cannot touch each other's reservations;
* devices - dependencies are respected, nothing is lost or repeated, and every
  accepted trace comes to its end;
* verifiers - what they accept is safe to execute, and what they refuse is
  refused for a reason;
* files - a reader sees whole files only, under the fingerprint of their
  contents, and what is published stays.

## Modules

| Module | Models |
|---|---|
| `SimSystem`, `SimSystemMC`, `SimSystemProofs` | `lib/gfsim/system.cpp`, `EventQueue`; constants; theorems |
| `Dataflow`, `DataflowMC`, `DataflowProofs` | `SimQueue`, `QueueLink`, `ProcessRuntime`, host bridges, `stepTick`; two networks; theorems about any network |
| `Fifo`, `PipeProofs` | what a chain of queues promises its host (abstract); the theorem that a pipe keeps it |
| `TimedEvents`, `TimedEventsMC`, `TimedEventsProofs` | `TimedEventQueue` and its processes on top of `SimSystem`; theorems |
| `Resource`, `ResourceProofs` | `include/gfsim/resource.h`; theorems |
| `Protocols` | `ReadyValid`, `RequestResponse`, `Sink`, `Memory` of `components.h`, as values |
| `Npu` | `lib/gfsim/npu.cpp`: decode, dependency tracker, pipeline, memory path, retirement |
| `Showcase` | the six scenarios of `lib/gfsim/showcase.cpp` |
| `TraceFeed` | trace reader, `TraceSource`, consumers and the ordered `Scheduler` |
| `Devices`, `DevicesProofs` | the three above in one run, with their small instances; theorems about all three |
| `Publish` | `lib/CodeGen/Build.cpp`, `Staging.cpp`: builders that share an output root |
| `ModelRun` | a harness run: queue, `StateArray`, statistics, observations, result directory |
| `Driver` | `lib/Compiler/Driver.cpp`, `Pipeline.cpp` |
| `Bindings`, `BindingsMC` | registry, resolution, lock file |
| `Toolchain`, `ToolchainProofs` | the four above in one run, with their small instances; theorems about all four |
| `Records`, `Contracts`, `ContractsMC` | named types, record operations, packets, interfaces and protocols of `ACIROps.cpp` |
| `AddressMaps` | the sweeps of `ACIRResources.cpp` (with its small instance) |
| `QueuePorts`, `QueuePortsProofs` | queue endpoints, arbiters and an epoch of the module (with its small modules); a theorem about round-robin arbiters |
| `Json` | the I-JSON reader and canonical writer of `Binding.cpp` (with its small instance) |
| `Topology`, `Freeze`, `FreezeMC` | whole-model analysis, freeze and re-verification |
| `ProcessRules`, `ProcessRulesMC` | what `ac.process` accepts, and the execution of an accepted body |
| `PlanSet`, `PlanAudit`, `PlanAuditMC` | the plan set of a model and `verifyProcessStatePlan` |
| `ProcessPlan`, `ProcessMachine`, `ProcessMachineMC` | the planner of one process; the lowered machine beside its source |
| `RuntimeGraph` | lowering of the hierarchy, ACSim verifier, activation edges (with its small instance) |
| `Compiler` | the eight compiler components above in one run |

**SimSystem.**  One call of `step()` is the phase cycle `begin`, `deliver`,
`work`, `commit`, `causal`; each loop of `step()` is one phase, each iteration
one action, so that TLC visits every intermediate state:

| Action | Code |
|---|---|
| `Begin` | trace, tick, domain and event caps on entry |
| `Deliver` | one event of either delivery loop, `deliverReadyEvent` |
| `OpenWork` | the Work snapshot |
| `Work` | one object's `doWork` |
| `Arbitrate` | arbitration and validation |
| `Commit` | probe, once-per-tick check, commit and failure code of one object |
| `EndXfer` | event queue Xfer, trace end, activation |
| `Advance` | next epoch, deadlock window, tick cap, verdicts |
| `HostSchedule`, `Reset` | calls between steps |

The driven objects are left open.  What an object does in a call is a parameter
of the action, and `Next` quantifies over all of it, so a result about
`SimSystem` holds for every set of objects.  `TimedEvents` uses the same actions
with the parameters its objects compute and implements `SimSystem!Spec`
(`ImplementsKernel`, checked and proved): the theorems therefore apply to it.
Not represented: the 64-bit overflow guards, `unknown_*_target` (the compiler
emits only known ids), `xfer_probe_mismatch`, observations, and the contents of
the no-progress report; `validatePendingCommit` failures are one code.

**Dataflow.**  No object here asks for events, so a tick is one epoch and only
the set `ready` of objects scheduled for the next tick is kept.  The process is
the loop the generator emits for receive, send, yield: a failed receive awaits
the input queue, a failed send awaits the output queue and keeps the value in its
live slot.  `Xfer` is the whole barrier of a tick, activation edges included.
The commits of a tick touch disjoint objects, so doing them in one action loses
nothing here; `SimSystem` has them one by one.  The host numbers the values it
stages, modulo `Labels`; `sent`, `got` and `inflight` are the host's.

**TimedEvents.**  A producer schedules with some delay, or ends; a consumer
receives or waits.  `TimedEventQueue::doXfer` schedules one notification per
entry through `Commit`'s requests.

**Resource.**  An iteration of the loop of `doArbitrate` is a step (`Serve`), and
so is an iteration of the release loop of `doXfer` (`ApplyRelease`); the
accepted reservations and the cancellations, whose order does not matter, are one
step (`Xfer`).  Nobody acts between these steps; they are there so that a property
can speak of the middle of a loop.  The capacity of a set of reservations is
counted in units.  The clock is left out.  `rank` stands for priority, port index
and instance index, the leading keys of `reservationLess`.

**Devices.**  `Npu` takes one commit of the tracker or the pipeline per step, on
the private clock of the driver; tile contents are the instruction that wrote
them.  `Showcase` takes one epoch of a scenario's own `SimSystem` per step: an
actor that proposes to a component which is not scheduled leaves the proposal
waiting, as the code does.  In `TraceFeed` the consumers are free: they accept,
schedule, pop and complete in any order around the source's Work.

**Publish.**  Every filesystem effect another process can see is an action; a
builder can fail at each and can be killed between any two, when no destructor
runs.  Fingerprints are the contents they are taken of, and `builds` is a partial
function from them to directories.  The ghost `overtaken` remembers the
fingerprints of builds whose link inputs were edited between the fingerprint and
the link.  **ModelRun** follows one process through Work, arbitration, validation
and Xfer of each epoch, and then the writing of the report.  A statistic does not
enrol in the commits of an epoch: it commits when it is scheduled, and its
proposals wait until then.  A file of the report is created empty (`CreateFile`)
and filled in a later step, so a write can fail or be killed in the middle and
leave it `Truncated`.  **Driver** leaves it open whether a pass accepts; a module
is the list of transformations it has been through.  The artifacts a request names
are `Asked`; the ones a stage can emit are `Emitted`.  **Bindings** has two passes that resolve and write the same lock.

**The compiler modules** share a shape: the input is chosen from a family of
small files, one action gives the code's verdict, and what was accepted is then
executed - protocols over packets, record programs on bytes, epochs of a module
with arbiters, bodies of processes with free conditions, activations of planned
processes - or compared with a reference definition that knows nothing of the
algorithm: single addresses instead of sweeps, the flattened hierarchy instead
of per-definition summaries, the grammar instead of the scanner, the objects a
value denotes instead of dependency frames.  Where a file lies on disk between
two stages it may also be edited (`Freeze`, `PlanAudit`, `RuntimeGraph`): the
verifier then has to find out.

In `Contracts` a packet's layout is the one the lowering derives
(`NaturalLayout`, `HasNativeType`); `hasValidPacketLayout` of `packet.h` is a
check on traits written by hand and is not part of it.  In `ProcessRules` a body
is executed with a count of the suspensions of every open region, so that a use of
a linear value can be compared with where the value was made.

**ProcessMachine** runs the lowered state machine and the source process side by
side; the environment chooses the answers of the queues and gives both the same.
A failed read answers with the zero value.  `ProcessMachineMC` puts a process
together from statements the ACIR verifiers accept - receive and send of scalars
and of packets, calls of one and of nested functions, the same function twice,
`wait_for`, `wait_until`, awaits in the false branch of their own attempt, tests,
static loops with and without a suspension - and ends it with a yield.  `PlanOf`
checks lowerability and the expansion limits first, as the planner does.

## Runs

| Run | Shows |
|---|---|
| `scheduler` | all safety and action properties of the scheduler, one process, one event queue, one stateful object, two domains (one capped), `MaxDeltas` 2, `MaxTicks` 3, `MaxEvents` 2, event capacity 2, deadlock window 2 |
| `scheduler_ends` | every run ends, with no deadlock window to help |
| `xfer_atomic` | violated: the barrier is not atomic when a participant fails in it |
| `pipe` | ingress, queue, link, queue, process, queue, egress is a FIFO channel; the link never fails |
| `shared_queues` | two processes compete for both their queues, a process and an egress for the same values: nothing lost, nothing stuck |
| `timed_events` | two producers and two consumers of a queue of capacity 3, delays 0 to 2 |
| `resource` | two owners, three transactions, two ranks, capacity 2 |
| `devices` | NPU, showcase and trace feed: sound in every state, and they finish |
| `toolchain` | two builders and an edit of their link inputs, a model run with its report, the driver, two binding passes |
| `process_plan` | machine and source agree on every process of up to four statements out of fourteen templates, five known gaps excepted |
| `process_slots` | violated: a value that crosses two suspensions gets no slot |
| `compiler` | what the eight compiler components accept is sound |

A union run (`devices`, `toolchain`, `compiler`) follows one component per
behaviour, chosen in its initial state; the components meet only in files, so
nothing is lost by following one at a time.  Each of its invariants is the
conjunction of one component's properties, which are stated and commented in the
component's module.  Beside the definitions these properties depend on stand
operators marked "Mutant of ...", each a plausible mistake in the code that TLC
catches; the manifest lists one for every invariant of a run.

The bounds.  Every cap of the scheduler run is small enough to be hit on every
path and large enough to be missed: three ticks and two deltas give a past, a
present, a causal continuation and a future; a batch of two requests against a
capacity of two overflows, also halfway.  A queue of the dataflow networks is
full with one or two values, once by entries and once by bytes.  `Labels` is
larger than the number of values the pipe can hold, so a lost, repeated or
overtaken value shows.  Three transactions on a capacity of two have a winner, a
loser, and a small request behind the loser.  `MaxIssued` bounds what is reserved
between two resets.  An event queue of three entries is the smallest in which a
consumer can yield, be woken for a causal delta and find nothing, so that it
stays scheduled while it waits (`IdleWork`).

* Devices: all traces of up to three of eight records and of four of five (loads,
  stores, a read-modify-write, two blocks), two units of one kind, a memory path of
  depth two; scenarios with enough words to fill their queues; trace
  documents with two dependencies and two consumers that compete for an offer.
* Toolchain: two builders with two attempts each, two requests, one edit of a
  link input; a queue and an array that two proposals fill, statistics whose
  largest value is 3 so that two proposals overflow together; registries one or
  two fields away from the record a request asks for; two passes.
* Compiler: protocols of up to three transitions over three states; eight
  addresses; modules of up to three processes and two tokens; every JSON
  production with one token left out, put in or changed; hierarchies of depth 3
  with arrays of modules, with and without flows, and edits of functions; plans of
  up to five program counters, looped ones among them; bodies with two nested
  loops; designs with two levels, arrays of modules and of objects, relays and a
  binding, and files read from disk with a two-dimensional array and with branches
  that join.
* Processes: fourteen statement templates, four statements and a yield, four
  program counters, three live slots, two values per answer.  Four statements are
  the fewest that carry a value over two suspensions.

Fairness.  `RunSpec`: `run()` calls `step()` in a loop, so a step that is
possible is taken; host calls may interleave without end and are not fair.
`FairSpec`: the host keeps calling `stepTick`, a tick that has begun runs to its
end, and the host takes a value it is offered again and again (a `take` is
possible only between ticks, hence strong fairness).  The host is not assumed to
stage anything.  `DevicesSpec`: the drivers of the NPU and of a scenario are
loops, so their steps are taken; of the consumers of a trace it is assumed that
each of their duties (accept, schedule, pop, complete) is done when it stays
possible - without a consumer that accepts no source can finish.

Deadlock is checked in all runs but `scheduler_ends`, where a run that has ended
stays so, and the runs of the union modules and of the process machine, whose
components come to an end: in particular no process of the dataflow networks is
ever scheduled without being runnable.

## Disagreements between documents and code

Two are shown by a run of their own:

* `docs/specs/gfsim-runtime-abi-v0.2.md:151` calls the Xfer barrier atomic; the
  code leaves earlier participants committed when it refuses a later one.  In the
  trace of `xfer_atomic` one object commits and activates, and another, which comes
  after it, is refused because it would commit a second time in its tick
  (`system.cpp:524`).  A run that meets this has failed, so it matters to whoever
  reads the state or the statistics of a failed run.
* `docs/specs/acir-process-state-plan-v0.2.md:1321` gives a slot to every value
  defined before a suspension and used after it; liveness collects definitions
  only in the program counter that suspends, so a value used two suspensions
  later has none.  The process of `process_slots` receives, waits twice with
  `wait_for` and sends.

The others were met while modelling.  The models do what the code does.  Where a
property would be violated by it, the property names the exception in its formula
and its comment, the instance contains the case, and the run fails without the
exception; these are marked (e).

Runtime:

* `gfsim-runtime-abi-v0.2.md:280` orders events of one epoch by target, kind and
  payload; the code (`core.h:137`, `queue.h:524`) orders them by acceptance.
  `EventsOnTime` says nothing of the order within an epoch.
* The same document (:258) makes `space()` zero when the byte capacity binds
  first; `queue.h:130` does not look at the byte capacity.
* A statistic is no commit participant (`statistics.h:40-78`): one that nothing
  schedules never commits what it accepted.  `SumsExact` counts committed and
  proposed together.
* `writeExclusive` (`harness.cpp:173-193`) writes `run-result.json` under its own
  name, so a kill leaves a truncated result (e: `ReportHonest`).
* Cycles of a domain are counted only in ticks that are executed.
* Work runs in ascending id order, so of two processes competing for a full queue
  the one with the higher id can be refused in every tick.
* `Resource::proposeCancel` does not look at pending releases, although
  `proposeRelease` looks at pending cancellations: both may be accepted for one
  reservation, and if the owner is granted another one in that epoch the release
  takes from it.  `Settlement` states what the owner is left with.
* `docs/superpowers/specs/2026-08-12-phase-5-e2e-npu-design.md:240` says that
  tile destinations are renamed; the pipeline writes tiles by their own identity
  (`npu.cpp:1371`), and `ProducersFirst` is stated without renaming.

Compiler:

* ACIR lowering names the link of a flow by the number of all inputs planned
  before it (`ACIRToACSim.cpp:1864`), the ACSim verifier by the number of flow
  binds (`ACSimOps.cpp:2774`): a module with a port input before a flow input is
  refused by the compiler's own verifier.  `LoweringAccepted` makes this exception
  (`PortBeforeFlow`).
* In the same verifier a conditional branch with equal targets follows the
  operands of the true edge only (`ACSimOps.cpp:2641-2650`), so an event queue that
  only the false edge passes on wakes nobody (e: `PlanRight`); and back edges cost
  nothing, so `WorkWithinCap` is stated for processes without local loops.
* `verifyFlowConnections` visits `ac.instance` only (`ModelAnalysis.cpp:1099-1101`),
  while `acir-core-v0.2.md:426-429` asks for linearity of every connection: the
  flows of a module below an array may dangle (e: `FlowsLinear`).
  `isDirectStateOwner` (`ModelAnalysis.cpp:421`) omits state arrays, which refuses
  some legal models.  Bodies of functions are in neither the digest nor a skeleton,
  and a later pass may change them (e: `FrozenEffectsKept`).
* A protocol transition that cancels or rejects may be marked `transfer`
  (`ACIROps.cpp:798-821`), against `acir-core-v0.2.md:525-528`
  (e: `PacketsAccounted`).  The verifier asks a state with a pending offer for some
  way on only (`ACIROps.cpp:966`), so a protocol may retry an offer for ever;
  `PendingRunsOn` claims no more than that.
* The helper of `record.create` takes its byte order from its first operand, a
  field, and so writes a big-endian packet little-endian
  (`ACIRToACSim.cpp:2181-2183`), against `docs/acir-packet-runtime.md:10`
  (e: `PacketsFaithful`).
* `AwaitQueueOp::verify` accepts an await anywhere below the failed branch, also
  after another suspension, when the queue may have become ready meanwhile and the
  wake is lost (`acir-core-v0.2.md:722`).
* Process planning.  Five shapes are planned and lowered without a diagnostic and
  run wrong (e: `KnownGap` of `MachineFollowsProcess`, each of the five needed): a
  value carried over more than one suspension that is not a retry (`LongLived`,
  the case of `process_slots`); the condition of a branch, which liveness does not
  count as a use (`LateTest`); the induction value of a static loop that suspends
  (`SuspendingLoop`); two calls of one function, whose values share a slot because a
  slot is looked up without its call context (`SharedFunction`); and the result of
  a nested pure call that is returned directly and keeps a placeholder
  (`ReturnedCall`).  `boundedLocalWork` counts nested loops too low.
* With local loops the plan verifier skips the cycle check and trusts the stored
  work (`ProcessStatePlan.cpp:4562-4572`), against
  `acir-process-state-plan-v0.2.md:1357-1363` (e: `WorkBounded`, `AuditDecides`); of
  suspend edges it never compares the program counter of the block.
* Epochs of a process body miss the back edge of a loop and the way from the before
  to the after region of an `scf.while` (`ACIROps.cpp:3043-3045`), so a linear value
  from outside may be used across a suspension there, against the rule tested in
  `test/ACIR/process-invalid.mlir:176` (e: `LinearNotAcross`); and a `trace.next` in
  a loop on an outer cursor counts once (`ACIROps.cpp:3234`).
* `Registry.cpp` accepts identities with a trailing separator that `Binding.cpp`
  refuses; JSON integers beyond 2^53 lose precision.
* Driver: `validateRequest` accepts the kind `report` (`Driver.cpp:223`), which no
  stage emits, and when the module count of `acsim-verify` refuses a module only
  the earlier warnings are returned (e: `RequestHonoured`, `FailureTold`);
  `stopAfter` compile already publishes; a read failure in the publish stage leaves
  a published build.
* The compile plan and the link read the link inputs again after the fingerprint
  was taken (`Build.cpp:339-348`) and nothing compares them: a file edited in
  between is published under the fingerprint of the old one, against
  `acsim-gfsim-lowering-v0.2.md:521-524` (e: `PublishedComplete`).  Headers found
  through include roots are not part of a build's fingerprint.

## Proofs

Every theorem holds for all values of the constants that satisfy the named
assumptions of the component's module.  Each invariant below was checked by TLC on
a small instance before it was proved.

| Module | Theorem | Statement |
|---|---|---|
| `SimSystemProofs` | `TypeCorrect`, `SchedulerSound`, `CapsSound`, `SelfChecksSound`, `VerdictsSound` | `Spec => []TypeOK`, `[]SchedulerInv`, `[]CapsRespected`, `[]SelfChecksSilent`, `[]VerdictSound` |
| | `TimeMonotone`, `DeliveryOnTime` | `Spec => EpochMonotone`, `Spec => EventsOnTime` |
| `DataflowProofs` | `DataflowTypeCorrect`, `LinksNeverFailTheorem`, `NoOverflowTheorem`, `NoLostWakeupTheorem`, `ConservedTheorem` | `Spec => []` of the invariant each is named after |
| `PipeProofs` | `PipeIsFifoTheorem` | in a pipe, `Spec => PipeIsFifo` |
| `TimedEventsProofs` | `NotificationsExactTheorem`, `NoEventMissedTheorem`, `NothingStrandedTheorem` | `TimedSpec => []` of the invariant |
| | `ImplementsKernelTheorem` | `TimedSpec => ImplementsKernel` |
| `ResourceProofs` | `ConservationTheorem`, `ArbitrationStableTheorem`, `SettlementTheorem` | `Spec => []` of the invariant |
| `ToolchainProofs` | `PublicationSoundTheorem`, `PublishedStaysTheorem` | `ToolchainSpec => []PublicationSound`, `ToolchainSpec => PublishedStays` |
| | `DriverSoundTheorem` | `ToolchainSpec => []DriverSound` |
| | `PortsFreshTheorem`, `ReportHonestTheorem`, `SumsExactTheorem` | the parts `PortsFresh`, `ReportHonest` and `SumsExact` of `ModelRunSound`, with `QueueBalances` of its `LogExact` |
| | `LockWholeTheorem` | the part `LockWhole` of `BindingsSound` |
| `DevicesProofs` | `FeedSoundThm`, `NpuSoundThm`, `ShowcaseSoundThm` | `DevicesSpec => []` of the invariant |
| `QueuePortsProofs` | `RoundRobinTheorem` | for well-formed modules, `PortsSpec => [](RoundRobinServes /\ RoundRobinGrants)`, a part of `QueuePortsSound` |

**Scheduler.**  For every set of objects, every activation plan, every behaviour
of the objects and every value of the limits.  The assumptions
(`ObjectsAssumption`, `LimitsAssumption`, `DomainsAssumption`) are finitely many
objects with natural ids, positive caps, and domains with positive periods, which
preflight and the setters enforce.  The inductive invariant is `TypeOK`,
`SchedulerInv`, `CapsRespected` and `SelfChecksSilent` together; none is inductive
alone.  `SchedulerInv` has five parts: nothing pending lies before the current
epoch, or in it once it executes (`FutureOnly`); sequences identify events
(`SeqUnique`); pending work keeps within the tick and delta limits
(`PendingBounded`); the deadlock deadline lies ahead unless a due event is about to
move it (`DeadlineAhead`); and no proposal survives its epoch (`BarrierClosed`).
`FutureOnly` makes `Advance` move forward and keeps the self checks silent,
`PendingBounded` gives the caps at the next epoch, and `DeadlineAhead` makes the
jump to the deadline a jump forward.  The earliest pending epoch and the next
event exist because epochs are well ordered (`EarliestEpoch`).  One lemma per
action shows that it preserves the invariant; the lemmas are about `OpenNext`,
which leaves the batches of requests unbounded, so that `TimedEventsProofs` can use
them for objects of its own.

**Dataflow.**  For every network of queues, links, processes and host bridges with
any capacities.  `TopologyAssumption` says that ids are natural and name one object
each, and that some input exists, so that a tick always has work;
`LinkAssumption` is the exclusive use of its two queue ends by a link, which
`QueuePorts` checks the compiler to enforce; `CapacityAssumption` is what the
constructor requires.  The properties hold between ticks or at any time, but what
makes them true happens in the middle of a tick, so `DataflowInv` adds what is
known there: nothing is proposed between ticks (`NothingProposed`); a link whose
turn is still to come finds its sides of both queues untouched (`LinkSides`,
without which a link could fail); every process has its turn ahead of it, was not
scheduled because the snapshot could not serve it, or has proposed a continuation
that waits for what the snapshot refused (`ProcessStands`, from which
`NoLostWakeup` follows at the barrier: whatever could end the wait is a commit of
this tick and activates the process); and the proposals of a tick taken together
neither add nor lose a value (`ConservedNext`, the accounts as the barrier will
leave them).  Values are counted as cells, pairs of a queue and a position, so
that sums over queues are cardinalities.

**Pipe.**  `PipeIsFifoTheorem` is the refinement of the abstract channel `Fifo` by
the network of the `pipe` run, for any capacities and number of labels; its
hypothesis `Pipe` is that topology.  `Stage` is `Put`, `Take` is `Get`, `Reset` is
`Clear`, every other step stutters.  The hard step is the barrier, in which all
objects commit at once.  `PipeInv` says of each object that it puts on one side
exactly what it takes on the other, oldest first (`EgressMoves`, `ProcessMoves`,
`LinkMoves`, `IngressMoves`); concatenated along the chain, the barrier then leaves
the contents of the chain as they were.  That they are the consecutive labels
between what the host got and what it staged is the rest of the invariant.

**Timed events.**  For any number of queues, producers and consumers, any delays
and limits.  `UsersAssumption` and `EdgesAssumption` are the wiring the lowering
emits; `NotificationRoom` is that the scheduler's queue can hold a notification for
every entry, without which a commit may end the run with a capacity failure.
`TimedInv` adds to the scheduler's invariant that sequences number the entries of a
queue (`Numbered`), that notifications and entries that are not ready correspond
one to one (`Announced`), that who has made a proposal has its Xfer ahead of it
(`Barrier`), that a process that can run is scheduled (`Awake`), and that a consumer
that waits, or is about to, has nothing left to receive that is not announced or
taken (`WaitersInformed`).  `NoEventMissed` asks that whatever a waiting consumer
could receive is still to be announced to it.  `ImplementsKernelTheorem` needs that
the kernel's `Batches` contain the notifications of one commit.

**Resource.**  For any capacity, owners, transactions and keys, from
`ResourceAssumption` (a positive capacity and natural ids) alone.  The bounds
`MaxPending` and `MaxIssued` are arbitrary, and the proofs do not use them.
`ResourceInv` adds that requests are for transactions that hold nothing
(`RequestsFresh`), that what the loop has accepted fits, and that everyone still
undecided comes after everyone decided (`Decisions`): a later grant therefore never
changes what an earlier one was compared with.  For a release the stable order
numbers the units of an owner from 1 to its capacity (`PositionBijection`), and the
units that are left are those numbered beyond the amount (`ReleaseTakes`); this
gives `Settlement` without a sum over reservations.

**Publication.**  For any number of compiler processes, attempts, requests and
edits of link inputs, with failures and kills between any two steps.  The theorems
are about the whole of `Toolchain`, of which `Publish` is one part.  `PublishInv`
says what a process has done when it is about to take a step: which artifacts it
has recorded (`ArtifactsStand`), what is in its private stage (`StageStands`), that
a stage belongs to a process and to a build it has started, so that no other
process touches it (`StagesStarted`), and what is published under its fingerprint
(`ResultStands`).  `LinkedInv` adds what a build that no edit has overtaken has
read: until it links, the link inputs are those of its fingerprint, and its compile
plan and its executable hold them.  That a publication is complete follows from the stage being
complete when it is renamed, and that it stays from a rename happening only where
nothing is published.

**Driver.**  For every set of compiler requests; `DriverAssumption` is that a request
stops after a stage of the pipeline or nowhere, which the type of `stopAfter`
gives.  `DriverBody` follows the number k of stages passed: the pipeline is what is
left after k stages, the module has exactly the transformations of the first k
(`ModuleOf`), the artifacts are those the request asks for and the first k stages
emit, each once and none for a report (`Yields`, `DueUpTo`), what the driver keeps for the build is the
module as it was when it was kept (`KeptAfter`), and a build exists only after the
compile stage and is made from what was kept (`BuiltFrom`).  At the end k is the stage
the request stops after, and what was due up to there is what was asked and is not
a report (`AskedIsDue`).

**Lock file.**  For any number of binding passes on one path, each killed anywhere:
`PassesStand` adds that a flushed temporary file holds the whole lock of its pass,
which is what the rename publishes.

**Model run.**  For any manifest, any operations in any order and a failure of any
write.  `BarrierStands` says that whoever touched the array, if only to read it, is
registered at the barrier of the epoch, so that its ports are free again in the next
(`PortsFresh`).  `ReportStands` says for every step of the publication which files
are in the directory, which of them is still being written and what the verdict is,
from which a result that is whole is complete and honest (`ReportHonest`).
`StatisticsStand` says that totals and proposals together are what the ledger
counted, and that the observations of a histogram are consistent:
their number times the least of them is at most their sum, and their sum at most
their number times the greatest, which observing and merging both preserve.
`QueueStands` adds to `QueueBalances` that no more is popped than the queue holds.
`RunAssumption` is that amounts are unsigned and the largest value is natural.

**Trace feed.**  For any documents, any consumers and any capacity of the ordered
Scheduler (`FeedAssumption`: documents are sequences of records, consumers have
natural ids).  `FeedInv` says that only a document the reader accepted is served
(`FeedServed`), that what was issued has smaller sequence ids than the record at the
cursor (`FeedAscending`), that the entries of the Scheduler have different ids and
are proposed by who holds them (`FeedDistinct`), that what is offered has its
dependencies completed and its time come (`FeedOrder`), and that every transaction
that left the source is in exactly one place (`NoTransactionLost`).  The reader only
compares neighbouring records; that all earlier ids are smaller is an invariant
which the cursor extends by one record at a time, an induction over states where
one over the trace is out of reach.  Sorting is reduced to order: a finite set with
a strict linear order is numbered by how many members come before each
(`LinearOrder`, `Numbered`), so that the sorted sequence exists and holds each
member once; the NPU uses the same lemmas.

**NPU.**  For any traces, units of each engine and depth of the memory path
(`NpuAssumption`).  `NpuInv` says that the tracker names the last dispatched writer of
each tile (`ProducersLast`), that an instruction depends on the last writers of its
inputs and that all it depends on is done before it is issued (`DependenciesKept`),
that nothing executes before the trace is dispatched (`NothingStarted`), and that
the requests the protocol has not delivered are the memory instructions that
started in the last execution step (`RequestsFresh`).  With these, `RetirementInOrder`
and `MemoryAccountsAgree` are inductive.

**Showcase.**  For every policy a scenario can be configured with
(`PolicyAssumption`: unsigned values and capacities, one lane except in the lanes
scenario).  `ShowInv` has a part for each kind of scenario.  A lane holds, in its
sink, in the sink's proposal and in its queue, exactly the prefix its producer has
pushed (`LaneInv`).  On a channel the producer is at most one transfer behind what
the channel counts, and an offer is on the channel or proposed, never both
(`ChannelInv`).  In the memory scenario the server is always where the phase of its
client says (`ServerFollows`), and a cell is the last write to it (`MemoryInv`).  A
process waits for its tick, resumes once and ends with the value of one resumption
(`ProcessInv`).

**Round-robin arbiters.**  `RoundRobinTheorem` holds for every set of modules that
are well formed (`PortsWellFormed`, the shapes the parser gives an operation); TLC
evaluates this hypothesis for the modules of the `compiler` run as `PortAssumption`.
A candidate that asks in every epoch is denied fewer times than there are
candidates.  The invariant (`Served`) is that its denials and its distance from the
arbiter's turn together stay below their number: a denied candidate comes at least
one closer to the turn, because the turn moves past whoever is granted, and that is
somebody between the turn and it.

Only model-checked:

* the liveness properties (`EveryRunEnds`, `OutputKeepsComing`, `MailboxDrains`,
  `DevicesFinish`): the prover does not handle fairness and `ENABLED`;
* of `ModelRunSound`, the rest of `LogExact`, which is about the sorted and filtered
  log, and `BucketsAddUp`, a fold over the buckets: what sorting, filtering or a fold
  computes for every list is an induction over data;
* of `BindingsSound`, `BoundExactly`, `OrderFree` and `DiagnosisHonest`: they
  compare results of `SortSeq`, which is defined by such an induction;
* of `QueuePortsSound`, `SoleMovers` and the grants of the other arbiters: the
  verifier's sets and the greedy choice are folds over operations and candidates;
* the process machine (`MachineFollowsProcess`) and the other properties of the
  compiler, whose algorithms are recursive over their inputs and use `RECURSIVE`
  operators.

## Not modelled

`components` in PROJECT.json gives the state of each part.  Left out are:

* the Python front end: sequential rewriting of syntax trees, one case per
  syntactic form;
* parsers, printers, builders and the verifiers of single attributes of both
  dialects, the type symbols and fingerprints of the lowering and its reading of
  single operations into placements, the canonical form of ACSim;
* the text the generator emits (its behaviour is modelled) and of reports;
* the planner for dynamic `scf.for` and `scf.while`
  (`ProcessStateContinuation.cpp:755-922`), `normalizeAddressMaps`,
  `validateStaticValue`;
* `Compute`, `Link` and `ProtocolState` of `components.h`, which nothing uses;
* 64-bit arithmetic at its limits, except where a `MaxValue` stands for it.

## Plan

1. Runtime: `SimSystem`, `Dataflow`, `TimedEvents`, `Resource`; proofs of the
   scheduler.  Done.
2. Devices and the programs around a model.  Done.
3. Compiler: verifiers, freeze, planning, lowering.  Done for the parts listed
   above; next would be the reading of operations into placements and the dynamic
   loop planner.
4. Proofs: scheduler, dataflow and its refinement, timed events and their
   refinement, resources, publication, the driver, the devices, the ports and the
   report of a model run, the lock file, round-robin arbiters.  Done.
5. Next proofs: the log of a model run, with the entries of a commit ranked instead
   of sorted, and the binding of requests, with candidates ranked by the numbering the
   feed and the NPU use instead of `SortSeq`.
