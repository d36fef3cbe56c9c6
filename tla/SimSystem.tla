----------------------------- MODULE SimSystem -----------------------------
(***************************************************************************)
(* The scheduler of the gfsim runtime: class SimSystem of                  *)
(* include/gfsim/object.h and lib/gfsim/system.cpp.                        *)
(*                                                                         *)
(* One call of SimSystem::step() executes one epoch <<time, delta>>:       *)
(*                                                                         *)
(*   begin   -> deliver -> work -> commit -> causal -> begin (next epoch)  *)
(*    caps      due       Work      Xfer     same-epoch                    *)
(*              events    loop      loop     events, then Advance          *)
(*                                                                         *)
(* The objects the scheduler drives are left open: what an object does in  *)
(* a call is a parameter of the action (the participants it registers, the *)
(* events it asks for, whether it has something to commit), and Next       *)
(* quantifies over everything an object may do.  A module that models      *)
(* concrete objects EXTENDS this one and uses the same actions with the    *)
(* parameters its objects compute.                                         *)
(***************************************************************************)
EXTENDS Integers, Sequences, FiniteSets, FiniteSetsExt

CONSTANTS
    Objects,        \* dense stable object ids (the dispatch table)
    Kind,           \* the ObjectKind of each object, as far as step() looks
    Activation,     \* source -> targets: the installed ActivationPlan
    Batches,        \* the sequences of event requests one call may issue
    MaxDeltas,      \* kMaxDeltasPerTick
    MaxTicks,       \* maxTicks_
    MaxEvents,      \* maxEvents_
    EventCapacity,  \* capacity of the internal event queue
    DeadlockWindow, \* deadlockWindow, 0 when the option is not set
    Domains         \* time domains in name order: [period, phase, limit],
                    \* limit 0 when maxDomainCycles does not name the domain

Kinds == {"Process", "TraceSource", "EventQueue", "Stateful"}

Request == [target : Objects, delay : Nat, payload : Nat]

ASSUME ObjectsAssumption ==
    /\ Objects \subseteq Nat
    /\ IsFiniteSet(Objects)
    /\ Kind \in [Objects -> Kinds]
    /\ Activation \in [Objects -> SUBSET Objects]
    /\ Batches \subseteq Seq(Request)
    /\ <<>> \in Batches

ASSUME LimitsAssumption ==
    /\ MaxDeltas \in Nat \ {0}
    /\ MaxTicks \in Nat \ {0}
    /\ MaxEvents \in Nat
    /\ EventCapacity \in Nat \ {0}
    /\ DeadlockWindow \in Nat

\* What setTimeDomains and setMaxDomainCycles accept.
TimeDomain == [period : Nat \ {0}, phase : Nat, limit : Nat]

ASSUME DomainsAssumption == Domains \in Seq(TimeDomain)

VARIABLES
    epoch,          \* epoch_
    phase,          \* where step() stands
    todo,           \* ids the running loop of step() has still to visit
    xfer,           \* currentWork \cup commitParticipants
    sources,        \* committedSources
    scheduledWork,  \* scheduledWork, as pairs <<epoch, id>>
    events,         \* committed events of the internal queue
    proposed,       \* its proposals
    nextSeq,        \* nextEventSequence
    eventCount,     \* committedEventCount
    lastCommit,     \* lastCommitTick
    lastProgress,   \* lastProgressTick
    cycles,         \* domainCycles
    outcome,        \* terminated_ and result_.classification
    code            \* result_.diagnosticCode

agenda    == <<scheduledWork, events, proposed, nextSeq, eventCount>>
loop      == <<todo, xfer, sources>>
progress  == <<lastCommit, lastProgress, cycles>>
ending    == <<outcome, code>>
kernelVars == <<epoch, phase, agenda, loop, progress, ending>>

-----------------------------------------------------------------------------
(* Epochs: exact pairs in lexicographic order. *)

Epochs == Nat \X Nat

Before(a, b) == a[1] < b[1] \/ (a[1] = b[1] /\ a[2] < b[2])
NotAfter(a, b) == a = b \/ Before(a, b)

NextDelta(e) == <<e[1], e[2] + 1>>
NextTick == <<epoch[1] + 1, 0>>

NoTick == -1

Classes == {"Running", "Completed", "Incomplete", "Failed"}
Codes == {"", "multiple_trace_owners", "max_trace_records_reached",
          "max_ticks_reached", "max_domain_cycles_reached", "max_events_reached",
          "event_before_current_epoch", "work_before_current_epoch",
          "non_monotonic_epoch", "max_deltas_exceeded",
          "event_queue_capacity_exceeded", "invalid_event_notification",
          "invalid_pending_commit", "multiple_stateful_commits",
          "committed_failure", "no_progress", "deadlock_window_reached"}
Running == outcome = "Running"
Executing == phase \in {"work", "commit", "causal"}

Stop(class, reason) == outcome' = class /\ code' = reason
GoOn == UNCHANGED ending

-----------------------------------------------------------------------------
(* The scheduling services objects and the host call. *)

\* Mutant of WorkEpoch: work joins the epoch that is executing.
WorkEpochJoins(e) == e

\* scheduleWork for the current epoch or a later one: work asked for the
\* epoch that is executing belongs to the next causal delta.
WorkEpoch(e) == IF Executing /\ e = epoch THEN NextDelta(epoch) ELSE e

WorkAt(ids, e) == {WorkEpoch(e)} \X ids

\* The code scheduleWork fails with, "" when it inserts the work.
WorkError(ids, e) ==
    IF ids = {} THEN ""
    ELSE IF e[2] >= MaxDeltas THEN "max_deltas_exceeded"
    ELSE IF Before(e, epoch) THEN "work_before_current_epoch"
    ELSE IF Executing /\ e = epoch /\ epoch[2] + 1 >= MaxDeltas
         THEN "max_deltas_exceeded"
    ELSE ""

\* The epoch an object asks for: a zero delay is a causal continuation, any
\* other delay ends at delta zero of a later tick.
ReadyAt(delay) == IF delay = 0 THEN epoch ELSE <<epoch[1] + delay, 0>>

\* scheduleEvent, once per request, in order: each gets the next sequence.
Accepted(reqs) ==
    {[ready   |-> ReadyAt(reqs[i].delay),
      seq     |-> nextSeq + i - 1,
      target  |-> reqs[i].target,
      payload |-> reqs[i].payload] : i \in DOMAIN reqs}

Fits(reqs) ==
    Cardinality(events) + Cardinality(proposed) + Len(reqs) <= EventCapacity

ScheduleEvents(reqs) ==
    /\ proposed' = proposed \cup Accepted(reqs)
    /\ nextSeq' = nextSeq + Len(reqs)

\* The requests up to the first that finds the queue full are accepted; that
\* one has its sequence already.
Overflows(reqs) ==
    \E k \in 0..(Len(reqs) - 1) :
        /\ Fits(SubSeq(reqs, 1, k)) /\ ~Fits(SubSeq(reqs, 1, k + 1))
        /\ proposed' = proposed \cup Accepted(SubSeq(reqs, 1, k))
        /\ nextSeq' = nextSeq + k + 1

\* Mutant of Earlier: events leave in the order of acceptance alone.
EarlierAccepted(a, b) == a.seq < b.seq

\* Event order: exact ready epoch, then acceptance sequence.
Earlier(a, b) == Before(a.ready, b.ready) \/ (a.ready = b.ready /\ a.seq < b.seq)
Due == {e \in events : NotAfter(e.ready, epoch)}
NextEvent == CHOOSE e \in events : \A f \in events \ {e} : Earlier(e, f)

-----------------------------------------------------------------------------
(* SimSystem::step() *)

\* What stopAtTraceCap answers; the objects' runtimeState decides it.
TraceStates == {"ok", "multiple", "capped"}

TraceStop(trace) ==
    IF trace = "multiple" THEN Stop("Failed", "multiple_trace_owners")
    ELSE Stop("Incomplete", "max_trace_records_reached")

\* A time domain has a cycle at this tick.
TicksNow(k) ==
    /\ epoch[2] = 0
    /\ epoch[1] >= Domains[k].phase
    /\ (epoch[1] - Domains[k].phase) % Domains[k].period = 0

\* Mutant of AtCap: the cap is tested one cycle late.
AtCapLate == {k \in DOMAIN Domains :
                TicksNow(k) /\ Domains[k].limit # 0 /\ cycles[k] > Domains[k].limit}

\* Domains that would start a cycle their cap forbids.
AtCap == {k \in DOMAIN Domains :
            TicksNow(k) /\ Domains[k].limit # 0 /\ cycles[k] >= Domains[k].limit}

\* Cycles are counted in name order up to the first domain at its cap.
CountCycles ==
    cycles' = [k \in DOMAIN Domains |->
                 IF TicksNow(k) /\ \A c \in AtCap : k < c
                 THEN cycles[k] + 1 ELSE cycles[k]]

\* The entry of step(): declared caps, in the order the code tests them.
Begin(trace) ==
    /\ Running /\ phase = "begin"
    /\ IF trace # "ok" THEN TraceStop(trace) /\ UNCHANGED <<phase, cycles>>
       ELSE IF epoch[1] >= MaxTicks
       THEN Stop("Incomplete", "max_ticks_reached") /\ UNCHANGED <<phase, cycles>>
       ELSE /\ CountCycles
            /\ IF AtCap # {}
               THEN Stop("Incomplete", "max_domain_cycles_reached") /\ UNCHANGED phase
               ELSE IF eventCount >= MaxEvents
               THEN Stop("Incomplete", "max_events_reached") /\ UNCHANGED phase
               ELSE phase' = "deliver" /\ GoOn
    /\ UNCHANGED <<epoch, agenda, loop, lastCommit, lastProgress>>

\* deliverReadyEvent: what a delivered notification schedules.  An event
\* queue wakes the consumers in woken, any other target runs itself.
Woken(event, woken) ==
    IF Kind[event.target] = "EventQueue" THEN woken ELSE {event.target}

\* Both delivery loops of step(): before Work in phase "deliver", and the
\* causal continuations after Xfer in phase "causal".  matches is what
\* deliverEvent answers, woken the activation targets activateFrom accepts.
Deliver(matches, woken) ==
    /\ Running /\ phase \in {"deliver", "causal"}
    /\ Due # {}
    /\ LET event == NextEvent
           ids == Woken(event, woken)
           error == WorkError(ids, epoch)
       IN  IF Before(event.ready, epoch)
           THEN /\ Stop("Failed", "event_before_current_epoch")
                /\ UNCHANGED <<agenda, lastProgress>>
           ELSE IF eventCount >= MaxEvents
           THEN /\ Stop("Incomplete", "max_events_reached")
                /\ UNCHANGED <<agenda, lastProgress>>
           ELSE /\ events' = events \ {event}
                /\ UNCHANGED <<proposed, nextSeq>>
                /\ IF ~matches
                   THEN /\ Stop("Failed", "invalid_event_notification")
                        /\ UNCHANGED <<scheduledWork, eventCount, lastProgress>>
                   ELSE IF error # ""
                   THEN /\ Stop("Failed", error)
                        /\ UNCHANGED <<scheduledWork, eventCount, lastProgress>>
                   ELSE /\ scheduledWork' = scheduledWork \cup WorkAt(ids, epoch)
                        /\ eventCount' = eventCount + 1
                        /\ lastProgress' = epoch[1]
                        /\ GoOn
    /\ UNCHANGED <<epoch, phase, loop, lastCommit, cycles>>

\* Mutant of OpenWork: the snapshot is copied, not moved, out of the agenda.
OpenWorkCopies ==
    /\ Running /\ phase = "deliver" /\ Due = {}
    /\ todo' = {w[2] : w \in {v \in scheduledWork : v[1] = epoch}}
    /\ xfer' = todo'
    /\ phase' = "work"
    /\ sources' = {}
    /\ UNCHANGED <<epoch, agenda, progress, ending>>

\* The immutable Work snapshot: everything scheduled for this epoch.
OpenWork ==
    /\ Running /\ phase = "deliver" /\ Due = {}
    /\ LET now == {w \in scheduledWork : w[1] = epoch}
       IN  /\ todo' = {w[2] : w \in now}
           /\ xfer' = {w[2] : w \in now}
           /\ scheduledWork' = scheduledWork \ now
    /\ phase' = "work"
    /\ sources' = {}
    /\ UNCHANGED <<epoch, events, proposed, nextSeq, eventCount, progress, ending>>

\* One object's doWork, in ascending id order: it registers commit
\* participants and may ask for events.
Work(id, parts, reqs) ==
    /\ Running /\ phase = "work"
    /\ todo # {} /\ id = Min(todo)
    /\ todo' = todo \ {id}
    /\ xfer' = xfer \cup parts
    /\ IF Fits(reqs) THEN ScheduleEvents(reqs) /\ GoOn
       ELSE Overflows(reqs) /\ Stop("Failed", "event_queue_capacity_exceeded")
    /\ UNCHANGED <<epoch, phase, sources, scheduledWork, events, eventCount, progress>>

\* The arbitration loop and the validation loop: one participant whose
\* pending state is invalid stops the epoch before anything commits.
Arbitrate(valid) ==
    /\ Running /\ phase = "work" /\ todo = {}
    /\ IF valid THEN phase' = "commit" /\ todo' = xfer /\ GoOn
       ELSE Stop("Failed", "invalid_pending_commit") /\ UNCHANGED <<phase, todo>>
    /\ UNCHANGED <<epoch, agenda, xfer, sources, progress>>

\* A stateful object may not commit twice in one tick.
SecondCommit(id) ==
    lastCommit[id] = epoch[1] /\ Kind[id] \notin {"EventQueue", "Process"}

\* One object of the Xfer loop, in ascending id order: Probe (will), the
\* once-per-tick check, Commit (which may ask for events), and the failure
\* code the object reports after it.
Commit(id, will, reqs, fails) ==
    /\ Running /\ phase = "commit"
    /\ todo # {} /\ id = Min(todo)
    /\ IF will /\ SecondCommit(id)
       THEN /\ Stop("Failed", "multiple_stateful_commits")
            /\ UNCHANGED <<todo, sources, proposed, nextSeq, lastCommit, lastProgress>>
       ELSE /\ todo' = todo \ {id}
            /\ sources' = IF will /\ Kind[id] # "EventQueue"
                          THEN sources \cup {id} ELSE sources
            /\ lastCommit' = IF will THEN [lastCommit EXCEPT ![id] = epoch[1]]
                             ELSE lastCommit
            /\ lastProgress' = IF will THEN epoch[1] ELSE lastProgress
            /\ IF Fits(reqs)
               THEN /\ ScheduleEvents(reqs)
                    /\ IF fails THEN Stop("Failed", "committed_failure") ELSE GoOn
               ELSE Overflows(reqs) /\ Stop("Failed", "event_queue_capacity_exceeded")
    /\ UNCHANGED <<epoch, phase, xfer, scheduledWork, events, eventCount, cycles>>

\* The end of the Xfer barrier: the event proposals become events, the
\* processes in enders are told that the trace has ended, and the activation
\* targets in woken that activateFrom accepted run at the next tick.
EndXfer(enders, woken) ==
    /\ Running /\ phase = "commit" /\ todo = {}
    /\ events' = events \cup proposed
    /\ proposed' = {}
    /\ lastProgress' = IF proposed # {} THEN epoch[1] ELSE lastProgress
    /\ IF enders # {} /\ epoch[1] + 1 >= MaxTicks
       THEN /\ Stop("Incomplete", "max_ticks_reached")
            /\ epoch' = <<MaxTicks, 0>>
            /\ UNCHANGED <<phase, scheduledWork>>
       ELSE /\ scheduledWork' = scheduledWork \cup WorkAt(woken \cup enders, NextTick)
            /\ phase' = "causal"
            /\ UNCHANGED epoch /\ GoOn
    /\ UNCHANGED <<nextSeq, eventCount, loop, lastCommit, cycles>>

\* Mutant of PendingEpochs: pending events are forgotten.
PendingWorkOnly == {w[1] : w \in scheduledWork}

\* The epochs something waits for; an event wins a tie with scheduled work.
PendingEpochs == {w[1] : w \in scheduledWork} \cup {e.ready : e \in events}
NextEpoch == CHOOSE e \in PendingEpochs : \A f \in PendingEpochs : NotAfter(e, f)
NextIsEvent == \E e \in events : e.ready = NextEpoch

\* Mutant of Deadline: the window is counted backwards.
DeadlineBackwards == lastProgress - DeadlockWindow

\* The tick at which a run without progress is declared dead.
Deadline == lastProgress + DeadlockWindow

StopAt(e, class, reason) == epoch' = e /\ Stop(class, reason) /\ UNCHANGED phase
StopHere(class, reason) == StopAt(epoch, class, reason)

\* Mutant of Finish: a dead run is stopped at its last progress.
FinishAtProgress(blocked, trace) ==
    IF trace # "ok" THEN TraceStop(trace) /\ UNCHANGED <<epoch, phase>>
    ELSE IF blocked /\ DeadlockWindow # 0
    THEN StopAt(<<lastProgress, 0>>, "Failed", "deadlock_window_reached")
    ELSE IF blocked THEN StopHere("Failed", "no_progress")
    ELSE StopHere("Completed", "")

\* Nothing is pending: the run is over, one way or another.
Finish(blocked, trace) ==
    IF trace # "ok" THEN TraceStop(trace) /\ UNCHANGED <<epoch, phase>>
    ELSE IF blocked /\ DeadlockWindow # 0
    THEN IF Deadline >= MaxTicks
         THEN StopAt(<<MaxTicks, 0>>, "Incomplete", "max_ticks_reached")
         ELSE StopAt(<<Deadline, 0>>, "Failed", "deadlock_window_reached")
    ELSE IF blocked THEN StopHere("Failed", "no_progress")
    ELSE StopHere("Completed", "")

\* Mutant of Advance: step() asks to go on without moving the epoch.
AdvanceStays(blocked, trace) ==
    /\ Running /\ phase = "causal" /\ Due = {}
    /\ IF PendingEpochs = {} THEN Finish(blocked, trace)
       ELSE phase' = "begin" /\ UNCHANGED <<epoch, ending>>
    /\ UNCHANGED <<agenda, loop, progress>>

\* The end of step(): jump to the earliest pending epoch, or stop.  blocked
\* says that some object reports that it is not quiescent.
Advance(blocked, trace) ==
    /\ Running /\ phase = "causal" /\ Due = {}
    /\ IF PendingEpochs = {} THEN Finish(blocked, trace)
       ELSE IF NotAfter(NextEpoch, epoch)
       THEN StopHere("Failed", "non_monotonic_epoch")
       ELSE IF ~NextIsEvent /\ DeadlockWindow # 0 /\ NextEpoch[1] >= Deadline
       THEN StopAt(<<Deadline, 0>>, "Failed", "deadlock_window_reached")
       ELSE IF NextEpoch[1] >= MaxTicks
       THEN StopAt(<<MaxTicks, 0>>, "Incomplete", "max_ticks_reached")
       ELSE epoch' = NextEpoch /\ phase' = "begin" /\ GoOn
    /\ UNCHANGED <<agenda, loop, progress>>

-----------------------------------------------------------------------------
(* Calls from outside a step. *)

\* Model::stepTick asks for a host bridge at the current and the next tick.
HostSchedule(id, e) ==
    /\ Running /\ phase = "begin"
    /\ e \in {epoch, NextTick}
    /\ scheduledWork' = scheduledWork \cup WorkAt({id}, e)
    /\ UNCHANGED <<epoch, phase, events, proposed, nextSeq, eventCount, loop,
                   progress, ending>>

\* run() starts every process and trace source at epoch <<0, 0>>.
StartSet == {<<0, 0>>} \X {o \in Objects : Kind[o] \in {"Process", "TraceSource"}}

Init ==
    /\ epoch = <<0, 0>>
    /\ phase = "begin"
    /\ todo = {} /\ xfer = {} /\ sources = {}
    /\ scheduledWork = StartSet
    /\ events = {} /\ proposed = {}
    /\ nextSeq = 0 /\ eventCount = 0
    /\ lastCommit = [o \in Objects |-> NoTick]
    /\ lastProgress = 0
    /\ cycles = [k \in DOMAIN Domains |-> 0]
    /\ outcome = "Running" /\ code = ""

\* reset(), then run() again.
Reset ==
    /\ phase = "begin" \/ ~Running
    /\ epoch' = <<0, 0>>
    /\ phase' = "begin"
    /\ todo' = {} /\ xfer' = {} /\ sources' = {}
    /\ scheduledWork' = StartSet
    /\ events' = {} /\ proposed' = {}
    /\ nextSeq' = 0 /\ eventCount' = 0
    /\ lastCommit' = [o \in Objects |-> NoTick]
    /\ lastProgress' = 0
    /\ cycles' = [k \in DOMAIN Domains |-> 0]
    /\ outcome' = "Running" /\ code' = ""

\* One move of step(), whatever the objects do.
Step ==
    \/ \E trace \in TraceStates : Begin(trace)
    \/ \E matches \in BOOLEAN, woken \in SUBSET Objects :
          /\ \E e \in events : woken \subseteq Activation[e.target] /\ e = NextEvent
          /\ Deliver(matches, woken)
    \/ OpenWork
    \/ \E id \in todo, parts \in SUBSET Objects, reqs \in Batches :
          Work(id, parts, reqs)
    \/ \E valid \in BOOLEAN : Arbitrate(valid)
    \/ \E id \in todo, will \in BOOLEAN, reqs \in Batches, fails \in BOOLEAN :
          Commit(id, will, reqs, fails)
    \/ \E enders \in SUBSET {o \in Objects : Kind[o] = "Process"},
          woken \in SUBSET UNION {Activation[s] : s \in sources} :
          EndXfer(enders, woken)
    \/ \E blocked \in BOOLEAN, trace \in TraceStates : Advance(blocked, trace)

Host == \E id \in Objects, e \in {epoch, NextTick} : HostSchedule(id, e)

Next == Step \/ Host \/ Reset

Spec == Init /\ [][Next]_kernelVars

\* A single run: run() calls step() until it reports the end, so a step()
\* that can go on does.
RunSpec == Init /\ [][Step \/ Host]_kernelVars /\ WF_kernelVars(Step)

-----------------------------------------------------------------------------
(* Properties. *)

Event == [ready : Epochs, seq : Nat, target : Objects, payload : Nat]

\* Types of the scheduler's state (SimSystem::Impl).
TypeOK ==
    /\ epoch \in Epochs
    /\ phase \in {"begin", "deliver", "work", "commit", "causal"}
    /\ todo \subseteq Objects /\ xfer \subseteq Objects /\ sources \subseteq Objects
    /\ scheduledWork \subseteq (Epochs \X Objects)
    /\ events \subseteq Event /\ proposed \subseteq Event
    /\ nextSeq \in Nat /\ eventCount \in Nat
    /\ lastCommit \in [Objects -> Nat \cup {NoTick}]
    /\ lastProgress \in Nat
    /\ cycles \in [DOMAIN Domains -> Nat]
    /\ outcome \in Classes /\ code \in Codes

\* Nothing pending lies behind the scheduler, and once the Work snapshot is
\* taken no work is left in, or can join, the epoch that executes.
FutureOnly ==
    Running =>
      /\ \A w \in scheduledWork :
            IF Executing THEN Before(epoch, w[1]) ELSE NotAfter(epoch, w[1])
      /\ \A e \in events \cup proposed : NotAfter(epoch, e.ready)

\* Acceptance sequences identify the events of the internal queue.
SeqUnique ==
    /\ \A e \in events \cup proposed : e.seq < nextSeq
    /\ \A e, f \in events \cup proposed : e.seq = f.seq => e = f

\* Pending work and events keep inside the tick and causal delta limits.
PendingBounded ==
    Running =>
      /\ \A w \in scheduledWork : w[1][1] <= MaxTicks /\ w[1][2] < MaxDeltas
      /\ \A e \in events \cup proposed : e.ready[2] < MaxDeltas

\* The deadlock deadline lies ahead of the clock; only a due event may carry
\* the clock past it, and its delivery counts as progress.
DeadlineAhead ==
    Running /\ DeadlockWindow # 0 =>
      \/ epoch[1] < Deadline
      \/ phase \in {"begin", "deliver"} /\ \E e \in events : e.ready = epoch

\* A proposed event never outlives the epoch it was proposed in.
BarrierClosed == Running /\ phase \notin {"work", "commit"} => proposed = {}

\* The state the scheduler maintains between any two of its moves: no pending
\* item is stale, out of bounds, confused with another or left unpublished, and
\* the deadlock deadline is still to come.
SchedulerInv ==
    FutureOnly /\ SeqUnique /\ PendingBounded /\ DeadlineAhead /\ BarrierClosed

\* The three consistency checks of scheduleWork and step() that only a
\* scheduler error can trip - stale event, epoch that does not advance, work
\* before the current epoch - never end a run.
SelfChecksSilent ==
    code \notin {"event_before_current_epoch", "non_monotonic_epoch",
                        "work_before_current_epoch"}

\* No object executes at or beyond a declared cap, no matter through which of
\* the stops of step() a run reaches it: ticks, causal deltas, delivered
\* events and domain cycles stay inside maxTicks_, kMaxDeltasPerTick,
\* maxEvents_ and maxDomainCycles, and no run ends after the cap epoch.
CapsRespected ==
    /\ Running => epoch[1] < MaxTicks /\ epoch[2] < MaxDeltas
    /\ epoch[1] <= MaxTicks
    /\ eventCount <= MaxEvents
    /\ \A k \in DOMAIN Domains : Domains[k].limit # 0 => cycles[k] <= Domains[k].limit

\* The verdicts that say a run is over, Completed and no_progress, are given
\* only when nothing waits: no accepted work, no event, no proposal.
VerdictSound ==
    outcome = "Completed" \/ (outcome = "Failed" /\ code = "no_progress") =>
        scheduledWork = {} /\ events = {} /\ proposed = {}

\* Simulated time never runs backwards, the jumps to a cap or to the deadlock
\* deadline when step() stops a run included.
EpochMonotone == [][~Running' \/ epoch' # <<0, 0>> => NotAfter(epoch, epoch')]_kernelVars

\* An event leaves the queue at exactly its ready epoch, whichever of the two
\* delivery loops takes it, and no event is overtaken: neither one of an
\* earlier epoch by it, nor one that is still queued by the clock of a run that
\* goes on (reset() aside, which drops them).  Which event of one epoch goes
\* first is left open: core.h:137 takes the one accepted first, while
\* gfsim-runtime-abi-v0.2.md:280 orders them by target, kind and payload.
EventsOnTime ==
    [][\/ epoch' = <<0, 0>> /\ events' = {}
       \/ /\ \A e \in events \ events' :
               e.ready = epoch /\ \A f \in events : NotAfter(e.ready, f.ready)
          /\ Running' => \A f \in events' : NotAfter(epoch', f.ready)]_kernelVars

\* Every run ends: the tick cap and the causal delta limit leave no endless
\* run, however the objects and the host keep asking for work and events.
EveryRunEnds == <>(~Running)

\* docs/specs/gfsim-runtime-abi-v0.2.md, "Xfer barrier and causal
\* continuation": "the Xfer barrier atomically commits all accepted proposals
\* for the epoch".  When the barrier refuses a participant, because it would
\* commit a second time in its tick, no other participant has committed in the
\* epoch: the refused one is still to do and is not among the sources.
AtomicXfer == outcome = "Failed" /\ code = "multiple_stateful_commits" => sources = {}

=============================================================================
