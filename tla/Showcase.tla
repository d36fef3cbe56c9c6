------------------------------ MODULE Showcase ------------------------------
(***************************************************************************)
(* The six scenarios of lib/gfsim/showcase.cpp: an actor drives a queue, a *)
(* ready/valid channel, a request/response memory, lanes of queues, a      *)
(* bridge of two time domains, or a suspended process, on a SimSystem of   *)
(* its own, and Phase5TraceSource wraps the run.                           *)
(*                                                                         *)
(* One step is one epoch of that SimSystem: the Work of the scheduled      *)
(* objects, then the Xfer of the scheduled objects and of the queues that  *)
(* were proposed to.  Only queues register as Xfer participants: what an   *)
(* actor proposes to another component waits until that component is       *)
(* scheduled.  At start only processes are; after any commit everything is *)
(* (installRuntime activates every object from every object).              *)
(***************************************************************************)
EXTENDS Integers, Sequences, SequencesExt, FiniteSets, FiniteSetsExt, TLC, Protocols

CONSTANTS
    Policies,   \* the scenarios with their policies
    MaxTicks    \* bound: the tick at which a run that goes on is stopped

VARIABLES
    policy,     \* the scenario and its parameters
    tick, delta, agenda,   \* SimSystem: the epoch and the objects scheduled for it
    alarm,      \* the ticks of the events that are pending
    actor,      \* the scenario's actor
    queues,     \* SimQueue of each lane, its committed items
    sinks,      \* Sink of each lane
    channel,    \* ReadyValid
    server,     \* RequestResponse
    memory,     \* Memory
    process,    \* ShowcaseProcess: [pc, status, value, resumes]
    verdict,    \* "running", or how run() ended
    source      \* Phase5TraceSource: "empty", "loaded", "pending", "committed" or "failed"

laneVars == <<queues, sinks>>
clockVars == <<tick, delta, agenda, alarm>>
runVars == <<clockVars, actor, laneVars, channel, server, memory, process, verdict>>
vars == <<policy, runVars, source>>

Kind == policy.kind
Lanes == DOMAIN policy.lanes
Values == policy.lanes[1]
Running == source = "loaded" /\ verdict = "running"
Everything == 0..(2 * Len(policy.lanes))

-----------------------------------------------------------------------------
(* The scheduler, as far as a scenario needs it *)

\* What the end of an epoch does with the objects that committed: everything
\* runs at the next tick, or the run ends.  quiet: every object is quiescent.
Close(committed, quiet, failure) ==
    /\ verdict' = IF failure # "" THEN failure
                  ELSE IF committed # {} THEN IF tick + 1 >= MaxTicks THEN "max_ticks_reached" ELSE "running"
                  ELSE IF quiet THEN "Completed" ELSE "no_progress"
    /\ agenda' = IF committed = {} THEN {} ELSE Everything
    /\ tick' = tick + 1
    /\ UNCHANGED <<delta, alarm>>

-----------------------------------------------------------------------------
(* Queue scenarios: QueueScenarioActor (one lane) and NestedArrayActor.    *)
(* The lanes touch disjoint objects, so the order of workOrder is free.    *)

LanePushes(l) == actor.next[l] < Len(policy.lanes[l]) /\ Len(queues[l]) < policy.capacity
LanePops(l) == queues[l] # <<>>

QueueAfter(l) ==
    (IF LanePops(l) THEN Tail(queues[l]) ELSE queues[l])
        \o (IF LanePushes(l) THEN <<policy.lanes[l][actor.next[l] + 1]>> ELSE <<>>)

\* The sink of a lane commits when it is scheduled; what it received stays
\* proposed otherwise.
SinkAfter(l) ==
    LET k == IF LanePops(l) THEN Receive(sinks[l], Head(queues[l])) ELSE sinks[l]
    IN  IF 2 * l \in agenda THEN SinkXfer(k) ELSE k

LaneEpoch ==
    /\ Running /\ Kind \in {"queue", "lanes"}
    /\ actor' = [next |-> [l \in Lanes |-> actor.next[l] + IF LanePushes(l) THEN 1 ELSE 0]]
    /\ queues' = [l \in Lanes |-> QueueAfter(l)]
    /\ sinks' = [l \in Lanes |-> SinkAfter(l)]
    /\ Close({l \in Lanes : LanePushes(l) \/ LanePops(l)},
             \A l \in Lanes : /\ actor.next[l] = Len(policy.lanes[l])
                              /\ queues[l] = <<>> /\ sinks[l].receiving = <<>>,
             "")
    /\ UNCHANGED <<policy, channel, server, memory, process, source>>

-----------------------------------------------------------------------------
(* BackpressureActor and TimeDomainActor: a producer and its receiver's    *)
(* ready signal.  The former offers whenever it can and is ready at the    *)
(* policy's ticks, the latter follows the periods of two time domains.     *)

Offering == Kind = "bridge" => tick % policy.sourcePeriod = 0
Ready == IF Kind = "bridge" THEN tick % policy.targetPeriod = 0 ELSE tick \in policy.readyTicks

Unfinished == channel.transfers < Len(Values) \/ actor.next < Len(Values) \/ channel.offer # Nothing

Sees == channel.transfers > actor.observed
Offers == actor.next < Len(Values) /\ Offering /\ CanOffer(channel)

ChannelProposed ==
    LET offered == IF Offers THEN ProposeOffer(channel, Values[actor.next + 1]) ELSE channel
    IN  IF Unfinished THEN ProposeReady(offered, Ready) ELSE offered

ChannelSink == IF Sees THEN Receive(sinks[1], channel.last) ELSE sinks[1]

ChannelQuiet ==
    /\ actor.observed = Len(Values) /\ actor.next = Len(Values)
    /\ RVQuiescent(channel) /\ sinks[1].receiving = <<>>

ChannelEpoch ==
    /\ Running /\ Kind \in {"channel", "bridge"}
    /\ actor' = [next |-> actor.next + IF Offers THEN 1 ELSE 0,
                 observed |-> IF Sees THEN channel.transfers ELSE actor.observed]
    /\ channel' = IF 1 \in agenda THEN RVXfer(ChannelProposed) ELSE ChannelProposed
    /\ sinks' = [sinks EXCEPT ![1] = IF 2 \in agenda THEN SinkXfer(ChannelSink) ELSE ChannelSink]
    /\ Close({o \in agenda : \/ o = 0 /\ (Offers \/ Sees)
                             \/ o = 1 /\ RVPending(ChannelProposed)
                             \/ o = 2 /\ ChannelSink.receiving # <<>>},
             ChannelQuiet, "")
    /\ UNCHANGED <<policy, queues, server, memory, process, source>>

-----------------------------------------------------------------------------
(* MemoryScenarioActor: one request at a time through its four phases      *)

Current == policy.requests[actor.next + 1]
Busy == actor.next < Len(policy.requests)

\* The phase's call is made and succeeds.
CallSucceeds ==
    /\ Busy
    /\ CASE actor.phase = "submit" -> CanRequest(server, 2, Current.id)
         [] actor.phase = "consume_request" -> CanPopRequest(server)
         [] actor.phase = "respond" -> CanRespond(server, Current.id)
         [] actor.phase = "consume_response" -> CanPopResponse(server)

OutOfRange == Busy /\ actor.phase = "consume_request" /\ CanPopRequest(server)
                /\ ~CanWrite(memory, NextRequest(server).payload.address)

NextPhase ==
    [submit |-> "consume_request", consume_request |-> "respond",
     respond |-> "consume_response", consume_response |-> "submit"]

ServerProposed ==
    IF ~CallSucceeds THEN server
    ELSE CASE actor.phase = "submit" -> ProposeRequest(server, [id |-> Current.id, payload |-> Current])
           [] actor.phase = "consume_request" -> ProposePopRequest(server)
           [] actor.phase = "respond" -> ProposeResponse(server, [id |-> Current.id, payload |-> Current.value])
           [] actor.phase = "consume_response" -> ProposePopResponse(server)

MemoryProposed ==
    IF CallSucceeds /\ actor.phase = "consume_request" /\ ~OutOfRange
    THEN LET payload == NextRequest(server).payload
         IN  ProposeWrite(memory, payload.address, payload.value)
    ELSE memory

\* Mutant of Advances: a failed write does not keep the request from going on.
AdvancesAnyway == CallSucceeds

Advances == CallSucceeds /\ ~OutOfRange

\* A failure is found when the pending commits are validated, before any Xfer.
MemoryEpoch ==
    /\ Running /\ Kind = "memory"
    /\ actor' = IF ~Advances THEN actor
                ELSE [next |-> actor.next + (IF actor.phase = "consume_response" THEN 1 ELSE 0),
                      phase |-> NextPhase[actor.phase]]
    /\ server' = IF 1 \in agenda /\ ~OutOfRange THEN RRXfer(ServerProposed) ELSE ServerProposed
    /\ memory' = IF 2 \in agenda /\ ~OutOfRange THEN MemoryXfer(MemoryProposed) ELSE MemoryProposed
    /\ Close({o \in agenda : \/ o = 0 /\ Advances
                             \/ o = 1 /\ RRPending(ServerProposed)
                             \/ o = 2 /\ MemoryProposed.writes # <<>>},
             ~Busy /\ RRQuiescent(server) /\ memory.writes = <<>>,
             IF OutOfRange THEN "showcase_memory_address_out_of_range" ELSE "")
    /\ UNCHANGED <<policy, laneVars, channel, process, source>>

-----------------------------------------------------------------------------
(* ShowcaseProcess and WakeDriver, objects 0 and 1.  The driver schedules  *)
(* an event for itself and, at that tick, wakes the process from its Work; *)
(* the process then runs at the next delta.                                *)

Alarms == IF delta = 0 THEN alarm \cap {tick} ELSE {}
Scheduled == agenda \cup (IF Alarms = {} THEN {} ELSE {1})

ProcessRuns == 0 \in Scheduled /\ process.status = "runnable"
DriverSchedules == 1 \in Scheduled /\ ~actor.scheduled
DriverWakes == 1 \in Scheduled /\ actor.scheduled /\ tick = policy.wakeTick
                 /\ process.status = "suspended"

ProcessAfter ==
    IF ProcessRuns
    THEN IF process.pc = 0
         THEN [process EXCEPT !.pc = 1, !.status = "suspended", !.value = policy.initial]
         ELSE [process EXCEPT !.status = "terminated", !.value = @ + policy.increment,
                              !.resumes = @ + 1]
    ELSE IF DriverWakes THEN [process EXCEPT !.status = "runnable"] ELSE process

\* Objects that run at the next delta: the woken process, and the driver when
\* its event is already due.
Continuing == (IF DriverWakes THEN {0} ELSE {})
                \cup (IF DriverSchedules /\ policy.wakeTick <= tick THEN {1} ELSE {})

\* Objects that a commit activates at the next tick.
Activated ==
    IF ProcessRuns \/ DriverSchedules \/ DriverWakes
    THEN {1} \cup (IF ProcessAfter.status = "runnable" THEN {0} ELSE {})
    ELSE {}

AlarmsAfter == (alarm \ Alarms) \cup (IF DriverSchedules /\ policy.wakeTick > tick
                                      THEN {policy.wakeTick} ELSE {})

ProcessEpoch ==
    /\ Running /\ Kind = "process"
    /\ process' = ProcessAfter
    /\ actor' = [scheduled |-> actor.scheduled \/ DriverSchedules,
                 later |-> Activated \cup IF Continuing # {} THEN actor.later ELSE {}]
    /\ alarm' = AlarmsAfter
    /\ LET later == Activated \cup actor.later
       IN  IF Continuing # {}
           THEN agenda' = Continuing /\ delta' = delta + 1 /\ UNCHANGED <<tick, verdict>>
           ELSE IF later # {}
           THEN /\ agenda' = later /\ delta' = 0 /\ tick' = tick + 1
                /\ verdict' = IF tick + 1 >= MaxTicks THEN "max_ticks_reached" ELSE verdict
           ELSE IF AlarmsAfter # {}
           THEN /\ agenda' = {} /\ delta' = 0 /\ tick' = Min(AlarmsAfter)
                /\ verdict' = IF tick' >= MaxTicks THEN "max_ticks_reached" ELSE verdict
           ELSE /\ verdict' = IF ProcessAfter.status = "terminated" THEN "Completed" ELSE "no_progress"
                /\ agenda' = {} /\ UNCHANGED <<tick, delta>>
    /\ UNCHANGED <<policy, laneVars, channel, server, memory, source>>

-----------------------------------------------------------------------------
(* Phase5TraceSource: doWork runs the scenario to its end, whatever that   *)
(* is, and the result commits at the source's own Xfer.                    *)

StartState ==
    [tick |-> 0, delta |-> 0, alarm |-> {}, verdict |-> "running",
     agenda |-> IF Kind = "process" THEN {0, 1} ELSE {0},
     actor |-> CASE Kind \in {"queue", "lanes"} -> [next |-> [l \in Lanes |-> 0]]
                 [] Kind \in {"channel", "bridge"} -> [next |-> 0, observed |-> 0]
                 [] Kind = "memory" -> [next |-> 0, phase |-> "submit"]
                 [] Kind = "process" -> [scheduled |-> FALSE, later |-> {}],
     queues |-> [l \in Lanes |-> <<>>], sinks |-> [l \in Lanes |-> SinkInit],
     channel |-> RVInit, server |-> RRInit,
     memory |-> MemoryInit(IF Kind = "memory" THEN policy.capacity ELSE 0),
     process |-> [pc |-> 0, status |-> "runnable", value |-> 0, resumes |-> 0]]

Init ==
    /\ policy \in Policies
    /\ tick = StartState.tick /\ delta = StartState.delta /\ alarm = StartState.alarm
    /\ agenda = StartState.agenda /\ verdict = StartState.verdict
    /\ actor = StartState.actor /\ queues = StartState.queues /\ sinks = StartState.sinks
    /\ channel = StartState.channel /\ server = StartState.server
    /\ memory = StartState.memory /\ process = StartState.process
    /\ source = "empty"

LoadDocument ==
    /\ source = "empty"
    /\ source' = "loaded"
    /\ UNCHANGED <<policy, runVars>>

WorkWithoutDocument ==
    /\ source = "empty"
    /\ source' = "failed"
    /\ UNCHANGED <<policy, runVars>>

\* Mutant of EndOfRun: the classification of the run is not looked at.
EndOfRunAnyhow ==
    /\ source = "loaded" /\ verdict # "running"
    /\ source' = "pending"
    /\ UNCHANGED <<policy, runVars>>

EndOfRun ==
    /\ source = "loaded" /\ verdict # "running"
    /\ source' = IF verdict = "Completed" THEN "pending" ELSE "failed"
    /\ UNCHANGED <<policy, runVars>>

SourceXfer ==
    /\ source = "pending"
    /\ source' = "committed"
    /\ UNCHANGED <<policy, runVars>>

\* reset() forgets the result; the next doWork builds the scenario afresh.
Reset ==
    /\ source \in {"committed", "failed"}
    /\ source' = "empty"
    /\ tick' = StartState.tick /\ delta' = StartState.delta /\ alarm' = StartState.alarm
    /\ agenda' = StartState.agenda /\ verdict' = StartState.verdict
    /\ actor' = StartState.actor /\ queues' = StartState.queues /\ sinks' = StartState.sinks
    /\ channel' = StartState.channel /\ server' = StartState.server
    /\ memory' = StartState.memory /\ process' = StartState.process
    /\ UNCHANGED policy

Epoch == LaneEpoch \/ ChannelEpoch \/ MemoryEpoch \/ ProcessEpoch

Next == Epoch \/ LoadDocument \/ WorkWithoutDocument \/ EndOfRun \/ SourceXfer \/ Reset

\* run() executes epochs until it terminates, and the harness takes the
\* source's Xfer after its Work.
Spec == Init /\ [][Next]_vars /\ WF_vars(Epoch \/ EndOfRun \/ SourceXfer)

-----------------------------------------------------------------------------
(* Properties *)

\* The values a producer has handed over are in order, once each, in the
\* queue or the channel or already at the sink: also at tick 0, when the
\* channel is proposed to but does not take part in Xfer, and when a
\* transfer is counted one epoch before the actor reads it.
StreamExact ==
    /\ Kind \in {"queue", "lanes"} => \A l \in Lanes :
         sinks[l].received \o sinks[l].receiving \o queues[l]
            = SubSeq(policy.lanes[l], 1, actor.next[l])
    /\ Kind \in {"channel", "bridge"} => RVValid(channel) /\
         sinks[1].received \o sinks[1].receiving
            \o (IF channel.transfers > actor.observed THEN <<channel.last>> ELSE <<>>)
            \o channel.offer \o channel.offering
            = SubSeq(Values, 1, actor.next)

Written == actor.next + IF actor.phase \in {"respond", "consume_response"} THEN 1 ELSE 0

LastWrite(a) ==
    LET writes == {i \in 1..Written : policy.requests[i].address = a}
    IN  IF writes = {} THEN 0 ELSE policy.requests[Max(writes)].value

\* The memory holds, for each address, the value of the last request the
\* server consumed for it and nothing of an out-of-range request, and the
\* protocol's own bookkeeping is valid throughout.
MemoryExact ==
    Kind = "memory" =>
        /\ RRValid(server, 2)
        /\ \A i \in 1..Written : policy.requests[i].address \in DOMAIN memory.storage
        /\ \A a \in DOMAIN memory.storage :
             LastWrite(a) = IF a \in DOMAIN memory.writes THEN memory.writes[a] ELSE memory.storage[a]

Delivered ==
    CASE Kind = "memory" -> actor.next = Len(policy.requests) /\ memory.writes = <<>>
      [] Kind = "process" -> /\ process.resumes = 1 /\ tick >= policy.wakeTick
                             /\ process.value = policy.initial + policy.increment
      [] OTHER -> \A l \in Lanes : sinks[l].received = policy.lanes[l]

\* A run that reports Completed has done all of its work, and the source
\* commits only such a run.
CompletionHonest ==
    verdict = "Completed" \/ source \in {"pending", "committed"} => Delivered

\* The policies under which the scenario can finish before the tick bound:
\* a channel is transferred to at most once a tick, and never at tick 0.
Feasible ==
    CASE Kind = "channel" -> Cardinality(policy.readyTicks \ {0}) >= Len(Values)
      [] Kind = "memory" -> \A i \in DOMAIN policy.requests :
                              policy.requests[i].address < policy.capacity
      [] Kind = "process" -> policy.wakeTick < MaxTicks
      [] OTHER -> Kind = "bridge" \/ policy.capacity > 0

\* A loaded source of a feasible policy commits its result.
LoadedRunsCommit == source = "loaded" /\ Feasible ~> source = "committed"
=============================================================================
