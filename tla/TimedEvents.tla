----------------------------- MODULE TimedEvents -----------------------------
(***************************************************************************)
(* Timed event queues and the processes that use them, on the scheduler of *)
(* module SimSystem: TimedEventQueue (include/gfsim/queue.h) and           *)
(* ProcessRuntime (include/gfsim/process.h).                               *)
(*                                                                         *)
(* A queue keeps its entries; the scheduler keeps one notification per     *)
(* entry, which wakes the consumers when the entry becomes ready.  Every   *)
(* action is an action of SimSystem with the parameters these objects      *)
(* compute, together with what the call does to the objects.               *)
(*                                                                         *)
(* A producer schedules an event with some delay and yields, or ends.  A   *)
(* consumer receives an event and yields; when none is ready it awaits the *)
(* queue and retries when it is woken.                                     *)
(***************************************************************************)
EXTENDS SimSystem

CONSTANTS
    Producers, Consumers,  \* the processes
    QueueOf,               \* the event queue each of them uses
    QueueCapacity,         \* capacity_ of a TimedEventQueue
    Delays                 \* delays a producer may ask for

EventQueues == {o \in Objects : Kind[o] = "EventQueue"}

ASSUME UsersAssumption ==
    /\ Producers \cup Consumers \subseteq Objects
    /\ Producers \cap Consumers = {}
    /\ \A p \in Producers \cup Consumers : Kind[p] = "Process"
    /\ QueueOf \in [Producers \cup Consumers -> EventQueues]
    /\ QueueCapacity \in Nat \ {0}
    /\ Delays \subseteq Nat

\* The lowering gives every process a self edge and every event queue an
\* edge to its consumers.
ASSUME EdgesAssumption ==
    /\ \A p \in Producers \cup Consumers : Activation[p] = {p}
    /\ \A q \in EventQueues : Activation[q] = {c \in Consumers : QueueOf[c] = q}

\* The scheduler's own queue can hold a notification for every entry.
ASSUME NotificationRoom == EventCapacity >= QueueCapacity * Cardinality(EventQueues)

VARIABLES
    entries,    \* committed_: records [ready, seq]
    schedules,  \* scheduleProposals_: records [delay, seq]
    popCount,   \* popProposalCount_
    seqNext,    \* nextSequence_
    status,     \* committedStatus_ and committedWake_ of a process
    plan        \* what its Work proposed, "none" without a proposal

objectVars == <<entries, schedules, popCount, seqNext, status, plan>>
timedVars == <<kernelVars, objectVars>>

Users == Producers \cup Consumers
Statuses == {"runnable", "yield", "event", "terminated"}

-----------------------------------------------------------------------------
(* TimedEventQueue *)

\* The entry that the next receive of this epoch would return: proposed pops
\* are taken from the front, in the order of ready epoch and sequence.
Nth(q, n) == {x \in entries[q] : Cardinality({y \in entries[q] : Earlier(y, x)}) = n}

\* Mutant of Receivable: an entry is not received in its own epoch.
ReceivableLate(q) == {x \in Nth(q, popCount[q]) : Before(x.ready, epoch)}

Receivable(q) == {x \in Nth(q, popCount[q]) : NotAfter(x.ready, epoch)}

\* Mutant of HasRoom: this epoch's other schedules are not counted.
HasRoomSnapshot(q) == Cardinality(entries[q]) < QueueCapacity

\* Pending pops do not release capacity in this snapshot.
HasRoom(q) == Cardinality(entries[q]) + Len(schedules[q]) < QueueCapacity

\* Mutant of Popped: the pops remove the latest entries.
PoppedLatest(q) == {x \in entries[q] : Cardinality({y \in entries[q] : Earlier(x, y)}) < popCount[q]}

Popped(q) == {x \in entries[q] : Cardinality({y \in entries[q] : Earlier(y, x)}) < popCount[q]}
Inserted(q) == {[ready |-> ReadyAt(schedules[q][i].delay), seq |-> schedules[q][i].seq]
                  : i \in DOMAIN schedules[q]}

\* Mutant of Notifications: only the first entry of a batch is announced.
NotificationsFirst(q) ==
    [i \in DOMAIN schedules[q] \cap {1} |->
        [target |-> q, delay |-> schedules[q][i].delay, payload |-> schedules[q][i].seq]]

\* The notifications doXfer schedules, one per inserted entry.
Notifications(q) ==
    [i \in DOMAIN schedules[q] |->
        [target |-> q, delay |-> schedules[q][i].delay, payload |-> schedules[q][i].seq]]

\* deliverEvent: the notification names a committed entry ready at its epoch.
Matches(event) ==
    \E x \in entries[event.target] : x.seq = event.payload /\ x.ready = event.ready

\* Mutant of Accepts: a notification does not wake a consumer.
AcceptsSelf(p, source) ==
    \/ status[p] = "runnable"
    \/ status[p] = "yield" /\ source = p

\* activateFrom(source)
Accepts(p, source) ==
    \/ status[p] = "runnable"
    \/ status[p] = "yield" /\ source = p
    \/ status[p] = "event" /\ source = QueueOf[p]

Wake(ps) == [p \in Users |-> IF p \in ps THEN "runnable" ELSE status[p]]

-----------------------------------------------------------------------------
(* The scheduler's actions with these objects. *)

\* Mutant of DeliverNotification: every user of the queue is woken.
DeliverNotificationAll ==
    /\ Due # {}
    /\ LET q == NextEvent.target
           woken == {p \in Users : QueueOf[p] = q /\ Accepts(p, q)}
       IN  /\ Deliver(Matches(NextEvent), woken)
           /\ status' = IF eventCount >= MaxEvents \/ ~Matches(NextEvent) THEN status
                        ELSE Wake(woken)
    /\ UNCHANGED <<entries, schedules, popCount, seqNext, plan>>

DeliverNotification ==
    /\ Due # {}
    /\ LET q == NextEvent.target
           woken == {c \in Activation[q] : Accepts(c, q)}
       IN  /\ Deliver(Matches(NextEvent), woken)
           /\ status' = IF eventCount >= MaxEvents \/ ~Matches(NextEvent) THEN status
                        ELSE IF WorkError(woken, epoch) # "" THEN Wake({Min(woken)})
                        ELSE Wake(woken)
    /\ UNCHANGED <<entries, schedules, popCount, seqNext, plan>>

\* A process that is scheduled without being runnable returns at once.  It
\* happens to a consumer that yields, is woken for the next delta of the same
\* tick, finds nothing and waits: its work for the next tick is still scheduled.
IdleWork(p) ==
    /\ status[p] # "runnable"
    /\ Work(p, {}, <<>>)
    /\ UNCHANGED objectVars

Produce(p, delay) ==
    /\ status[p] = "runnable"
    /\ LET q == QueueOf[p]
       IN  IF HasRoom(q)
           THEN /\ Work(p, {q}, <<>>)
                /\ schedules' = [schedules EXCEPT
                                   ![q] = Append(@, [delay |-> delay, seq |-> seqNext[q]])]
                /\ seqNext' = [seqNext EXCEPT ![q] = @ + 1]
           ELSE Work(p, {}, <<>>) /\ UNCHANGED <<schedules, seqNext>>
    /\ plan' = [plan EXCEPT ![p] = "yield"]
    /\ UNCHANGED <<entries, popCount, status>>

EndProducer(p) ==
    /\ status[p] = "runnable"
    /\ Work(p, {}, <<>>)
    /\ plan' = [plan EXCEPT ![p] = "terminated"]
    /\ UNCHANGED <<entries, schedules, popCount, seqNext, status>>

Consume(p) ==
    /\ status[p] = "runnable"
    /\ LET q == QueueOf[p]
       IN  IF Receivable(q) # {}
           THEN /\ Work(p, {q}, <<>>)
                /\ popCount' = [popCount EXCEPT ![q] = @ + 1]
                /\ plan' = [plan EXCEPT ![p] = "yield"]
           ELSE /\ Work(p, {}, <<>>)
                /\ plan' = [plan EXCEPT ![p] = "event"]
                /\ UNCHANGED popCount
    /\ UNCHANGED <<entries, schedules, seqNext, status>>

CommitProcess(p) ==
    /\ Commit(p, plan[p] # "none", <<>>, FALSE)
    /\ status' = [status EXCEPT ![p] = IF plan[p] = "none" THEN @ ELSE plan[p]]
    /\ plan' = [plan EXCEPT ![p] = "none"]
    /\ UNCHANGED <<entries, schedules, popCount, seqNext>>

CommitQueue(q) ==
    /\ Commit(q, popCount[q] # 0 \/ schedules[q] # <<>>, Notifications(q), FALSE)
    /\ entries' = [entries EXCEPT ![q] = (@ \ Popped(q)) \cup Inserted(q)]
    /\ schedules' = [schedules EXCEPT ![q] = <<>>]
    /\ popCount' = [popCount EXCEPT ![q] = 0]
    /\ UNCHANGED <<seqNext, status, plan>>

\* Only the self edges of processes: a queue's commit wakes nobody.
CloseBarrier ==
    LET woken == {p \in Users \cap sources : Accepts(p, p)}
    IN  /\ EndXfer({}, woken)
        /\ status' = Wake(woken)
        /\ UNCHANGED <<entries, schedules, popCount, seqNext, plan>>

Blocked ==
    \/ \E p \in Users : status[p] # "terminated"
    \/ \E q \in EventQueues : entries[q] # {}

TimedInit ==
    /\ Init
    /\ entries = [q \in EventQueues |-> {}]
    /\ schedules = [q \in EventQueues |-> <<>>]
    /\ popCount = [q \in EventQueues |-> 0]
    /\ seqNext = [q \in EventQueues |-> 0]
    /\ status = [p \in Users |-> "runnable"]
    /\ plan = [p \in Users |-> "none"]

TimedReset ==
    /\ Reset
    /\ entries' = [q \in EventQueues |-> {}]
    /\ schedules' = [q \in EventQueues |-> <<>>]
    /\ popCount' = [q \in EventQueues |-> 0]
    /\ seqNext' = [q \in EventQueues |-> 0]
    /\ status' = [p \in Users |-> "runnable"]
    /\ plan' = [p \in Users |-> "none"]

TimedNext ==
    \/ Begin("ok") /\ UNCHANGED objectVars
    \/ DeliverNotification
    \/ OpenWork /\ UNCHANGED objectVars
    \/ \E p \in todo \cap Users : IdleWork(p)
    \/ \E p \in todo \cap Producers : EndProducer(p) \/ \E delay \in Delays : Produce(p, delay)
    \/ \E p \in todo \cap Consumers : Consume(p)
    \/ Arbitrate(TRUE) /\ UNCHANGED objectVars
    \/ \E p \in todo \cap Users : CommitProcess(p)
    \/ \E q \in todo \cap EventQueues : CommitQueue(q)
    \/ CloseBarrier
    \/ Advance(Blocked, "ok") /\ UNCHANGED objectVars
    \/ TimedReset

TimedSpec == TimedInit /\ [][TimedNext]_timedVars

-----------------------------------------------------------------------------
(* Properties. *)

\* Queue and scheduler agree: every notification the scheduler still keeps
\* names an entry that is ready at exactly that epoch, every entry that is not
\* ready yet has its notification, and no entry has two.  So a notification
\* never fails to match, and neither the scheduler's queue nor a timed queue
\* ever holds more than its capacity.
NotificationsExact ==
    /\ \A q \in EventQueues :
          popCount[q] <= Cardinality(entries[q]) /\ Cardinality(entries[q]) <= QueueCapacity
    /\ code \notin {"invalid_event_notification", "event_queue_capacity_exceeded",
                    "multiple_stateful_commits"}
    /\ Running =>
      LET pending == events \cup proposed
      IN  /\ \A n \in pending : Matches(n)
          /\ \A n, m \in pending : n.target = m.target /\ n.payload = m.payload => n = m
          /\ \A q \in EventQueues : \A x \in entries[q] :
                Before(epoch, x.ready) => \E n \in pending : n.target = q /\ n.payload = x.seq

\* No consumer sleeps through an event: between epochs, one that awaits its
\* queue has no entry left from an earlier epoch, and an entry ready now has
\* its notification still to come.
NoEventMissed ==
    Running /\ phase = "begin" =>
      \A c \in Consumers : status[c] = "event" =>
        \A x \in entries[QueueOf[c]] :
            \/ Before(epoch, x.ready)
            \/ \E n \in events : n.target = QueueOf[c] /\ n.payload = x.seq

\* A run that is declared stuck has no event waiting for a living consumer.
NothingStranded ==
    code = "no_progress" =>
      \A c \in Consumers : entries[QueueOf[c]] = {}

\* The scheduler with these objects is the scheduler of SimSystem: what is
\* proved of every choice of objects holds for it.
ImplementsKernel == Spec
=============================================================================
