-------------------------- MODULE SimSystemProofs --------------------------
(***************************************************************************)
(* Proofs about the scheduler, for any set of objects, any activation plan *)
(* and any limits.                                                         *)
(***************************************************************************)
EXTENDS SimSystem, WellFoundedInduction, TLAPS

(* A nonempty set of natural numbers has a least element. *)
LEMMA NatLeast ==
    ASSUME NEW S \in SUBSET Nat, S # {}
    PROVE  \E m \in S : \A n \in S : m <= n
<1> DEFINE Less == {z \in Nat \X Nat : z[1] < z[2]}
<1>1. IsWellFoundedOn(Less, Nat)
  BY NatLessThanWellFounded DEF OpToRel
<1> HIDE DEF Less
<1>2. PICK m \in S : \A n \in S : ~(<<n, m>> \in Less)
  BY <1>1, WFMin
<1>3. \A n \in S : ~(n < m)
  BY <1>2 DEF Less
<1> QED
  BY <1>3

(* Epochs are totally ordered. *)
LEMMA EpochOrder ==
    ASSUME NEW a \in Epochs, NEW b \in Epochs
    PROVE  /\ NotAfter(a, b) \/ Before(b, a)
           /\ ~(NotAfter(a, b) /\ Before(b, a))
           /\ ~NotAfter(a, b) => Before(b, a)
<1>1. PICK at \in Nat, ad \in Nat : a = <<at, ad>>
  BY DEF Epochs
<1>2. PICK bt \in Nat, bd \in Nat : b = <<bt, bd>>
  BY DEF Epochs
<1> QED
  BY <1>1, <1>2 DEF NotAfter, Before

(* The order is transitive. *)
LEMMA EpochTransitive ==
    ASSUME NEW a \in Epochs, NEW b \in Epochs, NEW c \in Epochs
    PROVE  /\ NotAfter(a, b) /\ NotAfter(b, c) => NotAfter(a, c)
           /\ NotAfter(a, b) /\ Before(b, c) => Before(a, c)
           /\ Before(a, b) /\ NotAfter(b, c) => Before(a, c)
<1>1. PICK at \in Nat, ad \in Nat : a = <<at, ad>>
  BY DEF Epochs
<1>2. PICK bt \in Nat, bd \in Nat : b = <<bt, bd>>
  BY DEF Epochs
<1>3. PICK ct \in Nat, cd \in Nat : c = <<ct, cd>>
  BY DEF Epochs
<1> QED
  BY <1>1, <1>2, <1>3 DEF NotAfter, Before

(* Every nonempty set of epochs has an earliest one. *)
LEMMA EarliestEpoch ==
    ASSUME NEW S \in SUBSET Epochs, S # {}
    PROVE  \E e \in S : \A f \in S : NotAfter(e, f)
<1> DEFINE Times == {e[1] : e \in S}
<1>1. Times \in SUBSET Nat /\ Times # {}
  BY DEF Epochs
<1>2. PICK t \in Times : \A u \in Times : t <= u
  BY <1>1, NatLeast
<1> DEFINE Deltas == {e[2] : e \in {x \in S : x[1] = t}}
<1>3. Deltas \in SUBSET Nat /\ Deltas # {}
  BY <1>2 DEF Epochs
<1>4. PICK d \in Deltas : \A u \in Deltas : d <= u
  BY <1>3, NatLeast
<1>5. PICK e \in S : e[1] = t /\ e[2] = d
  BY <1>4
<1>6. ASSUME NEW f \in S PROVE NotAfter(e, f)
  <2>1. PICK ft \in Nat, fd \in Nat : f = <<ft, fd>>
    BY DEF Epochs
  <2>2. PICK et \in Nat, ed \in Nat : e = <<et, ed>>
    BY DEF Epochs
  <2>3. et <= ft
    BY <1>2, <1>5, <2>1, <2>2
  <2>4. ft = et => ed <= fd
    BY <1>4, <1>5, <2>1, <2>2
  <2> QED
    BY <2>1, <2>2, <2>3, <2>4 DEF NotAfter, Before
<1> QED
  BY <1>6

(* The request sequences produce events of the declared type, all due now or *)
(* later, inside the causal delta limit, with fresh and distinct sequences.  *)
LEMMA AcceptedEvents ==
    ASSUME TypeOK, NEW reqs \in Seq(Request)
    PROVE  /\ Len(reqs) \in Nat
           /\ Accepted(reqs) \subseteq Event
           /\ \A e \in Accepted(reqs) :
                 /\ NotAfter(epoch, e.ready)
                 /\ epoch[2] < MaxDeltas => e.ready[2] < MaxDeltas
                 /\ nextSeq <= e.seq /\ e.seq < nextSeq + Len(reqs)
           /\ \A e, f \in Accepted(reqs) : e.seq = f.seq => e = f
<1>1. reqs \in Seq(Request)
  OBVIOUS
<1>2. PICK t \in Nat, d \in Nat : epoch = <<t, d>>
  BY DEF TypeOK, Epochs
<1>3. Len(reqs) \in Nat /\ DOMAIN reqs = 1..Len(reqs)
  BY <1>1
<1>4. ASSUME NEW i \in DOMAIN reqs
      PROVE  /\ reqs[i].target \in Objects /\ reqs[i].payload \in Nat
             /\ ReadyAt(reqs[i].delay) \in Epochs
             /\ NotAfter(epoch, ReadyAt(reqs[i].delay))
             /\ epoch[2] < MaxDeltas => ReadyAt(reqs[i].delay)[2] < MaxDeltas
             /\ nextSeq + i - 1 \in Nat
             /\ nextSeq <= nextSeq + i - 1 /\ nextSeq + i - 1 < nextSeq + Len(reqs)
  <2>1. reqs[i] \in Request
    BY <1>1
  <2>2. PICK n \in Nat : reqs[i].delay = n
    BY <2>1 DEF Request
  <2>3. ReadyAt(n) \in Epochs /\ NotAfter(epoch, ReadyAt(n))
    BY <1>2 DEF ReadyAt, Epochs, NotAfter, Before
  <2>4. epoch[2] < MaxDeltas => ReadyAt(n)[2] < MaxDeltas
    BY <1>2, LimitsAssumption DEF ReadyAt
  <2> QED
    BY <2>1, <2>2, <2>3, <2>4, <1>3 DEF Request, TypeOK
<1>5. Accepted(reqs) \subseteq Event
  BY <1>4 DEF Accepted, Event
<1>6. \A e \in Accepted(reqs) :
         /\ NotAfter(epoch, e.ready)
         /\ epoch[2] < MaxDeltas => e.ready[2] < MaxDeltas
         /\ nextSeq <= e.seq /\ e.seq < nextSeq + Len(reqs)
  BY <1>4 DEF Accepted
<1>7. ASSUME NEW e \in Accepted(reqs), NEW f \in Accepted(reqs), e.seq = f.seq
      PROVE  e = f
  <2>1. PICK i \in DOMAIN reqs :
          e = [ready |-> ReadyAt(reqs[i].delay), seq |-> nextSeq + i - 1,
               target |-> reqs[i].target, payload |-> reqs[i].payload]
    BY DEF Accepted
  <2>2. PICK j \in DOMAIN reqs :
          f = [ready |-> ReadyAt(reqs[j].delay), seq |-> nextSeq + j - 1,
               target |-> reqs[j].target, payload |-> reqs[j].payload]
    BY DEF Accepted
  <2>3. nextSeq + i - 1 = nextSeq + j - 1
    BY <2>1, <2>2, <1>7
  <2>4. i = j
    BY <2>3, <1>3 DEF TypeOK
  <2> QED
    BY <2>1, <2>2, <2>4
<1> QED
  BY <1>3, <1>5, <1>6, <1>7

(* A call adds a prefix of its requests, the whole batch when it fits. *)
LEMMA ScheduledBatch ==
    ASSUME NEW reqs \in Seq(Request), nextSeq \in Nat,
           \/ ScheduleEvents(reqs) \/ Overflows(reqs)
           \/ UNCHANGED <<proposed, nextSeq>>
    PROVE  \E batch \in Seq(Request), n \in Nat :
              /\ Len(batch) <= n /\ nextSeq' = nextSeq + n
              /\ proposed' = proposed \cup Accepted(batch)
<1>1. reqs \in Seq(Request) /\ Len(reqs) \in Nat
  BY ObjectsAssumption
<1>2. CASE ScheduleEvents(reqs)
  BY <1>1, <1>2 DEF ScheduleEvents
<1>3. CASE Overflows(reqs)
  <2>1. PICK k \in 0..(Len(reqs) - 1) :
           /\ proposed' = proposed \cup Accepted(SubSeq(reqs, 1, k))
           /\ nextSeq' = nextSeq + k + 1
    BY <1>3 DEF Overflows
  <2>2. SubSeq(reqs, 1, k) \in Seq(Request) /\ Len(SubSeq(reqs, 1, k)) = k
    BY <1>1, <2>1
  <2>3. k + 1 \in Nat /\ k <= k + 1 /\ nextSeq' = nextSeq + (k + 1)
    BY <1>1, <2>1
  <2> QED
    BY <2>1, <2>2, <2>3
<1>4. CASE UNCHANGED <<proposed, nextSeq>>
  <2>1. <<>> \in Seq(Request) /\ Len(<<>>) = 0 /\ Accepted(<<>>) = {}
    BY DEF Accepted
  <2>2. nextSeq' = nextSeq + 0 /\ proposed' = proposed \cup Accepted(<<>>)
    BY <1>4, <2>1
  <2>3. Len(<<>>) <= 0 /\ 0 \in Nat
    BY <2>1
  <2> QED
    BY <2>1, <2>2, <2>3
<1> QED
  BY <1>2, <1>3, <1>4

(* The earliest pending epoch is well defined whenever something is pending. *)
LEMMA NextEpochEarliest ==
    ASSUME TypeOK, PendingEpochs # {}
    PROVE  /\ NextEpoch \in Epochs
           /\ NextEpoch \in PendingEpochs
           /\ \A f \in PendingEpochs : NotAfter(NextEpoch, f)
<1>1. PendingEpochs \in SUBSET Epochs
  BY DEF PendingEpochs, TypeOK, Event
<1>2. \E e \in PendingEpochs : \A f \in PendingEpochs : NotAfter(e, f)
  BY <1>1, EarliestEpoch
<1> QED
  BY <1>1, <1>2 DEF NextEpoch

(* When an event is due, the earliest event is one that is due now. *)
LEMMA NextEventDue ==
    ASSUME TypeOK, FutureOnly, SeqUnique, Running, Due # {}
    PROVE  /\ NextEvent \in events
           /\ NextEvent.ready = epoch
           /\ \A f \in events : f.ready = epoch => NextEvent.seq <= f.seq
<1>1. \A e \in Due : e \in events /\ e.ready = epoch
  <2> TAKE e \in Due
  <2>1. e \in events /\ NotAfter(e.ready, epoch) /\ NotAfter(epoch, e.ready)
    BY DEF Due, FutureOnly
  <2>2. e.ready \in Epochs /\ epoch \in Epochs
    BY <2>1 DEF TypeOK, Event
  <2> QED
    BY <2>1, <2>2, EpochOrder DEF NotAfter
<1>2. \A e \in events : e.ready = epoch => e \in Due
  BY DEF Due, NotAfter
<1> DEFINE Seqs == {e.seq : e \in Due}
<1>3. Seqs \in SUBSET Nat /\ Seqs # {}
  BY <1>1 DEF TypeOK, Event
<1>4. PICK m \in Seqs : \A n \in Seqs : m <= n
  BY <1>3, NatLeast
<1>5. PICK first \in Due : first.seq = m
  BY <1>4
<1>6. ASSUME NEW f \in events, f # first PROVE Earlier(first, f)
  <2>1. CASE f.ready = epoch
    <3>1. f \in Due /\ f.seq \in Nat /\ first.seq \in Nat
      BY <2>1, <1>1, <1>2 DEF TypeOK, Event
    <3>2. first.seq <= f.seq
      BY <3>1, <1>4, <1>5
    <3>3. first.seq # f.seq
      BY <1>1, <1>5, <1>6 DEF SeqUnique
    <3> QED
      BY <3>1, <3>2, <3>3, <2>1, <1>1, <1>5 DEF Earlier
  <2>2. CASE f.ready # epoch
    BY <2>2, <1>1, <1>5 DEF FutureOnly, NotAfter, Earlier
  <2> QED
    BY <2>1, <2>2
<1>7. first \in events /\ \A f \in events \ {first} : Earlier(first, f)
  BY <1>1, <1>5, <1>6
<1>8. NextEvent \in events /\ \A f \in events \ {NextEvent} : Earlier(NextEvent, f)
  BY <1>7 DEF NextEvent
<1>9. NextEvent = first
  <2> SUFFICES ASSUME NextEvent # first PROVE FALSE
    OBVIOUS
  <2>1. Earlier(NextEvent, first) /\ Earlier(first, NextEvent)
    BY <1>7, <1>8
  <2>2. /\ NextEvent.ready \in Epochs /\ first.ready \in Epochs
        /\ NextEvent.seq \in Nat /\ first.seq \in Nat
    BY <1>7, <1>8 DEF TypeOK, Event
  <2>3. \A a, b \in Epochs : ~(Before(a, b) /\ NotAfter(b, a))
    BY EpochOrder
  <2> QED
    BY <2>1, <2>2, <2>3 DEF Earlier, NotAfter
<1> QED
  BY <1>1, <1>2, <1>4, <1>5, <1>9

-----------------------------------------------------------------------------
(* Types. *)

(* The work run() starts with. *)
LEMMA StartWork ==
    /\ StartSet \subseteq (Epochs \X Objects)
    /\ \A w \in StartSet : w[1] = <<0, 0>>
BY DEF StartSet, Epochs

(* The moves of the scheduler when an object may issue any sequence of       *)
(* requests, not only those of Batches: what holds of them holds of every    *)
(* model built on these actions, whatever its objects ask for.               *)
OpenNext ==
    \/ Next
    \/ \E id \in todo, parts \in SUBSET Objects, reqs \in Seq(Request) :
          Work(id, parts, reqs)
    \/ \E id \in todo, will \in BOOLEAN, reqs \in Seq(Request), fails \in BOOLEAN :
          Commit(id, will, reqs, fails)

(* Every move of the scheduler keeps the types of its state. *)
LEMMA TypeStep ==
    ASSUME TypeOK, [OpenNext]_kernelVars
    PROVE  TypeOK'
<1>0. PICK t \in Nat, d \in Nat : epoch = <<t, d>>
  BY DEF TypeOK, Epochs
<1>1. ASSUME NEW trace \in TraceStates, Begin(trace) PROVE TypeOK'
  <2>1. cycles' \in [DOMAIN Domains -> Nat]
    BY <1>1 DEF Begin, CountCycles, TypeOK
  <2>2. outcome' \in Classes /\ code' \in Codes
    BY <1>1 DEF Begin, TraceStop, Stop, GoOn, TypeOK, Classes, Codes, ending
  <2>3. phase' \in {"begin", "deliver"} /\ UNCHANGED <<epoch, agenda, loop, lastCommit, lastProgress>>
    BY <1>1 DEF Begin
  <2> QED
    BY <2>1, <2>2, <2>3 DEF TypeOK, agenda, loop
<1>2. ASSUME NEW matches \in BOOLEAN, NEW woken \in SUBSET Objects,
             \E e \in events : woken \subseteq Activation[e.target] /\ e = NextEvent,
             Deliver(matches, woken)
      PROVE  TypeOK'
  <2>1. NextEvent \in Event
    BY <1>2 DEF TypeOK
  <2>2. Woken(NextEvent, woken) \subseteq Objects
    BY <2>1, ObjectsAssumption DEF Woken, Event
  <2>3. WorkEpoch(epoch) \in Epochs
    BY <1>0 DEF WorkEpoch, NextDelta, Epochs
  <2>4. WorkAt(Woken(NextEvent, woken), epoch) \subseteq (Epochs \X Objects)
    BY <2>2, <2>3 DEF WorkAt
  <2>5. WorkError(Woken(NextEvent, woken), epoch) \in Codes
    BY DEF WorkError, Codes
  <2>6. outcome' \in Classes /\ code' \in Codes
    BY <1>2, <2>5 DEF Deliver, Stop, GoOn, TypeOK, Classes, Codes, ending
  <2>7. /\ scheduledWork' \subseteq (Epochs \X Objects)
        /\ events' \subseteq Event /\ proposed' \subseteq Event
        /\ nextSeq' \in Nat /\ eventCount' \in Nat /\ lastProgress' \in Nat
    <3>1. \/ UNCHANGED <<scheduledWork, events, proposed, nextSeq, eventCount, lastProgress>>
          \/ /\ events' = events \ {NextEvent}
             /\ UNCHANGED <<scheduledWork, proposed, nextSeq, eventCount, lastProgress>>
          \/ /\ events' = events \ {NextEvent}
             /\ scheduledWork' = scheduledWork \cup WorkAt(Woken(NextEvent, woken), epoch)
             /\ eventCount' = eventCount + 1 /\ lastProgress' = epoch[1]
             /\ UNCHANGED <<proposed, nextSeq>>
      BY <1>2 DEF Deliver, agenda
    <3> QED
      BY <3>1, <2>4, <1>0 DEF TypeOK
  <2> QED
    BY <1>2, <2>6, <2>7 DEF Deliver, TypeOK, loop
<1>3. CASE OpenWork
  <2>1. todo' \subseteq Objects /\ xfer' \subseteq Objects
    BY <1>3 DEF OpenWork, TypeOK
  <2> QED
    BY <1>3, <2>1 DEF OpenWork, TypeOK, progress, ending
<1>4. ASSUME NEW id \in todo, NEW parts \in SUBSET Objects, NEW reqs \in Seq(Request),
             Work(id, parts, reqs)
      PROVE  TypeOK'
  <2>0. PICK batch \in Seq(Request), n \in Nat :
           nextSeq' = nextSeq + n /\ proposed' = proposed \cup Accepted(batch)
    BY <1>4, ScheduledBatch DEF Work, TypeOK
  <2>1. proposed' \subseteq Event /\ nextSeq' \in Nat
    BY <2>0, AcceptedEvents DEF TypeOK
  <2>2. outcome' \in Classes /\ code' \in Codes
    BY <1>4 DEF Work, Stop, GoOn, TypeOK, Classes, Codes, ending
  <2> QED
    BY <1>4, <2>1, <2>2 DEF Work, TypeOK, progress
<1>5. ASSUME NEW valid \in BOOLEAN, Arbitrate(valid) PROVE TypeOK'
  <2>1. outcome' \in Classes /\ code' \in Codes
    BY <1>5 DEF Arbitrate, Stop, GoOn, TypeOK, Classes, Codes, ending
  <2> QED
    BY <1>5, <2>1 DEF Arbitrate, TypeOK, agenda, progress
<1>6. ASSUME NEW id \in todo, NEW will \in BOOLEAN, NEW reqs \in Seq(Request),
             NEW fails \in BOOLEAN, Commit(id, will, reqs, fails)
      PROVE  TypeOK'
  <2>0. PICK batch \in Seq(Request), n \in Nat :
           nextSeq' = nextSeq + n /\ proposed' = proposed \cup Accepted(batch)
    BY <1>6, ScheduledBatch DEF Commit, TypeOK
  <2>1. proposed' \subseteq Event /\ nextSeq' \in Nat
    BY <2>0, AcceptedEvents DEF TypeOK
  <2>2. outcome' \in Classes /\ code' \in Codes
    BY <1>6 DEF Commit, Stop, GoOn, TypeOK, Classes, Codes, ending
  <2>3. id \in Objects /\ epoch[1] \in Nat
    BY <1>0 DEF TypeOK
  <2>4. /\ lastCommit' \in [Objects -> Nat \cup {NoTick}]
        /\ lastProgress' \in Nat
        /\ sources' \subseteq Objects /\ todo' \subseteq Objects
    BY <1>6, <2>3 DEF Commit, TypeOK
  <2> QED
    BY <1>6, <2>1, <2>2, <2>4 DEF Commit, TypeOK
<1>7. ASSUME NEW enders \in SUBSET {o \in Objects : Kind[o] = "Process"},
             NEW woken \in SUBSET UNION {Activation[x] : x \in sources},
             EndXfer(enders, woken)
      PROVE  TypeOK'
  <2>1. woken \cup enders \subseteq Objects
    <3>1. \A x \in sources : Activation[x] \subseteq Objects
      BY ObjectsAssumption DEF TypeOK
    <3> QED
      BY <3>1
  <2>2. WorkEpoch(NextTick) \in Epochs
    BY <1>0 DEF WorkEpoch, NextTick, NextDelta, Epochs
  <2>3. WorkAt(woken \cup enders, NextTick) \subseteq (Epochs \X Objects)
    BY <2>1, <2>2 DEF WorkAt
  <2>4. outcome' \in Classes /\ code' \in Codes
    BY <1>7 DEF EndXfer, Stop, GoOn, TypeOK, Classes, Codes, ending
  <2>5. epoch' \in Epochs /\ lastProgress' \in Nat
    BY <1>7, <1>0, LimitsAssumption DEF EndXfer, TypeOK, Epochs
  <2> QED
    BY <1>7, <2>3, <2>4, <2>5 DEF EndXfer, TypeOK, loop
<1>8. ASSUME NEW blocked \in BOOLEAN, NEW trace \in TraceStates, Advance(blocked, trace)
      PROVE  TypeOK'
  <2>1. Deadline \in Nat
    BY LimitsAssumption DEF Deadline, TypeOK
  <2>2. epoch' \in Epochs
    <3>1. \/ epoch' = epoch \/ epoch' = <<MaxTicks, 0>> \/ epoch' = <<Deadline, 0>>
          \/ PendingEpochs # {} /\ epoch' = NextEpoch
      BY <1>8 DEF Advance, Finish, StopAt, StopHere
    <3> QED
      BY <3>1, <2>1, NextEpochEarliest, LimitsAssumption DEF TypeOK, Epochs
  <2>3. outcome' \in Classes /\ code' \in Codes
    BY <1>8 DEF Advance, Finish, StopAt, StopHere, TraceStop, Stop, GoOn, TypeOK, Classes, Codes, ending
  <2>4. phase' \in {phase, "begin"}
    BY <1>8 DEF Advance, Finish, StopAt, StopHere
  <2> QED
    BY <1>8, <2>2, <2>3, <2>4 DEF Advance, TypeOK, agenda, loop, progress, ending
<1>9. ASSUME NEW id \in Objects, NEW e \in {epoch, NextTick}, HostSchedule(id, e)
      PROVE  TypeOK'
  <2>1. WorkEpoch(e) \in Epochs
    BY <1>0 DEF WorkEpoch, NextTick, NextDelta, Epochs
  <2>2. WorkAt({id}, e) \subseteq (Epochs \X Objects)
    BY <2>1 DEF WorkAt
  <2> QED
    BY <1>9, <2>2 DEF HostSchedule, TypeOK, loop, progress, ending
<1>10. CASE Reset
  <2>1. epoch' \in Epochs /\ lastCommit' \in [Objects -> Nat \cup {NoTick}]
        /\ cycles' \in [DOMAIN Domains -> Nat]
    BY <1>10 DEF Reset, Epochs
  <2>2. outcome' \in Classes /\ code' \in Codes
    BY <1>10 DEF Reset, Classes, Codes
  <2> QED
    BY <1>10, <2>1, <2>2, StartWork DEF Reset, TypeOK
<1>11. CASE UNCHANGED kernelVars
  BY <1>11 DEF kernelVars, TypeOK, agenda, loop, progress, ending
<1>12. \A reqs \in Batches : reqs \in Seq(Request)
  BY ObjectsAssumption
<1> QED
  BY <1>1, <1>2, <1>3, <1>4, <1>5, <1>6, <1>7, <1>8, <1>9, <1>10, <1>11, <1>12
     DEF OpenNext, Next, Step, Host

(* TypeOK is an invariant of every run. *)
THEOREM TypeCorrect == Spec => []TypeOK
<1>1. ASSUME Init PROVE TypeOK
  <2>1. epoch \in Epochs /\ lastCommit \in [Objects -> Nat \cup {NoTick}]
        /\ cycles \in [DOMAIN Domains -> Nat]
    BY <1>1 DEF Init, Epochs
  <2>2. outcome \in Classes /\ code \in Codes
    BY <1>1 DEF Init, Classes, Codes
  <2> QED
    BY <1>1, <2>1, <2>2, StartWork DEF Init, TypeOK
<1>2. TypeOK /\ [Next]_kernelVars => TypeOK'
  BY TypeStep DEF OpenNext
<1> QED
  BY <1>1, <1>2, PTL DEF Spec

-----------------------------------------------------------------------------
(* The inductive invariant of the scheduler. *)

Inv == TypeOK /\ SchedulerInv /\ CapsRespected /\ SelfChecksSilent

(* A declared cycle cap is a natural number. *)
LEMMA DomainLimits == \A k \in DOMAIN Domains : k \in Int /\ Domains[k].limit \in Nat
<1>1. \A r \in TimeDomain : r.limit \in Nat
  BY DEF TimeDomain
<1>2. \A k \in DOMAIN Domains : k \in Int /\ Domains[k] \in TimeDomain
  BY DomainsAssumption
<1> QED
  BY <1>1, <1>2

(* What the constructor and reset() leave behind. *)
Fresh ==
    /\ epoch = <<0, 0>> /\ phase = "begin" /\ scheduledWork = StartSet
    /\ events = {} /\ proposed = {} /\ nextSeq = 0 /\ eventCount = 0
    /\ lastProgress = 0
    /\ cycles = [k \in DOMAIN Domains |-> 0]
    /\ outcome = "Running" /\ code = ""

(* A freshly started system satisfies the invariant. *)
LEMMA FreshInv == Fresh => SchedulerInv /\ CapsRespected /\ SelfChecksSilent
<1> SUFFICES ASSUME Fresh PROVE SchedulerInv /\ CapsRespected /\ SelfChecksSilent
  OBVIOUS
<1>0. 0 < MaxTicks /\ 0 < MaxDeltas /\ 0 <= MaxTicks /\ 0 <= MaxEvents
  BY LimitsAssumption
<1>a. epoch = <<0, 0>> /\ events = {} /\ proposed = {} /\ lastProgress = 0
  BY DEF Fresh
<1>1. FutureOnly
  BY StartWork DEF Fresh, FutureOnly, Executing, NotAfter
<1>2. SeqUnique
  BY DEF Fresh, SeqUnique
<1>3. PendingBounded
  <2>1. \A w \in scheduledWork : w[1] = <<0, 0>>
    BY StartWork DEF Fresh
  <2> QED
    BY <1>0, <1>a, <2>1 DEF PendingBounded
<1>4. DeadlineAhead
  <2>1. Deadline = DeadlockWindow
    BY <1>a, LimitsAssumption DEF Deadline
  <2> QED
    BY <1>a, <2>1, LimitsAssumption DEF DeadlineAhead
<1>5. CapsRespected
  <2>1. \A k \in DOMAIN Domains : cycles[k] = 0
    BY DEF Fresh
  <2>2. \A k \in DOMAIN Domains : cycles[k] <= Domains[k].limit
    BY <2>1, DomainLimits
  <2>3. eventCount = 0
    BY DEF Fresh
  <2> QED
    BY <1>0, <1>a, <2>2, <2>3 DEF CapsRespected
<1>6. SelfChecksSilent
  BY DEF Fresh, SelfChecksSilent
<1> QED
  BY <1>a, <1>1, <1>2, <1>3, <1>4, <1>5, <1>6 DEF SchedulerInv, BarrierClosed

(* The first state satisfies the invariant. *)
LEMMA InitInv == Init => Inv
<1> SUFFICES ASSUME Init PROVE Inv
  OBVIOUS
<1>1. TypeOK
  <2>1. epoch \in Epochs /\ lastCommit \in [Objects -> Nat \cup {NoTick}]
        /\ cycles \in [DOMAIN Domains -> Nat]
    BY DEF Init, Epochs
  <2>2. outcome \in Classes /\ code \in Codes
    BY DEF Init, Classes, Codes
  <2> QED
    BY <2>1, <2>2, StartWork DEF Init, TypeOK
<1>2. SchedulerInv /\ CapsRespected /\ SelfChecksSilent
  BY FreshInv DEF Init, Fresh
<1> QED
  BY <1>1, <1>2 DEF Inv

(* reset() and a new run() reestablish it. *)
LEMMA ResetInv == Reset => (SchedulerInv /\ CapsRespected /\ SelfChecksSilent)'
<1>1. Reset => Fresh'
  BY DEF Reset, Fresh, StartSet
<1> QED
  BY <1>1, FreshInv, PTL

(* The entry of step() only counts domain cycles. *)
LEMMA BeginInv ==
    ASSUME Inv, NEW trace \in TraceStates, Begin(trace)
    PROVE  (SchedulerInv /\ CapsRespected /\ SelfChecksSilent)'
<1>1. Running' => phase' = "deliver"
  BY DEF Begin, TraceStop, Stop, GoOn, Running
<1>2. /\ UNCHANGED <<epoch, scheduledWork, events, proposed, nextSeq, eventCount,
                     lastProgress>>
      /\ Running /\ phase = "begin"
  BY DEF Begin, agenda
<1>3. SchedulerInv'
  BY <1>1, <1>2
     DEF Inv, SchedulerInv, FutureOnly, SeqUnique, PendingBounded, DeadlineAhead,
         BarrierClosed, Deadline, Executing
<1>4. SelfChecksSilent'
  BY DEF Begin, TraceStop, Stop, GoOn, ending, Inv, SelfChecksSilent
<1>5. ASSUME NEW k \in DOMAIN Domains, Domains[k].limit # 0
      PROVE  cycles'[k] <= Domains[k].limit
  <2>1. Domains[k].limit \in Nat /\ cycles[k] \in Nat /\ cycles[k] <= Domains[k].limit
    BY <1>5, DomainLimits DEF Inv, TypeOK, CapsRespected
  <2>2. CASE UNCHANGED cycles
    BY <2>1, <2>2
  <2>3. CASE CountCycles
    <3>1. CASE TicksNow(k) /\ \A c \in AtCap : k < c
      <4>1. k \notin AtCap
        BY <3>1, DomainLimits
      <4>2. ~(cycles[k] >= Domains[k].limit)
        BY <4>1, <3>1, <1>5 DEF AtCap
      <4> QED
        BY <2>1, <2>3, <3>1, <4>2 DEF CountCycles
    <3>2. CASE ~(TicksNow(k) /\ \A c \in AtCap : k < c)
      BY <2>1, <2>3, <3>2 DEF CountCycles
    <3> QED
      BY <3>1, <3>2
  <2> QED
    BY <2>2, <2>3 DEF Begin
<1>6. CapsRespected'
  BY <1>2, <1>5 DEF Inv, CapsRespected
<1> QED
  BY <1>3, <1>4, <1>6

(* The snapshot takes all work of the epoch out of the agenda. *)
LEMMA OpenWorkInv ==
    ASSUME Inv, OpenWork
    PROVE  (SchedulerInv /\ CapsRespected /\ SelfChecksSilent)'
<1>1. /\ UNCHANGED <<epoch, events, proposed, nextSeq, eventCount, lastProgress, cycles,
                     outcome, code>>
      /\ Running /\ Running' /\ phase = "deliver" /\ phase' = "work" /\ Due = {}
      /\ scheduledWork' \subseteq scheduledWork
      /\ \A w \in scheduledWork' : w[1] # epoch
  BY DEF OpenWork, progress, ending, Running
<1>2. \A e \in events : e.ready # epoch
  BY <1>1 DEF Due, NotAfter
<1>3. FutureOnly'
  BY <1>1 DEF Inv, SchedulerInv, FutureOnly, Executing, NotAfter
<1>4. (SeqUnique /\ PendingBounded /\ DeadlineAhead)'
  BY <1>1, <1>2
     DEF Inv, SchedulerInv, SeqUnique, PendingBounded, DeadlineAhead, Deadline
<1>5. BarrierClosed'
  BY <1>1 DEF BarrierClosed
<1> QED
  BY <1>1, <1>3, <1>4, <1>5 DEF Inv, SchedulerInv, CapsRespected, SelfChecksSilent, Running

(* The branches of a delivery: the run stops, or the target is scheduled. *)
LEMMA DeliverEffect ==
    ASSUME TypeOK, NEW matches, NEW woken, Deliver(matches, woken),
           ~Before(NextEvent.ready, epoch)
    PROVE  /\ UNCHANGED <<epoch, phase, loop, proposed, nextSeq, lastCommit, cycles>>
           /\ events' \in {events, events \ {NextEvent}}
           /\ \/ /\ outcome' \in {"Failed", "Incomplete"}
                 /\ code' \in {"max_events_reached", "invalid_event_notification",
                              WorkError(Woken(NextEvent, woken), epoch)}
                 /\ UNCHANGED <<scheduledWork, eventCount, lastProgress>>
              \/ /\ WorkError(Woken(NextEvent, woken), epoch) = ""
                 /\ UNCHANGED <<outcome, code>>
                 /\ scheduledWork' = scheduledWork \cup WorkAt(Woken(NextEvent, woken), epoch)
                 /\ ~(eventCount >= MaxEvents) /\ eventCount' = eventCount + 1
                 /\ lastProgress' = epoch[1]
<1> USE DEF Deliver, agenda, ending, Stop, GoOn, loop
<1>1. CASE eventCount >= MaxEvents
  BY <1>1
<1>2. CASE ~(eventCount >= MaxEvents) /\ ~matches
  BY <1>2
<1>3. CASE ~(eventCount >= MaxEvents) /\ matches /\ WorkError(Woken(NextEvent, woken), epoch) # ""
  BY <1>3
<1>4. CASE ~(eventCount >= MaxEvents) /\ matches /\ WorkError(Woken(NextEvent, woken), epoch) = ""
  BY <1>4
<1> QED
  BY <1>1, <1>2, <1>3, <1>4

(* A delivery removes one event and schedules work that is not stale. *)
LEMMA DeliverInv ==
    ASSUME Inv, NEW matches \in BOOLEAN, NEW woken \in SUBSET Objects,
           Deliver(matches, woken)
    PROVE  (SchedulerInv /\ CapsRespected /\ SelfChecksSilent)'
<1> DEFINE ids == Woken(NextEvent, woken)
<1>0. PICK t \in Nat, d \in Nat : epoch = <<t, d>>
  BY DEF Inv, TypeOK, Epochs
<1>1. Running /\ phase \in {"deliver", "causal"} /\ Due # {}
      /\ UNCHANGED <<epoch, phase, cycles, proposed, nextSeq>>
  BY DEF Deliver, agenda
<1>2. NextEvent \in events /\ NextEvent.ready = epoch
  BY <1>1, NextEventDue DEF Inv, SchedulerInv
<1>3. ~Before(epoch, epoch)
  BY <1>0 DEF Before
<1>4. events' \subseteq events
  BY DEF Deliver, agenda
<1>5. WorkError(ids, epoch) # "work_before_current_epoch"
  BY <1>3 DEF WorkError
<1>e. /\ UNCHANGED <<epoch, phase, proposed, nextSeq, cycles>>
      /\ \/ /\ outcome' \in {"Failed", "Incomplete"}
            /\ code' \in {"max_events_reached", "invalid_event_notification",
                         WorkError(ids, epoch)}
            /\ UNCHANGED <<scheduledWork, eventCount, lastProgress>>
         \/ /\ WorkError(ids, epoch) = ""
            /\ UNCHANGED <<outcome, code>>
            /\ scheduledWork' = scheduledWork \cup WorkAt(ids, epoch)
            /\ ~(eventCount >= MaxEvents) /\ eventCount' = eventCount + 1
            /\ lastProgress' = epoch[1]
  BY <1>2, <1>3, DeliverEffect DEF Inv
<1>6. SelfChecksSilent'
  <2>1. WorkError(ids, epoch) \in {"", "max_deltas_exceeded"}
    BY <1>3 DEF WorkError
  <2> QED
    BY <1>e, <2>1 DEF Inv, SelfChecksSilent
<1>7. eventCount' = eventCount \/ (eventCount < MaxEvents /\ eventCount' = eventCount + 1)
  <2>1. eventCount \in Nat /\ MaxEvents \in Nat
    BY LimitsAssumption DEF Inv, TypeOK
  <2>2. eventCount' = eventCount \/ (~(eventCount >= MaxEvents) /\ eventCount' = eventCount + 1)
    BY <1>e
  <2> QED
    BY <2>1, <2>2
<1>8. CapsRespected'
  <2>1. eventCount' <= MaxEvents
    BY <1>7, LimitsAssumption DEF Inv, CapsRespected, TypeOK
  <2> QED
    BY <2>1, <1>1 DEF Inv, CapsRespected
<1>9. ASSUME Running'
      PROVE  /\ WorkError(ids, epoch) = ""
             /\ scheduledWork' = scheduledWork \cup WorkAt(ids, epoch)
             /\ lastProgress' = epoch[1]
  BY <1>9, <1>e DEF Running
<1>10. ASSUME Running', NEW w \in WorkAt(ids, epoch)
       PROVE  /\ IF Executing THEN Before(epoch, w[1]) ELSE NotAfter(epoch, w[1])
              /\ w[1][1] <= MaxTicks /\ w[1][2] < MaxDeltas
  <2>1. w[1] = WorkEpoch(epoch) /\ ids # {}
    BY DEF WorkAt
  <2>2. t < MaxTicks /\ d < MaxDeltas
    BY <1>0, <1>1 DEF Inv, CapsRespected
  <2>3. CASE Executing
    <3>1. w[1] = <<t, d + 1>>
      BY <2>1, <2>3, <1>0 DEF WorkEpoch, NextDelta
    <3>2. ~(d + 1 >= MaxDeltas)
      BY <1>9, <1>10, <2>1, <2>3, <1>0 DEF WorkError
    <3> QED
      BY <3>1, <3>2, <2>2, <2>3, <1>0, LimitsAssumption DEF Before
  <2>4. CASE ~Executing
    <3>1. w[1] = <<t, d>>
      BY <2>1, <2>4, <1>0 DEF WorkEpoch
    <3> QED
      BY <3>1, <2>2, <2>4, <1>0, LimitsAssumption DEF NotAfter
  <2> QED
    BY <2>3, <2>4
<1>11. Executing' <=> Executing
  BY <1>1 DEF Executing
<1>12. FutureOnly'
  BY <1>1, <1>4, <1>9, <1>10, <1>11 DEF Inv, SchedulerInv, FutureOnly
<1>13. SeqUnique'
  BY <1>1, <1>4 DEF Inv, SchedulerInv, SeqUnique
<1>14. PendingBounded'
  BY <1>1, <1>4, <1>9, <1>10 DEF Inv, SchedulerInv, PendingBounded
<1>15. DeadlineAhead'
  <2> SUFFICES ASSUME Running', DeadlockWindow # 0 PROVE epoch'[1] < Deadline'
    BY DEF DeadlineAhead
  <2>1. Deadline' = t + DeadlockWindow
    BY <1>0, <1>9 DEF Deadline
  <2> QED
    BY <1>0, <1>1, <2>1, LimitsAssumption
<1>16. BarrierClosed'
  BY <1>1 DEF Inv, SchedulerInv, BarrierClosed
<1> QED
  BY <1>6, <1>8, <1>12, <1>13, <1>14, <1>15, <1>16 DEF SchedulerInv

(* scheduleEvent keeps pending events fresh, distinct and in bounds. *)
LEMMA ScheduleKeeps ==
    ASSUME Inv, Running, NEW reqs \in Seq(Request),
           UNCHANGED <<epoch, phase, scheduledWork, events>>,
           \/ ScheduleEvents(reqs) \/ Overflows(reqs)
           \/ UNCHANGED <<proposed, nextSeq>>
    PROVE  (FutureOnly /\ SeqUnique /\ PendingBounded)'
<1>0. nextSeq \in Nat
  BY DEF Inv, TypeOK
<1>1. PICK batch \in Seq(Request), n \in Nat :
         /\ Len(batch) <= n /\ nextSeq' = nextSeq + n
         /\ proposed' = proposed \cup Accepted(batch)
  BY <1>0, ScheduledBatch
<1> DEFINE new == Accepted(batch)
<1>2. /\ Len(batch) \in Nat
      /\ \A e \in events \cup proposed : e.seq \in Nat
      /\ \A e \in new : e.seq \in Nat
  BY AcceptedEvents DEF Inv, TypeOK, Event
<1>3. /\ \A e \in new : /\ NotAfter(epoch, e.ready)
                        /\ e.ready[2] < MaxDeltas
                        /\ nextSeq <= e.seq /\ e.seq < nextSeq + Len(batch)
      /\ \A e, f \in new : e.seq = f.seq => e = f
  BY AcceptedEvents DEF Inv, CapsRespected
<1>4. proposed' = proposed \cup new
  BY <1>1
<1> HIDE DEF new
<1>5. FutureOnly'
  BY <1>3, <1>4 DEF Inv, SchedulerInv, FutureOnly, Executing
<1>6. PendingBounded'
  BY <1>3, <1>4 DEF Inv, SchedulerInv, PendingBounded
<1>7. SeqUnique'
  <2>1. \A e \in events \cup proposed : e.seq < nextSeq
    BY DEF Inv, SchedulerInv, SeqUnique
  <2>2. \A e \in (events \cup proposed)' : e.seq < nextSeq'
    BY <1>0, <1>1, <1>2, <1>3, <1>4, <2>1
  <2>3. \A e \in events \cup proposed, f \in new : e.seq # f.seq
    BY <1>0, <1>2, <1>3, <2>1
  <2>4. \A e, f \in (events \cup proposed)' : e.seq = f.seq => e = f
    BY <1>3, <1>4, <2>3 DEF Inv, SchedulerInv, SeqUnique
  <2> QED
    BY <2>2, <2>4 DEF SeqUnique
<1> QED
  BY <1>5, <1>6, <1>7

(* Work may add event proposals, or end the run. *)
LEMMA WorkInv ==
    ASSUME Inv, NEW id \in todo, NEW parts \in SUBSET Objects, NEW reqs \in Seq(Request),
           Work(id, parts, reqs)
    PROVE  (SchedulerInv /\ CapsRespected /\ SelfChecksSilent)'
<1>1. /\ UNCHANGED <<epoch, phase, scheduledWork, events, eventCount, lastProgress, cycles>>
      /\ Running /\ phase = "work"
      /\ \/ ScheduleEvents(reqs) \/ Overflows(reqs)
         \/ UNCHANGED <<proposed, nextSeq>>
  BY DEF Work, progress
<1>2. \/ UNCHANGED <<outcome, code>>
      \/ outcome' = "Failed" /\ code' = "event_queue_capacity_exceeded"
  BY DEF Work, Stop, GoOn, ending
<1>3. (FutureOnly /\ SeqUnique /\ PendingBounded)'
  BY <1>1, ScheduleKeeps
<1>4. DeadlineAhead'
  BY <1>1 DEF Inv, SchedulerInv, DeadlineAhead, Deadline
<1>5. (CapsRespected /\ SelfChecksSilent)'
  BY <1>1, <1>2 DEF Inv, CapsRespected, SelfChecksSilent
<1> QED
  BY <1>1, <1>3, <1>4, <1>5 DEF SchedulerInv, BarrierClosed

(* Arbitration and validation leave the agenda alone. *)
LEMMA ArbitrateInv ==
    ASSUME Inv, NEW valid \in BOOLEAN, Arbitrate(valid)
    PROVE  (SchedulerInv /\ CapsRespected /\ SelfChecksSilent)'
<1>1. /\ UNCHANGED <<epoch, scheduledWork, events, proposed, nextSeq, eventCount,
                     lastProgress, cycles>>
      /\ Running /\ phase = "work" /\ phase' \in {"work", "commit"}
  BY DEF Arbitrate, progress, agenda
<1>2. \/ UNCHANGED <<outcome, code>>
      \/ outcome' = "Failed" /\ code' = "invalid_pending_commit"
  BY DEF Arbitrate, Stop, GoOn, ending
<1>3. SchedulerInv'
  BY <1>1 DEF Inv, SchedulerInv, FutureOnly, SeqUnique, PendingBounded, DeadlineAhead,
              BarrierClosed, Deadline, Executing
<1>4. (CapsRespected /\ SelfChecksSilent)'
  BY <1>1, <1>2 DEF Inv, CapsRespected, SelfChecksSilent
<1> QED
  BY <1>3, <1>4

(* A commit may add event proposals and counts as progress. *)
LEMMA CommitInv ==
    ASSUME Inv, NEW id \in todo, NEW will \in BOOLEAN, NEW reqs \in Seq(Request),
           NEW fails \in BOOLEAN, Commit(id, will, reqs, fails)
    PROVE  (SchedulerInv /\ CapsRespected /\ SelfChecksSilent)'
<1>0. PICK t \in Nat, d \in Nat : epoch = <<t, d>>
  BY DEF Inv, TypeOK, Epochs
<1>1. /\ UNCHANGED <<epoch, phase, scheduledWork, events, eventCount, cycles>>
      /\ Running /\ phase = "commit"
      /\ \/ ScheduleEvents(reqs) \/ Overflows(reqs)
         \/ UNCHANGED <<proposed, nextSeq>>
      /\ lastProgress' = lastProgress \/ lastProgress' = epoch[1]
  BY DEF Commit
<1>2. \/ UNCHANGED <<outcome, code>>
      \/ outcome' = "Failed" /\ code' \in {"multiple_stateful_commits",
            "committed_failure", "event_queue_capacity_exceeded"}
  BY DEF Commit, Stop, GoOn, ending
<1>3. (FutureOnly /\ SeqUnique /\ PendingBounded)'
  BY <1>1, ScheduleKeeps
<1>4. DeadlineAhead'
  <2> SUFFICES ASSUME DeadlockWindow # 0 PROVE epoch'[1] < Deadline'
    BY DEF DeadlineAhead
  <2>1. t < Deadline
    BY <1>0, <1>1 DEF Inv, SchedulerInv, DeadlineAhead
  <2> QED
    BY <1>0, <1>1, <2>1, LimitsAssumption DEF Deadline
<1>5. (CapsRespected /\ SelfChecksSilent)'
  BY <1>1, <1>2 DEF Inv, CapsRespected, SelfChecksSilent
<1> QED
  BY <1>1, <1>3, <1>4, <1>5 DEF SchedulerInv, BarrierClosed

(* The end of the barrier publishes the proposals and schedules the next tick. *)
LEMMA EndXferInv ==
    ASSUME Inv, NEW enders, NEW woken, EndXfer(enders, woken)
    PROVE  (SchedulerInv /\ CapsRespected /\ SelfChecksSilent)'
<1>0. PICK t \in Nat, d \in Nat : epoch = <<t, d>>
  BY DEF Inv, TypeOK, Epochs
<1>1. /\ events' \cup proposed' = events \cup proposed
      /\ UNCHANGED <<nextSeq, eventCount, cycles>>
      /\ Running /\ phase = "commit"
      /\ lastProgress' = lastProgress \/ lastProgress' = epoch[1]
  BY DEF EndXfer
<1>2. \/ outcome' = "Incomplete" /\ code' = "max_ticks_reached" /\ epoch' = <<MaxTicks, 0>>
      \/ /\ UNCHANGED <<epoch, outcome, code>> /\ phase' = "causal"
         /\ scheduledWork' = scheduledWork \cup WorkAt(woken \cup enders, NextTick)
  BY DEF EndXfer, Stop, GoOn, ending
<1>3. t < MaxTicks /\ d < MaxDeltas
  BY <1>0, <1>1 DEF Inv, CapsRespected
<1>4. ASSUME NEW w \in WorkAt(woken \cup enders, NextTick)
      PROVE  Before(epoch, w[1]) /\ w[1][1] <= MaxTicks /\ w[1][2] < MaxDeltas
  <2>1. w[1] = <<t + 1, 0>>
    BY <1>0 DEF WorkAt, WorkEpoch, NextTick
  <2> QED
    BY <1>0, <1>3, <2>1, LimitsAssumption DEF Before
<1>5. (FutureOnly /\ PendingBounded)'
  BY <1>1, <1>2, <1>4
     DEF Inv, SchedulerInv, FutureOnly, PendingBounded, Executing, Running
<1>6. SeqUnique'
  BY <1>1 DEF Inv, SchedulerInv, SeqUnique
<1>7. DeadlineAhead'
  <2> SUFFICES ASSUME DeadlockWindow # 0, Running' PROVE epoch'[1] < Deadline'
    BY DEF DeadlineAhead
  <2>1. t < Deadline
    BY <1>0, <1>1 DEF Inv, SchedulerInv, DeadlineAhead
  <2>2. epoch' = epoch
    BY <1>2 DEF Running
  <2> QED
    BY <1>0, <1>1, <2>1, <2>2, LimitsAssumption DEF Deadline
<1>8. CapsRespected'
  BY <1>0, <1>1, <1>2, LimitsAssumption DEF Inv, CapsRespected, Running
<1>9. SelfChecksSilent'
  BY <1>2 DEF Inv, SelfChecksSilent
<1>10. BarrierClosed'
  BY DEF EndXfer, BarrierClosed
<1> QED
  BY <1>5, <1>6, <1>7, <1>8, <1>9, <1>10 DEF SchedulerInv

(* After the causal deliveries everything pending lies strictly ahead. *)
LEMMA PendingAhead ==
    ASSUME Inv, Running, phase = "causal", Due = {}, PendingEpochs # {}
    PROVE  /\ NextEpoch \in Epochs
           /\ ~NotAfter(NextEpoch, epoch)
           /\ NextEpoch[2] < MaxDeltas
           /\ ~NextIsEvent => NextEpoch[1] <= MaxTicks
<1>1. NextEpoch \in Epochs /\ NextEpoch \in PendingEpochs /\ epoch \in Epochs
  BY NextEpochEarliest DEF Inv, TypeOK
<1>2. CASE \E w \in scheduledWork : w[1] = NextEpoch
  <2>1. Before(epoch, NextEpoch) /\ NextEpoch[1] <= MaxTicks /\ NextEpoch[2] < MaxDeltas
    BY <1>2 DEF Inv, SchedulerInv, FutureOnly, PendingBounded, Executing
  <2> QED
    BY <1>1, <2>1, EpochOrder
<1>3. CASE \E e \in events : e.ready = NextEpoch
  BY <1>1, <1>3 DEF Due, NextIsEvent, Inv, SchedulerInv, PendingBounded
<1> QED
  BY <1>1, <1>2, <1>3 DEF PendingEpochs

(* The ways out of step(). *)
LEMMA AdvanceEffect ==
    ASSUME Inv, NEW blocked \in BOOLEAN, NEW trace \in TraceStates, Advance(blocked, trace)
    PROVE  /\ UNCHANGED <<agenda, progress>> /\ Running /\ phase = "causal" /\ Due = {}
           /\ \/ /\ outcome' \in {"Completed", "Incomplete", "Failed"}
                 /\ code' \in {"", "multiple_trace_owners", "max_trace_records_reached",
                              "max_ticks_reached", "deadlock_window_reached", "no_progress"}
                 /\ \/ epoch' = epoch
                    \/ epoch' = <<MaxTicks, 0>>
                    \/ DeadlockWindow # 0 /\ epoch' = <<Deadline, 0>> /\ Deadline <= MaxTicks
              \/ /\ UNCHANGED <<outcome, code>> /\ phase' = "begin"
                 /\ PendingEpochs # {} /\ epoch' = NextEpoch /\ NextEpoch[1] < MaxTicks
                 /\ NextIsEvent \/ DeadlockWindow = 0 \/ NextEpoch[1] < Deadline
<1>1. UNCHANGED <<agenda, progress>> /\ Running /\ phase = "causal" /\ Due = {}
  BY DEF Advance
<1>0. Deadline \in Nat /\ MaxTicks \in Nat
  BY LimitsAssumption DEF Deadline, Inv, TypeOK
<1>2. CASE PendingEpochs = {}
  <2>1. Finish(blocked, trace)
    BY <1>2 DEF Advance
  <2>2. CASE trace # "ok"
    BY <1>1, <2>1, <2>2 DEF Finish, TraceStop, Stop
  <2>3. CASE trace = "ok" /\ blocked /\ DeadlockWindow # 0 /\ Deadline >= MaxTicks
    BY <1>1, <2>1, <2>3 DEF Finish, StopAt, Stop
  <2>4. CASE trace = "ok" /\ blocked /\ DeadlockWindow # 0 /\ ~(Deadline >= MaxTicks)
    <3>1. Deadline <= MaxTicks
      BY <1>0, <2>4
    <3> QED
      BY <1>1, <2>1, <2>4, <3>1 DEF Finish, StopAt, Stop
  <2>5. CASE trace = "ok" /\ ~(blocked /\ DeadlockWindow # 0)
    BY <1>1, <2>1, <2>5 DEF Finish, StopHere, StopAt, Stop
  <2> QED
    BY <2>2, <2>3, <2>4, <2>5
<1>3. CASE PendingEpochs # {}
  <2>1. /\ NextEpoch \in Epochs /\ ~NotAfter(NextEpoch, epoch)
        /\ ~NextIsEvent => NextEpoch[1] <= MaxTicks
    BY <1>1, <1>3, PendingAhead
  <2>2. NextEpoch[1] \in Nat
    BY <2>1 DEF Epochs
  <2>3. CASE ~NextIsEvent /\ DeadlockWindow # 0 /\ NextEpoch[1] >= Deadline
    <3>1. Deadline <= MaxTicks
      BY <1>0, <2>1, <2>2, <2>3
    <3> QED
      BY <1>1, <1>3, <2>1, <2>3, <3>1 DEF Advance, StopAt, Stop
  <2>4. CASE ~(~NextIsEvent /\ DeadlockWindow # 0 /\ NextEpoch[1] >= Deadline)
             /\ NextEpoch[1] >= MaxTicks
    BY <1>1, <1>3, <2>1, <2>4 DEF Advance, StopAt, Stop
  <2>5. CASE ~(~NextIsEvent /\ DeadlockWindow # 0 /\ NextEpoch[1] >= Deadline)
             /\ ~(NextEpoch[1] >= MaxTicks)
    <3>1. NextEpoch[1] < MaxTicks /\ (NextIsEvent \/ DeadlockWindow = 0 \/ NextEpoch[1] < Deadline)
      BY <1>0, <2>2, <2>5
    <3>2. epoch' = NextEpoch /\ phase' = "begin" /\ GoOn
      BY <1>3, <2>1, <2>5 DEF Advance
    <3> QED
      BY <1>1, <1>3, <3>1, <3>2 DEF GoOn, ending
  <2> QED
    BY <2>3, <2>4, <2>5
<1> QED
  BY <1>2, <1>3

(* step() advances to the earliest pending epoch, or ends the run. *)
LEMMA AdvanceInv ==
    ASSUME Inv, NEW blocked \in BOOLEAN, NEW trace \in TraceStates, Advance(blocked, trace)
    PROVE  (SchedulerInv /\ CapsRespected /\ SelfChecksSilent)'
<1> DEFINE Stopped ==
      /\ outcome' \in {"Completed", "Incomplete", "Failed"}
      /\ code' \in {"", "multiple_trace_owners", "max_trace_records_reached",
                   "max_ticks_reached", "deadlock_window_reached", "no_progress"}
      /\ \/ epoch' = epoch
         \/ epoch' = <<MaxTicks, 0>>
         \/ DeadlockWindow # 0 /\ epoch' = <<Deadline, 0>> /\ Deadline <= MaxTicks
<1> DEFINE Advanced ==
      /\ UNCHANGED <<outcome, code>> /\ phase' = "begin"
      /\ PendingEpochs # {} /\ epoch' = NextEpoch /\ NextEpoch[1] < MaxTicks
      /\ NextIsEvent \/ DeadlockWindow = 0 \/ NextEpoch[1] < Deadline
<1>1. /\ UNCHANGED <<agenda, progress>> /\ Running /\ phase = "causal" /\ Due = {}
      /\ Stopped \/ Advanced
  BY AdvanceEffect
<1>2. UNCHANGED <<scheduledWork, events, proposed, nextSeq, eventCount, lastProgress, cycles>>
  BY <1>1 DEF agenda, progress
<1>3. SeqUnique'
  BY <1>2 DEF Inv, SchedulerInv, SeqUnique
<1>4. MaxTicks \in Nat /\ Deadline \in Nat
  BY LimitsAssumption DEF Deadline, Inv, TypeOK
<1>5. CASE Stopped
  <2>1. ~Running'
    BY <1>5 DEF Running
  <2>2. (FutureOnly /\ PendingBounded /\ DeadlineAhead /\ BarrierClosed)'
    BY <2>1 DEF FutureOnly, PendingBounded, DeadlineAhead, BarrierClosed
  <2>3. epoch'[1] <= MaxTicks
    <3>1. epoch[1] <= MaxTicks
      BY DEF Inv, CapsRespected
    <3>2. \/ epoch' = epoch
          \/ epoch' = <<MaxTicks, 0>>
          \/ epoch' = <<Deadline, 0>> /\ Deadline <= MaxTicks
      BY <1>5
    <3> QED
      BY <1>4, <3>1, <3>2
  <2>4. (CapsRespected /\ SelfChecksSilent)'
    BY <1>2, <1>5, <2>1, <2>3 DEF Inv, CapsRespected, SelfChecksSilent
  <2> QED
    BY <1>3, <2>2, <2>4 DEF SchedulerInv
<1>6. CASE Advanced
  <2>1. /\ NextEpoch \in Epochs /\ NextEpoch[2] < MaxDeltas
        /\ \A f \in PendingEpochs : NotAfter(NextEpoch, f)
    BY <1>1, <1>6, PendingAhead, NextEpochEarliest DEF Inv
  <2>2. epoch' = NextEpoch /\ phase' = "begin" /\ NextEpoch[1] < MaxTicks
    BY <1>6
  <2>3. proposed = {}
    BY <1>1 DEF Inv, SchedulerInv, BarrierClosed
  <2>4. FutureOnly'
    BY <1>2, <2>1, <2>2, <2>3 DEF FutureOnly, PendingEpochs, Executing
  <2>5. PendingBounded'
    BY <1>1, <1>2 DEF Inv, SchedulerInv, PendingBounded
  <2>6. DeadlineAhead'
    BY <1>2, <1>6 DEF DeadlineAhead, Deadline, NextIsEvent
  <2>7. CapsRespected'
    <3>1. NextEpoch[1] <= MaxTicks
      BY <1>4, <2>1, <2>2 DEF Epochs
    <3> QED
      BY <1>2, <2>1, <2>2, <3>1 DEF Inv, CapsRespected
  <2>8. SelfChecksSilent'
    BY <1>6 DEF Inv, SelfChecksSilent
  <2>9. BarrierClosed'
    BY <1>2, <2>3 DEF BarrierClosed
  <2> QED
    BY <1>3, <2>4, <2>5, <2>6, <2>7, <2>8, <2>9 DEF SchedulerInv
<1> QED
  BY <1>1, <1>5, <1>6

(* Host work is asked for now or for the next tick. *)
LEMMA HostScheduleInv ==
    ASSUME Inv, NEW id \in Objects, NEW e \in {epoch, NextTick}, HostSchedule(id, e)
    PROVE  (SchedulerInv /\ CapsRespected /\ SelfChecksSilent)'
<1>0. PICK t \in Nat, d \in Nat : epoch = <<t, d>>
  BY DEF Inv, TypeOK, Epochs
<1>1. /\ UNCHANGED <<epoch, phase, events, proposed, nextSeq, eventCount, lastProgress,
                     cycles, outcome, code>>
      /\ scheduledWork' = scheduledWork \cup WorkAt({id}, e)
      /\ Running /\ phase = "begin"
  BY DEF HostSchedule, progress, ending
<1>2. t < MaxTicks /\ d < MaxDeltas
  BY <1>0, <1>1 DEF Inv, CapsRespected
<1>3. ASSUME NEW w \in WorkAt({id}, e)
      PROVE  NotAfter(epoch, w[1]) /\ w[1][1] <= MaxTicks /\ w[1][2] < MaxDeltas
  <2>1. w[1] = <<t, d>> \/ w[1] = <<t + 1, 0>>
    BY <1>0, <1>1 DEF WorkAt, WorkEpoch, Executing, NextTick
  <2> QED
    BY <1>0, <1>2, <2>1, LimitsAssumption DEF NotAfter, Before
<1>4. (FutureOnly /\ PendingBounded)'
  BY <1>1, <1>3 DEF Inv, SchedulerInv, FutureOnly, PendingBounded, Executing
<1>5. (SeqUnique /\ DeadlineAhead /\ BarrierClosed)'
  BY <1>1 DEF Inv, SchedulerInv, SeqUnique, DeadlineAhead, BarrierClosed, Deadline
<1> QED
  BY <1>1, <1>4, <1>5 DEF Inv, SchedulerInv, CapsRespected, SelfChecksSilent, Running

(* Every move keeps the invariant. *)
LEMMA InvStep ==
    ASSUME Inv, [OpenNext]_kernelVars
    PROVE  Inv'
<1>1. TypeOK'
  BY TypeStep DEF Inv
<1>2. ASSUME UNCHANGED kernelVars
      PROVE  (SchedulerInv /\ CapsRespected /\ SelfChecksSilent)'
  <2>1. UNCHANGED <<epoch, phase, scheduledWork, events, proposed, nextSeq, eventCount,
                    lastProgress, cycles, outcome, code>>
    BY <1>2 DEF kernelVars, agenda, loop, progress, ending
  <2>2. SchedulerInv'
    BY <2>1 DEF Inv, SchedulerInv, FutureOnly, SeqUnique, PendingBounded, DeadlineAhead,
       BarrierClosed, Deadline, Executing, Running
  <2> QED
    BY <2>1, <2>2 DEF Inv, CapsRespected, SelfChecksSilent, Running
<1>3. \A reqs \in Batches : reqs \in Seq(Request)
  BY ObjectsAssumption
<1>4. (SchedulerInv /\ CapsRespected /\ SelfChecksSilent)'
  BY <1>2, <1>3, BeginInv, DeliverInv, OpenWorkInv, WorkInv, ArbitrateInv, CommitInv,
     EndXferInv, AdvanceInv, HostScheduleInv, ResetInv DEF OpenNext, Next, Step, Host
<1> QED
  BY <1>1, <1>4 DEF Inv

(* No pending work or event is ever stale, out of bounds or confused with   *)
(* another, and no pending event is left unpublished.                       *)
THEOREM SchedulerSound == Spec => []SchedulerInv
<1>1. Inv /\ [Next]_kernelVars => Inv'
  BY InvStep DEF OpenNext
<1>2. Inv => SchedulerInv
  BY DEF Inv
<1> QED
  BY <1>1, <1>2, InitInv, PTL DEF Spec

(* No run executes at or beyond a declared cap, or ends after the cap epoch. *)
THEOREM CapsSound == Spec => []CapsRespected
<1>1. Inv /\ [Next]_kernelVars => Inv'
  BY InvStep DEF OpenNext
<1>2. Inv => CapsRespected
  BY DEF Inv
<1> QED
  BY <1>1, <1>2, InitInv, PTL DEF Spec

(* The scheduler's own consistency checks never end a run. *)
THEOREM SelfChecksSound == Spec => []SelfChecksSilent
<1>1. Inv /\ [Next]_kernelVars => Inv'
  BY InvStep DEF OpenNext
<1>2. Inv => SelfChecksSilent
  BY DEF Inv
<1> QED
  BY <1>1, <1>2, InitInv, PTL DEF Spec

(* Simulated time never runs backwards. *)
THEOREM TimeMonotone == Spec => EpochMonotone
<1>1. Inv /\ [Next]_kernelVars => Inv'
  BY InvStep DEF OpenNext
<1>2. ASSUME Inv, [Next]_kernelVars, ~Running' \/ epoch' # <<0, 0>>
      PROVE  NotAfter(epoch, epoch')
  <2>0. PICK t \in Nat, d \in Nat : epoch = <<t, d>>
    BY <1>2 DEF Inv, TypeOK, Epochs
  <2>1. CASE epoch' = epoch
    BY <2>1 DEF NotAfter
  <2>2. CASE epoch' = <<MaxTicks, 0>> /\ Running
    <3>1. t < MaxTicks
      BY <1>2, <2>0, <2>2 DEF Inv, CapsRespected
    <3> QED
      BY <2>0, <2>2, <3>1 DEF NotAfter, Before
  <2>3. ASSUME NEW blocked \in BOOLEAN, NEW trace \in TraceStates, Advance(blocked, trace)
        PROVE  NotAfter(epoch, epoch')
    <3>1. Running /\ phase = "causal" /\ Due = {}
      BY <2>3 DEF Advance
    <3>2. \/ epoch' \in {epoch, <<MaxTicks, 0>>}
          \/ DeadlockWindow # 0 /\ epoch' = <<Deadline, 0>>
          \/ PendingEpochs # {} /\ epoch' = NextEpoch
      BY <2>3 DEF Advance, Finish, StopHere, StopAt
    <3>3. CASE DeadlockWindow # 0 /\ epoch' = <<Deadline, 0>>
      <4>1. t < Deadline
        BY <1>2, <2>0, <3>1, <3>3 DEF Inv, SchedulerInv, DeadlineAhead
      <4> QED
        BY <2>0, <3>3, <4>1 DEF NotAfter, Before
    <3>4. CASE PendingEpochs # {} /\ epoch' = NextEpoch
      BY <1>2, <3>1, <3>4, PendingAhead, EpochOrder DEF Inv, TypeOK, NotAfter
    <3> QED
      BY <2>1, <2>2, <3>1, <3>2, <3>3, <3>4
  <2>4. CASE \E enders, woken : EndXfer(enders, woken)
    BY <2>1, <2>2, <2>4 DEF EndXfer
  <2>5. CASE Reset
    BY <1>2, <2>5 DEF Reset, Running
  <2>6. ASSUME UNCHANGED kernelVars PROVE epoch' = epoch
    BY <2>6 DEF kernelVars
  <2> QED
    BY <1>2, <2>1, <2>3, <2>4, <2>5, <2>6
       DEF Next, Step, Host, Begin, Deliver, OpenWork, Work, Arbitrate, Commit, HostSchedule
<1> QED
  BY <1>1, <1>2, InitInv, PTL DEF Spec, EpochMonotone

(* Only a delivery removes an event: an earliest one, at its ready epoch; and
   what is queued while a run goes on lies in its future. *)
THEOREM DeliveryOnTime == Spec => EventsOnTime
<1>1. Inv /\ [Next]_kernelVars => Inv'
  BY InvStep DEF OpenNext
<1> DEFINE Served(e) == e.ready = epoch /\ \A f \in events : NotAfter(e.ready, f.ready)
<1>2. ASSUME Inv, [Next]_kernelVars, ~Reset PROVE \A e \in events \ events' : Served(e)
  <2>1. ASSUME NEW matches, NEW woken, Deliver(matches, woken)
        PROVE  \A e \in events \ events' : Served(e)
    <3>1. Running /\ Due # {} /\ events \ events' \subseteq {NextEvent}
      BY <2>1 DEF Deliver, agenda
    <3>2. NextEvent.ready = epoch
      BY <1>2, <3>1, NextEventDue DEF Inv, SchedulerInv
    <3>3. \A f \in events : NotAfter(epoch, f.ready)
      BY <1>2, <3>1 DEF Inv, SchedulerInv, FutureOnly
    <3> QED
      BY <3>1, <3>2, <3>3
  <2>2. \/ \E matches, woken : Deliver(matches, woken)
        \/ events \subseteq events'
    BY <1>2
       DEF Next, Step, Host, Begin, OpenWork, Work, Arbitrate, Commit, EndXfer, Advance,
           HostSchedule, kernelVars, agenda
  <2> QED
    BY <2>1, <2>2
<1>3. Inv' => (Running' => \A f \in events' : NotAfter(epoch', f.ready))
  BY DEF Inv, SchedulerInv, FutureOnly, NotAfter, Before
<1>4. Reset => epoch' = <<0, 0>> /\ events' = {}
  BY DEF Reset
<1>5. Inv /\ [Next]_kernelVars =>
        [\/ epoch' = <<0, 0>> /\ events' = {}
         \/ /\ \A e \in events \ events' : Served(e)
            /\ Running' => \A f \in events' : NotAfter(epoch', f.ready)]_kernelVars
  BY <1>1, <1>2, <1>3, <1>4
<1> QED
  BY <1>1, <1>5, InitInv, PTL DEF Spec, EventsOnTime

(* A run is declared over only when nothing waits. *)
THEOREM VerdictsSound == Spec => []VerdictSound
<1>1. Inv /\ [Next]_kernelVars => Inv'
  BY InvStep DEF OpenNext
<1>2. Init => VerdictSound
  BY DEF Init, VerdictSound
<1>3. ASSUME Inv, VerdictSound, [Next]_kernelVars PROVE VerdictSound'
  <2> DEFINE Over == outcome' = "Completed" \/ (outcome' = "Failed" /\ code' = "no_progress")
  <2>1. ASSUME NEW blocked \in BOOLEAN, NEW trace \in TraceStates, Advance(blocked, trace), Over
        PROVE  scheduledWork' = {} /\ events' = {} /\ proposed' = {}
    <3>1. Running /\ phase = "causal" /\ UNCHANGED <<scheduledWork, events, proposed>>
      BY <2>1 DEF Advance, agenda
    <3>2. proposed = {}
      BY <1>3, <3>1 DEF Inv, SchedulerInv, BarrierClosed
    <3>3. PendingEpochs = {}
      BY <2>1, <3>1 DEF Advance, StopHere, StopAt, Stop, GoOn, ending, Running
    <3> QED
      BY <3>1, <3>2, <3>3 DEF PendingEpochs
  <2>2. ASSUME NEW matches, NEW woken, Deliver(matches, woken) PROVE ~Over
    <3>1. WorkError(Woken(NextEvent, woken), epoch) # "no_progress"
      BY DEF WorkError
    <3> QED
      BY <2>2, <3>1 DEF Deliver, Stop, GoOn, ending, Running
  <2>3. ASSUME \/ \E trace \in TraceStates : Begin(trace)
               \/ OpenWork
               \/ \E id, parts, reqs : Work(id, parts, reqs)
               \/ \E valid \in BOOLEAN : Arbitrate(valid)
               \/ \E id, will, reqs, fails : Commit(id, will, reqs, fails)
               \/ \E enders, woken : EndXfer(enders, woken)
               \/ \E id, e : HostSchedule(id, e)
        PROVE  ~Over
    BY <2>3 DEF Begin, OpenWork, Work, Arbitrate, Commit, EndXfer, HostSchedule, TraceStop,
                Stop, GoOn, ending, Running
  <2>4. CASE Reset
    BY <2>4 DEF Reset, VerdictSound
  <2>5. CASE UNCHANGED kernelVars
    BY <1>3, <2>5 DEF kernelVars, agenda, ending, VerdictSound
  <2>6. Next \/ UNCHANGED kernelVars
    BY <1>3
  <2>7. ASSUME Over, ~Reset, ~UNCHANGED kernelVars
        PROVE  \E blocked \in BOOLEAN, trace \in TraceStates : Advance(blocked, trace)
    BY <2>2, <2>3, <2>6, <2>7 DEF Next, Step, Host
  <2>8. Over /\ ~Reset /\ ~UNCHANGED kernelVars
          => scheduledWork' = {} /\ events' = {} /\ proposed' = {}
    BY <2>1, <2>7
  <2> QED
    BY <2>4, <2>5, <2>8 DEF VerdictSound
<1> QED
  BY <1>1, <1>2, <1>3, InitInv, PTL DEF Spec
=============================================================================
