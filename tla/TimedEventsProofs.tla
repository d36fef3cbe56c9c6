-------------------------- MODULE TimedEventsProofs --------------------------
(***************************************************************************)
(* Proofs about timed event queues on the scheduler, for any number of     *)
(* queues, producers and consumers, any capacities, delays and limits.     *)
(***************************************************************************)
EXTENDS TimedEvents, SimSystemProofs, FiniteSetTheorems

-----------------------------------------------------------------------------
(* The inductive invariant. *)

Entry == [ready : Epochs, seq : Nat]
Ask == [delay : Delays, seq : Nat]
Plans == {"none", "yield", "event", "terminated"}

\* The entries a queue has accepted carry distinct sequences below
\* nextSequence_, committed or still proposed.
Numbered(stored, asked, next) ==
    /\ \A x \in stored : x.seq < next
    /\ \A x, y \in stored : x.seq = y.seq => x = y
    /\ \A i \in DOMAIN asked : asked[i].seq < next /\ \A x \in stored : x.seq # asked[i].seq
    /\ \A i, j \in DOMAIN asked : asked[i].seq = asked[j].seq => i = j

\* One queue: its types, its numbering and its capacity.
QueueSound(stored, asked, pops, next) ==
    /\ stored \in SUBSET Entry /\ IsFiniteSet(stored)
    /\ asked \in Seq(Ask) /\ pops \in Nat /\ next \in Nat
    /\ Numbered(stored, asked, next)
    /\ Cardinality(stored) + Len(asked) <= QueueCapacity
    /\ pops <= Cardinality(stored)

QueuesSound ==
    /\ DOMAIN entries = EventQueues /\ DOMAIN schedules = EventQueues
    /\ DOMAIN popCount = EventQueues /\ DOMAIN seqNext = EventQueues
    /\ entries \in [EventQueues -> SUBSET Entry]
    /\ schedules \in [EventQueues -> Seq(Ask)]
    /\ popCount \in [EventQueues -> Nat] /\ seqNext \in [EventQueues -> Nat]
    /\ \A q \in EventQueues : QueueSound(entries[q], schedules[q], popCount[q], seqNext[q])

\* Processes; a consumer never ends.
UsersSound ==
    /\ status \in [Users -> Statuses] /\ plan \in [Users -> Plans]
    /\ \A c \in Consumers : status[c] # "terminated" /\ plan[c] # "terminated"

Pending == events \cup proposed
Noticed(q, x) == \E n \in Pending : n.target = q /\ n.payload = x.seq

\* Only entries that are ready are popped.
PopsReady == \A q \in EventQueues : \A x \in Popped(q) : NotAfter(x.ready, epoch)

\* Notifications and entries that are not ready correspond.
Announced ==
    /\ IsFiniteSet(events) /\ IsFiniteSet(proposed) /\ events \cap proposed = {}
    /\ \A n \in Pending : n.target \in EventQueues /\ Matches(n)
    /\ \A n, m \in Pending : n.target = m.target /\ n.payload = m.payload => n = m
    /\ \A q \in EventQueues : \A x \in entries[q] : Before(epoch, x.ready) => Noticed(q, x)

\* Proposals exist between the Work and the Xfer of their epoch only, and
\* whoever made one has its Xfer still to come.
Barrier ==
    /\ phase \in {"work", "commit"} => Due = {}
    /\ phase = "work" => proposed = {} /\ todo \subseteq xfer
    /\ phase = "commit" => \A n \in proposed : n.target \notin todo
    /\ \A q \in EventQueues : schedules[q] # <<>> \/ popCount[q] # 0 =>
          \/ phase = "work" /\ q \in xfer
          \/ phase = "commit" /\ q \in todo
    /\ \A p \in Users : plan[p] # "none" =>
          \/ phase = "work" /\ p \in xfer
          \/ phase = "commit" /\ p \in todo

\* A process that can run has its work ahead of it.
Awake ==
    \A p \in Users :
        /\ status[p] = "yield" => phase = "commit" /\ p \in sources
        /\ status[p] = "runnable" =>
              \/ \E w \in scheduledWork : w[2] = p
              \/ phase = "work" /\ p \in todo
              \/ plan[p] # "none"

\* A consumer that waits, or is about to, has nothing left to receive.
Waiting(c) == status[c] = "event" \/ plan[c] = "event"
WaitersInformed ==
    \A c \in Consumers : Waiting(c) =>
        \A x \in entries[QueueOf[c]] :
            \/ Before(epoch, x.ready)
            \/ Noticed(QueueOf[c], x)
            \/ x \in Popped(QueueOf[c])

RunSound ==
    /\ PopsReady /\ Announced /\ Barrier /\ Awake /\ WaitersInformed
    /\ code = ""

\* The codes these objects never end a run with.
CodesSound ==
    code \notin {"invalid_event_notification", "event_queue_capacity_exceeded",
                 "multiple_stateful_commits"}

TimedInv ==
    /\ Inv /\ QueuesSound /\ UsersSound /\ CodesSound /\ NothingStranded
    /\ Running => RunSound

-----------------------------------------------------------------------------
(* The order of the entries of a queue. *)

(* Ready epoch and sequence order any two entries. *)
LEMMA EntryOrder ==
    ASSUME NEW x \in Entry, NEW y \in Entry
    PROVE  /\ Earlier(x, y) \/ Earlier(y, x) \/ x.seq = y.seq
           /\ ~Earlier(x, x)
           /\ Earlier(x, y) => NotAfter(x.ready, y.ready)
<1>1. PICK a \in Nat, b \in Nat : x.ready = <<a, b>>
  BY DEF Entry, Epochs
<1>2. PICK c \in Nat, d \in Nat : y.ready = <<c, d>>
  BY DEF Entry, Epochs
<1>3. PICK m \in Nat, n \in Nat : x.seq = m /\ y.seq = n
  BY DEF Entry
<1> QED
  BY <1>1, <1>2, <1>3 DEF Earlier, Before, NotAfter

(* The order is transitive. *)
LEMMA EntryTransitive ==
    ASSUME NEW x \in Entry, NEW y \in Entry, NEW z \in Entry, Earlier(x, y), Earlier(y, z)
    PROVE  Earlier(x, z)
<1>1. PICK a \in Nat, b \in Nat : x.ready = <<a, b>>
  BY DEF Entry, Epochs
<1>2. PICK c \in Nat, d \in Nat : y.ready = <<c, d>>
  BY DEF Entry, Epochs
<1>3. PICK e \in Nat, f \in Nat : z.ready = <<e, f>>
  BY DEF Entry, Epochs
<1>4. PICK m \in Nat, n \in Nat, k \in Nat : x.seq = m /\ y.seq = n /\ z.seq = k
  BY DEF Entry
<1> QED
  BY <1>1, <1>2, <1>3, <1>4 DEF Earlier, Before

\* The entries ahead of one, and its place in the queue.
Ahead(S, x) == {y \in S : Earlier(y, x)}
Rank(S, x) == Cardinality(Ahead(S, x))

\* A finite set of entries with distinct sequences.
Ordered(S) == /\ S \in SUBSET Entry /\ IsFiniteSet(S)
              /\ \A x, y \in S : x.seq = y.seq => x = y

(* A place is below the number of entries. *)
LEMMA RankBounded ==
    ASSUME NEW S, Ordered(S), NEW x \in S
    PROVE  Rank(S, x) \in Nat /\ Rank(S, x) < Cardinality(S)
<1>1. Ahead(S, x) \in SUBSET S /\ x \notin Ahead(S, x)
  BY EntryOrder DEF Ahead, Ordered
<1>2. IsFiniteSet(S)
  BY DEF Ordered
<1>3. IsFiniteSet(Ahead(S, x)) /\ Cardinality(Ahead(S, x)) <= Cardinality(S)
      /\ Cardinality(S) # Cardinality(Ahead(S, x))
  BY <1>1, <1>2, FS_Subset
<1>4. Cardinality(Ahead(S, x)) \in Nat /\ Cardinality(S) \in Nat
  BY <1>2, <1>3, FS_CardinalityType
<1> QED
  BY <1>3, <1>4 DEF Rank

(* Places follow the order. *)
LEMMA RankMonotone ==
    ASSUME NEW S, Ordered(S), NEW x \in S, NEW y \in S, Earlier(x, y)
    PROVE  Rank(S, x) < Rank(S, y)
<1>1. Ahead(S, x) \in SUBSET Ahead(S, y)
  BY EntryTransitive DEF Ahead, Ordered
<1>2. x \in Ahead(S, y) /\ x \notin Ahead(S, x)
  BY EntryOrder DEF Ahead, Ordered
<1>3. IsFiniteSet(S) /\ Ahead(S, y) \in SUBSET S
  BY DEF Ordered, Ahead
<1>4. IsFiniteSet(Ahead(S, y))
  BY <1>3, FS_Subset
<1>5. IsFiniteSet(Ahead(S, x)) /\ Cardinality(Ahead(S, x)) <= Cardinality(Ahead(S, y))
      /\ Cardinality(Ahead(S, x)) # Cardinality(Ahead(S, y))
  BY <1>1, <1>2, <1>4, FS_Subset
<1>6. Cardinality(Ahead(S, x)) \in Nat /\ Cardinality(Ahead(S, y)) \in Nat
  BY <1>4, <1>5, FS_CardinalityType
<1> QED
  BY <1>5, <1>6 DEF Rank

(* An entry that is not behind another is not ready later. *)
LEMMA RankReady ==
    ASSUME NEW S, Ordered(S), NEW x \in S, NEW y \in S, Rank(S, y) <= Rank(S, x)
    PROVE  NotAfter(y.ready, x.ready)
<1>1. x \in Entry /\ y \in Entry
  BY DEF Ordered
<1>2. Rank(S, x) \in Nat /\ Rank(S, y) \in Nat
  BY RankBounded
<1>3. ~Earlier(x, y)
  BY <1>2, RankMonotone
<1>4. Earlier(y, x) \/ x = y
  BY <1>1, <1>3, EntryOrder DEF Ordered
<1> QED
  BY <1>1, <1>4, EntryOrder DEF NotAfter

(* Every place below the number of entries is taken. *)
LEMMA RankOnto ==
    ASSUME NEW S, Ordered(S), NEW k \in Nat, k < Cardinality(S)
    PROVE  \E x \in S : Rank(S, x) = k
<1> DEFINE T == 0..(Cardinality(S) - 1)
           f == [x \in S |-> Rank(S, x)]
<1>1. IsFiniteSet(S) /\ Cardinality(S) \in Nat
  BY FS_CardinalityType DEF Ordered
<1>2. PICK n \in Nat : n = Cardinality(S)
  BY <1>1
<1>3. IsFiniteSet(T) /\ Cardinality(T) = n /\ k \in T
  <2>1. T = 0..(n - 1) /\ 0 \in Int /\ n - 1 \in Int /\ k < n
    BY <1>2
  <2>2. k \in 0..(n - 1) /\ n > 0
    BY <2>1
  <2>3. /\ IsFiniteSet(0..(n - 1))
        /\ Cardinality(0..(n - 1)) = IF 0 > n - 1 THEN 0 ELSE (n - 1) - 0 + 1
    BY <2>1, FS_Interval
  <2>4. Cardinality(0..(n - 1)) = n
    BY <2>2, <2>3
  <2> QED
    BY <2>1, <2>2, <2>3, <2>4
<1>4. \A x \in S : Rank(S, x) \in T
  BY <1>1, RankBounded
<1>5. \A x, y \in S : Rank(S, x) = Rank(S, y) => x = y
  <2> SUFFICES ASSUME NEW x \in S, NEW y \in S, Rank(S, x) = Rank(S, y)
               PROVE  x = y
    OBVIOUS
  <2>1. Rank(S, x) \in Nat /\ Rank(S, y) \in Nat
    BY RankBounded
  <2>2. ~Earlier(x, y) /\ ~Earlier(y, x)
    BY <2>1, RankMonotone
  <2> QED
    BY <2>2, EntryOrder DEF Ordered
<1>6. f \in Injection(S, T)
  BY <1>4, <1>5 DEF Injection, IsInjective
<1>7. f \in Surjection(S, T)
  BY <1>1, <1>2, <1>3, <1>6, FS_Injection
<1> QED
  BY <1>3, <1>7 DEF Surjection

-----------------------------------------------------------------------------
(* The scheduler's queue has room for a notification of every entry. *)

(* A set of at most QueueCapacity numbers fits into that many cells. *)
LEMMA CellsForSlots ==
    ASSUME NEW S, IsFiniteSet(S), Cardinality(S) <= QueueCapacity
    PROVE  \E g \in [S -> 1..QueueCapacity] : \A a, b \in S : g[a] = g[b] => a = b
<1>1. PICK c \in Nat : c = Cardinality(S)
  BY FS_CardinalityType
<1>2. PICK f : f \in Bijection(1..c, S)
  BY <1>1, FS_CardinalityType DEF ExistsBijection
<1>3. \A s \in S : \E k \in 1..c : f[k] = s
  BY <1>2 DEF Bijection, Surjection
<1> DEFINE g == [s \in S |-> CHOOSE k \in 1..c : f[k] = s]
<1>4. \A s \in S : g[s] \in 1..c /\ f[g[s]] = s
  BY <1>3
<1>5. 1..c \subseteq 1..QueueCapacity
  BY <1>1, UsersAssumption
<1>6. g \in [S -> 1..QueueCapacity]
  BY <1>4, <1>5
<1> QED
  BY <1>4, <1>6

(* Notifications for different accepted entries are no more than the        *)
(* scheduler's queue holds.                                                 *)
LEMMA NotificationsFit ==
    ASSUME NEW N, NEW slots,
           \A n \in N : n.target \in EventQueues /\ n.payload \in slots[n.target],
           \A n, m \in N : n.target = m.target /\ n.payload = m.payload => n = m,
           \A q \in EventQueues : IsFiniteSet(slots[q]) /\ Cardinality(slots[q]) <= QueueCapacity
    PROVE  IsFiniteSet(N) /\ Cardinality(N) <= EventCapacity
<1> DEFINE Cell(q) == CHOOSE g \in [slots[q] -> 1..QueueCapacity] :
                         \A a, b \in slots[q] : g[a] = g[b] => a = b
           Cells == EventQueues \X (1..QueueCapacity)
           h == [n \in N |-> <<n.target, Cell(n.target)[n.payload]>>]
<1>1. \A q \in EventQueues :
         /\ Cell(q) \in [slots[q] -> 1..QueueCapacity]
         /\ \A a, b \in slots[q] : Cell(q)[a] = Cell(q)[b] => a = b
  BY CellsForSlots
<1> HIDE DEF Cell
<1>2. \A n \in N : h[n] \in Cells
  BY <1>1
<1>3. \A n, m \in N : h[n] = h[m] => n = m
  <2> SUFFICES ASSUME NEW n \in N, NEW m \in N, h[n] = h[m] PROVE n = m
    OBVIOUS
  <2>1. n.target = m.target /\ Cell(n.target)[n.payload] = Cell(m.target)[m.payload]
    OBVIOUS
  <2> QED
    BY <2>1, <1>1
<1>4. h \in Injection(N, Cells)
  <2>1. h \in [N -> Cells]
    BY <1>2
  <2> QED
    BY <2>1, <1>3 DEF Injection, IsInjective
<1>5. PICK c \in Nat : c = QueueCapacity
  BY UsersAssumption
<1>6. IsFiniteSet(1..QueueCapacity) /\ Cardinality(1..QueueCapacity) = QueueCapacity
  <2>1. IsFiniteSet(1..c) /\ Cardinality(1..c) = IF 1 > c THEN 0 ELSE c - 1 + 1
    BY FS_Interval
  <2> QED
    BY <2>1, <1>5
<1>7. IsFiniteSet(EventQueues)
  BY ObjectsAssumption, FS_Subset DEF EventQueues
<1>8. IsFiniteSet(Cells) /\ Cardinality(Cells) = Cardinality(EventQueues) * QueueCapacity
  BY <1>6, <1>7, FS_Product
<1>9. IsFiniteSet(N) /\ Cardinality(N) <= Cardinality(Cells)
  BY <1>4, <1>8, FS_Injection
<1>10. PICK e \in Nat : e = Cardinality(EventQueues)
  BY <1>7, FS_CardinalityType
<1>11. c * e <= EventCapacity /\ Cardinality(N) <= e * c
  BY <1>5, <1>8, <1>9, <1>10, NotificationRoom
<1>12. PICK n \in Nat : n = Cardinality(N)
  BY <1>9, FS_CardinalityType
<1>13. c * e = e * c /\ e * c \in Nat
  OBVIOUS
<1> HIDE DEF Cells, h
<1> QED
  BY <1>9, <1>11, <1>12, <1>13, LimitsAssumption

\* The sequences a queue has accepted.
Slots(q) == {x.seq : x \in entries[q]} \cup {schedules[q][i].seq : i \in DOMAIN schedules[q]}

(* A queue has accepted no more entries than its capacity. *)
LEMMA SlotsBounded ==
    ASSUME NEW q, QueueSound(entries[q], schedules[q], popCount[q], seqNext[q])
    PROVE  IsFiniteSet(Slots(q)) /\ Cardinality(Slots(q)) <= QueueCapacity
<1> DEFINE A == {x.seq : x \in entries[q]}
           B == {schedules[q][i].seq : i \in DOMAIN schedules[q]}
           f == [x \in entries[q] |-> x.seq]
           g == [i \in DOMAIN schedules[q] |-> schedules[q][i].seq]
<1>1. PICK c \in Nat, n \in Nat : c = Cardinality(entries[q]) /\ n = Len(schedules[q])
  BY FS_CardinalityType DEF QueueSound
<1>2. IsFiniteSet(entries[q]) /\ DOMAIN schedules[q] = 1..n /\ c + n <= QueueCapacity
  BY <1>1 DEF QueueSound
<1>3. IsFiniteSet(A) /\ Cardinality(A) <= c
  <2>1. f \in Surjection(entries[q], A)
    BY DEF Surjection
  <2> QED
    BY <2>1, <1>1, <1>2, FS_Surjection
<1>4. IsFiniteSet(1..n) /\ Cardinality(1..n) = n
  <2>1. IsFiniteSet(1..n) /\ Cardinality(1..n) = IF 1 > n THEN 0 ELSE n - 1 + 1
    BY FS_Interval
  <2> QED
    BY <2>1
<1>5. IsFiniteSet(B) /\ Cardinality(B) <= n
  <2>1. g \in Surjection(1..n, B)
    BY <1>2 DEF Surjection
  <2> QED
    BY <2>1, <1>4, FS_Surjection
<1> HIDE DEF A, B
<1>6. IsFiniteSet(A \cup B)
      /\ Cardinality(A \cup B) = Cardinality(A) + Cardinality(B) - Cardinality(A \cap B)
  BY <1>3, <1>5, FS_Union
<1>7. PICK a \in Nat, b \in Nat, d \in Nat :
         a = Cardinality(A) /\ b = Cardinality(B) /\ d = Cardinality(A \cap B)
  BY <1>3, <1>5, FS_Intersection, FS_CardinalityType
<1>8. Cardinality(A \cup B) <= QueueCapacity
  BY <1>2, <1>3, <1>5, <1>6, <1>7, UsersAssumption
<1>9. Slots(q) = A \cup B
  BY DEF Slots, A, B
<1> QED
  BY <1>6, <1>8, <1>9

(* A batch of requests becomes as many events. *)
LEMMA AcceptedCount ==
    ASSUME TypeOK, NEW reqs \in Seq(Request)
    PROVE  IsFiniteSet(Accepted(reqs)) /\ Cardinality(Accepted(reqs)) = Len(reqs)
<1> DEFINE made(i) == [ready |-> ReadyAt(reqs[i].delay), seq |-> nextSeq + i - 1,
                       target |-> reqs[i].target, payload |-> reqs[i].payload]
           f == [i \in 1..Len(reqs) |-> made(i)]
<1>1. PICK n \in Nat : n = Len(reqs) /\ DOMAIN reqs = 1..n
  OBVIOUS
<1>2. IsFiniteSet(1..n) /\ Cardinality(1..n) = n
  <2>1. IsFiniteSet(1..n) /\ Cardinality(1..n) = IF 1 > n THEN 0 ELSE n - 1 + 1
    BY FS_Interval
  <2> QED
    BY <2>1
<1>3. Accepted(reqs) = {made(i) : i \in 1..n}
  BY <1>1 DEF Accepted
<1>4. \A i, j \in 1..n : made(i) = made(j) => i = j
  <2> SUFFICES ASSUME NEW i \in 1..n, NEW j \in 1..n, made(i) = made(j) PROVE i = j
    OBVIOUS
  <2>1. nextSeq + i - 1 = nextSeq + j - 1
    OBVIOUS
  <2> QED
    BY <2>1 DEF TypeOK
<1> HIDE DEF made
<1>5. f \in [1..n -> Accepted(reqs)] /\ \A i \in 1..n : f[i] = made(i)
  BY <1>1, <1>3
<1>6. f \in Surjection(1..n, Accepted(reqs))
  BY <1>3, <1>5 DEF Surjection
<1>7. f \in Injection(1..n, Accepted(reqs))
  BY <1>4, <1>5 DEF Injection, IsInjective
<1> HIDE DEF f
<1>8. IsFiniteSet(Accepted(reqs)) /\ Cardinality(Accepted(reqs)) = Cardinality(1..n)
  BY <1>2, <1>6, <1>7, FS_Surjection
<1> QED
  BY <1>1, <1>2, <1>8

(* The notifications of a commit are requests of the scheduler. *)
LEMMA NotificationsTyped ==
    ASSUME QueuesSound, NEW q \in EventQueues
    PROVE  /\ Notifications(q) \in Seq(Request)
           /\ Len(Notifications(q)) = Len(schedules[q])
           /\ DOMAIN Notifications(q) = DOMAIN schedules[q]
           /\ \A i \in DOMAIN schedules[q] :
                 /\ schedules[q][i].delay \in Nat /\ schedules[q][i].seq \in Nat
                 /\ Notifications(q)[i] = [target |-> q, delay |-> schedules[q][i].delay,
                                           payload |-> schedules[q][i].seq]
<1>1. schedules[q] \in Seq(Ask)
  BY DEF QueuesSound
<1>2. PICK n \in Nat : n = Len(schedules[q]) /\ DOMAIN schedules[q] = 1..n
  BY <1>1
<1>3. q \in Objects
  BY DEF EventQueues
<1>4. \A i \in 1..n : schedules[q][i].delay \in Nat /\ schedules[q][i].seq \in Nat
  <2>1. \A i \in 1..n : schedules[q][i] \in Ask
    BY <1>1, <1>2
  <2>2. \A r \in Ask : r.delay \in Nat /\ r.seq \in Nat
    BY UsersAssumption DEF Ask
  <2> QED
    BY <2>1, <2>2
<1>5. Notifications(q) = [i \in 1..n |-> [target |-> q, delay |-> schedules[q][i].delay,
                                          payload |-> schedules[q][i].seq]]
  BY <1>2 DEF Notifications
<1>6. Notifications(q) \in [1..n -> Request]
  BY <1>3, <1>4, <1>5 DEF Request
<1>7. Notifications(q) \in Seq(Request) /\ Len(Notifications(q)) = n
  BY <1>6
<1> QED
  BY <1>2, <1>4, <1>5, <1>7

(* The events these notifications become. *)
LEMMA AcceptedNotifications ==
    ASSUME QueuesSound, NEW q \in EventQueues
    PROVE  Accepted(Notifications(q)) =
             {[ready |-> ReadyAt(schedules[q][i].delay), seq |-> nextSeq + i - 1,
               target |-> q, payload |-> schedules[q][i].seq] : i \in DOMAIN schedules[q]}
<1>1. \A i \in DOMAIN schedules[q] :
         /\ Notifications(q)[i].target = q
         /\ Notifications(q)[i].delay = schedules[q][i].delay
         /\ Notifications(q)[i].payload = schedules[q][i].seq
  BY DEF Notifications
<1>2. DOMAIN Notifications(q) = DOMAIN schedules[q]
  BY NotificationsTyped
<1> QED
  BY <1>1, <1>2 DEF Accepted

(* Adding up three disjoint finite sets. *)
LEMMA ThreeDisjoint ==
    ASSUME NEW A, NEW B, NEW C, IsFiniteSet(A), IsFiniteSet(B), IsFiniteSet(C),
           A \cap B = {}, (A \cup B) \cap C = {}
    PROVE  Cardinality(A \cup B \cup C) = Cardinality(A) + Cardinality(B) + Cardinality(C)
<1>1. IsFiniteSet(A \cup B)
      /\ Cardinality(A \cup B) = Cardinality(A) + Cardinality(B) - Cardinality({})
  BY FS_Union
<1>2. Cardinality((A \cup B) \cup C)
        = Cardinality(A \cup B) + Cardinality(C) - Cardinality({})
  BY <1>1, FS_Union
<1>3. PICK a \in Nat, b \in Nat, c \in Nat :
         a = Cardinality(A) /\ b = Cardinality(B) /\ c = Cardinality(C)
  BY FS_CardinalityType
<1>4. Cardinality({}) = 0
  BY FS_EmptySet
<1> QED
  BY <1>1, <1>2, <1>3, <1>4

(* The notifications of a commit name entries no other notification names. *)
LEMMA FreshNotifications ==
    ASSUME QueuesSound, Announced, NEW q \in EventQueues
    PROVE  LET new == Accepted(Notifications(q))
           IN  /\ \A n \in new : \E i \in DOMAIN schedules[q] :
                     /\ n.target = q /\ n.payload = schedules[q][i].seq
                     /\ n.ready = ReadyAt(schedules[q][i].delay)
               /\ \A n, m \in new : n.payload = m.payload => n = m
               /\ \A n \in Pending, m \in new : ~(n.target = m.target /\ n.payload = m.payload)
               /\ \A n, m \in Pending \cup new :
                     n.target = m.target /\ n.payload = m.payload => n = m
<1> DEFINE new == Accepted(Notifications(q))
<1>1. \A n \in new : \E i \in DOMAIN schedules[q] :
         /\ n.target = q /\ n.payload = schedules[q][i].seq
         /\ n.ready = ReadyAt(schedules[q][i].delay)
  BY AcceptedNotifications
<1>2. \A n \in Pending : \E x \in entries[n.target] : x.seq = n.payload
  BY DEF Announced, Matches
<1>4. Numbered(entries[q], schedules[q], seqNext[q])
  BY DEF QueuesSound, QueueSound
<1>5. \A n, m \in new : n.payload = m.payload => n = m
  <2> SUFFICES ASSUME NEW n \in new, NEW m \in new, n.payload = m.payload PROVE n = m
    OBVIOUS
  <2>1. PICK i \in DOMAIN schedules[q] :
           n = [ready |-> ReadyAt(schedules[q][i].delay), seq |-> nextSeq + i - 1,
                target |-> q, payload |-> schedules[q][i].seq]
    BY AcceptedNotifications
  <2>2. PICK j \in DOMAIN schedules[q] :
           m = [ready |-> ReadyAt(schedules[q][j].delay), seq |-> nextSeq + j - 1,
                target |-> q, payload |-> schedules[q][j].seq]
    BY AcceptedNotifications
  <2>3. i = j
    BY <2>1, <2>2, <1>4 DEF Numbered
  <2> QED
    BY <2>1, <2>2, <2>3
<1>6. \A n \in Pending, m \in new : ~(n.target = m.target /\ n.payload = m.payload)
  BY <1>1, <1>2, <1>4 DEF Numbered
<1>7. \A n, m \in Pending : n.target = m.target /\ n.payload = m.payload => n = m
  BY DEF Announced
<1> HIDE DEF new
<1>8. \A n, m \in Pending \cup new : n.target = m.target /\ n.payload = m.payload => n = m
  BY <1>5, <1>6, <1>7
<1> QED
  BY <1>1, <1>5, <1>6, <1>8 DEF new

(* The scheduler's queue has room for the notifications of a commit. *)
LEMMA CommitFits ==
    ASSUME TypeOK, SeqUnique, QueuesSound, Announced, NEW q \in EventQueues
    PROVE  Fits(Notifications(q)) /\ Fits(<<>>)
<1> DEFINE new == Accepted(Notifications(q))
           N == Pending \cup new
           slots == [r \in EventQueues |-> Slots(r)]
<1>1. \A n \in new : \E i \in DOMAIN schedules[q] : n.target = q /\ n.payload = schedules[q][i].seq
  BY FreshNotifications
<1>2. \A n \in Pending : \E x \in entries[n.target] : x.seq = n.payload
  BY DEF Announced, Matches
<1>3. \A n \in N : n.target \in EventQueues /\ n.payload \in slots[n.target]
  BY <1>1, <1>2 DEF Announced, Slots
<1>6. \A n \in Pending, m \in new : ~(n.target = m.target /\ n.payload = m.payload)
  BY FreshNotifications
<1>7. \A n, m \in N : n.target = m.target /\ n.payload = m.payload => n = m
  BY FreshNotifications
<1>8. \A r \in EventQueues : IsFiniteSet(slots[r]) /\ Cardinality(slots[r]) <= QueueCapacity
  BY SlotsBounded DEF QueuesSound
<1> HIDE DEF slots
<1>9. IsFiniteSet(N) /\ Cardinality(N) <= EventCapacity
  <2> HIDE DEF N
  <2> QED
    BY <1>3, <1>7, <1>8, NotificationsFit
<1>10. Notifications(q) \in Seq(Request)
  BY NotificationsTyped
<1>11. IsFiniteSet(new) /\ Cardinality(new) = Len(Notifications(q))
  BY <1>10, AcceptedCount
<1>12. IsFiniteSet(events) /\ IsFiniteSet(proposed) /\ events \cap proposed = {}
  BY DEF Announced
<1>13. (events \cup proposed) \cap new = {}
  BY <1>6 DEF Pending
<1>14. Cardinality(N) = Cardinality(events) + Cardinality(proposed) + Cardinality(new)
  BY <1>11, <1>12, <1>13, ThreeDisjoint DEF Pending
<1>15. PICK a \in Nat, b \in Nat, c \in Nat :
          a = Cardinality(events) /\ b = Cardinality(proposed) /\ c = Cardinality(new)
  BY <1>11, <1>12, FS_CardinalityType
<1>16. a + b + c <= EventCapacity
  BY <1>9, <1>14, <1>15
<1>17. a + b + 0 <= EventCapacity
  BY <1>16, LimitsAssumption
<1>18. Len(<<>>) = 0
  OBVIOUS
<1> QED
  BY <1>11, <1>15, <1>16, <1>17, <1>18 DEF Fits

-----------------------------------------------------------------------------
(* Every step with these objects is a step of the scheduler. *)

(* What a delivery finds: its event is due now and names an entry. *)
LEMMA DeliveryFinds ==
    ASSUME TimedInv, Running, Due # {}
    PROVE  /\ NextEvent \in events /\ NextEvent.ready = epoch
           /\ NextEvent.target \in EventQueues /\ Kind[NextEvent.target] = "EventQueue"
           /\ Matches(NextEvent)
<1>1. NextEvent \in events /\ NextEvent.ready = epoch
  BY NextEventDue DEF TimedInv, Inv, SchedulerInv
<1>2. NextEvent \in Pending
  BY <1>1 DEF Pending
<1>3. NextEvent.target \in EventQueues /\ Matches(NextEvent)
  BY <1>2 DEF TimedInv, RunSound, Announced
<1> QED
  BY <1>1, <1>3 DEF EventQueues

(* The users of a queue are objects. *)
LEMMA UsersAreObjects ==
    /\ \A p \in Users : /\ p \in Objects /\ Kind[p] = "Process" /\ p \notin EventQueues
                        /\ QueueOf[p] \in EventQueues /\ Activation[p] = {p}
    /\ \A q \in EventQueues : q \in Objects /\ Kind[q] = "EventQueue"
    /\ Producers \subseteq Users /\ Consumers \subseteq Users
BY UsersAssumption, EdgesAssumption DEF Users, EventQueues

\* The batches of requests these objects issue, and the moves they make.
Issued == {<<>>} \cup {Notifications(q) : q \in EventQueues}
Moves ==
    \/ Next
    \/ \E id \in todo, parts \in SUBSET Objects : Work(id, parts, <<>>)
    \/ \E id \in todo, will \in BOOLEAN, reqs \in Issued : Commit(id, will, reqs, FALSE)

(* A step of the model is a move of the scheduler, or leaves it alone. *)
LEMMA StepsAreMoves ==
    ASSUME TimedInv, [TimedNext]_timedVars
    PROVE  [Moves]_kernelVars
<1>0. "ok" \in TraceStates
  BY DEF TraceStates
<1>1. ASSUME Begin("ok") PROVE Moves
  BY <1>0, <1>1 DEF Moves, Next, Step
<1>2. ASSUME DeliverNotification PROVE Moves
  <2> DEFINE woken == {c \in Activation[NextEvent.target] : Accepts(c, NextEvent.target)}
  <2>1. Deliver(Matches(NextEvent), woken)
    BY <1>2 DEF DeliverNotification
  <2>2. Running /\ Due # {}
    BY <2>1 DEF Deliver
  <2>3. /\ NextEvent \in events /\ NextEvent.target \in EventQueues
        /\ Kind[NextEvent.target] = "EventQueue" /\ Matches(NextEvent)
    BY <2>2, DeliveryFinds
  <2>4. woken \in SUBSET Objects /\ woken \subseteq Activation[NextEvent.target]
    BY <2>3, ObjectsAssumption DEF EventQueues
  <2>5. Matches(NextEvent) \in BOOLEAN
    BY DEF Matches
  <2> HIDE DEF woken
  <2> QED
    BY <2>1, <2>3, <2>4, <2>5 DEF Moves, Next, Step
<1>3. ASSUME OpenWork PROVE Moves
  BY <1>3 DEF Moves, Next, Step
<1>4. ASSUME NEW p \in todo, NEW parts \in SUBSET Objects, Work(p, parts, <<>>)
      PROVE  Moves
  BY <1>4 DEF Moves
<1>5. ASSUME NEW p \in todo \cap Users, IdleWork(p) PROVE Moves
  BY <1>4, <1>5 DEF IdleWork
<1>6. ASSUME NEW p \in todo \cap Producers, EndProducer(p) PROVE Moves
  BY <1>4, <1>6 DEF EndProducer
<1>7. ASSUME NEW p \in todo \cap Producers, NEW delay \in Delays, Produce(p, delay)
      PROVE  Moves
  <2>1. {QueueOf[p]} \in SUBSET Objects
    BY UsersAreObjects
  <2> QED
    BY <1>4, <1>7, <2>1 DEF Produce
<1>8. ASSUME NEW p \in todo \cap Consumers, Consume(p) PROVE Moves
  <2>1. {QueueOf[p]} \in SUBSET Objects
    BY UsersAreObjects
  <2> QED
    BY <1>4, <1>8, <2>1 DEF Consume
<1>9. ASSUME Arbitrate(TRUE) PROVE Moves
  BY <1>9 DEF Moves, Next, Step
<1>10. ASSUME NEW p \in todo \cap Users, CommitProcess(p) PROVE Moves
  <2>1. (plan[p] # "none") \in BOOLEAN
    OBVIOUS
  <2> QED
    BY <1>10, <2>1 DEF CommitProcess, Moves, Issued
<1>11. ASSUME NEW q \in todo \cap EventQueues, CommitQueue(q) PROVE Moves
  <2>1. (popCount[q] # 0 \/ schedules[q] # <<>>) \in BOOLEAN
    OBVIOUS
  <2>2. Notifications(q) \in Issued
    BY DEF Issued
  <2> QED
    BY <1>11, <2>1, <2>2 DEF CommitQueue, Moves
<1>12. ASSUME CloseBarrier PROVE Moves
  <2> DEFINE woken == {p \in Users \cap sources : Accepts(p, p)}
  <2>1. woken \in SUBSET UNION {Activation[x] : x \in sources}
    BY UsersAreObjects
  <2>2. EndXfer({}, woken)
    BY <1>12 DEF CloseBarrier
  <2> HIDE DEF woken
  <2> QED
    BY <2>1, <2>2 DEF Moves, Next, Step
<1>13. ASSUME Advance(Blocked, "ok") PROVE Moves
  <2>1. Blocked \in BOOLEAN
    BY DEF Blocked
  <2> QED
    BY <1>0, <1>13, <2>1 DEF Moves, Next, Step
<1>14. ASSUME TimedReset PROVE Moves
  BY <1>14 DEF TimedReset, Moves, Next
<1>15. ASSUME UNCHANGED timedVars PROVE UNCHANGED kernelVars
  BY <1>15 DEF timedVars
<1> QED
  BY <1>1, <1>2, <1>3, <1>5, <1>6, <1>7, <1>8, <1>9, <1>10, <1>11, <1>12, <1>13, <1>14,
     <1>15 DEF TimedNext

(* So is it when an object may issue any sequence of requests. *)
LEMMA FollowsKernel ==
    ASSUME TimedInv, [TimedNext]_timedVars
    PROVE  [OpenNext]_kernelVars
<1>1. \A reqs \in Issued : reqs \in Seq(Request)
  <2>1. \A q \in EventQueues : Notifications(q) \in Seq(Request)
    BY NotificationsTyped DEF TimedInv
  <2>2. \A reqs \in Issued : reqs = <<>> \/ \E q \in EventQueues : reqs = Notifications(q)
    BY DEF Issued
  <2>3. <<>> \in Seq(Request)
    OBVIOUS
  <2> QED
    BY <2>1, <2>2, <2>3
<1>2. <<>> \in Seq(Request)
  OBVIOUS
<1> QED
  BY <1>1, <1>2, StepsAreMoves DEF Moves, OpenNext

-----------------------------------------------------------------------------
(* Every action keeps the invariant. *)

ObjectsSound == QueuesSound /\ UsersSound
TimedRest == ObjectsSound /\ CodesSound /\ NothingStranded /\ (Running => RunSound)

(* What a stopped run has to satisfy. *)
LEMMA StoppedRest ==
    ASSUME ObjectsSound', ~Running', CodesSound', NothingStranded'
    PROVE  TimedRest'
BY DEF TimedRest

(* A step that leaves the objects alone keeps what is said of them. *)
LEMMA ObjectsStay ==
    ASSUME TimedInv, UNCHANGED objectVars
    PROVE  /\ ObjectsSound'
           /\ \A q \in EventQueues : Popped(q)' = Popped(q)
           /\ \A n : Matches(n)' = Matches(n)
           /\ \A c \in Consumers : Waiting(c)' = Waiting(c)
BY DEF TimedInv, objectVars, ObjectsSound, QueuesSound, UsersSound, Popped, Matches, Waiting

(* A step that leaves entries, pops, events and the clock alone keeps the      *)
(* notifications matched.                                                  *)
LEMMA AnnouncedStays ==
    ASSUME PopsReady, Announced, UNCHANGED <<epoch, events, proposed, entries, popCount>>
    PROVE  PopsReady' /\ Announced'
<1>1. PopsReady'
  BY DEF PopsReady, Popped
<1>2. Pending' = Pending
  BY DEF Pending
<1>3. \A n : Matches(n)' = Matches(n)
  BY DEF Matches
<1>4. \A q, x : Noticed(q, x)' = Noticed(q, x)
  BY <1>2 DEF Noticed
<1>5. Announced'
  BY <1>2, <1>3, <1>4 DEF Announced
<1> QED
  BY <1>1, <1>5

(* Beginning an epoch. *)
LEMMA BeginRest ==
    ASSUME TimedInv, Begin("ok"), UNCHANGED objectVars
    PROVE  TimedRest'
<1>1. /\ Running /\ phase = "begin" /\ ObjectsSound'
      /\ UNCHANGED <<epoch, scheduledWork, events, proposed, todo, xfer, sources>>
      /\ UNCHANGED <<entries, schedules, popCount, seqNext, status, plan>>
  BY ObjectsStay DEF Begin, agenda, loop, objectVars
<1>2. \/ Running' /\ phase' = "deliver" /\ code' = code
      \/ /\ ~Running'
         /\ code' \in {"max_ticks_reached", "max_domain_cycles_reached", "max_events_reached"}
  BY <1>1 DEF Begin, Stop, GoOn, ending, Running
<1>3. RunSound
  BY <1>1 DEF TimedInv
<1>4. ASSUME Running' PROVE RunSound'
  <2>1. PopsReady' /\ Announced'
    BY <1>1, <1>3, AnnouncedStays DEF RunSound
  <2>2. Barrier' /\ Awake'
    BY <1>1, <1>2, <1>3, <1>4 DEF RunSound, Barrier, Awake
  <2>3. WaitersInformed'
    BY <1>1, <1>3 DEF RunSound, WaitersInformed, Waiting, Popped, Pending, Noticed
  <2> QED
    BY <1>2, <1>3, <1>4, <2>1, <2>2, <2>3 DEF RunSound
<1>5. CodesSound' /\ NothingStranded'
  BY <1>2, <1>3 DEF CodesSound, NothingStranded, RunSound
<1> QED
  BY <1>1, <1>4, <1>5 DEF TimedRest

(* Taking the Work snapshot. *)
LEMMA OpenWorkRest ==
    ASSUME TimedInv, OpenWork, UNCHANGED objectVars
    PROVE  TimedRest'
<1>1. /\ Running /\ Running' /\ phase = "deliver" /\ phase' = "work" /\ code' = code
      /\ Due = {} /\ ObjectsSound'
      /\ UNCHANGED <<epoch, events, proposed>>
      /\ UNCHANGED <<entries, schedules, popCount, seqNext, status, plan>>
      /\ xfer' = todo'
      /\ todo' = {w[2] : w \in {v \in scheduledWork : v[1] = epoch}}
      /\ scheduledWork' = scheduledWork \ {v \in scheduledWork : v[1] = epoch}
  BY ObjectsStay DEF OpenWork, objectVars, ending, Running
<1>2. RunSound /\ proposed = {}
  BY <1>1 DEF TimedInv, Inv, SchedulerInv, BarrierClosed
<1>3. PopsReady' /\ Announced'
  BY <1>1, <1>2, AnnouncedStays DEF RunSound
<1>4. Barrier'
  <2>1. Due' = {}
    BY <1>1 DEF Due
  <2> QED
    BY <1>1, <1>2, <2>1 DEF RunSound, Barrier
<1>5. Awake'
  <2>1. \A w \in scheduledWork : w \in scheduledWork' \/ w[2] \in todo'
    BY <1>1
  <2> QED
    BY <1>1, <1>2, <2>1 DEF RunSound, Awake
<1>6. WaitersInformed'
  BY <1>1, <1>2 DEF RunSound, WaitersInformed, Waiting, Popped, Pending, Noticed
<1>7. CodesSound' /\ NothingStranded'
  BY <1>1, <1>2 DEF CodesSound, NothingStranded, RunSound
<1> QED
  BY <1>1, <1>2, <1>3, <1>4, <1>5, <1>6, <1>7 DEF TimedRest, RunSound

(* The arbitration and validation loops pass. *)
LEMMA ArbitrateRest ==
    ASSUME TimedInv, Arbitrate(TRUE), UNCHANGED objectVars
    PROVE  TimedRest'
<1>1. /\ Running /\ Running' /\ phase = "work" /\ phase' = "commit" /\ code' = code
      /\ ObjectsSound' /\ todo = {} /\ todo' = xfer
      /\ UNCHANGED <<epoch, events, proposed, scheduledWork, xfer, sources>>
      /\ UNCHANGED <<entries, schedules, popCount, seqNext, status, plan>>
  BY ObjectsStay DEF Arbitrate, objectVars, ending, Running, GoOn, agenda
<1>2. RunSound
  BY <1>1 DEF TimedInv
<1>3. PopsReady' /\ Announced'
  BY <1>1, <1>2, AnnouncedStays DEF RunSound
<1>4. Barrier'
  <2>1. Due' = Due
    BY <1>1 DEF Due
  <2> QED
    BY <1>1, <1>2, <2>1 DEF RunSound, Barrier
<1>5. Awake'
  BY <1>1, <1>2 DEF RunSound, Awake
<1>6. WaitersInformed'
  BY <1>1, <1>2 DEF RunSound, WaitersInformed, Waiting, Popped, Pending, Noticed
<1>7. CodesSound' /\ NothingStranded'
  BY <1>1, <1>2 DEF CodesSound, NothingStranded, RunSound
<1> QED
  BY <1>1, <1>2, <1>3, <1>4, <1>5, <1>6, <1>7 DEF TimedRest, RunSound

(* Outside Work and Xfer nothing is proposed. *)
LEMMA NothingProposed ==
    ASSUME TimedInv, Running, phase \notin {"work", "commit"}
    PROVE  /\ \A q \in EventQueues : popCount[q] = 0 /\ schedules[q] = <<>> /\ Popped(q) = {}
           /\ \A p \in Users : plan[p] = "none" /\ status[p] # "yield"
           /\ proposed = {} /\ Pending = events
<1>1. RunSound /\ QueuesSound
  BY DEF TimedInv
<1>2. \A q \in EventQueues : popCount[q] = 0 /\ schedules[q] = <<>>
  BY <1>1 DEF RunSound, Barrier
<1>3. \A p \in Users : plan[p] = "none" /\ status[p] # "yield"
  BY <1>1 DEF RunSound, Barrier, Awake
<1>4. ASSUME NEW q \in EventQueues PROVE Popped(q) = {}
  <2>1. Ordered(entries[q])
    BY <1>1 DEF QueuesSound, QueueSound, Numbered, Ordered
  <2>2. \A x \in entries[q] : Rank(entries[q], x) \in Nat
    BY <2>1, RankBounded
  <2>3. \A x \in entries[q] : ~(Rank(entries[q], x) < popCount[q])
    BY <2>2, <1>2
  <2> QED
    BY <2>3 DEF Popped, Rank, Ahead
<1>5. proposed = {}
  BY DEF TimedInv, Inv, SchedulerInv, BarrierClosed
<1> QED
  BY <1>2, <1>3, <1>4, <1>5 DEF Pending

(* A run with nothing pending has no entry a consumer could still receive. *)
LEMMA NothingLeft ==
    ASSUME TimedInv, Running, phase = "causal", PendingEpochs = {}, NEW c \in Consumers
    PROVE  entries[QueueOf[c]] = {}
<1>1. scheduledWork = {} /\ Pending = {} /\ Popped(QueueOf[c]) = {} /\ plan[c] = "none"
      /\ status[c] # "yield"
  <2>1. c \in Users /\ QueueOf[c] \in EventQueues
    BY UsersAreObjects
  <2>2. scheduledWork = {} /\ events = {}
    BY DEF PendingEpochs
  <2>3. /\ \A q \in EventQueues : Popped(q) = {}
        /\ \A p \in Users : plan[p] = "none" /\ status[p] # "yield"
        /\ Pending = events
    BY NothingProposed
  <2> QED
    BY <2>1, <2>2, <2>3
<1>2. RunSound /\ UsersSound /\ QueueOf[c] \in EventQueues
  BY UsersAreObjects DEF TimedInv
<1>3. status[c] # "runnable" /\ status[c] # "terminated" /\ status[c] \in Statuses
  BY <1>1, <1>2, UsersAreObjects DEF RunSound, Awake, UsersSound
<1>4. Waiting(c)
  BY <1>1, <1>3 DEF Waiting, Statuses
<1>5. \A x \in entries[QueueOf[c]] : Before(epoch, x.ready)
  BY <1>1, <1>2, <1>4 DEF RunSound, WaitersInformed, Noticed
<1> QED
  BY <1>1, <1>2, <1>5 DEF RunSound, Announced, Noticed

(* Jumping to the next epoch, or ending the run. *)
LEMMA AdvanceRest ==
    ASSUME TimedInv, Advance(Blocked, "ok"), UNCHANGED objectVars
    PROVE  TimedRest'
<1>1. /\ Running /\ phase = "causal" /\ ObjectsSound'
      /\ UNCHANGED <<scheduledWork, events, proposed, todo, xfer, sources>>
      /\ UNCHANGED <<entries, schedules, popCount, seqNext, status, plan>>
  BY ObjectsStay DEF Advance, agenda, loop, objectVars
<1>2. RunSound
  BY <1>1 DEF TimedInv
<1>3. \/ Running' /\ phase' = "begin" /\ code' = code /\ epoch' = NextEpoch
         /\ PendingEpochs # {} /\ ~NotAfter(NextEpoch, epoch)
      \/ /\ ~Running'
         /\ code' \in {"", "max_ticks_reached", "deadlock_window_reached",
                       "non_monotonic_epoch"}
      \/ ~Running' /\ code' = "no_progress" /\ PendingEpochs = {}
  BY <1>1 DEF Advance, Finish, StopHere, StopAt, Stop, GoOn, ending, Running
<1>4. CodesSound' /\ NothingStranded'
  <2>1. code' = "no_progress" => PendingEpochs = {}
    BY <1>2, <1>3 DEF RunSound
  <2>2. NothingStranded'
    BY <1>1, <2>1, NothingLeft DEF NothingStranded
  <2> QED
    BY <1>2, <1>3, <2>2 DEF CodesSound, RunSound
<1>5. ASSUME Running' PROVE RunSound'
  <2>1. /\ phase' = "begin" /\ code' = code /\ epoch' = NextEpoch
        /\ epoch \in Epochs /\ epoch' \in Epochs /\ Before(epoch, epoch')
    <3>1. NextEpoch \in Epochs /\ epoch \in Epochs
      BY <1>3, <1>5, NextEpochEarliest DEF TimedInv, Inv, TypeOK
    <3> QED
      BY <1>3, <1>5, <3>1, EpochOrder
  <2>2. /\ \A q \in EventQueues : popCount[q] = 0 /\ schedules[q] = <<>> /\ Popped(q) = {}
        /\ \A p \in Users : plan[p] = "none" /\ status[p] # "yield"
    BY <1>1, NothingProposed
  <2>3. \A q \in EventQueues : Popped(q)' = {}
    BY <1>1, <2>2 DEF Popped
  <2>4. PopsReady'
    BY <2>3 DEF PopsReady
  <2>5. \A q \in EventQueues : \A x \in entries[q] : Before(epoch', x.ready) => Before(epoch, x.ready)
    <3>1. \A q \in EventQueues : \A x \in entries[q] : x.ready \in Epochs
      BY DEF TimedInv, QueuesSound, Entry
    <3> QED
      BY <2>1, <3>1, EpochTransitive DEF NotAfter
  <2>6. Announced'
    BY <1>1, <1>2, <2>5 DEF RunSound, Announced, Matches, Pending, Noticed
  <2>7. Barrier' /\ Awake'
    BY <1>1, <1>2, <2>1, <2>2 DEF RunSound, Barrier, Awake
  <2>8. \A q \in EventQueues : \A x \in entries[q] : Before(epoch, x.ready) => Noticed(q, x)
    BY <1>2 DEF RunSound, Announced
  <2>9. \A c \in Consumers : Waiting(c) => \A x \in entries[QueueOf[c]] : Noticed(QueueOf[c], x)
    BY <1>2, <2>2, <2>8, UsersAreObjects DEF RunSound, WaitersInformed
  <2>10. WaitersInformed'
    BY <1>1, <2>9 DEF WaitersInformed, Waiting, Pending, Noticed
  <2> QED
    BY <1>2, <2>1, <2>4, <2>6, <2>7, <2>10 DEF RunSound
<1> QED
  BY <1>1, <1>4, <1>5 DEF TimedRest

(* The start of a run. *)
LEMMA StartRest == TimedInit => TimedRest
<1> SUFFICES ASSUME TimedInit PROVE TimedRest
  OBVIOUS
<1>1. \A q \in EventQueues : /\ entries[q] = {} /\ schedules[q] = <<>>
                             /\ popCount[q] = 0 /\ seqNext[q] = 0
  BY DEF TimedInit
<1>2. QueueSound({}, <<>>, 0, 0)
  <2>1. IsFiniteSet({}) /\ Cardinality({}) = 0 /\ Len(<<>>) = 0 /\ <<>> \in Seq(Ask)
    BY FS_EmptySet
  <2>2. DOMAIN <<>> = {}
    OBVIOUS
  <2>3. Numbered({}, <<>>, 0)
    BY <2>2 DEF Numbered
  <2> QED
    BY <2>1, <2>3, UsersAssumption DEF QueueSound
<1>3. QueuesSound
  BY <1>1, <1>2 DEF QueuesSound, TimedInit
<1>4. UsersSound
  BY UsersAreObjects DEF UsersSound, TimedInit, Statuses, Plans
<1>5. CodesSound /\ NothingStranded
  BY DEF CodesSound, NothingStranded, TimedInit, Init
<1>6. /\ events = {} /\ proposed = {} /\ Pending = {} /\ phase = "begin" /\ code = ""
      /\ scheduledWork = StartSet
  BY DEF TimedInit, Init, Pending
<1>7. PopsReady /\ Announced /\ WaitersInformed
  BY <1>1, <1>6, UsersAreObjects, FS_EmptySet DEF PopsReady, Popped, Announced, WaitersInformed
<1>8. Barrier
  BY <1>1, <1>6 DEF Barrier, TimedInit
<1>9. Awake
  <2>1. \A p \in Users : <<<<0, 0>>, p>> \in scheduledWork
    BY <1>6, UsersAreObjects DEF StartSet
  <2>2. \A p \in Users : status[p] = "runnable"
    BY DEF TimedInit
  <2> QED
    BY <2>1, <2>2 DEF Awake
<1> QED
  BY <1>3, <1>4, <1>5, <1>6, <1>7, <1>8, <1>9 DEF TimedRest, ObjectsSound, RunSound

(* reset() brings scheduler and objects back to the start of a run. *)
LEMMA ResetRest == TimedReset => TimedRest'
<1>1. TimedReset => TimedInit'
  BY DEF TimedReset, TimedInit, Reset, Init, StartSet
<1> QED
  BY <1>1, StartRest, PTL

(* Delivering a notification: the event that leaves belongs to an entry that *)
(* is ready now, and every consumer that waits for it is woken.              *)
LEMMA DeliverRest ==
    ASSUME TimedInv, DeliverNotification
    PROVE  TimedRest'
<1> DEFINE q == NextEvent.target
           woken == {c \in Activation[q] : Accepts(c, q)}
<1>1. /\ Running /\ phase \in {"deliver", "causal"} /\ Due # {}
      /\ Deliver(Matches(NextEvent), woken)
      /\ UNCHANGED <<epoch, phase, todo, xfer, sources>>
      /\ UNCHANGED <<entries, schedules, popCount, seqNext, plan>>
  BY DEF DeliverNotification, Deliver, loop
<1>2. RunSound /\ QueuesSound /\ UsersSound
  BY <1>1 DEF TimedInv
<1>3. /\ NextEvent \in events /\ NextEvent.ready = epoch
      /\ q \in EventQueues /\ Kind[q] = "EventQueue" /\ Matches(NextEvent)
  BY <1>1, DeliveryFinds
<1>4. woken \subseteq Consumers /\ \A c \in Consumers : QueueOf[c] = q /\ Accepts(c, q) => c \in woken
  BY <1>3, EdgesAssumption
<1>5. Woken(NextEvent, woken) = woken
  BY <1>3 DEF Woken
<1>6. status' = IF eventCount >= MaxEvents \/ ~Matches(NextEvent) THEN status
                ELSE IF WorkError(woken, epoch) # "" THEN Wake({Min(woken)})
                ELSE Wake(woken)
  BY DEF DeliverNotification
<1>7. status' = status \/ \E S : status' = Wake(S)
  BY <1>6
<1>8. ObjectsSound'
  <2>1. status' \in [Users -> Statuses] /\ \A c \in Consumers : status'[c] # "terminated"
    BY <1>2, <1>7, UsersAreObjects DEF UsersSound, Wake, Statuses
  <2> QED
    BY <1>1, <1>2, <2>1 DEF ObjectsSound, QueuesSound, UsersSound
<1> HIDE DEF woken
<1>9. ~Before(epoch, epoch)
  <2>1. PICK t \in Nat, d \in Nat : epoch = <<t, d>>
    BY DEF TimedInv, Inv, TypeOK, Epochs
  <2> QED
    BY <2>1 DEF Before
<1>10. \/ /\ ~Running' /\ code' \in {"max_events_reached", "max_deltas_exceeded",
                                    "work_before_current_epoch"}
       \/ /\ Running' /\ code' = code /\ status' = Wake(woken)
          /\ events' = events \ {NextEvent} /\ UNCHANGED proposed
          /\ scheduledWork' = scheduledWork \cup WorkAt(woken, epoch)
  <2>1. WorkError(woken, epoch) \in {"", "max_deltas_exceeded", "work_before_current_epoch"}
    BY DEF WorkError
  <2>2. CASE eventCount >= MaxEvents
    BY <1>1, <1>3, <1>9, <2>2 DEF Deliver, Stop, Running
  <2>3. CASE ~(eventCount >= MaxEvents) /\ WorkError(woken, epoch) # ""
    BY <1>1, <1>3, <1>5, <1>9, <2>1, <2>3 DEF Deliver, Stop, Running
  <2>4. CASE ~(eventCount >= MaxEvents) /\ WorkError(woken, epoch) = ""
    BY <1>1, <1>3, <1>5, <1>6, <1>9, <2>4 DEF Deliver, GoOn, ending, Running
  <2> QED
    BY <2>2, <2>3, <2>4
<1>11. CodesSound' /\ NothingStranded'
  BY <1>2, <1>10 DEF CodesSound, NothingStranded, RunSound
<1>12. ASSUME Running' PROVE RunSound'
  <2>1. /\ code' = code /\ status' = Wake(woken)
        /\ events' = events \ {NextEvent} /\ UNCHANGED proposed
        /\ scheduledWork' = scheduledWork \cup WorkAt(woken, epoch)
    BY <1>10, <1>12
  <2>2. /\ \A r \in EventQueues : popCount[r] = 0 /\ schedules[r] = <<>> /\ Popped(r) = {}
        /\ \A p \in Users : plan[p] = "none" /\ status[p] # "yield"
        /\ proposed = {} /\ Pending = events
    BY <1>1, NothingProposed
  <2>3. Pending' = events \ {NextEvent}
    BY <2>1, <2>2 DEF Pending
  <2>4. PopsReady'
    BY <1>1, <1>2 DEF RunSound, PopsReady, Popped
  <2>5. \A r \in EventQueues : \A x \in entries[r] : Before(epoch, x.ready) => Noticed(r, x)'
    <3> SUFFICES ASSUME NEW r \in EventQueues, NEW x \in entries[r], Before(epoch, x.ready)
                 PROVE  \E n \in Pending' : n.target = r /\ n.payload = x.seq
      BY DEF Noticed
    <3>1. PICK n \in Pending : n.target = r /\ n.payload = x.seq
      BY <1>2 DEF RunSound, Announced, Noticed
    <3>2. n # NextEvent
      <4> SUFFICES ASSUME n = NextEvent PROVE FALSE
        OBVIOUS
      <4>1. PICK y \in entries[r] : y.seq = x.seq /\ y.ready = epoch
        BY <1>3, <3>1 DEF Matches
      <4>2. y = x
        BY <1>2, <4>1 DEF QueuesSound, QueueSound, Numbered
      <4> QED
        BY <1>9, <4>1, <4>2
    <3> QED
      BY <2>2, <2>3, <3>1, <3>2
  <2>6. Announced'
    <3>1. IsFiniteSet(events') /\ events' \cap proposed' = {} /\ IsFiniteSet(proposed')
      BY <1>2, <2>1, FS_Subset DEF RunSound, Announced
    <3>2. \A n : Matches(n)' = Matches(n)
      BY <1>1 DEF Matches
    <3>3. Pending' \subseteq Pending
      BY <2>2, <2>3
    <3> QED
      BY <1>1, <1>2, <2>5, <3>1, <3>2, <3>3 DEF RunSound, Announced
  <2>7. Barrier'
    BY <1>1, <1>2 DEF RunSound, Barrier
  <2>8. Awake'
    <3> SUFFICES ASSUME NEW p \in Users
                 PROVE  /\ status'[p] # "yield"
                        /\ status'[p] = "runnable" => \E w \in scheduledWork' : w[2] = p
      BY DEF Awake
    <3>1. status'[p] = IF p \in woken THEN "runnable" ELSE status[p]
      BY <2>1 DEF Wake
    <3>2. CASE p \in woken
      <4>1. <<WorkEpoch(epoch), p>> \in scheduledWork'
        BY <2>1, <3>2 DEF WorkAt
      <4> QED
        BY <3>1, <3>2, <4>1
    <3>3. CASE p \notin woken
      <4>1. status[p] = "runnable" => \E w \in scheduledWork : w[2] = p
        BY <1>1, <1>2, <2>2 DEF RunSound, Awake
      <4> QED
        BY <2>1, <2>2, <3>1, <3>3, <4>1
    <3> QED
      BY <3>2, <3>3
  <2>9. WaitersInformed'
    <3> SUFFICES ASSUME NEW c \in Consumers, Waiting(c)', NEW x \in entries[QueueOf[c]]
                 PROVE  Before(epoch, x.ready) \/ Noticed(QueueOf[c], x)'
      BY <1>1 DEF WaitersInformed
    <3>1. c \in Users /\ QueueOf[c] \in EventQueues
      BY UsersAreObjects
    <3>2. status[c] = "event" /\ c \notin woken
      BY <1>1, <2>1, <2>2, <3>1 DEF Waiting, Wake
    <3>3. QueueOf[c] # q
      BY <1>4, <3>2 DEF Accepts
    <3>4. Before(epoch, x.ready) \/ Noticed(QueueOf[c], x)
      BY <1>2, <2>2, <3>1, <3>2 DEF RunSound, WaitersInformed, Waiting
    <3> QED
      BY <2>2, <2>3, <3>3, <3>4 DEF Noticed
  <2> QED
    BY <1>2, <2>1, <2>4, <2>6, <2>7, <2>8, <2>9 DEF RunSound
<1> QED
  BY <1>8, <1>11, <1>12 DEF TimedRest

(* A process asks the scheduler for no event in its Work. *)
LEMMA WorkEffect ==
    ASSUME TimedInv, NEW p \in Users, NEW parts, Work(p, parts, <<>>)
    PROVE  /\ Running /\ Running' /\ phase = "work" /\ code' = code
           /\ todo' = todo \ {p} /\ xfer' = xfer \cup parts
           /\ UNCHANGED <<epoch, phase, sources, scheduledWork, events, proposed>>
<1>1. Running /\ phase = "work"
  BY DEF Work
<1>2. Fits(<<>>)
  <2>1. QueueOf[p] \in EventQueues
    BY UsersAreObjects
  <2> QED
    BY <1>1, <2>1, CommitFits DEF TimedInv, Inv, SchedulerInv, RunSound
<1>3. ScheduleEvents(<<>>) /\ GoOn
  BY <1>2 DEF Work
<1>4. Accepted(<<>>) = {}
  BY DEF Accepted
<1>5. proposed' = proposed
  BY <1>3, <1>4 DEF ScheduleEvents
<1>6. Running' /\ code' = code
  BY <1>1, <1>3 DEF GoOn, ending, Running
<1> QED
  BY <1>1, <1>5, <1>6 DEF Work

(* What a process may do to the objects in its Work. *)
LEMMA WorkRest ==
    ASSUME TimedInv, NEW p \in todo \cap Users, NEW parts, Work(p, parts, <<>>),
           ObjectsSound', UNCHANGED <<entries, status>>,
           \A r \in EventQueues :
              schedules'[r] # schedules[r] \/ popCount'[r] # popCount[r] => r \in parts,
           \A o \in Users \ {p} : plan'[o] = plan[o],
           status[p] = "runnable" => plan'[p] # "none",
           plan'[p] # "none" \/ plan'[p] = plan[p],
           PopsReady', \A r \in EventQueues : Popped(r) \subseteq Popped(r)',
           Waiting(p)' => \/ Waiting(p)
                          \/ \A x \in entries[QueueOf[p]] :
                                Before(epoch, x.ready) \/ x \in Popped(QueueOf[p])'
    PROVE  TimedRest'
<1>1. /\ Running /\ Running' /\ phase = "work" /\ code' = code
      /\ todo' = todo \ {p} /\ xfer' = xfer \cup parts
      /\ UNCHANGED <<epoch, phase, sources, scheduledWork, events, proposed>>
  BY WorkEffect
<1>2. RunSound
  BY <1>1 DEF TimedInv
<1>3. Pending' = Pending /\ \A n : Matches(n)' = Matches(n)
  BY <1>1 DEF Pending, Matches
<1>4. \A r, x : Noticed(r, x)' = Noticed(r, x)
  BY <1>3 DEF Noticed
<1>5. Announced'
  BY <1>1, <1>2, <1>3, <1>4 DEF RunSound, Announced
<1>6. Barrier'
  <2>1. Due' = Due /\ Due = {} /\ proposed = {} /\ todo \subseteq xfer
    BY <1>1, <1>2 DEF Due, RunSound, Barrier
  <2>2. \A r \in EventQueues : schedules'[r] # <<>> \/ popCount'[r] # 0 => r \in xfer'
    BY <1>1, <1>2 DEF RunSound, Barrier
  <2>3. \A o \in Users : plan'[o] # "none" => o \in xfer'
    <3>1. p \in xfer'
      BY <1>1, <2>1
    <3>2. \A o \in Users \ {p} : plan[o] # "none" => o \in xfer
      BY <1>1, <1>2 DEF RunSound, Barrier
    <3> QED
      BY <1>1, <3>1, <3>2
  <2> QED
    BY <1>1, <2>1, <2>2, <2>3 DEF Barrier
<1>7. Awake'
  <2> SUFFICES ASSUME NEW o \in Users
               PROVE  /\ status'[o] # "yield"
                      /\ status'[o] = "runnable" => \/ \E w \in scheduledWork : w[2] = o
                                                    \/ o \in todo'
                                                    \/ plan'[o] # "none"
    BY <1>1 DEF Awake
  <2>1. /\ status[o] # "yield"
        /\ status[o] = "runnable" => \/ \E w \in scheduledWork : w[2] = o
                                     \/ o \in todo
                                     \/ plan[o] # "none"
    BY <1>1, <1>2 DEF RunSound, Awake
  <2>2. CASE o = p
    BY <2>1, <2>2
  <2>3. CASE o # p
    BY <1>1, <2>1, <2>3
  <2> QED
    BY <2>2, <2>3
<1>8. WaitersInformed'
  <2> SUFFICES ASSUME NEW c \in Consumers, Waiting(c)', NEW x \in entries[QueueOf[c]]
               PROVE  \/ Before(epoch, x.ready) \/ Noticed(QueueOf[c], x)
                      \/ x \in Popped(QueueOf[c])'
    BY <1>1, <1>4 DEF WaitersInformed
  <2>1. c \in Users /\ QueueOf[c] \in EventQueues
    BY UsersAreObjects
  <2>2. CASE Waiting(c)
    BY <1>2, <2>1, <2>2 DEF RunSound, WaitersInformed
  <2>3. CASE c = p
    BY <2>2, <2>3
  <2>4. c # p => Waiting(c)
    BY <2>1 DEF Waiting
  <2> QED
    BY <2>2, <2>3, <2>4
<1>9. CodesSound' /\ NothingStranded'
  BY <1>1, <1>2 DEF CodesSound, NothingStranded, RunSound
<1> QED
  BY <1>1, <1>2, <1>5, <1>6, <1>7, <1>8, <1>9 DEF TimedRest, RunSound

(* A process that is scheduled without being runnable. *)
LEMMA IdleRest ==
    ASSUME TimedInv, NEW p \in todo \cap Users, IdleWork(p)
    PROVE  TimedRest'
<1>1. status[p] # "runnable" /\ Work(p, {}, <<>>) /\ UNCHANGED objectVars
  BY DEF IdleWork
<1>2. UNCHANGED <<entries, schedules, popCount, seqNext, status, plan>> /\ ObjectsSound'
  BY <1>1, ObjectsStay DEF objectVars
<1>3. Running /\ epoch' = epoch
  BY <1>1, WorkEffect
<1>4. \A r \in EventQueues : Popped(r)' = Popped(r)
  BY <1>2 DEF Popped
<1>5. PopsReady'
  BY <1>2, <1>3, <1>4 DEF TimedInv, RunSound, PopsReady
<1>6. Waiting(p)' = Waiting(p)
  BY <1>2 DEF Waiting
<1> QED
  BY <1>1, <1>2, <1>4, <1>5, <1>6, WorkRest

(* A producer that ends. *)
LEMMA EndRest ==
    ASSUME TimedInv, NEW p \in todo \cap Producers, EndProducer(p)
    PROVE  TimedRest'
<1>1. /\ status[p] = "runnable" /\ Work(p, {}, <<>>)
      /\ plan' = [plan EXCEPT ![p] = "terminated"]
      /\ UNCHANGED <<entries, schedules, popCount, seqNext, status>>
  BY DEF EndProducer
<1>2. p \in todo \cap Users /\ p \notin Consumers
  BY UsersAreObjects, UsersAssumption
<1>3. QueuesSound /\ UsersSound
  BY DEF TimedInv
<1>4. plan'[p] = "terminated" /\ \A o \in Users \ {p} : plan'[o] = plan[o]
  BY <1>1, <1>2, <1>3 DEF UsersSound
<1>5. ObjectsSound'
  <2>1. plan' \in [Users -> Plans]
    BY <1>1, <1>3 DEF UsersSound, Plans
  <2> QED
    BY <1>1, <1>2, <1>3, <1>4, <2>1, UsersAreObjects DEF ObjectsSound, QueuesSound, UsersSound
<1>6. Running /\ epoch' = epoch
  BY <1>1, <1>2, WorkEffect
<1>7. \A r \in EventQueues : Popped(r)' = Popped(r)
  BY <1>1 DEF Popped
<1>8. PopsReady'
  BY <1>1, <1>6, <1>7 DEF TimedInv, RunSound, PopsReady
<1>9. ~Waiting(p)'
  BY <1>1, <1>4 DEF Waiting
<1> QED
  BY <1>1, <1>2, <1>4, <1>5, <1>7, <1>8, <1>9, WorkRest

(* Asking a queue with room for one more entry. *)
LEMMA QueueAsks ==
    ASSUME NEW stored, NEW asked, NEW pops, NEW next, QueueSound(stored, asked, pops, next),
           NEW delay \in Delays, Cardinality(stored) + Len(asked) < QueueCapacity
    PROVE  QueueSound(stored, Append(asked, [delay |-> delay, seq |-> next]), pops, next + 1)
<1> DEFINE more == Append(asked, [delay |-> delay, seq |-> next])
<1>1. PICK n \in Nat, c \in Nat, k \in Nat :
         n = Len(asked) /\ c = Cardinality(stored) /\ k = next
  BY FS_CardinalityType DEF QueueSound
<1>2. asked \in Seq(Ask) /\ [delay |-> delay, seq |-> next] \in Ask
  BY <1>1 DEF QueueSound, Ask
<1>3. more \in Seq(Ask) /\ Len(more) = n + 1
  BY <1>1, <1>2
<1>4. \A i \in DOMAIN more : \/ i \in DOMAIN asked /\ more[i] = asked[i]
                             \/ i = n + 1 /\ more[i].seq = next /\ i \notin DOMAIN asked
  BY <1>1, <1>2
<1> HIDE DEF more
<1>5. \A x \in stored : x.seq \in Nat /\ x.seq < k
  BY <1>1 DEF QueueSound, Numbered, Entry
<1>6. \A i \in DOMAIN asked : asked[i].seq \in Nat /\ asked[i].seq < k
  <2>1. \A i \in DOMAIN asked : asked[i] \in Ask
    BY <1>2
  <2> QED
    BY <1>1, <2>1 DEF QueueSound, Numbered, Ask
<1>7. Numbered(stored, more, next + 1)
  <2>1. \A x \in stored : x.seq < next + 1
    BY <1>1, <1>5
  <2>2. \A x, y \in stored : x.seq = y.seq => x = y
    BY DEF QueueSound, Numbered
  <2>3. \A i \in DOMAIN more : more[i].seq < next + 1
    BY <1>1, <1>4, <1>6
  <2>4. \A i \in DOMAIN more : \A x \in stored : x.seq # more[i].seq
    <3>1. \A i \in DOMAIN asked : \A x \in stored : x.seq # asked[i].seq
      BY DEF QueueSound, Numbered
    <3>2. \A x \in stored : x.seq # next
      BY <1>1, <1>5
    <3> QED
      BY <1>4, <3>1, <3>2
  <2>5. \A i, j \in DOMAIN more : more[i].seq = more[j].seq => i = j
    <3>1. \A i, j \in DOMAIN asked : asked[i].seq = asked[j].seq => i = j
      BY DEF QueueSound, Numbered
    <3>2. \A i \in DOMAIN asked : asked[i].seq # next
      BY <1>1, <1>6
    <3> QED
      BY <1>4, <3>1, <3>2
  <2> QED
    BY <2>1, <2>2, <2>3, <2>4, <2>5 DEF Numbered
<1>8. Cardinality(stored) + Len(more) <= QueueCapacity
  BY <1>1, <1>3, UsersAssumption
<1>9. next + 1 \in Nat
  BY <1>1
<1>10. stored \in SUBSET Entry /\ IsFiniteSet(stored) /\ pops \in Nat /\ pops <= Cardinality(stored)
  BY DEF QueueSound
<1>11. QueueSound(stored, more, pops, next + 1)
  BY <1>3, <1>7, <1>8, <1>9, <1>10 DEF QueueSound
<1> QED
  BY <1>11 DEF more

(* Proposing one more pop of a queue that has the entry. *)
LEMMA QueuePops ==
    ASSUME NEW stored, NEW asked, NEW pops, NEW next, QueueSound(stored, asked, pops, next),
           pops < Cardinality(stored)
    PROVE  QueueSound(stored, asked, pops + 1, next)
<1>1. PICK c \in Nat, k \in Nat : c = Cardinality(stored) /\ k = pops
  BY FS_CardinalityType DEF QueueSound
<1>2. pops + 1 \in Nat /\ pops + 1 <= Cardinality(stored)
  BY <1>1
<1> QED
  BY <1>2 DEF QueueSound

(* A producer schedules an event and yields; without room it only yields. *)
LEMMA ProduceRest ==
    ASSUME TimedInv, NEW p \in todo \cap Producers, NEW delay \in Delays, Produce(p, delay)
    PROVE  TimedRest'
<1> DEFINE q == QueueOf[p]
<1>1. /\ status[p] = "runnable"
      /\ plan' = [plan EXCEPT ![p] = "yield"]
      /\ UNCHANGED <<entries, popCount, status>>
      /\ \/ /\ HasRoom(q) /\ Work(p, {q}, <<>>)
            /\ schedules' = [schedules EXCEPT
                               ![q] = Append(@, [delay |-> delay, seq |-> seqNext[q]])]
            /\ seqNext' = [seqNext EXCEPT ![q] = @ + 1]
         \/ Work(p, {}, <<>>) /\ UNCHANGED <<schedules, seqNext>>
  BY DEF Produce
<1>2. p \in todo \cap Users /\ p \notin Consumers /\ q \in EventQueues
  BY UsersAreObjects, UsersAssumption
<1>3. QueuesSound /\ UsersSound
  BY DEF TimedInv
<1>4. plan'[p] = "yield" /\ \A o \in Users \ {p} : plan'[o] = plan[o]
  BY <1>1, <1>2, <1>3 DEF UsersSound
<1>5. UsersSound'
  <2>1. plan' \in [Users -> Plans]
    BY <1>1, <1>3 DEF UsersSound, Plans
  <2> QED
    BY <1>1, <1>2, <1>3, <1>4, <2>1, UsersAreObjects DEF UsersSound
<1>6. Running /\ epoch' = epoch
  BY <1>1, <1>2, WorkEffect
<1>7. \A r \in EventQueues : Popped(r)' = Popped(r)
  BY <1>1 DEF Popped
<1>8. PopsReady'
  BY <1>1, <1>6, <1>7 DEF TimedInv, RunSound, PopsReady
<1>9. ~Waiting(p)'
  BY <1>1, <1>4 DEF Waiting
<1>10. CASE Work(p, {}, <<>>) /\ UNCHANGED <<schedules, seqNext>>
  <2>1. ObjectsSound'
    BY <1>1, <1>3, <1>5, <1>10 DEF ObjectsSound, QueuesSound
  <2> QED
    BY <1>1, <1>2, <1>4, <1>7, <1>8, <1>9, <1>10, <2>1, WorkRest
<1>11. CASE /\ HasRoom(q) /\ Work(p, {q}, <<>>)
            /\ schedules' = [schedules EXCEPT
                               ![q] = Append(@, [delay |-> delay, seq |-> seqNext[q]])]
            /\ seqNext' = [seqNext EXCEPT ![q] = @ + 1]
  <2> DEFINE more == Append(schedules[q], [delay |-> delay, seq |-> seqNext[q]])
  <2>1. QueueSound(entries[q], schedules[q], popCount[q], seqNext[q])
    BY <1>2, <1>3 DEF QueuesSound
  <2>2. Cardinality(entries[q]) + Len(schedules[q]) < QueueCapacity
    BY <1>11 DEF HasRoom
  <2>3. QueueSound(entries[q], more, popCount[q], seqNext[q] + 1)
    BY <2>1, <2>2, QueueAsks
  <2>4. more \in Seq(Ask) /\ seqNext[q] + 1 \in Nat
    BY <2>3 DEF QueueSound
  <2> HIDE DEF more
  <2>5. schedules' = [schedules EXCEPT ![q] = more]
    BY <1>11 DEF more
  <2>6. /\ schedules'[q] = more /\ seqNext'[q] = seqNext[q] + 1
        /\ \A r \in EventQueues \ {q} : schedules'[r] = schedules[r] /\ seqNext'[r] = seqNext[r]
        /\ schedules' \in [EventQueues -> Seq(Ask)] /\ seqNext' \in [EventQueues -> Nat]
    BY <1>2, <1>3, <1>11, <2>4, <2>5 DEF QueuesSound
  <2>7. \A r \in EventQueues : QueueSound(entries[r], schedules'[r], popCount[r], seqNext'[r])
    BY <1>3, <2>3, <2>6 DEF QueuesSound
  <2>8. ObjectsSound'
    BY <1>1, <1>3, <1>5, <2>6, <2>7 DEF ObjectsSound, QueuesSound
  <2>9. \A r \in EventQueues :
           schedules'[r] # schedules[r] \/ popCount'[r] # popCount[r] => r \in {q}
    BY <1>1, <2>6
  <2> QED
    BY <1>1, <1>2, <1>4, <1>7, <1>8, <1>9, <1>11, <2>8, <2>9, WorkRest
<1> QED
  BY <1>1, <1>10, <1>11

(* A consumer receives an entry that is ready and yields, or waits because   *)
(* every entry that is ready is already popped.                              *)
LEMMA ConsumeRest ==
    ASSUME TimedInv, NEW p \in todo \cap Consumers, Consume(p)
    PROVE  TimedRest'
<1> DEFINE q == QueueOf[p]
           S == entries[q]
<1>1. /\ status[p] = "runnable"
      /\ UNCHANGED <<entries, schedules, seqNext, status>>
      /\ \/ /\ Receivable(q) # {} /\ Work(p, {q}, <<>>)
            /\ popCount' = [popCount EXCEPT ![q] = @ + 1]
            /\ plan' = [plan EXCEPT ![p] = "yield"]
         \/ /\ Receivable(q) = {} /\ Work(p, {}, <<>>)
            /\ plan' = [plan EXCEPT ![p] = "event"]
            /\ UNCHANGED popCount
  BY DEF Consume
<1>2. p \in todo \cap Users /\ q \in EventQueues
  BY UsersAreObjects
<1>3. QueuesSound /\ UsersSound /\ QueueSound(S, schedules[q], popCount[q], seqNext[q])
  BY <1>2 DEF TimedInv, QueuesSound
<1>4. plan'[p] \in {"yield", "event"} /\ \A o \in Users \ {p} : plan'[o] = plan[o]
  BY <1>1, <1>2, <1>3 DEF UsersSound
<1>5. UsersSound'
  <2>1. plan' \in [Users -> Plans]
    BY <1>1, <1>3 DEF UsersSound, Plans
  <2> QED
    BY <1>1, <1>2, <1>3, <1>4, <2>1, UsersAreObjects DEF UsersSound
<1>6. Running /\ epoch' = epoch /\ RunSound /\ epoch \in Epochs
  BY <1>1, <1>2, WorkEffect DEF TimedInv, Inv, TypeOK
<1>7. Ordered(S) /\ \A x \in S : x.ready \in Epochs
  BY <1>3 DEF QueueSound, Numbered, Ordered, Entry
<1>8. \A x \in S : Rank(S, x) \in Nat /\ Rank(S, x) < Cardinality(S)
  BY <1>7, RankBounded
<1>9. /\ Receivable(q) = {x \in S : Rank(S, x) = popCount[q] /\ NotAfter(x.ready, epoch)}
      /\ Popped(q) = {x \in S : Rank(S, x) < popCount[q]}
      /\ Popped(q)' = {x \in S : Rank(S, x) < popCount'[q]}
  BY <1>1 DEF Receivable, Nth, Popped, Rank, Ahead
<1>10. popCount[q] \in Nat /\ Cardinality(S) \in Nat /\ popCount[q] <= Cardinality(S)
  BY <1>3, FS_CardinalityType DEF QueueSound
<1> HIDE DEF S
<1>11. CASE /\ Receivable(q) # {} /\ Work(p, {q}, <<>>)
            /\ popCount' = [popCount EXCEPT ![q] = @ + 1]
            /\ plan' = [plan EXCEPT ![p] = "yield"]
  <2>1. PICK x \in S : Rank(S, x) = popCount[q] /\ NotAfter(x.ready, epoch)
    BY <1>9, <1>11
  <2>2. popCount[q] < Cardinality(S)
    BY <1>8, <2>1
  <2>3. QueueSound(S, schedules[q], popCount[q] + 1, seqNext[q])
    BY <1>3, <2>2, QueuePops
  <2>4. /\ popCount'[q] = popCount[q] + 1 /\ popCount' \in [EventQueues -> Nat]
        /\ \A r \in EventQueues \ {q} : popCount'[r] = popCount[r]
    BY <1>2, <1>3, <1>10, <1>11 DEF QueuesSound
  <2>5. \A r \in EventQueues : QueueSound(entries[r], schedules[r], popCount'[r], seqNext[r])
    BY <1>3, <2>3, <2>4 DEF QueuesSound, S
  <2>6. ObjectsSound'
    BY <1>1, <1>3, <1>5, <2>4, <2>5 DEF ObjectsSound, QueuesSound
  <2>7. \A r \in EventQueues \ {q} : Popped(r)' = Popped(r)
    BY <1>1, <2>4 DEF Popped
  <2>8. \A r \in EventQueues : Popped(r) \subseteq Popped(r)'
    <3>1. Popped(q) \subseteq Popped(q)'
      BY <1>8, <1>9, <1>10, <2>4
    <3> QED
      BY <2>7, <3>1
  <2>9. \A y \in Popped(q)' : NotAfter(y.ready, epoch)
    <3> SUFFICES ASSUME NEW y \in S, Rank(S, y) < popCount[q] + 1
                 PROVE  NotAfter(y.ready, epoch)
      BY <1>9, <2>4
    <3>1. Rank(S, y) <= Rank(S, x)
      BY <1>8, <1>10, <2>1
    <3>2. NotAfter(y.ready, x.ready)
      BY <1>7, <3>1, RankReady
    <3> QED
      BY <1>6, <1>7, <2>1, <3>2, EpochTransitive
  <2>10. PopsReady'
    BY <1>6, <2>7, <2>9 DEF RunSound, PopsReady
  <2>11. ~Waiting(p)'
    BY <1>1, <1>2, <1>3, <1>11 DEF Waiting, UsersSound
  <2>12. \A r \in EventQueues :
           schedules'[r] # schedules[r] \/ popCount'[r] # popCount[r] => r \in {q}
    BY <1>1, <2>4
  <2> QED
    BY <1>1, <1>2, <1>4, <1>11, <2>6, <2>8, <2>10, <2>11, <2>12, WorkRest
<1>12. CASE /\ Receivable(q) = {} /\ Work(p, {}, <<>>)
            /\ plan' = [plan EXCEPT ![p] = "event"]
            /\ UNCHANGED popCount
  <2>1. ObjectsSound'
    BY <1>1, <1>3, <1>5, <1>12 DEF ObjectsSound, QueuesSound
  <2>2. \A r \in EventQueues : Popped(r)' = Popped(r)
    BY <1>1, <1>12 DEF Popped
  <2>3. PopsReady'
    BY <1>1, <1>6, <2>2 DEF RunSound, PopsReady
  <2>4. \A x \in S : Before(epoch, x.ready) \/ x \in Popped(q)'
    <3> SUFFICES ASSUME NEW x \in S, ~Before(epoch, x.ready)
                 PROVE  Rank(S, x) < popCount[q]
      BY <1>9, <1>12
    <3>1. NotAfter(x.ready, epoch)
      BY <1>6, <1>7, EpochOrder
    <3> SUFFICES ASSUME popCount[q] <= Rank(S, x) PROVE FALSE
      BY <1>8, <1>10
    <3>2. popCount[q] < Cardinality(S)
      BY <1>8, <1>10
    <3>3. PICK y \in S : Rank(S, y) = popCount[q]
      BY <1>7, <1>10, <3>2, RankOnto
    <3>4. NotAfter(y.ready, x.ready)
      BY <1>7, <3>3, RankReady
    <3>5. NotAfter(y.ready, epoch)
      BY <1>6, <1>7, <3>1, <3>4, EpochTransitive
    <3> QED
      BY <1>9, <1>12, <3>3, <3>5
  <2>5. \A x \in entries[QueueOf[p]] : Before(epoch, x.ready) \/ x \in Popped(QueueOf[p])'
    BY <2>4 DEF S
  <2> QED
    BY <1>1, <1>2, <1>4, <1>12, <2>1, <2>2, <2>3, <2>5, WorkRest
<1> QED
  BY <1>1, <1>11, <1>12

(* The commit of a process or of a queue goes through. *)
LEMMA CommitEffect ==
    ASSUME TimedInv, NEW o \in Objects, Kind[o] \in {"EventQueue", "Process"},
           NEW will, NEW reqs, Fits(reqs), Commit(o, will, reqs, FALSE)
    PROVE  /\ Running /\ Running' /\ phase = "commit" /\ code' = code
           /\ todo' = todo \ {o}
           /\ sources' = IF will /\ Kind[o] # "EventQueue" THEN sources \cup {o} ELSE sources
           /\ proposed' = proposed \cup Accepted(reqs)
           /\ UNCHANGED <<epoch, phase, xfer, scheduledWork, events>>
<1>1. Running /\ phase = "commit" /\ ~(will /\ SecondCommit(o))
  BY DEF Commit, SecondCommit
<1>2. ScheduleEvents(reqs) /\ GoOn
  BY <1>1 DEF Commit
<1>3. Running' /\ code' = code
  BY <1>1, <1>2 DEF GoOn, ending, Running
<1> QED
  BY <1>1, <1>2, <1>3 DEF Commit, ScheduleEvents

(* A process takes on what its Work proposed. *)
LEMMA CommitProcessRest ==
    ASSUME TimedInv, NEW p \in todo \cap Users, CommitProcess(p)
    PROVE  TimedRest'
<1>1. /\ Commit(p, plan[p] # "none", <<>>, FALSE)
      /\ status' = [status EXCEPT ![p] = IF plan[p] = "none" THEN @ ELSE plan[p]]
      /\ plan' = [plan EXCEPT ![p] = "none"]
      /\ UNCHANGED <<entries, schedules, popCount, seqNext>>
  BY DEF CommitProcess
<1>2. /\ p \in Objects /\ Kind[p] = "Process" /\ p \notin EventQueues
      /\ QueueOf[p] \in EventQueues
  BY UsersAreObjects
<1>3. Running /\ RunSound /\ QueuesSound /\ UsersSound
  BY <1>1 DEF Commit, TimedInv
<1>4. Fits(<<>>)
  BY <1>2, <1>3, CommitFits DEF TimedInv, Inv, SchedulerInv, RunSound
<1>5. Accepted(<<>>) = {}
  BY DEF Accepted
<1>6. /\ Running' /\ phase = "commit" /\ code' = code /\ todo' = todo \ {p}
      /\ sources' = IF plan[p] # "none" THEN sources \cup {p} ELSE sources
      /\ UNCHANGED <<epoch, phase, xfer, scheduledWork, events, proposed>>
  <2> DEFINE will == plan[p] # "none"
  <2>1. Commit(p, will, <<>>, FALSE)
    BY <1>1
  <2> HIDE DEF will
  <2>2. /\ Running' /\ phase = "commit" /\ code' = code /\ todo' = todo \ {p}
        /\ sources' = IF will THEN sources \cup {p} ELSE sources
        /\ UNCHANGED <<epoch, phase, xfer, scheduledWork, events, proposed>>
    BY <1>2, <1>4, <1>5, <2>1, CommitEffect
  <2> QED
    BY <2>2 DEF will
<1>7. /\ status'[p] = (IF plan[p] = "none" THEN status[p] ELSE plan[p]) /\ plan'[p] = "none"
      /\ \A o \in Users \ {p} : status'[o] = status[o] /\ plan'[o] = plan[o]
  BY <1>1, <1>3 DEF UsersSound
<1>8. ObjectsSound'
  <2>1. status' \in [Users -> Statuses] /\ plan' \in [Users -> Plans]
    BY <1>1, <1>3 DEF UsersSound, Statuses, Plans
  <2>2. \A c \in Consumers : status'[c] # "terminated" /\ plan'[c] # "terminated"
    BY <1>3, <1>7, UsersAreObjects DEF UsersSound
  <2> QED
    BY <1>1, <1>3, <2>1, <2>2 DEF ObjectsSound, QueuesSound, UsersSound
<1>9. \A r \in EventQueues : Popped(r)' = Popped(r)
  BY <1>1 DEF Popped
<1>10. Pending' = Pending /\ \A n : Matches(n)' = Matches(n)
  BY <1>1, <1>6 DEF Pending, Matches
<1>11. \A r, x : Noticed(r, x)' = Noticed(r, x)
  BY <1>10 DEF Noticed
<1>12. PopsReady' /\ Announced'
  BY <1>1, <1>3, <1>6, <1>9, <1>10, <1>11 DEF RunSound, PopsReady, Announced
<1>13. Barrier'
  <2>1. Due' = Due /\ Due = {}
    BY <1>3, <1>6 DEF Due, RunSound, Barrier
  <2>2. \A r \in EventQueues : schedules[r] # <<>> \/ popCount[r] # 0 => r \in todo'
    BY <1>2, <1>3, <1>6 DEF RunSound, Barrier
  <2>3. \A o \in Users : plan'[o] # "none" => o \in todo'
    BY <1>3, <1>6, <1>7 DEF RunSound, Barrier
  <2>4. \A n \in proposed : n.target \notin todo'
    BY <1>3, <1>6 DEF RunSound, Barrier
  <2> QED
    BY <1>1, <1>6, <2>1, <2>2, <2>3, <2>4 DEF Barrier
<1>14. Awake'
  <2> SUFFICES ASSUME NEW o \in Users
               PROVE  /\ status'[o] = "yield" => o \in sources'
                      /\ status'[o] = "runnable" => \/ \E w \in scheduledWork : w[2] = o
                                                    \/ plan'[o] # "none"
    BY <1>6 DEF Awake
  <2>1. /\ status[o] = "yield" => o \in sources
        /\ status[o] = "runnable" => \/ \E w \in scheduledWork : w[2] = o
                                     \/ plan[o] # "none"
    BY <1>3, <1>6 DEF RunSound, Awake
  <2>2. CASE o = p
    <3>1. plan[p] \in Plans
      BY <1>3 DEF UsersSound
    <3> QED
      BY <1>6, <1>7, <2>1, <2>2, <3>1 DEF Plans
  <2>3. CASE o # p
    BY <1>6, <1>7, <2>1, <2>3
  <2> QED
    BY <2>2, <2>3
<1>15. WaitersInformed'
  <2> SUFFICES ASSUME NEW c \in Consumers, Waiting(c)', NEW x \in entries[QueueOf[c]]
               PROVE  \/ Before(epoch, x.ready) \/ Noticed(QueueOf[c], x)
                      \/ x \in Popped(QueueOf[c])
    BY <1>1, <1>6, <1>9, <1>11, UsersAreObjects DEF WaitersInformed
  <2>1. Waiting(c)
    BY <1>7, UsersAreObjects DEF Waiting
  <2> QED
    BY <1>3, <2>1 DEF RunSound, WaitersInformed
<1>16. CodesSound' /\ NothingStranded'
  BY <1>3, <1>6 DEF CodesSound, NothingStranded, RunSound
<1> QED
  BY <1>3, <1>6, <1>8, <1>12, <1>13, <1>14, <1>15, <1>16 DEF TimedRest, RunSound

(* The end of the barrier publishes the notifications and wakes whoever      *)
(* yielded for the next tick.                                                *)
LEMMA CloseRest ==
    ASSUME TimedInv, CloseBarrier
    PROVE  TimedRest'
<1> DEFINE woken == {p \in Users \cap sources : Accepts(p, p)}
<1>1. /\ EndXfer({}, woken) /\ status' = Wake(woken)
      /\ UNCHANGED <<entries, schedules, popCount, seqNext, plan>>
  BY DEF CloseBarrier
<1>2. woken \subseteq Users /\ \A p \in Users : p \in sources /\ status[p] = "yield" => p \in woken
  BY DEF Accepts
<1> HIDE DEF woken
<1>3. /\ Running /\ phase = "commit" /\ todo = {} /\ Running' /\ phase' = "causal"
      /\ events' = events \cup proposed /\ proposed' = {}
      /\ scheduledWork' = scheduledWork \cup WorkAt(woken, NextTick)
      /\ UNCHANGED <<epoch, todo, xfer, sources>> /\ code' = code
  BY <1>1 DEF EndXfer, GoOn, ending, Running, loop
<1>4. RunSound /\ QueuesSound /\ UsersSound
  BY <1>3 DEF TimedInv
<1>5. \A p \in Users : status'[p] = IF p \in woken THEN "runnable" ELSE status[p]
  BY <1>1 DEF Wake
<1>6. ObjectsSound'
  <2>1. status' \in [Users -> Statuses]
    BY <1>1, <1>4 DEF Wake, UsersSound, Statuses
  <2>2. \A c \in Consumers : status'[c] # "terminated"
    BY <1>4, <1>5, UsersAreObjects DEF UsersSound
  <2> QED
    BY <1>1, <1>4, <2>1, <2>2 DEF ObjectsSound, QueuesSound, UsersSound
<1>7. Pending' = Pending /\ \A n : Matches(n)' = Matches(n)
  BY <1>1, <1>3 DEF Pending, Matches
<1>8. \A r, x : Noticed(r, x)' = Noticed(r, x)
  BY <1>7 DEF Noticed
<1>9. \A r \in EventQueues : Popped(r)' = Popped(r)
  BY <1>1 DEF Popped
<1>10. PopsReady' /\ Announced'
  <2>1. IsFiniteSet(events') /\ IsFiniteSet(proposed') /\ events' \cap proposed' = {}
    BY <1>3, <1>4, FS_Union, FS_EmptySet DEF RunSound, Announced
  <2> QED
    BY <1>1, <1>3, <1>4, <1>7, <1>8, <1>9, <2>1 DEF RunSound, PopsReady, Announced
<1>11. /\ \A r \in EventQueues : schedules[r] = <<>> /\ popCount[r] = 0
       /\ \A p \in Users : plan[p] = "none"
  BY <1>3, <1>4 DEF RunSound, Barrier
<1>12. Barrier'
  BY <1>1, <1>3, <1>11 DEF Barrier
<1>13. Awake'
  <2> SUFFICES ASSUME NEW p \in Users
               PROVE  /\ status'[p] # "yield"
                      /\ status'[p] = "runnable" => \E w \in scheduledWork' : w[2] = p
    BY DEF Awake
  <2>1. /\ status[p] = "yield" => p \in sources
        /\ status[p] = "runnable" => \E w \in scheduledWork : w[2] = p
    BY <1>3, <1>4, <1>11 DEF RunSound, Awake
  <2>2. CASE p \in woken
    <3>1. <<WorkEpoch(NextTick), p>> \in scheduledWork'
      BY <1>3, <2>2 DEF WorkAt
    <3> QED
      BY <1>5, <2>2, <3>1
  <2>3. CASE p \notin woken
    BY <1>2, <1>3, <1>5, <2>1, <2>3
  <2> QED
    BY <2>2, <2>3
<1>14. WaitersInformed'
  <2> SUFFICES ASSUME NEW c \in Consumers, Waiting(c)', NEW x \in entries[QueueOf[c]]
               PROVE  \/ Before(epoch, x.ready) \/ Noticed(QueueOf[c], x)
                      \/ x \in Popped(QueueOf[c])
    BY <1>1, <1>3, <1>8, <1>9, UsersAreObjects DEF WaitersInformed
  <2>1. Waiting(c)
    BY <1>1, <1>5, UsersAreObjects DEF Waiting
  <2> QED
    BY <1>4, <2>1 DEF RunSound, WaitersInformed
<1>15. CodesSound' /\ NothingStranded'
  BY <1>3, <1>4 DEF CodesSound, NothingStranded, RunSound
<1> QED
  BY <1>3, <1>4, <1>6, <1>10, <1>12, <1>13, <1>14, <1>15 DEF TimedRest, RunSound

(* A commit turns what was asked of a queue into entries. *)
LEMMA QueueCommits ==
    ASSUME TypeOK, NEW q, QueueSound(entries[q], schedules[q], popCount[q], seqNext[q])
    PROVE  QueueSound((entries[q] \ Popped(q)) \cup Inserted(q), <<>>, 0, seqNext[q])
<1> DEFINE kept == entries[q] \ Popped(q)
           asked == schedules[q]
           ins == Inserted(q)
           made(i) == [ready |-> ReadyAt(asked[i].delay), seq |-> asked[i].seq]
<1>1. PICK n \in Nat, c \in Nat, k \in Nat :
         n = Len(asked) /\ c = Cardinality(entries[q]) /\ k = seqNext[q]
  BY FS_CardinalityType DEF QueueSound
<1>2. /\ entries[q] \in SUBSET Entry /\ IsFiniteSet(entries[q]) /\ asked \in Seq(Ask)
      /\ Numbered(entries[q], asked, seqNext[q]) /\ c + n <= QueueCapacity
  BY <1>1 DEF QueueSound
<1>3. DOMAIN asked = 1..n /\ \A i \in 1..n : asked[i] \in Ask
  BY <1>1, <1>2
<1>4. ins = {made(i) : i \in 1..n}
  BY <1>3 DEF Inserted
<1>5. \A i \in 1..n : made(i) \in Entry
  <2>1. PICK t \in Nat, d \in Nat : epoch = <<t, d>>
    BY DEF TypeOK, Epochs
  <2>2. \A m \in Nat : ReadyAt(m) \in Epochs
    BY <2>1 DEF ReadyAt, Epochs
  <2>3. \A a \in Ask : a.delay \in Nat /\ a.seq \in Nat
    BY UsersAssumption DEF Ask
  <2> QED
    BY <1>3, <2>2, <2>3 DEF Entry
<1>6. \A i \in 1..n : made(i).seq = asked[i].seq
  OBVIOUS
<1>7. ins \in SUBSET Entry
  BY <1>4, <1>5
<1>8. IsFiniteSet(ins) /\ Cardinality(ins) <= n
  <2> DEFINE f == [i \in 1..n |-> made(i)]
  <2>1. IsFiniteSet(1..n) /\ Cardinality(1..n) = IF 1 > n THEN 0 ELSE n - 1 + 1
    BY FS_Interval
  <2>2. Cardinality(1..n) = n
    BY <2>1
  <2>3. f \in Surjection(1..n, ins)
    <3> HIDE DEF made
    <3> QED
      BY <1>4 DEF Surjection
  <2> QED
    BY <2>1, <2>2, <2>3, FS_Surjection
<1> HIDE DEF made, ins
<1>9. IsFiniteSet(kept) /\ Cardinality(kept) <= c
  BY <1>1, <1>2, FS_Subset
<1>10. /\ IsFiniteSet(kept \cup ins)
       /\ Cardinality(kept \cup ins) = Cardinality(kept) + Cardinality(ins) - Cardinality(kept \cap ins)
  BY <1>8, <1>9, FS_Union
<1>11. PICK u \in Nat, v \in Nat, w \in Nat :
          u = Cardinality(kept) /\ v = Cardinality(ins) /\ w = Cardinality(kept \cap ins)
  BY <1>8, <1>9, FS_Intersection, FS_CardinalityType
<1>12. Cardinality(kept \cup ins) <= QueueCapacity /\ Cardinality(kept \cup ins) \in Nat
  <2>1. Cardinality(kept \cup ins) \in Nat
    BY <1>10, FS_CardinalityType
  <2>2. u + v - w <= QueueCapacity
    BY <1>2, <1>8, <1>9, <1>11, UsersAssumption
  <2> QED
    BY <1>10, <1>11, <2>1, <2>2
<1>13. Numbered(kept \cup ins, <<>>, seqNext[q])
  <2>1. \A x \in ins : \E i \in DOMAIN asked : x = made(i) /\ x.seq = asked[i].seq
    BY <1>3, <1>4, <1>6
  <2>2. \A x \in kept \cup ins : x.seq < seqNext[q]
    BY <1>2, <2>1 DEF Numbered
  <2>3. \A x, y \in kept \cup ins : x.seq = y.seq => x = y
    <3>1. \A x, y \in kept : x.seq = y.seq => x = y
      BY <1>2 DEF Numbered
    <3>2. \A x \in kept, y \in ins : x.seq # y.seq
      BY <1>2, <2>1 DEF Numbered
    <3>3. \A x, y \in ins : x.seq = y.seq => x = y
      BY <1>2, <2>1 DEF Numbered
    <3> QED
      BY <3>1, <3>2, <3>3
  <2>4. DOMAIN <<>> = {}
    OBVIOUS
  <2> QED
    BY <2>2, <2>3, <2>4 DEF Numbered
<1>14. kept \cup ins \in SUBSET Entry /\ seqNext[q] \in Nat
  BY <1>1, <1>2, <1>7
<1>15. <<>> \in Seq(Ask) /\ Len(<<>>) = 0
  OBVIOUS
<1>16. PICK z \in Nat : z = Cardinality(kept \cup ins)
  BY <1>12
<1>17. z + 0 <= QueueCapacity /\ 0 <= z /\ 0 \in Nat
  BY <1>12, <1>16, UsersAssumption
<1> HIDE DEF kept
<1>18. QueueSound(kept \cup ins, <<>>, 0, seqNext[q])
  BY <1>10, <1>13, <1>14, <1>15, <1>16, <1>17 DEF QueueSound
<1> QED
  BY <1>18 DEF kept, ins

(* A queue without proposed pops pops nothing. *)
LEMMA PoppedNone == QueuesSound => \A q \in EventQueues : popCount[q] = 0 => Popped(q) = {}
<1> SUFFICES ASSUME QueuesSound, NEW q \in EventQueues, popCount[q] = 0 PROVE Popped(q) = {}
  OBVIOUS
<1>1. Ordered(entries[q])
  BY DEF QueuesSound, QueueSound, Numbered, Ordered
<1>2. \A x \in entries[q] : ~(Rank(entries[q], x) < popCount[q])
  BY <1>1, RankBounded
<1> QED
  BY <1>2 DEF Popped, Rank, Ahead

(* The same of the state after a step. *)
LEMMA PoppedNoneNext ==
    (QueuesSound => \A q \in EventQueues : popCount[q] = 0 => Popped(q) = {})'
BY PoppedNone, PTL

(* The commit of a queue: the popped entries have no notification left, the  *)
(* inserted ones get theirs.                                                 *)
LEMMA CommitQueueRest ==
    ASSUME TimedInv, NEW q \in todo \cap EventQueues, CommitQueue(q)
    PROVE  TimedRest'
<1> DEFINE new == Accepted(Notifications(q))
<1>1. /\ Commit(q, popCount[q] # 0 \/ schedules[q] # <<>>, Notifications(q), FALSE)
      /\ entries' = [entries EXCEPT ![q] = (@ \ Popped(q)) \cup Inserted(q)]
      /\ schedules' = [schedules EXCEPT ![q] = <<>>]
      /\ popCount' = [popCount EXCEPT ![q] = 0]
      /\ UNCHANGED <<seqNext, status, plan>>
  BY DEF CommitQueue
<1>2. q \in Objects /\ Kind[q] = "EventQueue" /\ q \notin Users
  BY UsersAreObjects
<1>3. Running /\ RunSound /\ QueuesSound /\ UsersSound /\ TypeOK /\ SeqUnique
  BY <1>1 DEF Commit, TimedInv, Inv, SchedulerInv
<1>a. Announced /\ Barrier
  BY <1>3 DEF RunSound
<1>4. Fits(Notifications(q))
  BY <1>3, <1>a, CommitFits
<1>5. /\ Running' /\ phase = "commit" /\ code' = code /\ todo' = todo \ {q}
      /\ proposed' = proposed \cup new
      /\ UNCHANGED <<epoch, phase, xfer, sources, scheduledWork, events>>
  <2> DEFINE will == popCount[q] # 0 \/ schedules[q] # <<>>
             reqs == Notifications(q)
  <2>1. Commit(q, will, reqs, FALSE) /\ Fits(reqs)
    BY <1>1, <1>4
  <2> HIDE DEF will, reqs
  <2>2. /\ Running' /\ phase = "commit" /\ code' = code /\ todo' = todo \ {q}
        /\ sources' = IF will /\ Kind[q] # "EventQueue" THEN sources \cup {q} ELSE sources
        /\ proposed' = proposed \cup Accepted(reqs)
        /\ UNCHANGED <<epoch, phase, xfer, scheduledWork, events>>
    BY <1>2, <2>1, CommitEffect
  <2> QED
    BY <1>2, <2>2 DEF reqs
<1>6. /\ entries'[q] = (entries[q] \ Popped(q)) \cup Inserted(q)
      /\ schedules'[q] = <<>> /\ popCount'[q] = 0
      /\ \A r \in EventQueues \ {q} :
            entries'[r] = entries[r] /\ schedules'[r] = schedules[r] /\ popCount'[r] = popCount[r]
  BY <1>1, <1>3 DEF QueuesSound
<1>7. ObjectsSound'
  <2>1. QueueSound(entries[q], schedules[q], popCount[q], seqNext[q])
    BY <1>3 DEF QueuesSound
  <2>2. QueueSound(entries'[q], <<>>, 0, seqNext[q])
    BY <1>3, <1>6, <2>1, QueueCommits
  <2>3. entries'[q] \in SUBSET Entry /\ <<>> \in Seq(Ask) /\ 0 \in Nat
    BY <2>2 DEF QueueSound
  <2>4. /\ entries' \in [EventQueues -> SUBSET Entry] /\ popCount' \in [EventQueues -> Nat]
        /\ schedules' \in [EventQueues -> Seq(Ask)]
    BY <1>1, <1>3, <1>6, <2>3 DEF QueuesSound
  <2>5. \A r \in EventQueues : QueueSound(entries'[r], schedules'[r], popCount'[r], seqNext[r])
    BY <1>3, <1>6, <2>2 DEF QueuesSound
  <2> QED
    BY <1>1, <1>3, <2>4, <2>5 DEF ObjectsSound, QueuesSound, UsersSound
<1>8. Pending' = Pending \cup new
  BY <1>5 DEF Pending
<1>9. /\ \A n \in new : \E i \in DOMAIN schedules[q] :
            /\ n.target = q /\ n.payload = schedules[q][i].seq
            /\ n.ready = ReadyAt(schedules[q][i].delay)
      /\ \A n, m \in Pending \cup new :
            n.target = m.target /\ n.payload = m.payload => n = m
  BY <1>3, <1>a, FreshNotifications
<1>10. \A x \in Inserted(q) : \E n \in new : n.target = q /\ n.payload = x.seq
  <2> SUFFICES ASSUME NEW x \in Inserted(q)
               PROVE  \E n \in new : n.target = q /\ n.payload = x.seq
    OBVIOUS
  <2>1. PICK i \in DOMAIN schedules[q] :
           x = [ready |-> ReadyAt(schedules[q][i].delay), seq |-> schedules[q][i].seq]
    BY DEF Inserted
  <2> DEFINE n == [ready |-> ReadyAt(schedules[q][i].delay), seq |-> nextSeq + i - 1,
                   target |-> q, payload |-> schedules[q][i].seq]
  <2>2. n \in new
    BY <1>3, AcceptedNotifications
  <2>3. n.target = q /\ n.payload = x.seq
    BY <2>1
  <2> QED
    BY <2>2, <2>3
<1>11. \A r, x : Noticed(r, x) => Noticed(r, x)'
  BY <1>8 DEF Noticed
<1>12. \A x \in Inserted(q) : Noticed(q, x)'
  BY <1>8, <1>10 DEF Noticed
<1>13. \A r \in EventQueues \ {q} : Popped(r)' = Popped(r)
  BY <1>6 DEF Popped
<1>14. Popped(q)' = {}
  BY <1>6, <1>7, PoppedNoneNext DEF ObjectsSound
<1>15. PopsReady'
  BY <1>3, <1>5, <1>13, <1>14 DEF RunSound, PopsReady
<1>16. \A n \in events : ~NotAfter(n.ready, epoch)
  BY <1>5, <1>a DEF Barrier, Due
<1>17. \A n \in proposed : n.target # q
  BY <1>5, <1>a DEF Barrier
<1>18. \A n \in Pending : Matches(n)'
  <2> SUFFICES ASSUME NEW n \in Pending PROVE Matches(n)'
    OBVIOUS
  <2>1. n.target \in EventQueues
    BY <1>a DEF Announced
  <2>2. PICK x \in entries[n.target] : x.seq = n.payload /\ x.ready = n.ready
    BY <1>a DEF Announced, Matches
  <2>3. x \in entries'[n.target]
    <3>1. CASE n.target # q
      BY <1>6, <2>1, <2>2, <3>1
    <3>2. CASE n.target = q
      <4>1. ~NotAfter(x.ready, epoch)
        BY <1>16, <1>17, <2>2, <3>2 DEF Pending
      <4>2. x \notin Popped(q)
        BY <1>3, <4>1 DEF RunSound, PopsReady
      <4> QED
        BY <1>6, <2>2, <3>2, <4>2
    <3> QED
      BY <3>1, <3>2
  <2> QED
    BY <2>2, <2>3 DEF Matches
<1>19. \A n \in new : Matches(n)'
  <2> SUFFICES ASSUME NEW n \in new PROVE \E x \in entries'[q] : x.seq = n.payload /\ x.ready = n.ready
    BY <1>9 DEF Matches
  <2>1. PICK i \in DOMAIN schedules[q] :
           n.payload = schedules[q][i].seq /\ n.ready = ReadyAt(schedules[q][i].delay)
    BY <1>9
  <2>2. [ready |-> ReadyAt(schedules[q][i].delay), seq |-> schedules[q][i].seq] \in Inserted(q)
    BY DEF Inserted
  <2> QED
    BY <1>6, <2>1, <2>2
<1>20. /\ IsFiniteSet(events') /\ IsFiniteSet(proposed') /\ events' \cap proposed' = {}
  <2>1. Notifications(q) \in Seq(Request)
    BY <1>3, NotificationsTyped
  <2>2. IsFiniteSet(new)
    BY <1>3, <2>1, AcceptedCount
  <2>3. IsFiniteSet(proposed')
    BY <1>5, <1>a, <2>2, FS_Union DEF Announced
  <2>4. events \cap new = {}
    <3>1. \A n \in new : nextSeq <= n.seq
      BY <1>3, <2>1, AcceptedEvents
    <3>2. \A n \in events : n.seq < nextSeq /\ n.seq \in Nat
      BY <1>3 DEF SeqUnique, TypeOK, Event
    <3>3. nextSeq \in Nat
      BY <1>3 DEF TypeOK
    <3> HIDE DEF new
    <3> QED
      BY <3>1, <3>2, <3>3
  <2> QED
    BY <1>5, <1>a, <2>3, <2>4 DEF Announced
<1> HIDE DEF new
<1>21. \A r \in EventQueues : \A x \in entries'[r] : Before(epoch, x.ready) => Noticed(r, x)'
  <2> SUFFICES ASSUME NEW r \in EventQueues, NEW x \in entries'[r], Before(epoch, x.ready)
               PROVE  Noticed(r, x)'
    OBVIOUS
  <2>1. CASE x \in entries[r]
    BY <1>a, <1>11, <2>1 DEF Announced
  <2>2. CASE x \notin entries[r]
    BY <1>6, <1>12, <2>2
  <2> QED
    BY <2>1, <2>2
<1>22. Announced'
  <2>1. \A n \in Pending' : n.target \in EventQueues /\ Matches(n)'
    BY <1>8, <1>9, <1>18, <1>19, <1>a DEF Announced
  <2>2. \A n, m \in Pending' : n.target = m.target /\ n.payload = m.payload => n = m
    BY <1>8, <1>9
  <2> QED
    BY <1>5, <1>20, <1>21, <2>1, <2>2 DEF Announced
<1>23. Barrier'
  <2>1. Due' = Due /\ Due = {}
    BY <1>5, <1>a DEF Due, Barrier
  <2>2. \A r \in EventQueues : schedules'[r] # <<>> \/ popCount'[r] # 0 => r \in todo'
    BY <1>5, <1>6, <1>a DEF Barrier
  <2>3. \A o \in Users : plan[o] # "none" => o \in todo'
    BY <1>2, <1>5, <1>a DEF Barrier
  <2>4. \A n \in proposed' : n.target \notin todo'
    BY <1>5, <1>9, <1>a DEF Barrier
  <2> QED
    BY <1>1, <1>5, <2>1, <2>2, <2>3, <2>4 DEF Barrier
<1>24. Awake'
  BY <1>1, <1>3, <1>5 DEF RunSound, Awake
<1>25. WaitersInformed'
  <2> SUFFICES ASSUME NEW c \in Consumers, Waiting(c), NEW x \in entries'[QueueOf[c]]
               PROVE  \/ Before(epoch, x.ready) \/ Noticed(QueueOf[c], x)'
                      \/ x \in Popped(QueueOf[c])'
    BY <1>1, <1>5 DEF WaitersInformed, Waiting
  <2>1. QueueOf[c] \in EventQueues
    BY UsersAreObjects
  <2>2. \A y \in entries[QueueOf[c]] :
           Before(epoch, y.ready) \/ Noticed(QueueOf[c], y) \/ y \in Popped(QueueOf[c])
    BY <1>3 DEF RunSound, WaitersInformed
  <2>3. CASE QueueOf[c] # q
    BY <1>6, <1>11, <1>13, <2>1, <2>2, <2>3
  <2>4. CASE QueueOf[c] = q
    BY <1>6, <1>11, <1>12, <2>2, <2>4
  <2> QED
    BY <2>3, <2>4
<1>26. CodesSound' /\ NothingStranded'
  BY <1>3, <1>5 DEF CodesSound, NothingStranded, RunSound
<1> QED
  BY <1>3, <1>5, <1>7, <1>15, <1>22, <1>23, <1>24, <1>25, <1>26 DEF TimedRest, RunSound

-----------------------------------------------------------------------------
(* The results. *)

(* The invariant is inductive. *)
LEMMA TimedInvStep ==
    ASSUME TimedInv, [TimedNext]_timedVars
    PROVE  TimedInv'
<1>1. Inv'
  <2>1. [OpenNext]_kernelVars
    BY FollowsKernel
  <2> QED
    BY <2>1, InvStep DEF TimedInv
<1>2. ASSUME UNCHANGED timedVars PROVE TimedRest'
  <2>1. /\ UNCHANGED <<epoch, phase, todo, xfer, sources, scheduledWork, events, proposed>>
        /\ UNCHANGED <<outcome, code>> /\ UNCHANGED objectVars
    BY <1>2 DEF timedVars, kernelVars, agenda, loop, ending
  <2>2. UNCHANGED <<entries, schedules, popCount, seqNext, status, plan>>
    BY <2>1 DEF objectVars
  <2>3. ObjectsSound' /\ CodesSound' /\ NothingStranded'
    BY <2>1, <2>2, ObjectsStay DEF TimedInv, CodesSound, NothingStranded
  <2>4. Running' = Running /\ Due' = Due
    BY <2>1 DEF Running, Due
  <2>5. RunSound => PopsReady' /\ Announced'
    BY <2>1, <2>2, AnnouncedStays DEF RunSound
  <2>6. RunSound => Barrier' /\ Awake'
    BY <2>1, <2>2, <2>4 DEF RunSound, Barrier, Awake
  <2>7. RunSound => WaitersInformed'
    BY <2>1, <2>2 DEF RunSound, WaitersInformed, Waiting, Popped, Pending, Noticed
  <2>8. RunSound => RunSound'
    BY <2>1, <2>5, <2>6, <2>7 DEF RunSound
  <2> QED
    BY <2>3, <2>4, <2>8 DEF TimedInv, TimedRest
<1>3. TimedRest'
  BY <1>2, BeginRest, DeliverRest, OpenWorkRest, IdleRest, EndRest, ProduceRest, ConsumeRest,
     ArbitrateRest, CommitProcessRest, CommitQueueRest, CloseRest, AdvanceRest, ResetRest
     DEF TimedNext
<1> QED
  BY <1>1, <1>3 DEF TimedInv, TimedRest, ObjectsSound

(* Timed queues keep their invariant in every run. *)
THEOREM TimedInvariant == TimedSpec => []TimedInv
<1>1. TimedInit => TimedInv
  BY StartRest, InitInv DEF TimedInit, TimedInv, TimedRest, ObjectsSound
<1>2. TimedInv /\ [TimedNext]_timedVars => TimedInv'
  BY TimedInvStep
<1> QED
  BY <1>1, <1>2, PTL DEF TimedSpec

(* Queue and scheduler agree on what is still to come: every notification    *)
(* names an entry ready at its epoch, every entry that is not ready has one, *)
(* none has two, and neither queue overflows (TimedEventQueue::doXfer and    *)
(* deliverEvent).                                                            *)
THEOREM NotificationsExactTheorem == TimedSpec => []NotificationsExact
<1>1. TimedInv => NotificationsExact
  <2> SUFFICES ASSUME TimedInv PROVE NotificationsExact
    OBVIOUS
  <2>1. ASSUME NEW q \in EventQueues
        PROVE  popCount[q] <= Cardinality(entries[q]) /\ Cardinality(entries[q]) <= QueueCapacity
    <3>1. QueueSound(entries[q], schedules[q], popCount[q], seqNext[q])
      BY DEF TimedInv, QueuesSound
    <3>2. PICK c \in Nat, n \in Nat : c = Cardinality(entries[q]) /\ n = Len(schedules[q])
      BY <3>1, FS_CardinalityType DEF QueueSound
    <3>3. c + n <= QueueCapacity /\ popCount[q] <= c
      BY <3>1, <3>2 DEF QueueSound
    <3> QED
      BY <3>2, <3>3, UsersAssumption
  <2>2. Running => Announced
    BY DEF TimedInv, RunSound
  <2> QED
    BY <2>1, <2>2 DEF TimedInv, CodesSound, NotificationsExact, Announced, Pending, Noticed
<1> QED
  BY <1>1, TimedInvariant, PTL

(* No consumer sleeps through an event: between epochs, whatever a waiting   *)
(* consumer could receive is still to be announced (ProcessRuntime awaiting  *)
(* a TimedEventQueue).                                                       *)
THEOREM NoEventMissedTheorem == TimedSpec => []NoEventMissed
<1>1. TimedInv => NoEventMissed
  <2> SUFFICES ASSUME TimedInv, Running, phase = "begin", NEW c \in Consumers,
                      status[c] = "event", NEW x \in entries[QueueOf[c]]
               PROVE  \/ Before(epoch, x.ready)
                      \/ \E n \in events : n.target = QueueOf[c] /\ n.payload = x.seq
    BY DEF NoEventMissed
  <2>1. QueueOf[c] \in EventQueues
    BY UsersAreObjects
  <2>2. Popped(QueueOf[c]) = {} /\ Pending = events
    BY <2>1, NothingProposed
  <2>3. WaitersInformed
    BY DEF TimedInv, RunSound
  <2> QED
    BY <2>2, <2>3 DEF WaitersInformed, Waiting, Noticed
<1> QED
  BY <1>1, TimedInvariant, PTL

(* A run that is declared stuck leaves no entry to a living consumer: only a *)
(* consumer that waits can be left over, and it has nothing to wait for.     *)
THEOREM NothingStrandedTheorem == TimedSpec => []NothingStranded
<1>1. TimedInv => NothingStranded
  BY DEF TimedInv
<1> QED
  BY <1>1, TimedInvariant, PTL

\* The batches a commit of these queues may issue.
Announcements == {s \in Seq([target : EventQueues, delay : Delays, payload : Nat]) :
                    Len(s) <= QueueCapacity}

(* Timed queues and their processes implement the scheduler with unspecified *)
(* objects, as long as it lets an object issue the notifications of one      *)
(* commit: its theorems hold of every run with these objects.                *)
THEOREM ImplementsKernelTheorem ==
    ASSUME Announcements \subseteq Batches
    PROVE  TimedSpec => ImplementsKernel
<1>1. TimedInit => Init
  BY DEF TimedInit
<1>2. ASSUME TimedInv, [TimedNext]_timedVars PROVE [Next]_kernelVars
  <2>1. ASSUME NEW q \in EventQueues PROVE Notifications(q) \in Batches
    <3> DEFINE Notice == [target : EventQueues, delay : Delays, payload : Nat]
    <3>1. QueuesSound /\ QueueSound(entries[q], schedules[q], popCount[q], seqNext[q])
      BY <1>2 DEF TimedInv, QueuesSound
    <3>2. schedules[q] \in Seq(Ask)
      BY <3>1 DEF QueueSound
    <3>3. PICK n \in Nat, c \in Nat : n = Len(schedules[q]) /\ c = Cardinality(entries[q])
      BY <3>1, FS_CardinalityType DEF QueueSound
    <3>4. n <= QueueCapacity
      <4>1. c + n <= QueueCapacity
        BY <3>1, <3>3 DEF QueueSound
      <4> QED
        BY <4>1, UsersAssumption
    <3>5. \A i \in 1..n : schedules[q][i] \in Ask
      BY <3>2, <3>3
    <3>6. Notifications(q) = [i \in 1..n |-> [target |-> q, delay |-> schedules[q][i].delay,
                                              payload |-> schedules[q][i].seq]]
      BY <3>2, <3>3 DEF Notifications
    <3>7. Notifications(q) \in [1..n -> Notice]
      BY <3>5, <3>6 DEF Ask
    <3>8. Notifications(q) \in Seq(Notice) /\ Len(Notifications(q)) = n
      <4> HIDE DEF Notice
      <4> QED
        BY <3>7
    <3> QED
      BY <3>4, <3>8 DEF Announcements
  <2>2. <<>> \in Batches
    BY ObjectsAssumption
  <2>3. \A reqs \in Issued : reqs \in Batches
    BY <2>1, <2>2 DEF Issued
  <2>4. ASSUME NEW id \in todo, NEW parts \in SUBSET Objects, Work(id, parts, <<>>)
        PROVE  Next
    BY <2>2, <2>4 DEF Next, Step
  <2>5. ASSUME NEW id \in todo, NEW will \in BOOLEAN, NEW reqs \in Issued,
               Commit(id, will, reqs, FALSE)
        PROVE  Next
    BY <2>3, <2>5 DEF Next, Step
  <2> QED
    BY <1>2, <2>4, <2>5, StepsAreMoves DEF Moves
<1> QED
  BY <1>1, <1>2, TimedInvariant, PTL DEF TimedSpec, ImplementsKernel, Spec
=============================================================================
