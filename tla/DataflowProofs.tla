--------------------------- MODULE DataflowProofs ---------------------------
(***************************************************************************)
(* Proofs about queues, links, processes and host bridges, for any network *)
(* of them, any capacities and any number of labels.                       *)
(***************************************************************************)
EXTENDS Dataflow, FiniteSetTheorems, SequenceTheorems, TLAPS

-----------------------------------------------------------------------------
(* The inductive invariant: what holds in the middle of a tick. *)

\* Between ticks nothing is proposed and nobody has work left.
NothingProposed ==
    phase = "idle" =>
      /\ todo = {}
      /\ pushes = [q \in Queues |-> <<>>] /\ pops = [q \in Queues |-> 0]
      /\ moving = [l \in Links |-> FALSE]
      /\ proposal = [p \in Processes |-> NoProposal]
      /\ offered = [i \in Ingress |-> FALSE] /\ taking = [e \in Egress |-> Nothing]

\* During Work only the inputs are scheduled for the next tick.
WorkSnapshot == phase = "work" => ready = Ingress

\* A link whose turn is still to come finds its sides of both queues untouched.
LinkSides ==
    \A l \in Links \cap todo : pops[From[l]] = 0 /\ pushes[To[l]] = <<>>

\* A process keeps a value exactly while it is sending.
SlotExact(c) == c.pc = "send" <=> c.held # Nothing

\* A process that is suspended with its queue unable to serve it.
Waits(p) ==
    /\ proc[p].status = "Suspended"
    /\ \/ proc[p].pc = "recv" /\ proc[p].wake = From[p] /\ committed[From[p]] = <<>>
       \/ proc[p].pc = "send" /\ proc[p].wake = To[p] /\ IsFull(To[p])

\* A proposed continuation: it yields, or the snapshot refuses what it wants.
Refused(p) ==
    /\ proposal[p].status = "Suspended"
    /\ \/ proposal[p].pc = "recv" /\ proposal[p].wake = p
       \/ proposal[p].pc = "recv" /\ proposal[p].wake = From[p] /\ ~CanPop(From[p])
       \/ proposal[p].pc = "send" /\ proposal[p].wake = To[p] /\ ~CanPush(To[p])

\* Where a process stands in a tick: its turn is to come, it was not
\* scheduled, or it has had its turn.
ProcessStands(p) ==
    /\ SlotExact(proc[p])
    /\ proposal[p] # NoProposal => SlotExact(proposal[p])
    /\ phase = "work" =>
         \/ p \in todo /\ proc[p].status = "Runnable" /\ proposal[p] = NoProposal
         \/ p \notin todo /\ proposal[p] = NoProposal /\ Waits(p)
         \/ p \notin todo /\ proposal[p] # NoProposal /\ Refused(p)

\* A link that has no turn left in this tick has moved a value or is stalled.
LinkStands(l) ==
    phase = "work" /\ l \notin todo =>
        moving[l] \/ committed[From[l]] = <<>> \/ IsFull(To[l])

\* What the barrier will leave: values per queue, slots and mailboxes.
LengthNext == [q \in Queues |-> Len(committed[q]) + Len(pushes[q]) - pops[q]]
ValuesNext == Cardinality(Cells(LengthNext))
HoldingNext == {p \in Processes : Continuation(p).held # Nothing}
InboxNext == {i \in Ingress : inbox[i] # Nothing /\ ~offered[i]}
OutboxNext == {e \in Egress : outbox[e] # Nothing \/ taking[e] # Nothing}

\* The proposals of a tick, taken together, neither add nor lose a value.
ConservedNext ==
    inflight = ValuesNext + Cardinality(HoldingNext)
               + Cardinality(InboxNext) + Cardinality(OutboxNext)

Structure == NothingProposed /\ WorkSnapshot /\ LinkSides
Standing == (\A p \in Processes : ProcessStands(p)) /\ (\A l \in Links : LinkStands(l))
Accounts == Conserved /\ ConservedNext
DataflowInv ==
    TypeOK /\ fault = "" /\ NoOverflow /\ Structure /\ Standing /\ NoLostWakeup /\ Accounts

-----------------------------------------------------------------------------
(* Queues *)

(* A queue has room for at least one value. *)
LEMMA RoomPositive ==
    ASSUME NEW q \in Queues
    PROVE  Room(q) \in Nat /\ Room(q) > 0
<1>1. Entries[q] \in Nat \ {0} /\ Bytes[q] \in Nat \ {0}
  BY CapacityAssumption
<1>2. \E x \in {Entries[q], Bytes[q]} : \A y \in {Entries[q], Bytes[q]} : x <= y
  BY <1>1
<1> QED
  BY <1>1, <1>2 DEF Room, Min

(* The state of one queue. *)
LEMMA QueueTyped ==
    ASSUME TypeOK, NEW q \in Queues
    PROVE  /\ committed[q] \in Seq(Payload) /\ pushes[q] \in Seq(Payload) /\ pops[q] \in Nat
           /\ Len(committed[q]) \in Nat /\ Len(pushes[q]) \in Nat
<1>1. committed[q] \in Seq(Payload) /\ pushes[q] \in Seq(Payload) /\ pops[q] \in Nat
  BY DEF TypeOK
<1>2. \A s \in Seq(Payload) : Len(s) \in Nat
  OBVIOUS
<1> QED
  BY <1>1, <1>2

(* Dropping a prefix of the first of two sequences joined together. *)
LEMMA DropPrefix ==
    ASSUME NEW S, NEW s \in Seq(S), NEW t \in Seq(S), NEW k \in Nat, k <= Len(s)
    PROVE  /\ SubSeq(s \o t, k + 1, Len(s) + Len(t)) \in Seq(S)
           /\ Len(SubSeq(s \o t, k + 1, Len(s) + Len(t))) = Len(s) + Len(t) - k
           /\ t = <<>> /\ k = 0 => SubSeq(s \o t, k + 1, Len(s) + Len(t)) = s
<1> DEFINE both == s \o t
           n == Len(s) + Len(t)
<1>1. Len(s) \in Nat /\ Len(t) \in Nat
  OBVIOUS
<1>2. both \in Seq(S) /\ Len(both) = n
  BY ConcatProperties
<1>3. n \in Nat /\ k + 1 <= n + 1 /\ k + 1 \in Int /\ n \in Int
  BY <1>1
<1> HIDE DEF both, n
<1>4. \A i \in (k + 1)..n : i \in 1..Len(both)
  BY <1>2, <1>3
<1>5. \A i \in (k + 1)..n : both[i] \in S
  BY <1>2, <1>4, ElementOfSeq
<1>6. /\ SubSeq(both, k + 1, n) \in Seq(S)
      /\ Len(SubSeq(both, k + 1, n)) = IF k + 1 <= n THEN n - (k + 1) + 1 ELSE 0
  BY <1>3, <1>5, SubSeqProperties
<1>7. Len(SubSeq(both, k + 1, n)) = n - k
  BY <1>3, <1>6
<1>8. ASSUME t = <<>>, k = 0 PROVE SubSeq(both, k + 1, n) = s
  <2>1. both = s
    BY <1>8, ConcatEmptySeq DEF both
  <2>2. n = Len(s)
    BY <1>1, <1>2, <2>1
  <2>3. SubSeq(s, 1, Len(s)) = s
    BY SubSeqFull
  <2> QED
    BY <1>8, <2>1, <2>2, <2>3
<1>9. SubSeq(s \o t, k + 1, Len(s) + Len(t)) \in Seq(S)
  BY <1>6 DEF both, n
<1>10. Len(SubSeq(s \o t, k + 1, Len(s) + Len(t))) = Len(s) + Len(t) - k
  BY <1>7 DEF both, n
<1>11. t = <<>> /\ k = 0 => SubSeq(s \o t, k + 1, Len(s) + Len(t)) = s
  BY <1>8 DEF both, n
<1> QED
  BY <1>9, <1>10, <1>11

(* The barrier leaves the committed values less the pops, and the pushes. *)
LEMMA XferLength ==
    ASSUME TypeOK, NoOverflow, NEW q \in Queues
    PROVE  /\ AfterXfer(q) \in Seq(Payload)
           /\ Len(AfterXfer(q)) = Len(committed[q]) + Len(pushes[q]) - pops[q]
           /\ q \notin Changed => AfterXfer(q) = committed[q]
<1>1. PICK c \in Seq(Payload), d \in Seq(Payload), k \in Nat :
         c = committed[q] /\ d = pushes[q] /\ k = pops[q]
  BY DEF TypeOK
<1>2. k <= Len(c)
  BY <1>1 DEF NoOverflow
<1>3. q \notin Changed => d = <<>> /\ k = 0
  BY <1>1 DEF Changed
<1>4. AfterXfer(q) = SubSeq(c \o d, k + 1, Len(c) + Len(d))
  BY <1>1 DEF AfterXfer
<1>5. SubSeq(c \o d, k + 1, Len(c) + Len(d)) \in Seq(Payload)
  BY <1>2, DropPrefix
<1>6. Len(SubSeq(c \o d, k + 1, Len(c) + Len(d))) = Len(c) + Len(d) - k
  BY <1>2, DropPrefix
<1>7. d = <<>> /\ k = 0 => SubSeq(c \o d, k + 1, Len(c) + Len(d)) = c
  BY <1>2, DropPrefix
<1> QED
  BY <1>1, <1>3, <1>4, <1>5, <1>6, <1>7

(* What the barrier leaves fits. *)
LEMMA XferFits ==
    ASSUME TypeOK, NoOverflow, NEW q \in Queues
    PROVE  Len(AfterXfer(q)) + 0 <= Room(q) /\ 0 <= Len(AfterXfer(q))
<1>1. PICK c \in Nat, n \in Nat, k \in Nat, room \in Nat :
         c = Len(committed[q]) /\ n = Len(pushes[q]) /\ k = pops[q] /\ room = Room(q)
  BY QueueTyped, RoomPositive
<1>2. c + n <= room /\ k <= c
  BY <1>1 DEF NoOverflow
<1>3. Len(AfterXfer(q)) = c + n - k
  BY <1>1, XferLength
<1>4. (c + n - k) + 0 <= room /\ 0 <= c + n - k
  BY <1>2
<1> QED
  BY <1>1, <1>3, <1>4

-----------------------------------------------------------------------------
(* Counting values *)

(* The values of any set of bounded queues are finitely many. *)
LEMMA CellsFinite ==
    ASSUME NEW length \in [Queues -> Nat]
    PROVE  IsFiniteSet(Cells(length))
<1> DEFINE column == [q \in Queues |-> {q} \X (1..length[q])]
           columns == {{q} \X (1..length[q]) : q \in Queues}
<1>1. IsFiniteSet(Queues)
  <2>1. Queues \in SUBSET (Queues \cup Takers \cup Putters)
    OBVIOUS
  <2> QED
    BY <2>1, TopologyAssumption, FS_Subset
<1>2. column \in Surjection(Queues, columns)
  BY DEF Surjection
<1>3. IsFiniteSet(columns)
  BY <1>1, <1>2, FS_Surjection
<1>4. ASSUME NEW T \in columns PROVE IsFiniteSet(T)
  <2>1. PICK q \in Queues : T = {q} \X (1..length[q])
    OBVIOUS
  <2>2. IsFiniteSet({q})
    BY FS_Singleton
  <2>3. length[q] \in Int
    OBVIOUS
  <2>4. IsFiniteSet(1..length[q])
    BY <2>3, FS_Interval
  <2> QED
    BY <2>1, <2>2, <2>4, FS_Product
<1> QED
  BY <1>3, <1>4, FS_UNION DEF Cells

(* One more value in a queue is one more value. *)
LEMMA CellsAdd ==
    ASSUME NEW length \in [Queues -> Nat], NEW q \in Queues
    PROVE  /\ [length EXCEPT ![q] = @ + 1] \in [Queues -> Nat]
           /\ Cardinality(Cells([length EXCEPT ![q] = @ + 1])) = Cardinality(Cells(length)) + 1
<1> DEFINE longer == [length EXCEPT ![q] = @ + 1]
           cell == <<q, length[q] + 1>>
<1>1. longer \in [Queues -> Nat]
  OBVIOUS
<1>2. cell \notin Cells(length)
  BY DEF Cells
<1>3. Cells(longer) = Cells(length) \cup {cell}
  <2>1. ASSUME NEW c \in Cells(longer) PROVE c \in Cells(length) \cup {cell}
    <3>1. PICK r \in Queues, n \in Nat : c = <<r, n>> /\ n \in 1..longer[r]
      BY DEF Cells
    <3>2. CASE n \in 1..length[r]
      BY <3>1, <3>2 DEF Cells
    <3>3. CASE n \notin 1..length[r]
      BY <3>1, <3>3
    <3> QED
      BY <3>2, <3>3
  <2>2. ASSUME NEW c \in Cells(length) PROVE c \in Cells(longer)
    <3>1. PICK r \in Queues, n \in Nat : c = <<r, n>> /\ n \in 1..length[r]
      BY DEF Cells
    <3>2. n \in 1..longer[r]
      BY <3>1
    <3> QED
      BY <3>1, <3>2 DEF Cells
  <2>3. cell \in Cells(longer)
    <3>1. length[q] + 1 \in 1..longer[q]
      OBVIOUS
    <3> QED
      BY <3>1 DEF Cells
  <2> QED
    BY <2>1, <2>2, <2>3
<1> QED
  BY <1>1, <1>2, <1>3, CellsFinite, FS_AddElement

(* One value less in a queue is one value less. *)
LEMMA CellsRemove ==
    ASSUME NEW length \in [Queues -> Nat], NEW q \in Queues, length[q] > 0
    PROVE  /\ [length EXCEPT ![q] = @ - 1] \in [Queues -> Nat]
           /\ Cardinality(Cells([length EXCEPT ![q] = @ - 1])) = Cardinality(Cells(length)) - 1
<1> DEFINE shorter == [length EXCEPT ![q] = @ - 1]
<1>1. shorter \in [Queues -> Nat]
  OBVIOUS
<1>2. [shorter EXCEPT ![q] = @ + 1] = length
  <2>1. \A r \in Queues : [shorter EXCEPT ![q] = @ + 1][r] = length[r]
    OBVIOUS
  <2>2. DOMAIN [shorter EXCEPT ![q] = @ + 1] = Queues
    OBVIOUS
  <2> HIDE DEF shorter
  <2>3. [shorter EXCEPT ![q] = @ + 1] \in [Queues -> Nat]
    BY <1>1
  <2> QED
    BY <2>1, <2>2, <2>3
<1> HIDE DEF shorter
<1>3. Cardinality(Cells(length)) = Cardinality(Cells(shorter)) + 1
  BY <1>1, <1>2, CellsAdd
<1>4. Cardinality(Cells(shorter)) \in Nat
  BY <1>1, CellsFinite, FS_CardinalityType
<1>5. Cardinality(Cells(shorter)) = Cardinality(Cells(length)) - 1
  BY <1>3, <1>4
<1> QED
  BY <1>1, <1>5 DEF shorter

-----------------------------------------------------------------------------
(* What a Work step may do to the queues *)

\* One push or one pop is proposed, where the snapshot allows it.
PushesOne(q, v) ==
    q \in Queues /\ v \in Payload /\ CanPush(q) /\ pushes' = [pushes EXCEPT ![q] = Append(@, v)]
PopsOne(q) ==
    q \in Queues /\ CanPop(q) /\ pops' = [pops EXCEPT ![q] = @ + 1]

\* An object proposes at most one push and one pop.
Proposes ==
    /\ committed' = committed
    /\ pushes' = pushes \/ \E q \in Queues, v \in Payload : PushesOne(q, v)
    /\ pops' = pops \/ \E q \in Queues : PopsOne(q)

(* Proposals only take room and only use up values, so what the snapshot
   refused once in a tick it refuses to the end of the tick. *)
LEMMA ProposalsMonotone ==
    ASSUME TypeOK, NoOverflow, Proposes, NEW q \in Queues
    PROVE  /\ pushes'[q] \in Seq(Payload) /\ Len(pushes'[q]) \in Nat /\ pops'[q] \in Nat
           /\ Len(committed[q]) + Len(pushes'[q]) <= Room(q)
           /\ pops'[q] <= Len(committed[q])
           /\ Len(pushes'[q]) >= Len(pushes[q]) /\ pops'[q] >= pops[q]
<1>1. PICK c \in Nat, k \in Nat, d \in Seq(Payload) :
         c = Len(committed[q]) /\ d = pushes[q] /\ k = pops[q]
  BY QueueTyped
<1>2. PICK room \in Nat, n \in Nat : room = Room(q) /\ n = Len(d)
  BY <1>1, RoomPositive, QueueTyped
<1>3. c + n <= room /\ k <= c
  BY <1>1, <1>2 DEF NoOverflow
<1>4. /\ pushes'[q] \in Seq(Payload) /\ Len(pushes'[q]) \in Nat
      /\ c + Len(pushes'[q]) <= room /\ Len(pushes'[q]) >= n
  <2>1. CASE pushes'[q] = d
    BY <2>1, <1>2, <1>3
  <2>2. CASE pushes'[q] # d
    <3>1. PICK v \in Payload : pushes'[q] = Append(d, v) /\ CanPush(q)
      BY <2>2, <1>1 DEF Proposes, PushesOne, TypeOK
    <3>2. Append(d, v) \in Seq(Payload) /\ Len(Append(d, v)) = n + 1
      BY <1>2, AppendProperties
    <3>3. c + n < room
      BY <3>1, <1>1, <1>2 DEF CanPush
    <3> QED
      BY <3>1, <3>2, <3>3
  <2> QED
    BY <2>1, <2>2
<1>5. pops'[q] \in Nat /\ pops'[q] <= c /\ pops'[q] >= k
  <2>1. CASE pops'[q] = k
    BY <2>1, <1>3
  <2>2. CASE pops'[q] # k
    <3>1. pops'[q] = k + 1 /\ CanPop(q)
      BY <2>2, <1>1 DEF Proposes, PopsOne, TypeOK
    <3> QED
      BY <3>1, <1>1 DEF CanPop
  <2> QED
    BY <2>1, <2>2
<1> QED
  BY <1>1, <1>2, <1>4, <1>5

(* The state of the queues stays well formed through a Work step. *)
LEMMA ProposalsTyped ==
    ASSUME TypeOK, NoOverflow, Proposes
    PROVE  /\ pushes' \in [Queues -> Seq(Payload)] /\ pops' \in [Queues -> Nat]
           /\ NoOverflow'
           /\ \A q \in Queues : (~CanPop(q) => ~CanPop(q)') /\ (~CanPush(q) => ~CanPush(q)')
           /\ \A q \in Queues : IsFull(q)' <=> IsFull(q)
<1>1. committed' = committed
  BY DEF Proposes
<1>2. pushes' \in [Queues -> Seq(Payload)]
  <2>1. pushes' = [q \in Queues |-> pushes'[q]]
    BY DEF TypeOK, Proposes, PushesOne
  <2> QED
    BY <2>1, ProposalsMonotone
<1>3. pops' \in [Queues -> Nat]
  <2>1. pops' = [q \in Queues |-> pops'[q]]
    BY DEF TypeOK, Proposes, PopsOne
  <2> QED
    BY <2>1, ProposalsMonotone
<1>4. NoOverflow'
  BY <1>1, ProposalsMonotone DEF NoOverflow, Room
<1>5. ASSUME NEW q \in Queues
      PROVE  (~CanPop(q) => ~CanPop(q)') /\ (~CanPush(q) => ~CanPush(q)')
  <2>1. PICK c \in Nat, n \in Nat, k \in Nat, room \in Nat :
           c = Len(committed[q]) /\ n = Len(pushes[q]) /\ k = pops[q] /\ room = Room(q)
    BY QueueTyped, RoomPositive
  <2>2. PICK m \in Nat, j \in Nat :
           m = Len(pushes'[q]) /\ j = pops'[q] /\ m >= n /\ j >= k
    BY <2>1, ProposalsMonotone
  <2>3. (CanPop(q) <=> k < c) /\ (CanPop(q)' <=> j < c)
    BY <2>1, <2>2, <1>1 DEF CanPop
  <2>4. CanPush(q) <=> c + n < room
    BY <2>1 DEF CanPush
  <2>5. CanPush(q)' <=> c + m < room
    BY <2>1, <2>2, <1>1 DEF CanPush, Room
  <2> QED
    BY <2>2, <2>3, <2>4, <2>5
<1>6. \A q \in Queues : IsFull(q)' <=> IsFull(q)
  BY <1>1 DEF IsFull, Room
<1> QED
  BY <1>2, <1>3, <1>4, <1>5, <1>6

(* The lengths the barrier would leave now. *)
LEMMA LengthNextTyped ==
    ASSUME TypeOK, NoOverflow
    PROVE  /\ LengthNext \in [Queues -> Nat]
           /\ ValuesNext \in Nat
           /\ \A q \in Queues : CanPop(q) => LengthNext[q] > 0
<1>1. ASSUME NEW q \in Queues
      PROVE  LengthNext[q] \in Nat /\ (CanPop(q) => LengthNext[q] > 0)
  <2>1. PICK c \in Nat, n \in Nat, k \in Nat :
           c = Len(committed[q]) /\ n = Len(pushes[q]) /\ k = pops[q] /\ k <= c
    BY QueueTyped DEF NoOverflow
  <2>2. LengthNext[q] = c + n - k
    BY <2>1 DEF LengthNext
  <2> QED
    BY <2>1, <2>2 DEF CanPop
<1>2. LengthNext \in [Queues -> Nat]
  BY <1>1 DEF LengthNext
<1>3. ValuesNext \in Nat
  BY <1>2, CellsFinite, FS_CardinalityType DEF ValuesNext
<1> QED
  BY <1>1, <1>2, <1>3

(* A push proposed is one value more behind the barrier. *)
LEMMA PushCounts ==
    ASSUME TypeOK, NoOverflow, NEW q, NEW v, PushesOne(q, v),
           committed' = committed, pops' = pops
    PROVE  ValuesNext' = ValuesNext + 1
<1>1. q \in Queues /\ v \in Payload
  BY DEF PushesOne
<1>2. Len(pushes'[q]) = Len(pushes[q]) + 1
  <2>1. PICK d \in Seq(Payload) : d = pushes[q] /\ pushes'[q] = Append(d, v)
    BY <1>1, QueueTyped DEF PushesOne, TypeOK
  <2> QED
    BY <1>1, <2>1, AppendProperties
<1>3. \A r \in Queues \ {q} : pushes'[r] = pushes[r]
  BY <1>1 DEF PushesOne, TypeOK
<1>4. LengthNext' = [LengthNext EXCEPT ![q] = @ + 1]
  <2>1. ASSUME NEW r \in Queues
        PROVE  LengthNext'[r] = [LengthNext EXCEPT ![q] = @ + 1][r]
    <3>1. LengthNext'[r] = Len(committed[r]) + Len(pushes'[r]) - pops[r]
      BY DEF LengthNext
    <3>2. LengthNext[r] = Len(committed[r]) + Len(pushes[r]) - pops[r]
      BY DEF LengthNext
    <3>3. PICK c \in Nat, n \in Nat, k \in Nat :
             c = Len(committed[r]) /\ n = Len(pushes[r]) /\ k = pops[r]
      BY QueueTyped
    <3>4. [LengthNext EXCEPT ![q] = @ + 1][r] = IF r = q THEN LengthNext[q] + 1 ELSE LengthNext[r]
      BY LengthNextTyped
    <3>5. CASE r = q
      <4>1. LengthNext'[r] = c + (n + 1) - k
        BY <3>1, <3>3, <3>5, <1>2
      <4> QED
        BY <4>1, <3>2, <3>3, <3>4, <3>5
    <3>6. CASE r # q
      BY <3>1, <3>2, <3>4, <3>6, <1>3
    <3> QED
      BY <3>5, <3>6
  <2>2. LengthNext' = [r \in Queues |-> LengthNext'[r]]
    BY DEF LengthNext
  <2>3. [LengthNext EXCEPT ![q] = @ + 1] = [r \in Queues |-> [LengthNext EXCEPT ![q] = @ + 1][r]]
    BY LengthNextTyped
  <2> QED
    BY <2>1, <2>2, <2>3
<1> QED
  BY <1>1, <1>4, LengthNextTyped, CellsAdd DEF ValuesNext

(* A pop proposed is one value less behind the barrier. *)
LEMMA PopCounts ==
    ASSUME TypeOK, NoOverflow, NEW q, PopsOne(q), committed' = committed, pushes' = pushes
    PROVE  ValuesNext' = ValuesNext - 1
<1>1. q \in Queues /\ CanPop(q)
  BY DEF PopsOne
<1>2. LengthNext' = [LengthNext EXCEPT ![q] = @ - 1]
  <2>1. ASSUME NEW r \in Queues
        PROVE  LengthNext'[r] = [LengthNext EXCEPT ![q] = @ - 1][r]
    <3>1. LengthNext'[r] = Len(committed[r]) + Len(pushes[r]) - pops'[r]
      BY DEF LengthNext
    <3>2. LengthNext[r] = Len(committed[r]) + Len(pushes[r]) - pops[r]
      BY DEF LengthNext
    <3>3. PICK c \in Nat, n \in Nat, k \in Nat :
             c = Len(committed[r]) /\ n = Len(pushes[r]) /\ k = pops[r]
      BY QueueTyped
    <3>4. [LengthNext EXCEPT ![q] = @ - 1][r] = IF r = q THEN LengthNext[q] - 1 ELSE LengthNext[r]
      BY LengthNextTyped
    <3>5. pops'[r] = IF r = q THEN k + 1 ELSE k
      BY <3>3, <1>1 DEF PopsOne, TypeOK
    <3>6. LengthNext'[r] = c + n - (IF r = q THEN k + 1 ELSE k)
      BY <3>1, <3>3, <3>5
    <3>7. LengthNext[r] = c + n - k
      BY <3>2, <3>3
    <3>8. CASE r = q
      BY <3>4, <3>6, <3>7, <3>8
    <3>9. CASE r # q
      BY <3>4, <3>6, <3>7, <3>9
    <3> QED
      BY <3>8, <3>9
  <2>2. LengthNext' = [r \in Queues |-> LengthNext'[r]]
    BY DEF LengthNext
  <2>3. [LengthNext EXCEPT ![q] = @ - 1] = [r \in Queues |-> [LengthNext EXCEPT ![q] = @ - 1][r]]
    BY LengthNextTyped
  <2> QED
    BY <2>1, <2>2, <2>3
<1> QED
  BY <1>1, <1>2, LengthNextTyped, CellsRemove DEF ValuesNext

(* A value moved from one queue to another, or to the end of its own, is
   still one value behind the barrier. *)
LEMMA MoveCounts ==
    ASSUME TypeOK, NoOverflow, NEW i, NEW o, NEW v, PopsOne(i), PushesOne(o, v),
           committed' = committed
    PROVE  ValuesNext' = ValuesNext
<1> DEFINE shorter == [LengthNext EXCEPT ![i] = @ - 1]
<1>1. i \in Queues /\ o \in Queues /\ v \in Payload /\ CanPop(i)
  BY DEF PopsOne, PushesOne
<1>2. shorter \in [Queues -> Nat] /\ Cardinality(Cells(shorter)) = ValuesNext - 1
  BY <1>1, LengthNextTyped, CellsRemove DEF ValuesNext
<1>3. \A r \in Queues : shorter[r] = IF r = i THEN LengthNext[r] - 1 ELSE LengthNext[r]
  BY LengthNextTyped
<1> HIDE DEF shorter
<1>4. Len(pushes'[o]) = Len(pushes[o]) + 1
  <2>1. PICK d \in Seq(Payload) : d = pushes[o] /\ pushes'[o] = Append(d, v)
    BY <1>1, QueueTyped DEF PushesOne, TypeOK
  <2> QED
    BY <1>1, <2>1, AppendProperties
<1>5. \A r \in Queues \ {o} : pushes'[r] = pushes[r]
  BY <1>1 DEF PushesOne, TypeOK
<1>6. LengthNext' = [shorter EXCEPT ![o] = @ + 1]
  <2>1. ASSUME NEW r \in Queues
        PROVE  LengthNext'[r] = [shorter EXCEPT ![o] = @ + 1][r]
    <3>1. LengthNext'[r] = Len(committed[r]) + Len(pushes'[r]) - pops'[r]
      BY DEF LengthNext
    <3>2. LengthNext[r] = Len(committed[r]) + Len(pushes[r]) - pops[r]
      BY DEF LengthNext
    <3>3. PICK c \in Nat, n \in Nat, k \in Nat :
             c = Len(committed[r]) /\ n = Len(pushes[r]) /\ k = pops[r]
      BY QueueTyped
    <3>4. [shorter EXCEPT ![o] = @ + 1][r] = IF r = o THEN shorter[r] + 1 ELSE shorter[r]
      BY <1>2
    <3>5. pops'[r] = IF r = i THEN k + 1 ELSE k
      BY <3>3, <1>1 DEF PopsOne, TypeOK
    <3>6. Len(pushes'[r]) = IF r = o THEN n + 1 ELSE n
      BY <3>3, <1>4, <1>5
    <3>7. LengthNext'[r] = c + (IF r = o THEN n + 1 ELSE n) - (IF r = i THEN k + 1 ELSE k)
      BY <3>1, <3>3, <3>5, <3>6
    <3>8. shorter[r] = IF r = i THEN c + n - k - 1 ELSE c + n - k
      <4>1. LengthNext[r] = c + n - k
        BY <3>2, <3>3
      <4>2. shorter[r] = IF r = i THEN LengthNext[r] - 1 ELSE LengthNext[r]
        BY <1>3
      <4> QED
        BY <4>1, <4>2
    <3>9. CASE r = o
      BY <3>4, <3>7, <3>8, <3>9
    <3>10. CASE r # o
      BY <3>4, <3>7, <3>8, <3>10
    <3> QED
      BY <3>9, <3>10
  <2>2. LengthNext' = [r \in Queues |-> LengthNext'[r]]
    BY DEF LengthNext
  <2>3. [shorter EXCEPT ![o] = @ + 1] = [r \in Queues |-> [shorter EXCEPT ![o] = @ + 1][r]]
    BY <1>2
  <2> QED
    BY <2>1, <2>2, <2>3
<1>7. ValuesNext' = Cardinality(Cells(shorter)) + 1
  BY <1>1, <1>2, <1>6, CellsAdd DEF ValuesNext
<1> QED
  BY <1>2, <1>7, LengthNextTyped

(* A value at the head of what is left of a queue is a payload. *)
LEMMA FrontTyped ==
    ASSUME TypeOK, NEW q \in Queues, CanPop(q)
    PROVE  Front(q) \in Payload
<1>1. PICK c \in Seq(Payload), k \in Nat, n \in Nat :
         c = committed[q] /\ k = pops[q] /\ n = Len(c) /\ Front(q) = c[k + 1]
  BY QueueTyped DEF Front
<1>2. k < n
  BY <1>1 DEF CanPop
<1>3. k + 1 \in 1..Len(c)
  BY <1>1, <1>2
<1> QED
  BY <1>1, <1>3, ElementOfSeq

-----------------------------------------------------------------------------
(* A Work step, whoever takes it *)

\* What the turn of one object leaves alone: the committed state, the other
\* objects, and the sides of the queues that belong to other links.
WorkBy(id) ==
    /\ phase = "work" /\ id \in todo /\ todo' = todo \ {id}
    /\ UNCHANGED <<committed, proc, inbox, outbox, ready, phase, labelVars>>
    /\ Proposes
    /\ \A p \in Processes \ {id} : proposal'[p] = proposal[p]
    /\ \A l \in Links \ {id} :
         /\ moving'[l] = moving[l]
         /\ pops'[From[l]] = pops[From[l]] /\ pushes'[To[l]] = pushes[To[l]]

(* The queues an object uses exist. *)
LEMMA EndsTyped ==
    /\ \A x \in Links : From[x] \in Queues /\ To[x] \in Queues
    /\ \A x \in Processes : From[x] \in Queues /\ To[x] \in Queues
    /\ \A x \in Ingress : To[x] \in Queues
    /\ \A x \in Egress : From[x] \in Queues
  BY TopologyAssumption DEF Takers, Putters

(* A turn keeps every part of the invariant that is not about the object
   whose turn it is: in particular a process refused in this tick is still
   refused, whatever the others propose after it. *)
LEMMA WorkKeeps ==
    ASSUME DataflowInv, NEW id, WorkBy(id)
    PROVE  /\ pushes' \in [Queues -> Seq(Payload)] /\ pops' \in [Queues -> Nat]
           /\ NoOverflow' /\ Structure' /\ NoLostWakeup' /\ Conserved'
           /\ \A p \in Processes \ {id} : ProcessStands(p)'
           /\ \A l \in Links \ {id} : LinkStands(l)'
<1> USE DEF DataflowInv
<1>0. Proposes
  BY DEF WorkBy
<1>1. pushes' \in [Queues -> Seq(Payload)] /\ pops' \in [Queues -> Nat] /\ NoOverflow'
  BY <1>0, ProposalsTyped
<1>2. phase' = "work" /\ phase = "work"
  BY DEF WorkBy
<1>3. NothingProposed' /\ NoLostWakeup'
  BY <1>2 DEF NothingProposed, NoLostWakeup
<1>4. WorkSnapshot'
  BY <1>2 DEF WorkBy, WorkSnapshot, Structure
<1>5. LinkSides'
  <2>1. ASSUME NEW l \in Links \cap todo'
        PROVE  pops'[From[l]] = 0 /\ pushes'[To[l]] = <<>>
    <3>1. l \in Links \cap todo /\ l # id
      BY <2>1 DEF WorkBy
    <3>2. pops[From[l]] = 0 /\ pushes[To[l]] = <<>>
      BY <3>1 DEF Structure, LinkSides
    <3> QED
      BY <3>1, <3>2 DEF WorkBy
  <2> QED
    BY <2>1 DEF LinkSides
<1>6. Conserved'
  <2>1. /\ committed' = committed /\ proc' = proc /\ inbox' = inbox /\ outbox' = outbox
        /\ inflight' = inflight
    BY DEF WorkBy, labelVars
  <2>2. Conserved
    BY DEF Accounts
  <2> QED
    BY <2>1, <2>2 DEF Conserved, Stored, Holding, Filled
<1>7. ASSUME NEW p \in Processes \ {id} PROVE ProcessStands(p)'
  <2>1. /\ proc' = proc /\ committed' = committed /\ proposal'[p] = proposal[p]
        /\ p \in todo' <=> p \in todo
    BY DEF WorkBy
  <2>2. ProcessStands(p)
    BY DEF Standing
  <2>3. SlotExact(proc[p])' /\ (proposal'[p] # NoProposal => SlotExact(proposal[p])')
    BY <2>1, <2>2 DEF ProcessStands, SlotExact
  <2>4. From[p] \in Queues /\ To[p] \in Queues
    BY EndsTyped
  <2>5. Waits(p) => Waits(p)'
    <3>1. IsFull(To[p])' <=> IsFull(To[p])
      BY <1>0, <2>4, ProposalsTyped
    <3> QED
      BY <2>1, <3>1 DEF Waits
  <2>6. Refused(p) => Refused(p)'
    <3>1. (~CanPop(From[p]) => ~CanPop(From[p])') /\ (~CanPush(To[p]) => ~CanPush(To[p])')
      BY <1>0, <2>4, ProposalsTyped
    <3> QED
      BY <2>1, <3>1 DEF Refused
  <2> QED
    BY <2>1, <2>2, <2>3, <2>5, <2>6, <1>2 DEF ProcessStands
<1>8. ASSUME NEW l \in Links \ {id} PROVE LinkStands(l)'
  <2>1. committed' = committed /\ moving'[l] = moving[l] /\ (l \in todo' <=> l \in todo)
    BY DEF WorkBy
  <2>2. LinkStands(l)
    BY DEF Standing
  <2>3. IsFull(To[l])' <=> IsFull(To[l])
    BY <1>0, EndsTyped, ProposalsTyped
  <2> QED
    BY <2>1, <2>2, <2>3, <1>2 DEF LinkStands
<1> QED
  BY <1>1, <1>3, <1>4, <1>5, <1>6, <1>7, <1>8 DEF Structure

(* Proposing a push or a pop, as an operation on the queues. *)
LEMMA PushProposed ==
    ASSUME TypeOK, NEW q \in Queues, NEW v \in Payload, CanPush(q),
           pushes' = [pushes EXCEPT ![q] = Append(@, v)]
    PROVE  /\ PushesOne(q, v)
           /\ \A r \in Queues \ {q} : pushes'[r] = pushes[r]
  BY DEF PushesOne, TypeOK

LEMMA PopProposed ==
    ASSUME TypeOK, NEW q \in Queues, CanPop(q), pops' = [pops EXCEPT ![q] = @ + 1]
    PROVE  /\ PopsOne(q)
           /\ \A r \in Queues \ {q} : pops'[r] = pops[r]
  BY DEF PopsOne, TypeOK

(* Sets of objects with a value are finite. *)
LEMMA PlacesFinite ==
    /\ IsFiniteSet(HoldingNext) /\ IsFiniteSet(InboxNext) /\ IsFiniteSet(OutboxNext)
    /\ IsFiniteSet(Holding) /\ IsFiniteSet(Filled(inbox, Ingress))
    /\ IsFiniteSet(Filled(outbox, Egress))
<1> DEFINE all == Queues \cup Takers \cup Putters
<1>1. IsFiniteSet(all)
  BY TopologyAssumption
<1>2. \A T \in SUBSET all : IsFiniteSet(T)
  BY <1>1, FS_Subset
<1>3. Processes \subseteq all /\ Ingress \subseteq all /\ Egress \subseteq all
  BY DEF Takers, Putters
<1> HIDE DEF all
<1> QED
  BY <1>2, <1>3 DEF HoldingNext, InboxNext, OutboxNext, Holding, Filled

(* On a queue nobody has touched in this tick, the snapshot checks of a link
   and the checks of the proposal itself agree. *)
LEMMA Untouched ==
    ASSUME TypeOK, NEW q \in Queues
    PROVE  /\ pops[q] = 0 => (CanPop(q) <=> committed[q] # <<>>)
           /\ pushes[q] = <<>> => (CanPush(q) <=> ~IsFull(q))
<1>1. PICK c \in Seq(Payload), m \in Nat, n \in Nat, room \in Nat :
         c = committed[q] /\ m = Len(committed[q]) /\ n = Len(pushes[q]) /\ room = Room(q)
  BY QueueTyped, RoomPositive
<1>2. c # <<>> <=> Len(c) # 0
  OBVIOUS
<1>3. c # <<>> <=> 0 < m
  BY <1>1, <1>2
<1>4. pops[q] = 0 => (CanPop(q) <=> 0 < m)
  BY <1>1 DEF CanPop
<1>5. pushes[q] = <<>> => n = 0
  BY <1>1
<1>6. CanPush(q) <=> m + n < room
  BY <1>1 DEF CanPush
<1>7. IsFull(q) <=> m >= room
  BY <1>1 DEF IsFull
<1>8. pushes[q] = <<>> => (CanPush(q) <=> ~IsFull(q))
  BY <1>5, <1>6, <1>7
<1> QED
  BY <1>1, <1>3, <1>4, <1>8

(* A value that leaves one place and enters another is still counted once. *)
LEMMA ConservedStep ==
    ASSUME TypeOK, NoOverflow, ConservedNext, inflight' = inflight,
           \/ ValuesNext' = ValuesNext /\ HoldingNext' = HoldingNext
              /\ InboxNext' = InboxNext /\ OutboxNext' = OutboxNext
           \/ ValuesNext' = ValuesNext + 1 /\ InboxNext' = InboxNext /\ OutboxNext' = OutboxNext
              /\ Cardinality(HoldingNext') = Cardinality(HoldingNext) - 1
           \/ ValuesNext' = ValuesNext - 1 /\ InboxNext' = InboxNext /\ OutboxNext' = OutboxNext
              /\ Cardinality(HoldingNext') = Cardinality(HoldingNext) + 1
           \/ ValuesNext' = ValuesNext + 1 /\ HoldingNext' = HoldingNext /\ OutboxNext' = OutboxNext
              /\ Cardinality(InboxNext') = Cardinality(InboxNext) - 1
           \/ ValuesNext' = ValuesNext - 1 /\ HoldingNext' = HoldingNext /\ InboxNext' = InboxNext
              /\ Cardinality(OutboxNext') = Cardinality(OutboxNext) + 1
    PROVE  ConservedNext'
<1>1. /\ IsFiniteSet(HoldingNext) /\ IsFiniteSet(InboxNext) /\ IsFiniteSet(OutboxNext)
      /\ ValuesNext \in Nat
  BY PlacesFinite, LengthNextTyped
<1>2. PICK a \in Nat, b \in Nat, c \in Nat, d \in Nat :
         /\ a = ValuesNext /\ b = Cardinality(HoldingNext) /\ c = Cardinality(InboxNext)
         /\ d = Cardinality(OutboxNext) /\ inflight = a + b + c + d
  BY <1>1, FS_CardinalityType DEF ConservedNext
<1>3. inflight = ValuesNext' + Cardinality(HoldingNext') + Cardinality(InboxNext')
                 + Cardinality(OutboxNext')
  BY <1>2
<1> QED
  BY <1>3 DEF ConservedNext

(* QueueLink::doWork keeps the invariant: neither side can refuse the pair. *)
LEMMA LinkWorkInv ==
    ASSUME DataflowInv, NEW l \in todo, LinkWork(l)
    PROVE  DataflowInv'
<1> USE DEF DataflowInv
<1> DEFINE s == From[l]
           d == To[l]
<1>1. l \in Links /\ phase = "work" /\ todo' = todo \ {l} /\ fault = ""
  BY DEF LinkWork, Turn
<1>2. s \in Queues /\ d \in Queues
  BY <1>1, EndsTyped
<1>3. /\ UNCHANGED <<committed, proc, proposal, inbox, offered, outbox, taking>>
      /\ UNCHANGED <<ready, phase, sent, got, inflight>>
  BY DEF LinkWork, hostVars, labelVars
<1>4. pops[s] = 0 /\ pushes[d] = <<>>
  BY <1>1 DEF Structure, LinkSides
<1>5. committed[s] # <<>> /\ ~IsFull(d) => CanPop(s) /\ CanPush(d)
  BY <1>2, <1>4, Untouched
<1>6. fault' = ""
  BY <1>1, <1>5 DEF LinkWork
<1>7. ASSUME NEW x \in Links \ {l}
      PROVE  From[x] # s /\ To[x] # d /\ From[x] \in Queues /\ To[x] \in Queues
  BY <1>1, <1>7, LinkAssumption, EndsTyped DEF Takers, Putters
<1>8. l \notin Processes
  BY <1>1, TopologyAssumption
<1>9. CASE committed[s] = <<>> \/ IsFull(d)
  <2>1. UNCHANGED <<pushes, pops, moving, fault>>
    BY <1>9 DEF LinkWork
  <2>2. WorkBy(l)
    BY <1>1, <1>3, <2>1 DEF WorkBy, Proposes, labelVars
  <2>3. TypeOK'
    BY <1>1, <1>3, <2>1 DEF TypeOK
  <2>4. LinkStands(l)'
    <3>1. IsFull(d)' <=> IsFull(d)
      BY <1>3 DEF IsFull, Room
    <3> QED
      BY <1>3, <1>9, <3>1 DEF LinkStands
  <2>5. ConservedNext'
    BY <1>3, <2>1 DEF Accounts, ConservedNext, ValuesNext, LengthNext, HoldingNext, Continuation,
                  Stepped, InboxNext, OutboxNext
  <2> QED
    BY <1>6, <1>8, <2>2, <2>3, <2>4, <2>5, WorkKeeps DEF Standing, Accounts
<1>10. CASE ~(committed[s] = <<>> \/ IsFull(d))
  <2>1. /\ pushes' = [pushes EXCEPT ![d] = Append(@, Front(s))]
        /\ pops' = [pops EXCEPT ![s] = @ + 1]
        /\ moving' = [moving EXCEPT ![l] = TRUE]
    BY <1>5, <1>10 DEF LinkWork
  <2>2. CanPop(s) /\ CanPush(d) /\ Front(s) \in Payload
    BY <1>2, <1>5, <1>10, FrontTyped
  <2>3. PushesOne(d, Front(s)) /\ \A r \in Queues \ {d} : pushes'[r] = pushes[r]
    BY <1>2, <2>1, <2>2, PushProposed
  <2>4. PopsOne(s) /\ \A r \in Queues \ {s} : pops'[r] = pops[r]
    BY <1>2, <2>1, <2>2, PopProposed
  <2>5. Proposes
    BY <1>2, <1>3, <2>2, <2>3, <2>4 DEF Proposes
  <2>6. \A x \in Links \ {l} : moving'[x] = moving[x]
    BY <2>1 DEF TypeOK
  <2>7. WorkBy(l)
    BY <1>1, <1>3, <1>7, <2>3, <2>4, <2>5, <2>6 DEF WorkBy, labelVars
  <2>8. TypeOK'
    <3>1. moving' \in [Links -> BOOLEAN]
      BY <2>1 DEF TypeOK
    <3>2. pushes' \in [Queues -> Seq(Payload)] /\ pops' \in [Queues -> Nat]
      BY <2>7, WorkKeeps
    <3> QED
      BY <1>1, <1>3, <1>6, <3>1, <3>2 DEF TypeOK
  <2>9. LinkStands(l)'
    BY <1>1, <2>1 DEF LinkStands, TypeOK
  <2>10. ConservedNext'
    <3>1. ValuesNext' = ValuesNext
      BY <1>3, <2>3, <2>4, MoveCounts
    <3>2. HoldingNext' = HoldingNext /\ InboxNext' = InboxNext /\ OutboxNext' = OutboxNext
      BY <1>3 DEF HoldingNext, Continuation, Stepped, InboxNext, OutboxNext
    <3> QED
      BY <1>3, <3>1, <3>2 DEF Accounts, ConservedNext
  <2> QED
    BY <1>6, <1>8, <2>7, <2>8, <2>9, <2>10, WorkKeeps DEF Standing, Accounts
<1> QED
  BY <1>9, <1>10

(* The proposed continuation of a process is what the barrier will commit. *)
LEMMA SlotCounts ==
    ASSUME TypeOK, NEW p \in Processes, proposal[p] = NoProposal, proc' = proc,
           NEW r \in Continuations, r.status = "Suspended",
           proposal' = [proposal EXCEPT ![p] = r]
    PROVE  /\ r.held # Nothing /\ proc[p].held = Nothing =>
                 Cardinality(HoldingNext') = Cardinality(HoldingNext) + 1
           /\ r.held = Nothing /\ proc[p].held # Nothing =>
                 Cardinality(HoldingNext') = Cardinality(HoldingNext) - 1
           /\ (r.held = Nothing <=> proc[p].held = Nothing) => HoldingNext' = HoldingNext
<1>1. r # NoProposal
  BY DEF NoProposal, Entry
<1>2. Continuation(p) = proc[p] /\ Continuation(p)' = r
  BY <1>1 DEF Continuation, Stepped, TypeOK
<1>3. \A x \in Processes \ {p} : Continuation(x)' = Continuation(x)
  BY DEF Continuation, Stepped, TypeOK
<1>4. HoldingNext' = IF r.held # Nothing THEN HoldingNext \cup {p} ELSE HoldingNext \ {p}
  BY <1>2, <1>3 DEF HoldingNext
<1>5. p \in HoldingNext <=> proc[p].held # Nothing
  BY <1>2 DEF HoldingNext
<1>6. IsFiniteSet(HoldingNext)
  BY PlacesFinite
<1> QED
  BY <1>4, <1>5, <1>6, FS_AddElement, FS_RemoveElement

(* What the turn of a process has to show beyond the frame of a Work step. *)
LEMMA ProcessTurn ==
    ASSUME DataflowInv, NEW p \in todo, ProcessWork(p), Proposes,
           \A r \in Queues \ {From[p]} : pops'[r] = pops[r],
           \A r \in Queues \ {To[p]} : pushes'[r] = pushes[r],
           NEW r \in Continuations, r.status = "Suspended", SlotExact(r),
           proposal' = [proposal EXCEPT ![p] = r], Refused(p)',
           ConservedNext'
    PROVE  DataflowInv'
<1> USE DEF DataflowInv
<1>1. p \in Processes /\ phase = "work" /\ todo' = todo \ {p} /\ fault' = ""
  BY DEF ProcessWork, Turn
<1>2. /\ UNCHANGED <<committed, moving, proc, inbox, offered, outbox, taking>>
      /\ UNCHANGED <<ready, phase, fault, sent, got, inflight>>
  BY DEF ProcessWork, hostVars, labelVars
<1>3. ASSUME NEW x \in Links
      PROVE  /\ From[x] # From[p] /\ To[x] # To[p] /\ x # p
             /\ From[x] \in Queues /\ To[x] \in Queues
  BY <1>1, TopologyAssumption, LinkAssumption, EndsTyped DEF Takers, Putters
<1>4. WorkBy(p)
  <2>1. \A x \in Processes \ {p} : proposal'[x] = proposal[x]
    BY DEF TypeOK
  <2> QED
    BY <1>1, <1>2, <1>3, <2>1 DEF WorkBy, labelVars
<1>5. TypeOK'
  <2>1. proposal' \in [Processes -> Continuations]
    BY DEF TypeOK
  <2>2. pushes' \in [Queues -> Seq(Payload)] /\ pops' \in [Queues -> Nat]
    BY <1>4, WorkKeeps
  <2> QED
    BY <1>1, <1>2, <2>1, <2>2 DEF TypeOK
<1>6. ProcessStands(p)'
  <2>1. proposal'[p] = r /\ r # NoProposal
    BY <1>1 DEF TypeOK, NoProposal, Entry
  <2>2. SlotExact(proc[p])
    BY <1>1 DEF Standing, ProcessStands
  <2> QED
    BY <1>1, <1>2, <2>1, <2>2 DEF ProcessStands, SlotExact
<1> QED
  BY <1>1, <1>3, <1>4, <1>5, <1>6, WorkKeeps DEF Standing, Accounts

(* An empty slot is no payload. *)
LEMMA NothingIsNoPayload == Nothing \notin Payload
  BY CapacityAssumption DEF Nothing, Payload

(* A process that waits to receive has an empty slot. *)
LEMMA ReceiverTyped ==
    ASSUME NEW wake \in Queues \cup Processes, NEW r, r = Resume("recv", Nothing, wake)
    PROVE  /\ r \in Continuations /\ r.status = "Suspended" /\ SlotExact(r)
           /\ r.pc = "recv" /\ r.held = Nothing /\ r.wake = wake
  BY DEF Resume, Continuations, SlotExact

(* ProcessRuntime::doWork keeps the invariant. *)
LEMMA ProcessWorkInv ==
    ASSUME DataflowInv, NEW p \in todo, ProcessWork(p)
    PROVE  DataflowInv'
<1> USE DEF DataflowInv
<1> DEFINE i == From[p]
           o == To[p]
           receives == proc[p].pc = "recv"
           held == IF receives THEN Front(i) ELSE proc[p].held
<1>1. p \in Processes /\ phase = "work" /\ todo' = todo \ {p}
  BY DEF ProcessWork, Turn
<1>2. /\ UNCHANGED <<committed, proc, inbox, offered, outbox, taking, inflight>>
  BY DEF ProcessWork, hostVars, labelVars
<1>3. i \in Queues /\ o \in Queues
  BY <1>1, EndsTyped
<1>4. /\ proposal[p] = NoProposal /\ SlotExact(proc[p])
      /\ proc[p].pc \in {"recv", "send"} /\ proc[p].held \in Payload \cup {Nothing}
  BY <1>1 DEF Standing, ProcessStands, TypeOK, Continuations
<1>5. InboxNext' = InboxNext /\ OutboxNext' = OutboxNext
  BY <1>2 DEF InboxNext, OutboxNext
<1>7. ASSUME NEW r \in Continuations, r.status = "Suspended",
             proposal' = [proposal EXCEPT ![p] = r]
      PROVE  proposal'[p] = r
  BY <1>1, <1>7 DEF TypeOK
<1>8. CASE receives /\ ~CanPop(i) /\ UNCHANGED <<pushes, pops>>
           /\ proposal' = [proposal EXCEPT ![p] = Resume("recv", Nothing, i)]
  <2> DEFINE r == Resume("recv", Nothing, i)
  <2>1. r \in Continuations /\ r.status = "Suspended" /\ SlotExact(r) /\ r.pc = "recv"
        /\ r.held = Nothing /\ r.wake = i
    BY <1>3, ReceiverTyped
  <2> HIDE DEF r
  <2>2. proposal' = [proposal EXCEPT ![p] = r]
    BY <1>8 DEF r
  <2>3. Refused(p)'
    BY <1>2, <1>7, <1>8, <2>1, <2>2 DEF Refused, CanPop
  <2>4. HoldingNext' = HoldingNext
    BY <1>1, <1>2, <1>4, <1>8, <2>1, <2>2, SlotCounts DEF SlotExact
  <2>5. ValuesNext' = ValuesNext
    BY <1>2, <1>8 DEF ValuesNext, LengthNext
  <2>6. ConservedNext'
    BY <1>2, <1>5, <2>4, <2>5, ConservedStep DEF Accounts
  <2>7. Proposes
    BY <1>2, <1>8 DEF Proposes
  <2> QED
    BY <1>8, <2>1, <2>2, <2>3, <2>6, <2>7, ProcessTurn
<1>9. CASE /\ receives => CanPop(i)
           /\ pops' = IF receives THEN [pops EXCEPT ![i] = @ + 1] ELSE pops
           /\ CanPush(o)
           /\ pushes' = [pushes EXCEPT ![o] = Append(@, held)]
           /\ proposal' = [proposal EXCEPT ![p] = Resume("recv", Nothing, p)]
  <2> DEFINE r == Resume("recv", Nothing, p)
  <2>1. r \in Continuations /\ r.status = "Suspended" /\ SlotExact(r) /\ r.pc = "recv"
        /\ r.held = Nothing /\ r.wake = p
    BY <1>1, ReceiverTyped
  <2> HIDE DEF r
  <2>2. proposal' = [proposal EXCEPT ![p] = r]
    BY <1>9 DEF r
  <2>3. Refused(p)'
    BY <1>7, <2>1, <2>2 DEF Refused
  <2>4. held \in Payload
    BY <1>3, <1>4, <1>9, FrontTyped, NothingIsNoPayload DEF SlotExact
  <2> HIDE DEF held
  <2>5. PushesOne(o, held) /\ \A x \in Queues \ {o} : pushes'[x] = pushes[x]
    BY <1>3, <1>9, <2>4, PushProposed
  <2>6. CASE receives
    <3>1. PopsOne(i) /\ \A x \in Queues \ {i} : pops'[x] = pops[x]
      BY <1>3, <1>9, <2>6, PopProposed
    <3>2. ValuesNext' = ValuesNext
      BY <1>2, <2>5, <3>1, MoveCounts
    <3>3. HoldingNext' = HoldingNext
      BY <1>1, <1>2, <1>4, <2>1, <2>2, <2>6, SlotCounts DEF SlotExact
    <3>4. ConservedNext'
      BY <1>2, <1>5, <3>2, <3>3, ConservedStep DEF Accounts
    <3>5. Proposes
      BY <1>2, <1>3, <2>4, <2>5, <3>1 DEF Proposes
    <3> QED
      BY <2>1, <2>2, <2>3, <2>5, <3>1, <3>4, <3>5, ProcessTurn
  <2>7. CASE ~receives
    <3>1. pops' = pops
      BY <1>9, <2>7
    <3>2. ValuesNext' = ValuesNext + 1
      BY <1>2, <2>5, <3>1, PushCounts
    <3>3. Cardinality(HoldingNext') = Cardinality(HoldingNext) - 1
      BY <1>1, <1>2, <1>4, <2>1, <2>2, <2>7, SlotCounts DEF SlotExact
    <3>4. ConservedNext'
      BY <1>2, <1>5, <3>2, <3>3, ConservedStep DEF Accounts
    <3>5. Proposes
      BY <1>2, <1>3, <2>4, <2>5, <3>1 DEF Proposes
    <3> QED
      BY <2>1, <2>2, <2>3, <2>5, <3>1, <3>4, <3>5, ProcessTurn
  <2> QED
    BY <2>6, <2>7
<1>10. CASE /\ receives => CanPop(i)
            /\ pops' = IF receives THEN [pops EXCEPT ![i] = @ + 1] ELSE pops
            /\ ~CanPush(o)
            /\ pushes' = pushes
            /\ proposal' = [proposal EXCEPT ![p] = Resume("send", held, o)]
  <2> DEFINE r == Resume("send", held, o)
  <2>4. held \in Payload
    BY <1>3, <1>4, <1>10, FrontTyped, NothingIsNoPayload DEF SlotExact
  <2> HIDE DEF held
  <2>1. r \in Continuations /\ r.status = "Suspended" /\ SlotExact(r) /\ r.pc = "send"
        /\ r.held = held /\ r.wake = o
    <3>1. PICK v \in Payload : v = held
      BY <2>4
    <3>2. r = [pc |-> "send", held |-> v, wake |-> o, status |-> "Suspended"]
      BY <3>1 DEF Resume
    <3>3. v # Nothing /\ o \in Queues
      BY <1>3, NothingIsNoPayload
    <3> HIDE DEF r, o
    <3> QED
      BY <3>1, <3>2, <3>3 DEF SlotExact, Continuations
  <2> HIDE DEF r
  <2>2. proposal' = [proposal EXCEPT ![p] = r]
    BY <1>10 DEF r
  <2>3. Refused(p)'
    BY <1>2, <1>7, <1>10, <2>1, <2>2 DEF Refused, CanPush, Room
  <2>5. r.held # Nothing
    BY <2>1, <2>4, NothingIsNoPayload
  <2>6. CASE receives
    <3>1. PopsOne(i) /\ \A x \in Queues \ {i} : pops'[x] = pops[x]
      BY <1>3, <1>10, <2>6, PopProposed
    <3>2. ValuesNext' = ValuesNext - 1
      BY <1>2, <1>10, <3>1, PopCounts
    <3>3. Cardinality(HoldingNext') = Cardinality(HoldingNext) + 1
      BY <1>1, <1>2, <1>4, <2>1, <2>2, <2>5, <2>6, SlotCounts DEF SlotExact
    <3>4. ConservedNext'
      BY <1>2, <1>5, <3>2, <3>3, ConservedStep DEF Accounts
    <3>5. Proposes
      BY <1>2, <1>3, <1>10, <3>1 DEF Proposes
    <3> QED
      BY <1>10, <2>1, <2>2, <2>3, <3>1, <3>4, <3>5, ProcessTurn
  <2>7. CASE ~receives
    <3>1. pops' = pops
      BY <1>10, <2>7
    <3>2. ValuesNext' = ValuesNext
      BY <1>2, <1>10, <3>1 DEF ValuesNext, LengthNext
    <3>3. HoldingNext' = HoldingNext
      BY <1>1, <1>2, <1>4, <2>1, <2>2, <2>5, <2>7, SlotCounts DEF SlotExact
    <3>4. ConservedNext'
      BY <1>2, <1>5, <3>2, <3>3, ConservedStep DEF Accounts
    <3>5. Proposes
      BY <1>2, <1>10, <3>1 DEF Proposes
    <3> QED
      BY <1>10, <2>1, <2>2, <2>3, <3>1, <3>4, <3>5, ProcessTurn
  <2> QED
    BY <2>6, <2>7
<1> QED
  BY <1>8, <1>9, <1>10 DEF ProcessWork

(* HostIngress::doWork keeps the invariant. *)
LEMMA IngressWorkInv ==
    ASSUME DataflowInv, NEW i \in todo, IngressWork(i)
    PROVE  DataflowInv'
<1> USE DEF DataflowInv
<1> DEFINE q == To[i]
<1>1. i \in Ingress /\ phase = "work" /\ todo' = todo \ {i} /\ fault' = ""
  BY DEF IngressWork, Turn
<1>2. /\ UNCHANGED <<committed, pops, moving, proc, proposal, inbox, outbox, taking>>
      /\ UNCHANGED <<ready, phase, fault, sent, got, inflight>>
  BY DEF IngressWork, moverVars, labelVars
<1>3. q \in Queues /\ i \notin Links /\ i \notin Processes
  BY <1>1, EndsTyped, TopologyAssumption
<1>4. \A x \in Links : To[x] # q /\ To[x] \in Queues /\ From[x] \in Queues
  BY <1>1, <1>3, LinkAssumption, EndsTyped DEF Putters
<1>5. ASSUME Proposes, offered' \in [Ingress -> BOOLEAN], ConservedNext',
             \A r \in Queues \ {q} : pushes'[r] = pushes[r]
      PROVE  DataflowInv'
  <2>1. WorkBy(i)
    BY <1>1, <1>2, <1>4, <1>5 DEF WorkBy, labelVars
  <2>2. TypeOK'
    <3>1. pushes' \in [Queues -> Seq(Payload)] /\ pops' \in [Queues -> Nat]
      BY <2>1, WorkKeeps
    <3> QED
      BY <1>1, <1>2, <1>5, <3>1 DEF TypeOK
  <2> QED
    BY <1>1, <1>3, <1>5, <2>1, <2>2, WorkKeeps DEF Standing, Accounts
<1>6. HoldingNext' = HoldingNext /\ OutboxNext' = OutboxNext
  BY <1>2 DEF HoldingNext, Continuation, Stepped, OutboxNext
<1>7. CASE inbox[i] # Nothing /\ ~offered[i] /\ CanPush(q)
  <2>1. /\ pushes' = [pushes EXCEPT ![q] = Append(@, inbox[i])]
        /\ offered' = [offered EXCEPT ![i] = TRUE]
    BY <1>7 DEF IngressWork
  <2>2. inbox[i] \in Payload
    BY <1>1, <1>7 DEF TypeOK
  <2>3. PushesOne(q, inbox[i]) /\ \A r \in Queues \ {q} : pushes'[r] = pushes[r]
    BY <1>3, <1>7, <2>1, <2>2, PushProposed
  <2>4. Proposes
    BY <1>2, <1>3, <2>2, <2>3 DEF Proposes
  <2>5. ValuesNext' = ValuesNext + 1
    BY <1>2, <2>3, PushCounts
  <2>6. i \in InboxNext /\ InboxNext' = InboxNext \ {i}
    BY <1>1, <1>2, <1>7, <2>1 DEF InboxNext, TypeOK
  <2>7. Cardinality(InboxNext') = Cardinality(InboxNext) - 1
    BY <2>6, PlacesFinite, FS_RemoveElement
  <2>8. ConservedNext'
    BY <1>2, <1>6, <2>5, <2>7, ConservedStep DEF Accounts
  <2>9. offered' \in [Ingress -> BOOLEAN]
    BY <2>1 DEF TypeOK
  <2> QED
    BY <1>5, <2>3, <2>4, <2>8, <2>9
<1>8. CASE ~(inbox[i] # Nothing /\ ~offered[i] /\ CanPush(q))
  <2>1. UNCHANGED <<pushes, offered>>
    BY <1>8 DEF IngressWork
  <2>2. Proposes
    BY <1>2, <2>1 DEF Proposes
  <2>3. ValuesNext' = ValuesNext /\ InboxNext' = InboxNext
    BY <1>2, <2>1 DEF ValuesNext, LengthNext, InboxNext
  <2>4. ConservedNext'
    BY <1>2, <1>6, <2>3, ConservedStep DEF Accounts
  <2>5. offered' \in [Ingress -> BOOLEAN]
    BY <2>1 DEF TypeOK
  <2> QED
    BY <1>5, <2>1, <2>2, <2>4, <2>5
<1> QED
  BY <1>7, <1>8

(* HostEgress::doWork keeps the invariant. *)
LEMMA EgressWorkInv ==
    ASSUME DataflowInv, NEW e \in todo, EgressWork(e)
    PROVE  DataflowInv'
<1> USE DEF DataflowInv
<1> DEFINE q == From[e]
<1>1. e \in Egress /\ phase = "work" /\ todo' = todo \ {e} /\ fault' = ""
  BY DEF EgressWork, Turn
<1>2. /\ UNCHANGED <<committed, pushes, moving, proc, proposal, inbox, offered, outbox>>
      /\ UNCHANGED <<ready, phase, fault, sent, got, inflight>>
  BY DEF EgressWork, moverVars, labelVars
<1>3. q \in Queues /\ e \notin Links /\ e \notin Processes
  BY <1>1, EndsTyped, TopologyAssumption
<1>4. \A x \in Links : From[x] # q /\ To[x] \in Queues /\ From[x] \in Queues
  BY <1>1, <1>3, LinkAssumption, EndsTyped DEF Takers
<1>5. ASSUME Proposes, taking' \in [Egress -> Payload \cup {Nothing}], ConservedNext',
             \A r \in Queues \ {q} : pops'[r] = pops[r]
      PROVE  DataflowInv'
  <2>1. WorkBy(e)
    BY <1>1, <1>2, <1>4, <1>5 DEF WorkBy, labelVars
  <2>2. TypeOK'
    <3>1. pushes' \in [Queues -> Seq(Payload)] /\ pops' \in [Queues -> Nat]
      BY <2>1, WorkKeeps
    <3> QED
      BY <1>1, <1>2, <1>5, <3>1 DEF TypeOK
  <2> QED
    BY <1>1, <1>3, <1>5, <2>1, <2>2, WorkKeeps DEF Standing, Accounts
<1>6. HoldingNext' = HoldingNext /\ InboxNext' = InboxNext
  BY <1>2 DEF HoldingNext, Continuation, Stepped, InboxNext
<1>7. CASE outbox[e] = Nothing /\ taking[e] = Nothing /\ CanPop(q)
  <2>1. /\ taking' = [taking EXCEPT ![e] = Front(q)]
        /\ pops' = [pops EXCEPT ![q] = @ + 1]
    BY <1>7 DEF EgressWork
  <2>2. Front(q) \in Payload /\ Front(q) # Nothing
    BY <1>3, <1>7, FrontTyped, NothingIsNoPayload
  <2>3. PopsOne(q) /\ \A r \in Queues \ {q} : pops'[r] = pops[r]
    BY <1>3, <1>7, <2>1, PopProposed
  <2>4. Proposes
    BY <1>2, <1>3, <2>3 DEF Proposes
  <2>5. ValuesNext' = ValuesNext - 1
    BY <1>2, <2>3, PopCounts
  <2>6. e \notin OutboxNext /\ OutboxNext' = OutboxNext \cup {e}
    BY <1>1, <1>2, <1>7, <2>1, <2>2 DEF OutboxNext, TypeOK
  <2>7. Cardinality(OutboxNext') = Cardinality(OutboxNext) + 1
    BY <2>6, PlacesFinite, FS_AddElement
  <2>8. ConservedNext'
    BY <1>2, <1>6, <2>5, <2>7, ConservedStep DEF Accounts
  <2>9. taking' \in [Egress -> Payload \cup {Nothing}]
    BY <2>1, <2>2 DEF TypeOK
  <2> QED
    BY <1>5, <2>3, <2>4, <2>8, <2>9
<1>8. CASE ~(outbox[e] = Nothing /\ taking[e] = Nothing /\ CanPop(q))
  <2>1. UNCHANGED <<taking, pops>>
    BY <1>8 DEF EgressWork
  <2>2. Proposes
    BY <1>2, <2>1 DEF Proposes
  <2>3. ValuesNext' = ValuesNext /\ OutboxNext' = OutboxNext
    BY <1>2, <2>1 DEF ValuesNext, LengthNext, OutboxNext
  <2>4. ConservedNext'
    BY <1>2, <1>6, <2>3, ConservedStep DEF Accounts
  <2>5. taking' \in [Egress -> Payload \cup {Nothing}]
    BY <2>1 DEF TypeOK
  <2> QED
    BY <1>5, <2>1, <2>2, <2>4, <2>5
<1> QED
  BY <1>7, <1>8

-----------------------------------------------------------------------------
(* Between ticks *)

(* With nothing proposed, the barrier would leave what is there. *)
LEMMA IdleAccounts ==
    TypeOK /\ NothingProposed /\ phase = "idle" => (Conserved <=> ConservedNext)
<1> SUFFICES ASSUME TypeOK, NothingProposed, phase = "idle"
             PROVE  Conserved <=> ConservedNext
  OBVIOUS
<1>1. LengthNext = [q \in Queues |-> Len(committed[q])]
  <2>1. ASSUME NEW q \in Queues
        PROVE  Len(committed[q]) + Len(pushes[q]) - pops[q] = Len(committed[q])
    <3>1. pushes[q] = <<>> /\ pops[q] = 0
      BY DEF NothingProposed
    <3>2. Len(pushes[q]) = 0
      BY <3>1
    <3> QED
      BY <3>1, <3>2, QueueTyped
  <2> QED
    BY <2>1 DEF LengthNext
<1>2. HoldingNext = Holding
  BY DEF NothingProposed, HoldingNext, Holding, Continuation, Stepped
<1>3. InboxNext = Filled(inbox, Ingress)
  BY DEF NothingProposed, InboxNext, Filled
<1>4. OutboxNext = Filled(outbox, Egress)
  BY DEF NothingProposed, OutboxNext, Filled
<1> QED
  BY <1>1, <1>2, <1>3, <1>4 DEF Conserved, ConservedNext, ValuesNext, Stored

(* The same of the state after a step. *)
LEMMA IdleAccountsNext ==
    TypeOK' /\ NothingProposed' /\ phase' = "idle" => (Conserved' <=> ConservedNext')
<1>1. (TypeOK /\ NothingProposed /\ phase = "idle" => (Conserved <=> ConservedNext))'
  BY IdleAccounts, PTL
<1> QED
  BY <1>1

(* The barrier commits every proposal of the tick and wakes every object
   that the commit lets move. *)
LEMMA XferInv ==
    ASSUME DataflowInv, Xfer
    PROVE  DataflowInv'
<1> USE DEF DataflowInv
<1>1. phase = "work" /\ todo = {} /\ fault = "" /\ phase' = "idle" /\ todo' = {} /\ fault' = ""
  BY DEF Xfer
<1>2. \A p \in Processes : Continuation(p) \in Continuations
  BY DEF TypeOK, Continuation
<1>3. TypeOK'
  <2>1. committed' \in [Queues -> Seq(Payload)]
    BY XferLength DEF Xfer
  <2>2. pushes' \in [Queues -> Seq(Payload)] /\ pops' \in [Queues -> Nat]
    <3>1. <<>> \in Seq(Payload)
      BY EmptySeq
    <3> QED
      BY <3>1 DEF Xfer
  <2>3. proc' \in [Processes -> Continuations]
    <3>1. ASSUME NEW c \in Continuations
          PROVE  [c EXCEPT !.status = "Runnable", !.wake = Nothing] \in Continuations
      BY DEF Continuations
    <3>2. \A p \in Processes :
            [Continuation(p) EXCEPT !.status = "Runnable", !.wake = Nothing] \in Continuations
      BY <1>2, <3>1
    <3> QED
      BY <1>2, <3>2 DEF Xfer
  <2>4. proposal' \in [Processes -> Continuations]
    BY DEF Xfer, NoProposal, Entry, Continuations
  <2>5. /\ inbox' \in [Ingress -> Payload \cup {Nothing}] /\ offered' \in [Ingress -> BOOLEAN]
        /\ outbox' \in [Egress -> Payload \cup {Nothing}]
        /\ taking' \in [Egress -> Payload \cup {Nothing}] /\ moving' \in [Links -> BOOLEAN]
    BY DEF Xfer, TypeOK
  <2>6. ready' \subseteq Takers \cup Putters
    BY DEF Xfer, TypeOK, Takers, Putters
  <2>7. sent' = sent /\ got' = got /\ inflight' = inflight
    BY DEF Xfer, labelVars
  <2> QED
    BY <1>1, <2>1, <2>2, <2>3, <2>4, <2>5, <2>6, <2>7 DEF TypeOK
<1>4. NoOverflow'
  <2>1. ASSUME NEW q \in Queues
        PROVE  Len(committed'[q]) + Len(pushes'[q]) <= Room(q) /\ pops'[q] <= Len(committed'[q])
    <3>1. pushes'[q] = <<>> /\ pops'[q] = 0 /\ committed'[q] = AfterXfer(q)
      BY DEF Xfer
    <3>2. Len(pushes'[q]) = 0
      BY <3>1
    <3> QED
      BY <3>1, <3>2, XferFits
  <2> QED
    BY <2>1 DEF NoOverflow, Room
<1>5. NothingProposed'
  BY <1>1 DEF Xfer, NothingProposed
<1>6. WorkSnapshot' /\ LinkSides'
  BY <1>1 DEF WorkSnapshot, LinkSides
<1>7. \A p \in Processes : ProcessStands(p)'
  <2>1. ASSUME NEW p \in Processes PROVE ProcessStands(p)'
    <3>1. SlotExact(Continuation(p))
      BY DEF Continuation, Stepped, Standing, ProcessStands
    <3>2. proc'[p].pc = Continuation(p).pc /\ proc'[p].held = Continuation(p).held
      BY <1>2 DEF Xfer, Continuations
    <3>3. SlotExact(proc[p])'
      BY <3>1, <3>2 DEF SlotExact
    <3>4. proposal'[p] = NoProposal
      BY DEF Xfer
    <3> QED
      BY <1>1, <3>3, <3>4 DEF ProcessStands
  <2> QED
    BY <2>1
<1>8. \A l \in Links : LinkStands(l)'
  BY <1>1 DEF LinkStands
<1>9. ASSUME NEW q \in Queues, q \notin Changed
      PROVE  committed'[q] = committed[q] /\ pushes[q] = <<>> /\ pops[q] = 0
             /\ (IsFull(q)' <=> IsFull(q))
  <2>1. committed'[q] = committed[q]
    BY <1>9, XferLength DEF Xfer
  <2>2. pushes[q] = <<>> /\ pops[q] = 0
    BY <1>9 DEF Changed
  <2> QED
    BY <2>1, <2>2 DEF IsFull, Room
<1>10. NoLostWakeup'
  <2>1. ASSUME NEW p \in Processes, ~Activated(p)
        PROVE  /\ proc'[p].status = "Suspended"
               /\ \/ proc'[p].pc = "recv" /\ proc'[p].wake = From[p] /\ committed'[From[p]] = <<>>
                  \/ proc'[p].pc = "send" /\ proc'[p].wake = To[p] /\ IsFull(To[p])'
    <3>1. proc'[p] = Continuation(p) /\ From[p] \in Queues /\ To[p] \in Queues
      BY <2>1, EndsTyped DEF Xfer
    <3>2. \A s \in SourcesOf(p) : Continuation(p).wake # s
      BY <2>1 DEF Activated
    <3>3. CASE proposal[p] = NoProposal
      <4>1. Continuation(p) = proc[p] /\ Waits(p)
        BY <1>1, <3>3 DEF Continuation, Stepped, Standing, ProcessStands
      <4>2. Continuation(p).wake \notin Changed
        BY <3>2, <4>1 DEF SourcesOf, Waits
      <4> QED
        BY <3>1, <4>1, <4>2, <1>9 DEF Waits
    <3>4. CASE proposal[p] # NoProposal
      <4>1. Continuation(p) = proposal[p] /\ Refused(p)
        BY <1>1, <3>4 DEF Continuation, Stepped, Standing, ProcessStands
      <4>2. Continuation(p).wake # p
        BY <3>2, <3>4 DEF SourcesOf, Stepped
      <4>3. CASE proposal[p].pc = "recv" /\ proposal[p].wake = From[p] /\ ~CanPop(From[p])
        <5>1. From[p] \notin Changed
          BY <3>2, <4>1, <4>3 DEF SourcesOf
        <5>2. committed[From[p]] = <<>>
          BY <3>1, <4>3, <5>1, <1>9, Untouched
        <5> QED
          BY <3>1, <4>1, <4>3, <5>1, <5>2, <1>9 DEF Refused
      <4>4. CASE proposal[p].pc = "send" /\ proposal[p].wake = To[p] /\ ~CanPush(To[p])
        <5>1. To[p] \notin Changed
          BY <3>2, <4>1, <4>4 DEF SourcesOf
        <5>2. IsFull(To[p])
          BY <3>1, <4>4, <5>1, <1>9, Untouched
        <5> QED
          BY <3>1, <4>1, <4>4, <5>1, <5>2, <1>9 DEF Refused
      <4> QED
        BY <4>1, <4>2, <4>3, <4>4 DEF Refused
    <3> QED
      BY <3>3, <3>4
  <2>2. ASSUME NEW p \in Processes, p \in ready' PROVE proc'[p].status = "Runnable"
    <3>1. ready = Ingress
      BY <1>1 DEF Structure, WorkSnapshot
    <3>2. Activated(p)
      BY <2>2, <3>1, TopologyAssumption DEF Xfer
    <3>3. proc'[p] = [Continuation(p) EXCEPT !.status = "Runnable", !.wake = Nothing]
      BY <3>2 DEF Xfer
    <3> QED
      BY <1>2, <3>3 DEF Continuations
  <2>3. \A p \in Processes : p \notin ready' => ~Activated(p)
    BY DEF Xfer
  <2>4. ASSUME NEW l \in Links, l \notin ready'
        PROVE  committed'[From[l]] = <<>> \/ IsFull(To[l])'
    <3>1. ~moving[l] /\ From[l] \notin Changed /\ To[l] \notin Changed
      BY <2>4 DEF Xfer
    <3>2. committed[From[l]] = <<>> \/ IsFull(To[l])
      BY <1>1, <3>1 DEF Standing, LinkStands
    <3> QED
      BY <3>1, <3>2, <1>9, EndsTyped
  <2> QED
    BY <2>1, <2>2, <2>3, <2>4 DEF NoLostWakeup
<1>11. Conserved'
  <2>1. Stored' = Cells(LengthNext)
    <3>1. [q \in Queues |-> Len(committed'[q])] = LengthNext
      BY XferLength DEF Xfer, LengthNext
    <3> QED
      BY <3>1 DEF Stored, Cells
  <2>2. Holding' = HoldingNext
    <3>1. \A p \in Processes : proc'[p].held = Continuation(p).held
      BY <1>2 DEF Xfer, Continuations
    <3> QED
      BY <3>1 DEF Holding, HoldingNext
  <2>3. Filled(inbox, Ingress)' = InboxNext
    BY DEF Filled, InboxNext, Xfer, TypeOK
  <2>4. Filled(outbox, Egress)' = OutboxNext
    BY DEF Filled, OutboxNext, Xfer, TypeOK
  <2>5. ConservedNext /\ inflight' = inflight
    BY DEF Accounts, Xfer, labelVars
  <2> QED
    BY <2>1, <2>2, <2>3, <2>4, <2>5 DEF Conserved, ConservedNext, ValuesNext
<1>12. ConservedNext'
  BY <1>1, <1>3, <1>5, <1>11, IdleAccountsNext
<1> QED
  BY <1>1, <1>3, <1>4, <1>5, <1>6, <1>7, <1>8, <1>10, <1>11, <1>12
     DEF Structure, Standing, Accounts

(* Model::stepTick begins a tick with every object that can move. *)
LEMMA StepTickInv ==
    ASSUME DataflowInv, StepTick
    PROVE  DataflowInv'
<1> USE DEF DataflowInv
<1>1. /\ phase = "idle" /\ todo' = ready \cup Ingress \cup Egress /\ ready' = Ingress
      /\ phase' = "work" /\ fault = "" /\ fault' = ""
  BY DEF StepTick
<1>2. /\ UNCHANGED <<committed, pushes, pops, moving, proc, proposal, inbox, offered, outbox>>
      /\ UNCHANGED <<taking, sent, got, inflight>>
  BY DEF StepTick, queueVars, moverVars, hostVars, labelVars
<1>3. TypeOK'
  BY <1>1, <1>2 DEF TypeOK, Takers, Putters
<1>4. NoOverflow'
  BY <1>2 DEF NoOverflow, Room
<1>5. Structure'
  <2>1. NothingProposed' /\ WorkSnapshot'
    BY <1>1 DEF NothingProposed, WorkSnapshot
  <2>2. LinkSides'
    BY <1>1, <1>2, EndsTyped DEF LinkSides, Structure, NothingProposed
  <2> QED
    BY <2>1, <2>2 DEF Structure
<1>6. NoLostWakeup'
  BY <1>1 DEF NoLostWakeup
<1>7. ASSUME NEW p \in Processes PROVE ProcessStands(p)'
  <2>1. proposal[p] = NoProposal /\ SlotExact(proc[p])
    BY <1>1 DEF Structure, NothingProposed, Standing, ProcessStands
  <2>2. p \in todo' <=> p \in ready
    BY <1>1, TopologyAssumption
  <2>3. CASE p \in ready
    BY <1>1, <1>2, <2>1, <2>2, <2>3 DEF ProcessStands, NoLostWakeup, SlotExact
  <2>4. CASE p \notin ready
    <3>1. Waits(p)
      BY <1>1, <2>4 DEF NoLostWakeup, Waits
    <3>2. Waits(p)'
      BY <1>2, <3>1 DEF Waits, IsFull, Room
    <3> QED
      BY <1>1, <1>2, <2>1, <2>2, <2>4, <3>2 DEF ProcessStands, SlotExact
  <2> QED
    BY <2>3, <2>4
<1>8. ASSUME NEW l \in Links PROVE LinkStands(l)'
  <2>1. l \notin ready => committed[From[l]] = <<>> \/ IsFull(To[l])
    BY <1>1 DEF NoLostWakeup
  <2> QED
    BY <1>1, <1>2, <2>1 DEF LinkStands, IsFull, Room
<1>9. Conserved' /\ ConservedNext'
  BY <1>2 DEF Accounts, Conserved, ConservedNext, Stored, Holding, Filled, ValuesNext, LengthNext,
              HoldingNext, Continuation, Stepped, InboxNext, OutboxNext
<1> QED
  BY <1>1, <1>3, <1>4, <1>5, <1>6, <1>7, <1>8, <1>9 DEF Standing, Accounts

(* What the host does between ticks leaves the queues and the objects alone. *)
LEMMA HostKeeps ==
    ASSUME DataflowInv, phase = "idle", phase' = phase, fault' = fault, TypeOK', Conserved',
           UNCHANGED <<committed, pushes, pops, moving, proc, proposal>>,
           UNCHANGED <<offered, taking, ready, todo>>
    PROVE  DataflowInv'
<1> USE DEF DataflowInv
<1>1. NoOverflow'
  BY DEF NoOverflow, Room
<1>2. NothingProposed' /\ WorkSnapshot' /\ LinkSides'
  BY DEF Structure, NothingProposed, WorkSnapshot, LinkSides
<1>3. ASSUME NEW p \in Processes PROVE ProcessStands(p)'
  BY DEF Standing, ProcessStands, SlotExact
<1>4. ASSUME NEW l \in Links PROVE LinkStands(l)'
  BY DEF LinkStands
<1>5. NoLostWakeup'
  BY DEF NoLostWakeup, IsFull, Room
<1>6. ConservedNext'
  BY <1>2, IdleAccountsNext
<1> QED
  BY <1>1, <1>2, <1>3, <1>4, <1>5, <1>6 DEF Structure, Standing, Accounts

(* The next label is a label. *)
LEMMA NextLabel ==
    ASSUME NEW v \in Payload
    PROVE  (v + 1) % Labels \in Payload
  BY CapacityAssumption DEF Payload

(* The host's count follows the mailbox it fills or empties. *)
LEMMA ConservedHostStep ==
    ASSUME TypeOK, Conserved, Stored' = Stored, Holding' = Holding,
           \/ /\ inflight' = inflight + 1 /\ Filled(outbox, Egress)' = Filled(outbox, Egress)
              /\ Cardinality(Filled(inbox, Ingress)') = Cardinality(Filled(inbox, Ingress)) + 1
           \/ /\ inflight' = inflight - 1 /\ Filled(inbox, Ingress)' = Filled(inbox, Ingress)
              /\ Cardinality(Filled(outbox, Egress)) # 0
              /\ Cardinality(Filled(outbox, Egress)') = Cardinality(Filled(outbox, Egress)) - 1
    PROVE  Conserved' /\ inflight' \in Nat
<1>1. IsFiniteSet(Stored)
  <2>1. [q \in Queues |-> Len(committed[q])] \in [Queues -> Nat]
    BY QueueTyped
  <2> QED
    BY <2>1, CellsFinite DEF Stored
<1>2. PICK a \in Nat, b \in Nat, c \in Nat, d \in Nat :
         /\ a = Cardinality(Stored) /\ b = Cardinality(Holding)
         /\ c = Cardinality(Filled(inbox, Ingress)) /\ d = Cardinality(Filled(outbox, Egress))
         /\ inflight = a + b + c + d
  BY <1>1, PlacesFinite, FS_CardinalityType DEF Conserved
<1>3. PICK x, y : x = Filled(inbox, Ingress)' /\ y = Filled(outbox, Egress)'
  OBVIOUS
<1>4. inflight' = a + b + Cardinality(x) + Cardinality(y) /\ inflight' \in Nat
  <2>1. CASE inflight' = inflight + 1 /\ Cardinality(x) = c + 1 /\ Cardinality(y) = d
    BY <1>2, <2>1
  <2>2. CASE inflight' = inflight - 1 /\ Cardinality(x) = c /\ d # 0 /\ Cardinality(y) = d - 1
    BY <1>2, <2>2
  <2> QED
    BY <1>2, <1>3, <2>1, <2>2
<1> QED
  BY <1>2, <1>3, <1>4 DEF Conserved

(* HostIngress::stage adds one value. *)
LEMMA StageInv ==
    ASSUME DataflowInv, NEW i \in Ingress, Stage(i)
    PROVE  DataflowInv'
<1> USE DEF DataflowInv
<1>1. /\ phase = "idle" /\ inbox[i] = Nothing /\ inbox' = [inbox EXCEPT ![i] = sent]
      /\ sent' = (sent + 1) % Labels /\ inflight' = inflight + 1
  BY DEF Stage
<1>2. /\ UNCHANGED <<committed, pushes, pops, moving, proc, proposal, offered, outbox, taking>>
      /\ UNCHANGED <<ready, todo, phase, fault, got>>
  BY DEF Stage, queueVars, moverVars
<1>3. Conserved' /\ inflight' \in Nat
  <2>1. /\ i \notin Filled(inbox, Ingress)
        /\ Filled(inbox, Ingress)' = Filled(inbox, Ingress) \cup {i}
    BY <1>1, NothingIsNoPayload DEF Filled, TypeOK
  <2>2. Cardinality(Filled(inbox, Ingress)') = Cardinality(Filled(inbox, Ingress)) + 1
    BY <2>1, PlacesFinite, FS_AddElement
  <2>3. /\ Stored' = Stored /\ Holding' = Holding
        /\ Filled(outbox, Egress)' = Filled(outbox, Egress)
    BY <1>2 DEF Stored, Holding, Filled
  <2> QED
    BY <1>1, <2>2, <2>3, ConservedHostStep DEF Accounts
<1>4. TypeOK'
  <2>1. sent \in Payload
    BY DEF TypeOK
  <2>2. sent' \in Payload
    BY <1>1, <2>1, NextLabel
  <2>3. inbox' \in [Ingress -> Payload \cup {Nothing}]
    BY <1>1 DEF TypeOK
  <2> QED
    BY <1>2, <1>3, <2>2, <2>3 DEF TypeOK
<1> QED
  BY <1>1, <1>2, <1>3, <1>4, HostKeeps

(* HostEgress::take removes one value. *)
LEMMA TakeInv ==
    ASSUME DataflowInv, NEW e \in Egress, Take(e)
    PROVE  DataflowInv'
<1> USE DEF DataflowInv
<1>1. /\ phase = "idle" /\ outbox[e] # Nothing /\ outbox' = [outbox EXCEPT ![e] = Nothing]
      /\ got' = (outbox[e] + 1) % Labels /\ inflight' = inflight - 1
  BY DEF Take
<1>2. /\ UNCHANGED <<committed, pushes, pops, moving, proc, proposal, inbox, offered, taking>>
      /\ UNCHANGED <<ready, todo, phase, fault, sent>>
  BY DEF Take, queueVars, moverVars
<1>3. Conserved' /\ inflight' \in Nat
  <2>1. /\ e \in Filled(outbox, Egress)
        /\ Filled(outbox, Egress)' = Filled(outbox, Egress) \ {e}
    BY <1>1 DEF Filled, TypeOK
  <2>2. Cardinality(Filled(outbox, Egress)') = Cardinality(Filled(outbox, Egress)) - 1
    BY <2>1, PlacesFinite, FS_RemoveElement
  <2>3. /\ Stored' = Stored /\ Holding' = Holding
        /\ Filled(inbox, Ingress)' = Filled(inbox, Ingress)
    BY <1>2 DEF Stored, Holding, Filled
  <2>4. Cardinality(Filled(outbox, Egress)) # 0
    BY <2>1, PlacesFinite, FS_EmptySet
  <2> QED
    BY <1>1, <2>2, <2>3, <2>4, ConservedHostStep DEF Accounts
<1>4. TypeOK'
  <2>1. outbox[e] \in Payload
    BY <1>1 DEF TypeOK
  <2>2. got' \in Payload
    BY <1>1, <2>1, NextLabel
  <2>3. outbox' \in [Egress -> Payload \cup {Nothing}]
    BY <1>1 DEF TypeOK
  <2> QED
    BY <1>2, <1>3, <2>2, <2>3 DEF TypeOK
<1> QED
  BY <1>1, <1>2, <1>3, <1>4, HostKeeps

-----------------------------------------------------------------------------
(* The theorems *)

(* A fresh model, after construction and after Model::reset. *)
LEMMA InitInv == Init => DataflowInv
<1> SUFFICES ASSUME Init PROVE DataflowInv
  OBVIOUS
<1>1. TypeOK
  <2>1. <<>> \in Seq(Payload)
    BY EmptySeq
  <2>2. 0 \in Payload
    BY CapacityAssumption DEF Payload
  <2>3. Entry \in Continuations /\ NoProposal \in Continuations
    BY DEF Entry, NoProposal, Continuations
  <2> QED
    BY <2>1, <2>2, <2>3 DEF Init, TypeOK, Takers, Putters
<1>2. NoOverflow
  <2>1. ASSUME NEW q \in Queues
        PROVE  Len(committed[q]) + Len(pushes[q]) <= Room(q) /\ pops[q] <= Len(committed[q])
    <3>1. Len(committed[q]) = 0 /\ Len(pushes[q]) = 0 /\ pops[q] = 0
      BY DEF Init
    <3>2. PICK room \in Nat : room = Room(q)
      BY RoomPositive
    <3>3. 0 + 0 <= room /\ 0 <= 0
      OBVIOUS
    <3> QED
      BY <3>1, <3>2, <3>3
  <2> QED
    BY <2>1 DEF NoOverflow
<1>3. NothingProposed /\ WorkSnapshot /\ LinkSides
  BY DEF Init, NothingProposed, WorkSnapshot, LinkSides
<1>4. Standing
  BY DEF Init, Standing, ProcessStands, LinkStands, SlotExact, Entry
<1>5. NoLostWakeup
  BY TopologyAssumption DEF Init, NoLostWakeup, Entry, Takers, Putters
<1>6. Conserved
  <2>1. Stored = {}
    <3>1. \A q \in Queues : [r \in Queues |-> Len(committed[r])][q] = 0
      BY DEF Init
    <3>2. \A q \in Queues : 1..([r \in Queues |-> Len(committed[r])][q]) = {}
      BY <3>1
    <3> QED
      BY <3>2 DEF Stored, Cells
  <2>2. Holding = {} /\ Filled(inbox, Ingress) = {} /\ Filled(outbox, Egress) = {}
    BY DEF Init, Holding, Filled, Entry
  <2>3. inflight = 0
    BY DEF Init
  <2> QED
    BY <2>1, <2>2, <2>3, FS_EmptySet DEF Conserved
<1>7. phase = "idle" /\ fault = ""
  BY DEF Init
<1> QED
  BY <1>1, <1>2, <1>3, <1>4, <1>5, <1>6, <1>7, IdleAccounts DEF DataflowInv, Structure, Accounts

(* A reset ends in a fresh model. *)
LEMMA ResetInv ==
    ASSUME Reset
    PROVE  DataflowInv'
<1>1. Init'
  BY DEF Reset, Init
<1>2. (Init => DataflowInv)'
  BY InitInv, PTL
<1> QED
  BY <1>1, <1>2

(* Every step keeps the invariant. *)
LEMMA NextInv == DataflowInv /\ [Next]_vars => DataflowInv'
<1> SUFFICES ASSUME DataflowInv, [Next]_vars PROVE DataflowInv'
  OBVIOUS
<1>1. CASE Work
  BY <1>1, LinkWorkInv, ProcessWorkInv, IngressWorkInv, EgressWorkInv DEF Work
<1>2. CASE Xfer
  BY <1>2, XferInv
<1>3. CASE Host
  BY <1>3, StepTickInv, StageInv, TakeInv DEF Host
<1>4. CASE Reset
  BY <1>4, ResetInv
<1>5. CASE UNCHANGED vars
  <2>1. /\ UNCHANGED <<committed, pushes, pops, moving, proc, proposal, inbox, offered, outbox>>
        /\ UNCHANGED <<taking, ready, todo, phase, fault, sent, got, inflight>>
    BY <1>5 DEF vars, queueVars, moverVars, hostVars, labelVars
  <2>2. TypeOK'
    BY <2>1 DEF DataflowInv, TypeOK
  <2>3. NoOverflow' /\ fault' = ""
    BY <2>1 DEF DataflowInv, NoOverflow, Room
  <2>4. Structure'
    BY <2>1 DEF DataflowInv, Structure, NothingProposed, WorkSnapshot, LinkSides
  <2>5. \A p \in Processes : ProcessStands(p)'
    <3>1. ASSUME NEW p \in Processes PROVE ProcessStands(p)'
      <4>1. ProcessStands(p)
        BY DEF DataflowInv, Standing
      <4>2. Waits(p) => Waits(p)'
        BY <2>1 DEF Waits, IsFull, Room
      <4>3. Refused(p) => Refused(p)'
        BY <2>1 DEF Refused, CanPop, CanPush, Room
      <4> QED
        BY <2>1, <4>1, <4>2, <4>3 DEF ProcessStands, SlotExact
    <3> QED
      BY <3>1
  <2>6. \A l \in Links : LinkStands(l)'
    BY <2>1 DEF DataflowInv, Standing, LinkStands, IsFull, Room
  <2>7. NoLostWakeup'
    BY <2>1 DEF DataflowInv, NoLostWakeup, IsFull, Room
  <2>8. Conserved'
    BY <2>1 DEF DataflowInv, Accounts, Conserved, Stored, Holding, Filled
  <2>9. ConservedNext'
    BY <2>1 DEF DataflowInv, Accounts, ConservedNext, ValuesNext, LengthNext, HoldingNext,
       Continuation, Stepped, InboxNext, OutboxNext
  <2> QED
    BY <2>2, <2>3, <2>4, <2>5, <2>6, <2>7, <2>8, <2>9 DEF DataflowInv, Standing, Accounts
<1> QED
  BY <1>1, <1>2, <1>3, <1>4, <1>5 DEF Next

(* The invariant holds for ever. *)
THEOREM DataflowInvariant == Spec => []DataflowInv
  BY InitInv, NextInv, PTL DEF Spec

(* Type correctness of queues, links, processes, bridges and the host's counts. *)
THEOREM DataflowTypeCorrect == Spec => []TypeOK
<1>1. DataflowInv => TypeOK
  BY DEF DataflowInv
<1> QED
  BY <1>1, DataflowInvariant, PTL

(* QueueLink::doWork never reports queue_link_atomic_proposal_failed, in any
   network in which a link is the only taker of its source and the only putter
   of its destination: the two committed checks imply both proposals. *)
THEOREM LinksNeverFailTheorem == Spec => []LinksNeverFail
<1>1. DataflowInv => LinksNeverFail
  BY DEF DataflowInv, LinksNeverFail
<1> QED
  BY <1>1, DataflowInvariant, PTL

(* SimQueue::tryPush and tryPop keep every queue within both of its
   capacities, before and after the barrier. *)
THEOREM NoOverflowTheorem == Spec => []NoOverflow
<1>1. DataflowInv => NoOverflow
  BY DEF DataflowInv
<1> QED
  BY <1>1, DataflowInvariant, PTL

(* The activation edges and ProcessRuntime::activateFrom strand nobody: an
   object that is not scheduled for the next tick could not move in it. *)
THEOREM NoLostWakeupTheorem == Spec => []NoLostWakeup
<1>1. DataflowInv => NoLostWakeup
  BY DEF DataflowInv
<1> QED
  BY <1>1, DataflowInvariant, PTL

(* No value is lost or duplicated, in any network: what the host staged and
   has not taken is in a mailbox, a queue or a process, once. *)
THEOREM ConservedTheorem == Spec => []Conserved
<1>1. DataflowInv => Conserved
  BY DEF DataflowInv, Accounts
<1> QED
  BY <1>1, DataflowInvariant, PTL
=============================================================================
