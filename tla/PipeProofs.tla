----------------------------- MODULE PipeProofs -----------------------------
(***************************************************************************)
(* The refinement of the FIFO channel by the pipe of DataflowMC, for any   *)
(* capacities of its queues and any number of labels: whatever the host    *)
(* does and whatever a tick proposes, the values inside are a first-in     *)
(* first-out buffer.                                                       *)
(***************************************************************************)
EXTENDS DataflowMC, DataflowProofs

\* The network is the pipe, of any capacities.
Pipe ==
    /\ Queues = {0, 1, 2} /\ Links = {3} /\ Processes = {4} /\ Ingress = {8} /\ Egress = {9}
    /\ From[3] = 0 /\ From[4] = 1 /\ From[9] = 2
    /\ To[3] = 1 /\ To[4] = 2 /\ To[8] = 0

-----------------------------------------------------------------------------
(* The invariant: what the proposals of a tick amount to. *)

\* The values of a queue that leave it at the end of the tick.
Taken(q) == SubSeq(committed[q], 1, pops[q])

\* The mailboxes and the slot after the tick.
OutboxAfter == IF taking[9] # Nothing THEN taking[9] ELSE outbox[9]
SlotAfter == Continuation(4).held
InboxAfter == IF offered[8] THEN Nothing ELSE inbox[8]

\* Each object puts on one side what it takes on the other, oldest first.
EgressMoves == Box(OutboxAfter) = Box(outbox[9]) \o Taken(2)
ProcessMoves == pushes[2] \o Box(SlotAfter) = Box(proc[4].held) \o Taken(1)
LinkMoves == pushes[1] = Taken(0)
IngressMoves == pushes[0] \o Box(InboxAfter) = Box(inbox[8])

\* An object that has not had its turn has proposed nothing.
Untried ==
    /\ 3 \in todo => pops[0] = 0 /\ pushes[1] = <<>>
    /\ 4 \in todo => pops[1] = 0 /\ pushes[2] = <<>>
    /\ 8 \in todo => pushes[0] = <<>>
    /\ 9 \in todo => pops[2] = 0

\* The chain holds consecutive labels, from the one the host expects first to
\* the one before the next it stages.
Successor(x) == (x + 1) % Labels
Consecutive(chain, first, next) ==
    /\ chain = <<>> => next = first
    /\ chain # <<>> => chain[1] = first /\ next = Successor(chain[Len(chain)])
    /\ \A i \in 1..(Len(chain) - 1) : chain[i + 1] = Successor(chain[i])

Moves == EgressMoves /\ ProcessMoves /\ LinkMoves /\ IngressMoves /\ Untried
PipeInv == Moves /\ Consecutive(Chain, got, sent)

-----------------------------------------------------------------------------
(* Sequences *)

\* Joining sequences of payloads, by its laws.
Values == Seq(Payload)
Join(s, t) == s \o t

(* Joining is associative and stays within the sequences. *)
LEMMA JoinLaws ==
    /\ \A s, t \in Values : Join(s, t) \in Values
    /\ \A s, t, u \in Values : Join(Join(s, t), u) = Join(s, Join(t, u))
    /\ \A s \in Values : Join(s, <<>>) = s /\ Join(<<>>, s) = s
<1>1. ASSUME NEW s \in Values, NEW t \in Values PROVE Join(s, t) \in Values
  BY ConcatProperties DEF Values, Join
<1>2. ASSUME NEW s \in Values, NEW t \in Values, NEW u \in Values
      PROVE  Join(Join(s, t), u) = Join(s, Join(t, u))
  BY ConcatAssociative DEF Values, Join
<1>3. ASSUME NEW s \in Values PROVE Join(s, <<>>) = s /\ Join(<<>>, s) = s
  BY ConcatEmptySeq DEF Values, Join
<1> QED
  BY <1>1, <1>2, <1>3

(* The length of two sequences joined. *)
LEMMA JoinLength ==
    ASSUME NEW s \in Values, NEW t \in Values
    PROVE  Len(Join(s, t)) = Len(s) + Len(t)
BY ConcatProperties DEF Values, Join

(* What is exchanged at the end of a prefix may be exchanged behind it. *)
LEMMA Slide ==
    ASSUME NEW l \in Values, NEW x \in Values, NEW y \in Values, NEW c \in Values,
           NEW p \in Values, Join(x, y) = Join(c, p)
    PROVE  Join(Join(l, x), y) = Join(Join(l, c), p)
BY JoinLaws

(* The first value of a sequence, and none of them. *)
LEMMA FirstOfSequence ==
    ASSUME NEW S, NEW s \in Seq(S)
    PROVE  /\ SubSeq(s, 1, 0) = <<>>
           /\ Len(s) > 0 => SubSeq(s, 1, 1) = <<s[1]>>
<1>1. SubSeq(s, 1, 0) = <<>>
  BY SubSeqEmpty
<1>2. ASSUME Len(s) > 0 PROVE SubSeq(s, 1, 1) = <<s[1]>>
  <2>1. 1 \in 1..Len(s) /\ Len(s) \in Nat
    BY <1>2
  <2>2. SubSeq(s, 1, 1) = <<s[1]>> \o SubSeq(s, 1 + 1, 1)
    BY <2>1, SubSeqRecursiveFirst
  <2>3. SubSeq(s, 1 + 1, 1) = <<>>
    BY SubSeqEmpty
  <2>4. s[1] \in S
    BY <2>1, ElementOfSeq
  <2>5. <<s[1]>> \in Seq(S)
    BY <2>4
  <2> QED
    BY <2>2, <2>3, <2>5, ConcatEmptySeq
<1> QED
  BY <1>1, <1>2

(* What the barrier does to a queue: what leaves it and what stays are what
   it held and what is pushed (SimQueue::doXfer). *)
LEMMA Barrier ==
    ASSUME NEW S, NEW s \in Seq(S), NEW t \in Seq(S), NEW k \in Nat, k <= Len(s)
    PROVE  /\ SubSeq(s, 1, k) \in Seq(S)
           /\ SubSeq(s \o t, k + 1, Len(s) + Len(t)) \in Seq(S)
           /\ SubSeq(s, 1, k) \o SubSeq(s \o t, k + 1, Len(s) + Len(t)) = s \o t
<1> DEFINE both == s \o t
           n == Len(s) + Len(t)
<1>1. /\ both \in Seq(S) /\ Len(both) = n /\ n \in Nat /\ Len(s) \in Nat /\ Len(t) \in Nat
      /\ k <= n
  BY ConcatProperties
<1>2. SubSeq(both, k + 1, n) \in Seq(S)
  BY DropPrefix
<1>3. \A i \in 1..k : i \in 1..Len(s)
  BY <1>1
<1>4. \A i \in 1..k : s[i] \in S
  BY <1>3, ElementOfSeq
<1>5. SubSeq(s, 1, k) \in Seq(S)
  BY <1>4, SubSeqProperties
<1>6. SubSeq(both, 1, k) = SubSeq(s, 1, k)
  <2>1. CASE k = 0
    BY <2>1, SubSeqEmpty
  <2>2. CASE k # 0
    <3>1. 1 \in 1..Len(s) /\ k \in 1..Len(s)
      BY <1>1, <2>2
    <3> QED
      BY <3>1, SubSeqOfConcat1
  <2> QED
    BY <2>1, <2>2
<1> HIDE DEF both, n
<1>7. SubSeq(both, 1, k) \o SubSeq(both, k + 1, n) = SubSeq(both, 1, n)
  <2>1. 1 \in 1..(Len(both) + 1) /\ k \in (1 - 1)..Len(both) /\ n \in k..Len(both)
    <3>1. ASSUME NEW m \in Nat, m = n PROVE 1 \in 1..(m + 1) /\ k \in (1 - 1)..m /\ n \in k..m
      BY <1>1, <3>1
    <3> QED
      BY <1>1, <3>1
  <2> QED
    BY <1>1, <2>1, ConcatAdjacentSubSeq
<1>8. SubSeq(both, 1, n) = both
  BY <1>1, SubSeqFull
<1> QED
  BY <1>2, <1>5, <1>6, <1>7, <1>8 DEF both, n

-----------------------------------------------------------------------------
(* The pipe *)

(* A mailbox or slot as a sequence of at most one value. *)
LEMMA BoxTyped ==
    ASSUME NEW v \in Payload \cup {Nothing}
    PROVE  Box(v) \in Seq(Payload) /\ Len(Box(v)) \in {0, 1} /\ (v = Nothing => Len(Box(v)) = 0)
<1>1. CASE v = Nothing
  <2>1. Box(v) = <<>>
    BY <1>1 DEF Box
  <2> QED
    BY <1>1, <2>1
<1>2. CASE v # Nothing
  <2>1. Box(v) = <<v>> /\ v \in Payload
    BY <1>2 DEF Box
  <2> QED
    BY <1>2, <2>1
<1> QED
  BY <1>1, <1>2

(* The parts of the pipe's state. *)
LEMMA PartsTyped ==
    ASSUME Pipe, DataflowInv
    PROVE  /\ \A q \in {0, 1, 2} :
                /\ committed[q] \in Seq(Payload) /\ pushes[q] \in Seq(Payload)
                /\ Taken(q) \in Seq(Payload) /\ AfterXfer(q) \in Seq(Payload)
                /\ Taken(q) \o AfterXfer(q) = committed[q] \o pushes[q]
           /\ {outbox[9], OutboxAfter, proc[4].held, SlotAfter, inbox[8], InboxAfter}
                \subseteq Payload \cup {Nothing}
<1>1. TypeOK /\ NoOverflow
  BY DEF DataflowInv
<1>2. ASSUME NEW q \in {0, 1, 2}
      PROVE  /\ committed[q] \in Seq(Payload) /\ pushes[q] \in Seq(Payload)
             /\ Taken(q) \in Seq(Payload) /\ AfterXfer(q) \in Seq(Payload)
             /\ Taken(q) \o AfterXfer(q) = committed[q] \o pushes[q]
  <2>1. q \in Queues
    BY <1>2 DEF Pipe
  <2>2. committed[q] \in Seq(Payload) /\ pushes[q] \in Seq(Payload) /\ pops[q] \in Nat
    BY <1>1, <2>1, QueueTyped
  <2>3. pops[q] <= Len(committed[q])
    BY <1>1, <2>1 DEF NoOverflow
  <2> QED
    BY <2>2, <2>3, Barrier DEF Taken, AfterXfer
<1>3. {outbox[9], taking[9], inbox[8]} \subseteq Payload \cup {Nothing}
  BY <1>1 DEF TypeOK, Pipe
<1>4. proc[4] \in Continuations /\ proposal[4] \in Continuations
  BY <1>1 DEF TypeOK, Pipe
<1>5. \A c \in Continuations : c.held \in Payload \cup {Nothing}
  BY DEF Continuations
<1>6. SlotAfter \in Payload \cup {Nothing}
  BY <1>4, <1>5 DEF SlotAfter, Continuation
<1>7. OutboxAfter \in Payload \cup {Nothing} /\ InboxAfter \in Payload \cup {Nothing}
  BY <1>3 DEF OutboxAfter, InboxAfter
<1> QED
  BY <1>2, <1>3, <1>4, <1>5, <1>6, <1>7

(* The chain from the left. *)
LEMMA ChainJoins ==
    /\ Chain = Join(Join(Join(Join(Join(Box(outbox[9]), committed[2]), Box(proc[4].held)),
                              committed[1]), committed[0]), Box(inbox[8]))
    /\ Chain' = Join(Join(Join(Join(Join(Box(outbox'[9]), committed'[2]), Box(proc'[4].held)),
                               committed'[1]), committed'[0]), Box(inbox'[8]))
BY DEF Chain, Join

(* If every object puts on one side what it takes on the other, the barrier
   leaves the chain as it is. *)
LEMMA MovesCancel ==
    ASSUME NEW o, NEW c2, NEW h, NEW c1, NEW c0, NEW i,
           NEW oo, NEW a2, NEW hh, NEW a1, NEW a0, NEW ii,
           NEW t2, NEW t1, NEW t0, NEW p2, NEW p1, NEW p0
    PROVE  ({o, c2, h, c1, c0, i, oo, a2, hh, a1, a0, ii, t2, t1, t0, p2, p1, p0} \subseteq Values
              /\ oo = Join(o, t2) /\ Join(p2, hh) = Join(h, t1) /\ p1 = t0 /\ Join(p0, ii) = i
              /\ Join(t2, a2) = Join(c2, p2) /\ Join(t1, a1) = Join(c1, p1)
              /\ Join(t0, a0) = Join(c0, p0))
           => Join(Join(Join(Join(Join(oo, a2), hh), a1), a0), ii)
                = Join(Join(Join(Join(Join(o, c2), h), c1), c0), i)
<1>1. HAVE /\ {o, c2, h, c1, c0, i, oo, a2, hh, a1, a0, ii, t2, t1, t0, p2, p1, p0} \subseteq Values
           /\ oo = Join(o, t2) /\ Join(p2, hh) = Join(h, t1) /\ p1 = t0 /\ Join(p0, ii) = i
           /\ Join(t2, a2) = Join(c2, p2) /\ Join(t1, a1) = Join(c1, p1)
           /\ Join(t0, a0) = Join(c0, p0)
<1> DEFINE l2 == Join(o, c2)
           l3 == Join(l2, h)
           l4 == Join(l3, c1)
           l5 == Join(l4, c0)
<1>o. o \in Values /\ c2 \in Values /\ t2 \in Values /\ a2 \in Values /\ p2 \in Values
  BY <1>1
<1>h. h \in Values /\ hh \in Values /\ t1 \in Values /\ p2 \in Values
  BY <1>1
<1>c. c1 \in Values /\ t1 \in Values /\ a1 \in Values /\ p1 \in Values
  BY <1>1
<1>d. c0 \in Values /\ t0 \in Values /\ a0 \in Values /\ p0 \in Values
  BY <1>1
<1>i. i \in Values /\ ii \in Values /\ p0 \in Values
  BY <1>1
<1>e. oo = Join(o, t2) /\ p1 = t0 /\ Join(p0, ii) = i
  BY <1>1
<1>2. l2 \in Values /\ Join(oo, a2) = Join(l2, p2)
  <2>1. Join(t2, a2) = Join(c2, p2)
    BY <1>1
  <2> QED
    BY <1>o, <1>e, <2>1, Slide, JoinLaws
<1> HIDE DEF l2
<1>3. l3 \in Values /\ Join(Join(l2, p2), hh) = Join(l3, t1)
  <2>1. Join(p2, hh) = Join(h, t1)
    BY <1>1
  <2> QED
    BY <1>2, <1>h, <2>1, Slide, JoinLaws
<1> HIDE DEF l3
<1>4. l4 \in Values /\ Join(Join(l3, t1), a1) = Join(l4, p1)
  <2>1. Join(t1, a1) = Join(c1, p1)
    BY <1>1
  <2> QED
    BY <1>3, <1>c, <2>1, Slide, JoinLaws
<1> HIDE DEF l4
<1>5. l5 \in Values /\ Join(Join(l4, t0), a0) = Join(l5, p0)
  <2>1. Join(t0, a0) = Join(c0, p0)
    BY <1>1
  <2> QED
    BY <1>4, <1>d, <2>1, Slide, JoinLaws
<1> HIDE DEF l5
<1>6. Join(Join(l5, p0), ii) = Join(l5, i)
  BY <1>5, <1>i, <1>e, JoinLaws
<1>7. Join(Join(Join(Join(Join(oo, a2), hh), a1), a0), ii) = Join(l5, i)
  BY <1>2, <1>3, <1>4, <1>5, <1>6, <1>e
<1> QED
  BY <1>7 DEF l5, l4, l3, l2

(* The barrier moves values along the chain and changes nothing in it. *)
LEMMA XferChain ==
    ASSUME Pipe, DataflowInv, Moves, Xfer
    PROVE  Chain' = Chain
<1>1. committed'[0] = AfterXfer(0) /\ committed'[1] = AfterXfer(1) /\ committed'[2] = AfterXfer(2)
  BY DEF Xfer, Pipe
<1>2. outbox'[9] = OutboxAfter /\ inbox'[8] = InboxAfter
  BY DEF Xfer, Pipe, OutboxAfter, InboxAfter
<1>3. proc'[4].held = SlotAfter
  <2>1. proc'[4] = IF Activated(4) THEN [Continuation(4) EXCEPT !.status = "Runnable", !.wake = Nothing]
                   ELSE Continuation(4)
    BY DEF Xfer, Pipe
  <2>2. Continuation(4) \in Continuations
    BY DEF Continuation, DataflowInv, TypeOK, Pipe
  <2>3. \A c \in Continuations : [c EXCEPT !.status = "Runnable", !.wake = Nothing].held = c.held
    BY DEF Continuations
  <2> QED
    BY <2>1, <2>2, <2>3 DEF SlotAfter
<1>4. /\ {committed[0], committed[1], committed[2], pushes[0], pushes[1], pushes[2],
          Taken(0), Taken(1), Taken(2), AfterXfer(0), AfterXfer(1), AfterXfer(2)} \subseteq Values
      /\ Join(Taken(0), AfterXfer(0)) = Join(committed[0], pushes[0])
      /\ Join(Taken(1), AfterXfer(1)) = Join(committed[1], pushes[1])
      /\ Join(Taken(2), AfterXfer(2)) = Join(committed[2], pushes[2])
  BY PartsTyped DEF Values, Join
<1>5. {Box(outbox[9]), Box(OutboxAfter), Box(proc[4].held), Box(SlotAfter), Box(inbox[8]),
       Box(InboxAfter)} \subseteq Values
  <2>1. \A v \in Payload \cup {Nothing} : Box(v) \in Values
    BY BoxTyped DEF Values
  <2>2. {outbox[9], OutboxAfter, proc[4].held, SlotAfter, inbox[8], InboxAfter}
          \subseteq Payload \cup {Nothing}
    BY PartsTyped
  <2> QED
    BY <2>1, <2>2
<1>6. /\ Box(OutboxAfter) = Join(Box(outbox[9]), Taken(2))
      /\ Join(pushes[2], Box(SlotAfter)) = Join(Box(proc[4].held), Taken(1))
      /\ pushes[1] = Taken(0)
      /\ Join(pushes[0], Box(InboxAfter)) = Box(inbox[8])
  BY DEF Moves, EgressMoves, ProcessMoves, LinkMoves, IngressMoves, Join
<1> DEFINE o == Box(outbox[9])  oo == Box(OutboxAfter)
           h == Box(proc[4].held)  hh == Box(SlotAfter)
           i == Box(inbox[8])  ii == Box(InboxAfter)
           c0 == committed[0]  c1 == committed[1]  c2 == committed[2]
           a0 == AfterXfer(0)  a1 == AfterXfer(1)  a2 == AfterXfer(2)
           t0 == Taken(0)  t1 == Taken(1)  t2 == Taken(2)
           p0 == pushes[0]  p1 == pushes[1]  p2 == pushes[2]
<1>7. /\ {o, c2, h, c1, c0, i, oo, a2, hh, a1, a0, ii, t2, t1, t0, p2, p1, p0} \subseteq Values
      /\ oo = Join(o, t2) /\ Join(p2, hh) = Join(h, t1) /\ p1 = t0 /\ Join(p0, ii) = i
      /\ Join(t2, a2) = Join(c2, p2) /\ Join(t1, a1) = Join(c1, p1)
      /\ Join(t0, a0) = Join(c0, p0)
  BY <1>4, <1>5, <1>6
<1>8. Chain = Join(Join(Join(Join(Join(o, c2), h), c1), c0), i)
  BY ChainJoins
<1>9. Chain' = Join(Join(Join(Join(Join(oo, a2), hh), a1), a0), ii)
  BY <1>1, <1>2, <1>3, ChainJoins
<1> HIDE DEF o, oo, h, hh, i, ii, c0, c1, c2, a0, a1, a2, t0, t1, t2, p0, p1, p2
<1> QED
  BY <1>7, <1>8, <1>9, MovesCancel

(* Before anything is proposed, nothing moves. *)
Quiet ==
    /\ pushes = [q \in Queues |-> <<>>] /\ pops = [q \in Queues |-> 0]
    /\ proposal = [p \in Processes |-> NoProposal]
    /\ offered = [i \in Ingress |-> FALSE] /\ taking = [e \in Egress |-> Nothing]

(* Then the proposals amount to nothing. *)
LEMMA QuietMoves ==
    Pipe /\ DataflowInv /\ Quiet => Moves
<1> SUFFICES ASSUME Pipe, DataflowInv, Quiet PROVE Moves
  OBVIOUS
<1>1. /\ pushes[0] = <<>> /\ pushes[1] = <<>> /\ pushes[2] = <<>>
      /\ pops[0] = 0 /\ pops[1] = 0 /\ pops[2] = 0
  BY DEF Pipe, Quiet
<1>2. taking[9] = Nothing /\ ~offered[8] /\ proposal[4] = NoProposal
  BY DEF Pipe, Quiet
<1>3. OutboxAfter = outbox[9] /\ InboxAfter = inbox[8] /\ SlotAfter = proc[4].held
  BY <1>2 DEF OutboxAfter, InboxAfter, SlotAfter, Continuation, Stepped
<1>4. \A q \in {0, 1, 2} : Taken(q) = <<>>
  <2>1. ASSUME NEW q \in {0, 1, 2} PROVE SubSeq(committed[q], 1, 0) = <<>>
    BY PartsTyped, FirstOfSequence
  <2> QED
    BY <1>1, <2>1 DEF Taken
<1>5. \A v \in Payload \cup {Nothing} : Box(v) \o <<>> = Box(v) /\ <<>> \o Box(v) = Box(v)
  BY BoxTyped, ConcatEmptySeq
<1>6. outbox[9] \in Payload \cup {Nothing} /\ proc[4].held \in Payload \cup {Nothing}
      /\ inbox[8] \in Payload \cup {Nothing}
  BY PartsTyped
<1>7. EgressMoves
  BY <1>3, <1>4, <1>5, <1>6 DEF EgressMoves
<1>8. ProcessMoves
  BY <1>1, <1>3, <1>4, <1>5, <1>6 DEF ProcessMoves
<1>9. LinkMoves
  BY <1>1, <1>4 DEF LinkMoves
<1>10. IngressMoves
  BY <1>1, <1>3, <1>5, <1>6 DEF IngressMoves
<1> QED
  BY <1>1, <1>7, <1>8, <1>9, <1>10 DEF Moves, Untried

(* The same after a step. *)
LEMMA QuietMovesNext == (Pipe /\ DataflowInv /\ Quiet => Moves)'
BY QuietMoves, PTL

-----------------------------------------------------------------------------
(* The turns of a tick *)

(* The two queues a turn touches. *)
LEMMA PushChanges ==
    ASSUME Pipe, TypeOK, NEW d \in Queues, NEW v, pushes' = [pushes EXCEPT ![d] = Append(@, v)]
    PROVE  /\ pushes'[d] = Append(pushes[d], v)
           /\ \A q \in Queues \ {d} : pushes'[q] = pushes[q]
BY DEF TypeOK

(* The same for a pop. *)
LEMMA PopChanges ==
    ASSUME Pipe, TypeOK, NEW s \in Queues, pops' = [pops EXCEPT ![s] = @ + 1]
    PROVE  pops'[s] = pops[s] + 1 /\ \A q \in Queues \ {s} : pops'[q] = pops[q]
BY DEF TypeOK

(* The first value of a queue is what one pop takes. *)
LEMMA TakesFirst ==
    ASSUME Pipe, DataflowInv, NEW q \in {0, 1, 2}, CanPop(q), pops[q] = 0,
           committed' = committed, pops'[q] = pops[q] + 1
    PROVE  Taken(q)' = <<Front(q)>> /\ Front(q) \in Payload /\ Taken(q) = <<>>
<1>1. committed[q] \in Seq(Payload)
  BY PartsTyped
<1>2. PICK n \in Nat : n = Len(committed[q])
  BY <1>1
<1>3. n > 0
  BY <1>2 DEF CanPop
<1>4. 1 \in 1..n
  BY <1>3
<1>5. Front(q) = committed[q][1]
  BY DEF Front
<1>6. Front(q) \in Payload
  BY <1>1, <1>2, <1>4, <1>5, ElementOfSeq
<1>7. SubSeq(committed[q], 1, 1) = <<committed[q][1]>> /\ SubSeq(committed[q], 1, 0) = <<>>
  BY <1>1, <1>2, <1>3, FirstOfSequence
<1>8. pops'[q] = 1
  OBVIOUS
<1> QED
  BY <1>5, <1>6, <1>7, <1>8 DEF Taken

(* QueueLink::doWork. *)
LEMMA LinkWorkMoves ==
    ASSUME Pipe, DataflowInv, Moves, NEW l \in todo, LinkWork(l)
    PROVE  Moves'
<1>1. l = 3 /\ 3 \in todo /\ todo' = todo \ {3}
  BY DEF LinkWork, Pipe
<1>2. pops[0] = 0 /\ pushes[1] = <<>>
  BY <1>1 DEF Moves, Untried
<1>3. UNCHANGED <<committed, proc, proposal, inbox, offered, outbox, taking>>
  BY DEF LinkWork, hostVars
<1>4. /\ pops'[1] = pops[1] /\ pops'[2] = pops[2] /\ pushes'[0] = pushes[0] /\ pushes'[2] = pushes[2]
      /\ LinkMoves'
  <2>1. CASE UNCHANGED <<pushes, pops>>
    BY <1>3, <2>1 DEF Moves, LinkMoves, Taken
  <2>2. CASE /\ CanPop(0)
             /\ pushes' = [pushes EXCEPT ![1] = Append(@, Front(0))]
             /\ pops' = [pops EXCEPT ![0] = @ + 1]
    <3>1. 0 \in Queues /\ 1 \in Queues /\ 2 \in Queues /\ TypeOK
      BY DEF Pipe, DataflowInv
    <3>2. pushes'[1] = Append(pushes[1], Front(0)) /\ \A q \in Queues \ {1} : pushes'[q] = pushes[q]
      BY <2>2, <3>1, PushChanges
    <3>3. pops'[0] = pops[0] + 1 /\ \A q \in Queues \ {0} : pops'[q] = pops[q]
      BY <2>2, <3>1, PopChanges
    <3>4. Taken(0)' = <<Front(0)>> /\ Front(0) \in Payload
      BY <1>2, <1>3, <2>2, <3>3, TakesFirst
    <3>5. pushes'[1] = <<Front(0)>>
      BY <1>2, <3>2, <3>4
    <3> QED
      BY <3>1, <3>2, <3>3, <3>4, <3>5 DEF LinkMoves
  <2> QED
    BY <1>1, <2>1, <2>2 DEF LinkWork, Pipe
<1>5. EgressMoves' /\ ProcessMoves' /\ IngressMoves'
  BY <1>3, <1>4 DEF Moves, EgressMoves, ProcessMoves, IngressMoves, Taken, OutboxAfter, SlotAfter,
        InboxAfter, Continuation, Stepped
<1>6. Untried'
  BY <1>1, <1>4 DEF Moves, Untried
<1> QED
  BY <1>4, <1>5, <1>6 DEF Moves

(* One value, in a sequence of its own or in a box. *)
LEMMA OneValue ==
    ASSUME NEW v \in Payload
    PROVE  /\ Box(v) = <<v>> /\ Box(Nothing) = <<>> /\ Append(<<>>, v) = <<v>>
           /\ <<v>> \o <<>> = <<v>> /\ <<>> \o <<v>> = <<v>>
<1>1. v # Nothing
  BY NothingIsNoPayload
<1>2. <<v>> \in Seq(Payload)
  OBVIOUS
<1>3. <<v>> \o <<>> = <<v>> /\ <<>> \o <<v>> = <<v>>
  BY <1>2, ConcatEmptySeq
<1> QED
  BY <1>1, <1>3 DEF Box

(* What a process has in hand when it comes to send: the value it kept, or
   the one it has just received. *)
LEMMA InHand ==
    ASSUME Pipe, DataflowInv, Untried, 4 \in todo, phase = "work",
           proc[4].pc = "recv" => CanPop(1),
           pops' = IF proc[4].pc = "recv" THEN [pops EXCEPT ![1] = @ + 1] ELSE pops,
           committed' = committed,
           NEW v, v = IF proc[4].pc = "recv" THEN Front(1) ELSE proc[4].held
    PROVE  /\ v \in Payload /\ Box(proc[4].held) \o Taken(1)' = <<v>>
           /\ pops'[0] = pops[0] /\ pops'[2] = pops[2]
<1>1. 0 \in Queues /\ 1 \in Queues /\ 2 \in Queues /\ TypeOK
  BY DEF Pipe, DataflowInv
<1>2. SlotExact(proc[4])
  BY DEF Pipe, DataflowInv, Standing, ProcessStands
<1>3. proc[4].held \in Payload \cup {Nothing}
  BY PartsTyped
<1>4. pops[1] = 0
  BY DEF Untried
<1>5. CASE proc[4].pc = "recv"
  <2>1. pops'[1] = pops[1] + 1 /\ \A q \in Queues \ {1} : pops'[q] = pops[q]
    BY <1>1, <1>5, PopChanges
  <2>2. CanPop(1) /\ v = Front(1)
    BY <1>5
  <2>3. Taken(1)' = <<v>> /\ v \in Payload
    BY <1>4, <2>1, <2>2, TakesFirst
  <2>4. proc[4].held = Nothing
    <3>1. "recv" # "send"
      OBVIOUS
    <3> QED
      BY <1>2, <1>5, <3>1 DEF SlotExact
  <2>5. Box(proc[4].held) \o Taken(1)' = <<v>>
    BY <2>3, <2>4, OneValue
  <2> QED
    BY <1>1, <2>1, <2>3, <2>5
<1>6. CASE proc[4].pc # "recv"
  <2>1. proc[4].pc = "send"
    <3>1. proc[4] \in Continuations
      BY <1>1 DEF TypeOK, Pipe
    <3>2. \A c \in Continuations : c.pc \in {"recv", "send"}
      BY DEF Continuations
    <3> QED
      BY <1>6, <3>1, <3>2
  <2>2. v = proc[4].held /\ v \in Payload
    BY <1>2, <1>3, <1>6, <2>1 DEF SlotExact
  <2>3. SubSeq(committed[1], 1, 0) = <<>>
    BY PartsTyped, FirstOfSequence
  <2>4. pops' = pops
    BY <1>6
  <2>5. Taken(1)' = <<>>
    BY <1>4, <2>3, <2>4 DEF Taken
  <2>6. Box(proc[4].held) \o Taken(1)' = <<v>>
    BY <2>2, <2>5, OneValue
  <2> QED
    BY <2>2, <2>4, <2>6
<1> QED
  BY <1>5, <1>6

(* A continuation that a process proposes is what it stands at afterwards. *)
LEMMA SlotProposed ==
    ASSUME Pipe, DataflowInv, NEW pc, NEW held, NEW wake,
           proposal' = [proposal EXCEPT ![4] = Resume(pc, held, wake)]
    PROVE  SlotAfter' = held
<1>1. proposal'[4] = Resume(pc, held, wake)
  BY DEF DataflowInv, TypeOK, Pipe
<1>2. Resume(pc, held, wake).status = "Suspended" /\ Resume(pc, held, wake).held = held
  BY DEF Resume
<1>3. NoProposal.status = "None"
  BY DEF NoProposal, Entry
<1>4. "Suspended" # "None"
  OBVIOUS
<1>5. proposal'[4] # NoProposal
  BY <1>1, <1>2, <1>3, <1>4
<1> QED
  BY <1>1, <1>2, <1>5 DEF SlotAfter, Continuation, Stepped, Pipe

(* ProcessRuntime::doWork. *)
LEMMA ProcessWorkMoves ==
    ASSUME Pipe, DataflowInv, Moves, NEW p \in todo, ProcessWork(p)
    PROVE  Moves'
<1>1. p = 4 /\ 4 \in todo /\ todo' = todo \ {4} /\ phase = "work"
  BY DEF ProcessWork, Pipe, Turn
<1>2. pops[1] = 0 /\ pushes[2] = <<>> /\ Untried
  BY <1>1 DEF Moves, Untried
<1>3. UNCHANGED <<committed, proc, inbox, offered, outbox, taking>>
  BY DEF ProcessWork, hostVars
<1>4. 0 \in Queues /\ 1 \in Queues /\ 2 \in Queues /\ TypeOK
  BY DEF Pipe, DataflowInv
<1> DEFINE held == IF proc[4].pc = "recv" THEN Front(1) ELSE proc[4].held
<1>5. \/ /\ proc[4].pc = "recv" /\ ~CanPop(1)
         /\ proposal' = [proposal EXCEPT ![4] = Resume("recv", Nothing, 1)]
         /\ UNCHANGED <<pushes, pops>>
      \/ /\ proc[4].pc = "recv" => CanPop(1)
         /\ pops' = IF proc[4].pc = "recv" THEN [pops EXCEPT ![1] = @ + 1] ELSE pops
         /\ \/ /\ pushes' = [pushes EXCEPT ![2] = Append(@, held)]
               /\ proposal' = [proposal EXCEPT ![4] = Resume("recv", Nothing, 4)]
            \/ /\ proposal' = [proposal EXCEPT ![4] = Resume("send", held, 2)]
               /\ UNCHANGED pushes
  BY <1>1 DEF ProcessWork, Pipe
<1> HIDE DEF held
<1>6. /\ pops'[0] = pops[0] /\ pops'[2] = pops[2] /\ pushes'[0] = pushes[0] /\ pushes'[1] = pushes[1]
      /\ ProcessMoves'
  <2>1. CASE /\ proc[4].pc = "recv"
             /\ proposal' = [proposal EXCEPT ![4] = Resume("recv", Nothing, 1)]
             /\ UNCHANGED <<pushes, pops>>
    <3>1. SlotAfter' = Nothing
      BY <2>1, SlotProposed
    <3>2. proc[4].held = Nothing
      <4>1. SlotExact(proc[4])
        BY DEF Pipe, DataflowInv, Standing, ProcessStands
      <4>2. "recv" # "send"
        OBVIOUS
      <4> QED
        BY <2>1, <4>1, <4>2 DEF SlotExact
    <3>3. SubSeq(committed[1], 1, 0) = <<>>
      BY PartsTyped, FirstOfSequence
    <3>4. Taken(1)' = <<>>
      BY <1>2, <1>3, <2>1, <3>3 DEF Taken
    <3>5. pushes'[2] = <<>>
      BY <1>2, <2>1
    <3>6. Box(Nothing) = <<>>
      BY DEF Box
    <3>7. ProcessMoves'
      BY <1>3, <3>1, <3>2, <3>4, <3>5, <3>6 DEF ProcessMoves
    <3> QED
      BY <2>1, <3>7
  <2>2. CASE /\ proc[4].pc = "recv" => CanPop(1)
             /\ pops' = IF proc[4].pc = "recv" THEN [pops EXCEPT ![1] = @ + 1] ELSE pops
             /\ \/ /\ pushes' = [pushes EXCEPT ![2] = Append(@, held)]
                   /\ proposal' = [proposal EXCEPT ![4] = Resume("recv", Nothing, 4)]
                \/ /\ proposal' = [proposal EXCEPT ![4] = Resume("send", held, 2)]
                   /\ UNCHANGED pushes
    <3>1. /\ held \in Payload /\ Box(proc[4].held) \o Taken(1)' = <<held>>
          /\ pops'[0] = pops[0] /\ pops'[2] = pops[2]
      BY <1>1, <1>2, <1>3, <2>2, InHand DEF held
    <3>2. CASE /\ pushes' = [pushes EXCEPT ![2] = Append(@, held)]
               /\ proposal' = [proposal EXCEPT ![4] = Resume("recv", Nothing, 4)]
      <4>1. pushes'[2] = Append(pushes[2], held) /\ \A q \in Queues \ {2} : pushes'[q] = pushes[q]
        BY <1>4, <3>2, PushChanges
      <4>2. SlotAfter' = Nothing
        BY <3>2, SlotProposed
      <4>3. pushes'[2] \o Box(SlotAfter') = <<held>>
        BY <1>2, <3>1, <4>1, <4>2, OneValue
      <4>4. ProcessMoves'
        BY <1>3, <3>1, <4>3 DEF ProcessMoves
      <4> QED
        BY <1>4, <3>1, <4>1, <4>4
    <3>3. CASE /\ proposal' = [proposal EXCEPT ![4] = Resume("send", held, 2)]
               /\ UNCHANGED pushes
      <4>1. SlotAfter' = held
        BY <3>3, SlotProposed
      <4>2. pushes'[2] \o Box(SlotAfter') = <<held>>
        BY <1>2, <3>1, <3>3, <4>1, OneValue
      <4>3. ProcessMoves'
        BY <1>3, <3>1, <4>2 DEF ProcessMoves
      <4> QED
        BY <3>1, <3>3, <4>3
    <3> QED
      BY <2>2, <3>2, <3>3
  <2> QED
    BY <1>5, <2>1, <2>2
<1>7. EgressMoves' /\ LinkMoves' /\ IngressMoves'
  BY <1>3, <1>6 DEF Moves, EgressMoves, LinkMoves, IngressMoves, Taken, OutboxAfter, InboxAfter
<1>8. Untried'
  BY <1>1, <1>6 DEF Moves, Untried
<1> QED
  BY <1>6, <1>7, <1>8 DEF Moves

(* HostIngress::doWork. *)
LEMMA IngressWorkMoves ==
    ASSUME Pipe, DataflowInv, Moves, NEW i \in todo, IngressWork(i)
    PROVE  Moves'
<1>1. i = 8 /\ 8 \in todo /\ todo' = todo \ {8}
  BY DEF IngressWork, Pipe
<1>2. pushes[0] = <<>>
  BY <1>1 DEF Moves, Untried
<1>3. UNCHANGED <<committed, pops, proc, proposal, inbox, outbox, taking>>
  BY DEF IngressWork, moverVars
<1>4. 0 \in Queues /\ 1 \in Queues /\ 2 \in Queues /\ TypeOK
  BY DEF Pipe, DataflowInv
<1>5. pushes'[1] = pushes[1] /\ pushes'[2] = pushes[2] /\ IngressMoves'
  <2>1. CASE UNCHANGED <<pushes, offered>>
    BY <1>3, <2>1 DEF Moves, IngressMoves, InboxAfter
  <2>2. CASE /\ inbox[8] # Nothing
             /\ pushes' = [pushes EXCEPT ![0] = Append(@, inbox[8])]
             /\ offered' = [offered EXCEPT ![8] = TRUE]
    <3>1. pushes'[0] = Append(pushes[0], inbox[8]) /\ \A q \in Queues \ {0} : pushes'[q] = pushes[q]
      BY <1>4, <2>2, PushChanges
    <3>2. inbox[8] \in Payload
      BY <2>2, PartsTyped
    <3>3. offered'[8] = TRUE
      BY <1>4, <2>2 DEF TypeOK, Pipe
    <3>4. InboxAfter' = Nothing
      BY <3>3 DEF InboxAfter
    <3>5. pushes'[0] \o Box(InboxAfter') = Box(inbox[8])
      BY <1>2, <3>1, <3>2, <3>4, OneValue
    <3> QED
      BY <1>3, <1>4, <3>1, <3>5 DEF IngressMoves
  <2> QED
    BY <1>1, <2>1, <2>2 DEF IngressWork, Pipe
<1>6. EgressMoves' /\ ProcessMoves' /\ LinkMoves'
  BY <1>3, <1>5 DEF Moves, EgressMoves, ProcessMoves, LinkMoves, Taken, OutboxAfter, SlotAfter,
        Continuation, Stepped
<1>7. Untried'
  BY <1>1, <1>3, <1>5 DEF Moves, Untried
<1> QED
  BY <1>5, <1>6, <1>7 DEF Moves

(* HostEgress::doWork. *)
LEMMA EgressWorkMoves ==
    ASSUME Pipe, DataflowInv, Moves, NEW e \in todo, EgressWork(e)
    PROVE  Moves'
<1>1. e = 9 /\ 9 \in todo /\ todo' = todo \ {9}
  BY DEF EgressWork, Pipe
<1>2. pops[2] = 0
  BY <1>1 DEF Moves, Untried
<1>3. UNCHANGED <<committed, pushes, proc, proposal, inbox, offered, outbox>>
  BY DEF EgressWork, moverVars
<1>4. 0 \in Queues /\ 1 \in Queues /\ 2 \in Queues /\ TypeOK
  BY DEF Pipe, DataflowInv
<1>5. pops'[0] = pops[0] /\ pops'[1] = pops[1] /\ EgressMoves'
  <2>1. CASE UNCHANGED <<taking, pops>>
    BY <1>3, <2>1 DEF Moves, EgressMoves, OutboxAfter, Taken
  <2>2. CASE /\ outbox[9] = Nothing /\ CanPop(2)
             /\ taking' = [taking EXCEPT ![9] = Front(2)]
             /\ pops' = [pops EXCEPT ![2] = @ + 1]
    <3>1. pops'[2] = pops[2] + 1 /\ \A q \in Queues \ {2} : pops'[q] = pops[q]
      BY <1>4, <2>2, PopChanges
    <3>2. Taken(2)' = <<Front(2)>> /\ Front(2) \in Payload
      BY <1>2, <1>3, <2>2, <3>1, TakesFirst
    <3>3. taking'[9] = Front(2)
      BY <1>4, <2>2 DEF TypeOK, Pipe
    <3>4. OutboxAfter' = Front(2)
      BY <3>2, <3>3, NothingIsNoPayload DEF OutboxAfter
    <3>5. Box(OutboxAfter') = Box(outbox[9]) \o Taken(2)'
      BY <2>2, <3>2, <3>4, OneValue
    <3> QED
      BY <1>3, <1>4, <3>1, <3>5 DEF EgressMoves
  <2> QED
    BY <1>1, <2>1, <2>2 DEF EgressWork, Pipe
<1>6. ProcessMoves' /\ LinkMoves' /\ IngressMoves'
  BY <1>3, <1>5 DEF Moves, ProcessMoves, LinkMoves, IngressMoves, Taken, InboxAfter, SlotAfter,
        Continuation, Stepped
<1>7. Untried'
  BY <1>1, <1>3, <1>5 DEF Moves, Untried
<1> QED
  BY <1>5, <1>6, <1>7 DEF Moves

-----------------------------------------------------------------------------
(* Labels *)

(* The host stages the next label. *)
LEMMA ConsecutiveAppend ==
    ASSUME NEW s \in Seq(Payload), NEW first, NEW next \in Payload, Consecutive(s, first, next)
    PROVE  Consecutive(Append(s, next), first, Successor(next))
<1> DEFINE t == Append(s, next)
<1>1. PICK n \in Nat : n = Len(s)
  OBVIOUS
<1>2. /\ t # <<>> /\ Len(t) = n + 1 /\ t[n + 1] = next
      /\ \A i \in 1..n : t[i] = s[i]
  BY <1>1, AppendProperties
<1>3. s = <<>> => n = 0
  BY <1>1
<1>4. s # <<>> => n > 0
  BY <1>1
<1>5. t[1] = first
  <2>1. CASE s = <<>>
    BY <1>2, <1>3, <2>1 DEF Consecutive
  <2>2. CASE s # <<>>
    <3>1. 1 \in 1..n
      BY <1>4, <2>2
    <3> QED
      BY <1>2, <2>2, <3>1 DEF Consecutive
  <2> QED
    BY <2>1, <2>2
<1>6. ASSUME NEW i \in 1..n PROVE t[i + 1] = Successor(t[i])
  <2>1. CASE i = n
    <3>1. s # <<>> /\ n \in 1..n
      BY <1>3, <2>1
    <3>2. next = Successor(s[n])
      BY <1>1, <3>1 DEF Consecutive
    <3> QED
      BY <1>2, <2>1, <3>1, <3>2
  <2>2. CASE i # n
    <3>1. i \in 1..(n - 1) /\ i + 1 \in 1..n
      BY <2>2
    <3>2. s[i + 1] = Successor(s[i])
      BY <1>1, <3>1 DEF Consecutive
    <3> QED
      BY <1>2, <3>1, <3>2
  <2> QED
    BY <2>1, <2>2
<1>7. 1..(Len(t) - 1) = 1..n
  BY <1>2
<1> HIDE DEF t
<1>8. Consecutive(t, first, Successor(next))
  BY <1>2, <1>5, <1>6, <1>7 DEF Consecutive
<1> QED
  BY <1>8 DEF t

(* The host takes the first label. *)
LEMMA ConsecutiveTail ==
    ASSUME NEW s \in Seq(Payload), NEW first, NEW next, s # <<>>, Consecutive(s, first, next)
    PROVE  Consecutive(Tail(s), Successor(first), next)
<1> DEFINE t == Tail(s)
<1>1. PICK n \in Nat : n = Len(s) /\ n > 0
  OBVIOUS
<1>2. t \in Seq(Payload) /\ Len(t) = n - 1 /\ \A i \in 1..(n - 1) : t[i] = s[i + 1]
  BY <1>1, HeadTailProperties
<1>3. s[1] = first /\ next = Successor(s[n])
  BY <1>1 DEF Consecutive
<1>4. \A i \in 1..(n - 1) : s[i + 1] = Successor(s[i])
  BY <1>1 DEF Consecutive
<1> HIDE DEF t
<1>5. ASSUME t = <<>> PROVE next = Successor(first)
  <2>1. Len(t) = 0
    BY <1>5
  <2>2. n = 1
    <3>1. \A k \in Nat : k > 0 /\ 0 = k - 1 => k = 1
      OBVIOUS
    <3> QED
      BY <1>1, <1>2, <2>1, <3>1
  <2> QED
    BY <1>3, <2>2
<1>6. ASSUME t # <<>> PROVE t[1] = Successor(first) /\ next = Successor(t[Len(t)])
  <2>1. PICK m \in Nat : m = Len(t) /\ m # 0
    BY <1>2, <1>6
  <2>4. n > 1
    BY <1>1, <1>2, <2>1
  <2>2. 1 \in 1..(n - 1) /\ n - 1 \in 1..(n - 1) /\ (n - 1) + 1 = n /\ 1 + 1 = 2
    BY <2>4
  <2>3. t[1] = s[2] /\ t[n - 1] = s[n] /\ s[2] = Successor(s[1])
    BY <1>2, <1>4, <2>2
  <2> QED
    BY <1>2, <1>3, <2>3
<1>7. ASSUME NEW i \in 1..(Len(t) - 1) PROVE t[i + 1] = Successor(t[i])
  <2>1. i \in 1..(n - 1) /\ i + 1 \in 1..(n - 1)
    BY <1>1, <1>2
  <2> QED
    BY <1>2, <1>4, <2>1
<1>8. Consecutive(t, Successor(first), next)
  BY <1>5, <1>6, <1>7 DEF Consecutive
<1> QED
  BY <1>8 DEF t

-----------------------------------------------------------------------------
(* The steps of the host *)

(* Staging puts the label at the end of the chain, which has room for it. *)
LEMMA StageChain ==
    ASSUME Pipe, DataflowInv, NEW i \in Ingress, Stage(i)
    PROVE  /\ Chain \in Seq(Payload) /\ sent \in Payload /\ Chain' = Append(Chain, sent)
           /\ Len(Chain) < 3 + Room(0) + Room(1) + Room(2)
<1>1. i = 8 /\ inbox[8] = Nothing /\ inbox'[8] = sent /\ sent \in Payload
  BY DEF Stage, Pipe, DataflowInv, TypeOK
<1>2. UNCHANGED <<committed, proc, outbox>>
  BY DEF Stage, queueVars, moverVars
<1>3. {Box(outbox[9]), Box(proc[4].held)} \subseteq Values
      /\ Len(Box(outbox[9])) \in {0, 1} /\ Len(Box(proc[4].held)) \in {0, 1}
  BY PartsTyped, BoxTyped DEF Values
<1>4. {committed[0], committed[1], committed[2]} \subseteq Values
  BY PartsTyped DEF Values
<1> DEFINE l1 == Join(Box(outbox[9]), committed[2])
           l2 == Join(l1, Box(proc[4].held))
           l3 == Join(l2, committed[1])
           l4 == Join(l3, committed[0])
<1>5. Chain = Join(l4, Box(inbox[8])) /\ Chain' = Join(l4, Box(inbox'[8]))
  BY <1>2, ChainJoins
<1>6. l1 \in Values /\ Len(l1) = Len(Box(outbox[9])) + Len(committed[2])
  BY <1>3, <1>4, JoinLaws, JoinLength
<1> HIDE DEF l1
<1>7. l2 \in Values /\ Len(l2) = Len(l1) + Len(Box(proc[4].held))
  BY <1>3, <1>6, JoinLaws, JoinLength
<1> HIDE DEF l2
<1>8. l3 \in Values /\ Len(l3) = Len(l2) + Len(committed[1])
  BY <1>4, <1>7, JoinLaws, JoinLength
<1> HIDE DEF l3
<1>9. l4 \in Values /\ Len(l4) = Len(l3) + Len(committed[0])
  BY <1>4, <1>8, JoinLaws, JoinLength
<1> HIDE DEF l4
<1>10. Box(inbox[8]) = <<>> /\ Box(inbox'[8]) = <<sent>>
  BY <1>1, OneValue
<1>11. Chain = l4
  BY <1>5, <1>9, <1>10, JoinLaws
<1>12. Chain' = Append(l4, sent)
  <2>1. Chain' = l4 \o <<sent>> /\ l4 \in Seq(Payload)
    BY <1>5, <1>9, <1>10 DEF Join, Values
  <2> QED
    BY <1>1, <2>1, AppendIsConcat
<1>13. Len(l4) < 3 + Room(0) + Room(1) + Room(2)
  <2>1. ASSUME NEW q \in {0, 1, 2}
        PROVE  Len(committed[q]) \in Nat /\ Room(q) \in Nat /\ Len(committed[q]) <= Room(q)
    <3>1. q \in Queues /\ TypeOK /\ NoOverflow
      BY DEF Pipe, DataflowInv
    <3>2. PICK c \in Nat, n \in Nat : c = Len(committed[q]) /\ n = Len(pushes[q])
      BY <3>1, QueueTyped
    <3>3. PICK r \in Nat : r = Room(q)
      BY <3>1, RoomPositive
    <3>4. c + n <= r
      BY <3>1, <3>2, <3>3 DEF NoOverflow
    <3>5. c <= r
      BY <3>4
    <3> QED
      BY <3>2, <3>3, <3>5
  <2>2. PICK c0 \in Nat, c1 \in Nat, c2 \in Nat :
          c0 = Len(committed[0]) /\ c1 = Len(committed[1]) /\ c2 = Len(committed[2])
    BY <2>1
  <2>3. PICK r0 \in Nat, r1 \in Nat, r2 \in Nat : r0 = Room(0) /\ r1 = Room(1) /\ r2 = Room(2)
    BY <2>1
  <2>4. c0 <= r0 /\ c1 <= r1 /\ c2 <= r2
    BY <2>1, <2>2, <2>3
  <2>5. PICK b \in {0, 1}, h \in {0, 1} : b = Len(Box(outbox[9])) /\ h = Len(Box(proc[4].held))
    BY <1>3
  <2>6. Len(l4) = b + c2 + h + c1 + c0
    BY <1>6, <1>7, <1>8, <1>9, <2>2, <2>5
  <2> QED
    BY <2>3, <2>4, <2>6
<1> QED
  BY <1>1, <1>9, <1>11, <1>12, <1>13 DEF Values

(* A value put in front is the head, and what was there the tail. *)
LEMMA FrontOff ==
    ASSUME NEW x \in Payload, NEW s \in Seq(Payload)
    PROVE  /\ <<x>> \o s \in Seq(Payload) /\ <<x>> \o s # <<>> /\ (<<x>> \o s)[1] = x
           /\ Head(<<x>> \o s) = x /\ Tail(<<x>> \o s) = s
<1> DEFINE t == <<x>> \o s
<1>1. <<x>> \in Seq(Payload) /\ Len(<<x>>) = 1 /\ <<x>>[1] = x
  OBVIOUS
<1>2. PICK n \in Nat : n = Len(s)
  OBVIOUS
<1>3. /\ t \in Seq(Payload) /\ Len(t) = 1 + n
      /\ \A i \in 1..(1 + n) : t[i] = IF i <= 1 THEN <<x>>[i] ELSE s[i - 1]
  BY <1>1, <1>2, ConcatProperties
<1>4. t # <<>> /\ t[1] = x
  BY <1>1, <1>3
<1> HIDE DEF t
<1>5. Head(t) = x
  BY <1>3, <1>4
<1>6. Tail(t) \in Seq(Payload) /\ Len(Tail(t)) = n /\ \A i \in 1..n : Tail(t)[i] = t[i + 1]
  BY <1>2, <1>3, <1>4, HeadTailProperties
<1>7. \A i \in 1..n : Tail(t)[i] = s[i]
  BY <1>3, <1>6
<1>8. Tail(t) = s
  BY <1>2, <1>6, <1>7, SeqEqual
<1> QED
  BY <1>3, <1>4, <1>5, <1>8 DEF t

(* Taking removes the first label of the chain. *)
LEMMA TakeChain ==
    ASSUME Pipe, DataflowInv, NEW e \in Egress, Take(e)
    PROVE  /\ Chain \in Seq(Payload) /\ Chain # <<>>
           /\ Head(Chain) = outbox[9] /\ Chain[1] = outbox[9] /\ Chain' = Tail(Chain)
           /\ got' = Successor(outbox[9])
<1>1. e = 9 /\ outbox[9] \in Payload /\ outbox'[9] = Nothing
  BY PartsTyped DEF Take, Pipe, DataflowInv, TypeOK
<1>2. UNCHANGED <<committed, proc, inbox>>
  BY DEF Take, queueVars, moverVars
<1>3. {Box(inbox[8]), Box(proc[4].held), Box(outbox[9])} \subseteq Values
  BY PartsTyped, BoxTyped DEF Values
<1>4. {committed[0], committed[1], committed[2]} \subseteq Values
  BY PartsTyped DEF Values
<1>5. Box(outbox[9]) = <<outbox[9]>> /\ Box(outbox'[9]) = <<>>
  BY <1>1, OneValue
<1> DEFINE v == Box(outbox[9])
           l2 == committed[2]
           l3 == Join(l2, Box(proc[4].held))
           l4 == Join(l3, committed[1])
           l5 == Join(l4, committed[0])
           l6 == Join(l5, Box(inbox[8]))
<1>6. Join(<<>>, committed[2]) = l2 /\ l2 \in Values /\ v \in Values
  BY <1>3, <1>4, JoinLaws
<1>7. Chain' = l6
  BY <1>2, <1>5, <1>6, ChainJoins
<1>8. Chain = Join(Join(Join(Join(Join(v, l2), Box(proc[4].held)), committed[1]), committed[0]), Box(inbox[8]))
  BY ChainJoins
<1> HIDE DEF v, l2
<1>9. l3 \in Values /\ Join(Join(v, l2), Box(proc[4].held)) = Join(v, l3)
  BY <1>3, <1>6, JoinLaws
<1> HIDE DEF l3
<1>10. l4 \in Values /\ Join(Join(v, l3), committed[1]) = Join(v, l4)
  BY <1>4, <1>6, <1>9, JoinLaws
<1> HIDE DEF l4
<1>11. l5 \in Values /\ Join(Join(v, l4), committed[0]) = Join(v, l5)
  BY <1>4, <1>6, <1>10, JoinLaws
<1> HIDE DEF l5
<1>12. l6 \in Values /\ Join(Join(v, l5), Box(inbox[8])) = Join(v, l6)
  BY <1>3, <1>6, <1>11, JoinLaws
<1> HIDE DEF l6
<1>13. Chain = Join(v, l6)
  BY <1>8, <1>9, <1>10, <1>11, <1>12
<1>14. Chain = <<outbox[9]>> \o l6 /\ l6 \in Seq(Payload)
  BY <1>5, <1>12, <1>13 DEF v, Join, Values
<1>15. \A x \in Payload, s \in Seq(Payload) :
         /\ <<x>> \o s \in Seq(Payload) /\ <<x>> \o s # <<>> /\ (<<x>> \o s)[1] = x
         /\ Head(<<x>> \o s) = x /\ Tail(<<x>> \o s) = s
  BY FrontOff
<1>16. got' = Successor(outbox[9])
  BY <1>1 DEF Take, Successor
<1> QED
  BY <1>1, <1>7, <1>14, <1>15, <1>16

-----------------------------------------------------------------------------
(* Every step is a step of the channel or leaves it alone *)

(* Between ticks nothing is proposed. *)
LEMMA IdleIsQuiet == DataflowInv /\ phase = "idle" => Quiet
BY DEF DataflowInv, Structure, NothingProposed, Quiet

(* The same after a step. *)
LEMMA IdleIsQuietNext == (DataflowInv /\ phase = "idle" => Quiet)'
BY IdleIsQuiet, PTL

(* Where nothing the chain is made of changes, neither does the chain. *)
LEMMA ChainStays ==
    ASSUME UNCHANGED <<committed, proc, inbox, outbox>>
    PROVE  Chain' = Chain
BY DEF Chain

(* The empty network holds the empty channel. *)
LEMMA EmptyChain ==
    Pipe /\ committed = [q \in Queues |-> <<>>] /\ proc = [p \in Processes |-> Entry]
      /\ inbox = [i \in Ingress |-> Nothing] /\ outbox = [e \in Egress |-> Nothing]
      => Chain = <<>>
<1> SUFFICES ASSUME Pipe, committed = [q \in Queues |-> <<>>], proc = [p \in Processes |-> Entry],
                    inbox = [i \in Ingress |-> Nothing], outbox = [e \in Egress |-> Nothing]
             PROVE  Chain = <<>>
  OBVIOUS
<1>1. committed[0] = <<>> /\ committed[1] = <<>> /\ committed[2] = <<>>
  BY DEF Pipe
<1>2. inbox[8] = Nothing /\ outbox[9] = Nothing /\ proc[4].held = Nothing
  BY DEF Pipe, Entry
<1>3. Box(Nothing) = <<>> /\ <<>> \o <<>> = <<>>
  BY DEF Box
<1> QED
  BY <1>1, <1>2, <1>3 DEF Chain

(* The same after a step. *)
LEMMA EmptyChainNext ==
    (Pipe /\ committed = [q \in Queues |-> <<>>] /\ proc = [p \in Processes |-> Entry]
       /\ inbox = [i \in Ingress |-> Nothing] /\ outbox = [e \in Egress |-> Nothing]
       => Chain = <<>>)'
BY EmptyChain, PTL

(* An empty chain has no labels. *)
LEMMA ConsecutiveEmpty == Consecutive(<<>>, 0, 0)
<1>1. 1..(Len(<<>>) - 1) = {}
  OBVIOUS
<1> QED
  BY <1>1 DEF Consecutive

(* The first state. *)
LEMMA PipeInit ==
    ASSUME Pipe, Init
    PROVE  PipeInv /\ Channel!Init
<1>1. DataflowInv /\ Quiet
  BY InitInv DEF Init, Quiet
<1>2. Moves
  BY <1>1, QuietMoves
<1>3. Chain = <<>> /\ sent = 0 /\ got = 0
  BY EmptyChain DEF Init
<1> QED
  BY <1>2, <1>3, ConsecutiveEmpty DEF PipeInv, Channel!Init

(* A step of the pipe. *)
LEMMA PipeStep ==
    ASSUME Pipe, DataflowInv, DataflowInv', PipeInv, [Next]_vars
    PROVE  PipeInv' /\ [Channel!Next]_(Channel!fifoVars)
<1>1. Moves /\ Consecutive(Chain, got, sent)
  BY DEF PipeInv
<1>2. CASE Work
  <2>1. PICK id \in todo : LinkWork(id) \/ ProcessWork(id) \/ IngressWork(id) \/ EgressWork(id)
    BY <1>2 DEF Work
  <2>2. Moves'
    BY <1>1, <2>1, LinkWorkMoves, ProcessWorkMoves, IngressWorkMoves, EgressWorkMoves
  <2>3. UNCHANGED <<committed, proc, inbox, outbox, sent, got>>
    BY <2>1 DEF LinkWork, ProcessWork, IngressWork, EgressWork, moverVars, hostVars, labelVars
  <2>4. Chain' = Chain
    BY <2>3, ChainStays
  <2> QED
    BY <1>1, <2>2, <2>3, <2>4 DEF PipeInv, Channel!fifoVars
<1>3. CASE Xfer
  <2>1. phase' = "idle" /\ sent' = sent /\ got' = got
    BY <1>3 DEF Xfer, labelVars
  <2>2. Moves'
    BY <2>1, IdleIsQuietNext, QuietMovesNext
  <2>3. Chain' = Chain
    BY <1>1, <1>3, XferChain
  <2> QED
    BY <1>1, <2>1, <2>2, <2>3 DEF PipeInv, Channel!fifoVars
<1>4. CASE StepTick
  <2>1. UNCHANGED <<committed, proc, inbox, outbox, sent, got, pushes, pops, proposal, offered, taking>>
        /\ phase = "idle"
    BY <1>4 DEF StepTick, queueVars, moverVars, hostVars, labelVars
  <2>2. Quiet'
    BY <2>1, IdleIsQuiet DEF Quiet
  <2>3. Moves'
    BY <2>2, QuietMovesNext
  <2>4. Chain' = Chain
    BY <2>1, ChainStays
  <2> QED
    BY <1>1, <2>1, <2>3, <2>4 DEF PipeInv, Channel!fifoVars
<1>5. CASE \E i \in Ingress : Stage(i)
  <2>1. PICK i \in Ingress : Stage(i)
    BY <1>5
  <2>2. phase' = "idle" /\ sent' = Successor(sent) /\ got' = got
    BY <2>1 DEF Stage, Successor
  <2>3. Moves'
    BY <2>2, IdleIsQuietNext, QuietMovesNext
  <2>4. /\ Chain \in Seq(Payload) /\ sent \in Payload /\ Chain' = Append(Chain, sent)
        /\ Len(Chain) < 3 + Room(0) + Room(1) + Room(2)
    BY <2>1, StageChain
  <2>5. Consecutive(Chain', got', sent')
    BY <1>1, <2>2, <2>4, ConsecutiveAppend
  <2>6. Channel!Put
    BY <2>2, <2>4 DEF Channel!Put, Successor
  <2> QED
    BY <2>3, <2>5, <2>6 DEF PipeInv, Channel!Next
<1>6. CASE \E e \in Egress : Take(e)
  <2>1. PICK e \in Egress : Take(e)
    BY <1>6
  <2>2. phase' = "idle" /\ sent' = sent
    BY <2>1 DEF Take
  <2>3. Moves'
    BY <2>2, IdleIsQuietNext, QuietMovesNext
  <2>4. /\ Chain \in Seq(Payload) /\ Chain # <<>>
        /\ Head(Chain) = outbox[9] /\ Chain[1] = outbox[9] /\ Chain' = Tail(Chain)
        /\ got' = Successor(outbox[9])
    BY <2>1, TakeChain
  <2>5. outbox[9] = got
    BY <1>1, <2>4 DEF Consecutive
  <2>6. Consecutive(Chain', got', sent')
    BY <1>1, <2>2, <2>4, <2>5, ConsecutiveTail
  <2>7. Channel!Get
    BY <2>2, <2>4, <2>5 DEF Channel!Get, Successor
  <2> QED
    BY <2>3, <2>6, <2>7 DEF PipeInv, Channel!Next
<1>7. CASE Reset
  <2>1. phase' = "idle" /\ sent' = 0 /\ got' = 0
    BY <1>7 DEF Reset
  <2>2. Moves'
    BY <2>1, IdleIsQuietNext, QuietMovesNext
  <2>3. Chain' = <<>>
    BY <1>7, EmptyChainNext DEF Reset
  <2>4. Channel!Clear
    BY <2>1, <2>3 DEF Channel!Clear
  <2> QED
    BY <2>1, <2>2, <2>3, <2>4, ConsecutiveEmpty DEF PipeInv, Channel!Next
<1>8. CASE UNCHANGED vars
  <2>1. UNCHANGED <<committed, pushes, pops, proc, proposal, inbox, offered, outbox, taking, todo, sent, got>>
    BY <1>8 DEF vars, queueVars, moverVars, hostVars, labelVars
  <2>2. Moves'
    BY <1>1, <2>1 DEF Moves, EgressMoves, ProcessMoves, LinkMoves, IngressMoves, Untried, Taken,
          OutboxAfter, SlotAfter, InboxAfter, Continuation, Stepped
  <2>3. Chain' = Chain
    BY <2>1, ChainStays
  <2> QED
    BY <1>1, <2>1, <2>2, <2>3 DEF PipeInv, Channel!fifoVars
<1> QED
  BY <1>2, <1>3, <1>4, <1>5, <1>6, <1>7, <1>8 DEF Next, Host

(***************************************************************************)
(* The chain of mailbox, queue, link, queue, process, queue and mailbox    *)
(* implements a bounded first-in first-out channel, whatever the queues'   *)
(* capacities are: every value the host stages reaches it once and in      *)
(* order, and no tick, stall or reset puts a value out of its place        *)
(* (QueueLink, ProcessRuntime, HostIngress, HostEgress, Model::stepTick).  *)
(***************************************************************************)
THEOREM PipeIsFifoTheorem ==
    ASSUME Pipe
    PROVE  Spec => PipeIsFifo
<1>1. Init => PipeInv /\ Channel!Init
  BY PipeInit
<1>2. DataflowInv /\ DataflowInv' /\ PipeInv /\ [Next]_vars
        => PipeInv' /\ [Channel!Next]_(Channel!fifoVars)
  BY PipeStep
<1> QED
  BY <1>1, <1>2, DataflowInvariant, PTL DEF Spec, PipeIsFifo, Channel!Spec
=============================================================================
