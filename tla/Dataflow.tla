------------------------------ MODULE Dataflow ------------------------------
(***************************************************************************)
(* The queues of a generated model and the objects that move data through  *)
(* them, driven tick by tick from the host.                                *)
(*                                                                         *)
(*   include/gfsim/queue.h    SimQueue, QueueLink                          *)
(*   include/gfsim/process.h  ProcessRuntime: Work, Xfer, activateFrom     *)
(*   include/gfsim/host.h     HostIngress, HostEgress                      *)
(*   lib/CodeGen/Generator.cpp   Model::stepTick, Model::reset             *)
(*                                                                         *)
(* No object here asks for events, so a tick is one epoch and the model    *)
(* needs no clock: ready holds the objects scheduled for the next tick.    *)
(* A process is the generated receive/send loop: receive from From[p],     *)
(* send to To[p], yield; a try that fails awaits its queue and retries.    *)
(***************************************************************************)
EXTENDS Integers, Sequences, FiniteSets, FiniteSetsExt

CONSTANTS
    Queues, Links, Processes, Ingress, Egress,  \* object ids, by kind
    From,      \* the queue a link, process or egress takes from
    To,        \* the queue a link, process or ingress puts to
    Entries,   \* entryCapacity_ of each queue
    Bytes,     \* byteCapacity_ / serializedSize of each queue
    Labels     \* the host stages payloads 0 .. Labels - 1 in rotation

Takers == Links \cup Processes \cup Egress
Putters == Links \cup Processes \cup Ingress

\* Object ids are natural numbers and each names one object.
ASSUME TopologyAssumption ==
    /\ Queues \cup Takers \cup Putters \subseteq Nat
    /\ IsFiniteSet(Queues \cup Takers \cup Putters)
    /\ Processes \cap (Queues \cup Links \cup Ingress \cup Egress) = {}
    /\ Links \cap (Queues \cup Ingress \cup Egress) = {}
    /\ Ingress \cap (Queues \cup Egress) = {} /\ Egress \cap Queues = {}
    /\ From \in [Takers -> Queues]
    /\ To \in [Putters -> Queues]
    /\ Ingress # {}

\* The compiler proves that a link is the only taker of its source and the
\* only putter of its destination.
ASSUME LinkAssumption ==
    \A l \in Links :
        /\ \A t \in Takers \ {l} : From[t] # From[l]
        /\ \A p \in Putters \ {l} : To[p] # To[l]
        /\ From[l] # To[l]

ASSUME CapacityAssumption ==
    /\ Entries \in [Queues -> Nat \ {0}]
    /\ Bytes \in [Queues -> Nat \ {0}]
    /\ Labels \in Nat \ {0}

Payload == 0..(Labels - 1)
Nothing == -1    \* an empty mailbox or slot; no wake subscription

VARIABLES
    committed, pushes, pops,  \* SimQueue: committed_, pushProposals_, popProposalCount_
    moving,                   \* QueueLink: pendingTransfer_
    proc, proposal,           \* ProcessRuntime: committed and proposed continuation
    inbox, offered,           \* HostIngress: mailbox_, proposed_
    outbox, taking,           \* HostEgress: mailbox_, proposedValue_
    ready, todo, phase,       \* the scheduler: next tick, rest of this tick's Work
    fault,                    \* runtimeFailureCode of a link
    sent, got, inflight       \* the host: next label, label due, values outstanding

queueVars == <<committed, pushes, pops>>
moverVars == <<moving, proc, proposal>>
hostVars == <<inbox, offered, outbox, taking>>
labelVars == <<sent, got, inflight>>
vars == <<queueVars, moverVars, hostVars, ready, todo, phase, fault, labelVars>>

-----------------------------------------------------------------------------
(* SimQueue *)

Room(q) == Min({Entries[q], Bytes[q]})
\* Mutant of IsFull: the comparison is off by one.
IsFullLate(q) == Len(committed[q]) > Room(q)

IsFull(q) == Len(committed[q]) >= Room(q)
\* Mutant of CanPush: the pushes already proposed in this tick are not counted.
CanPushSnapshot(q) == ~IsFull(q)

CanPush(q) == Len(committed[q]) + Len(pushes[q]) < Room(q)
CanPop(q) == pops[q] < Len(committed[q])
Front(q) == committed[q][pops[q] + 1]

\* Mutant of AfterXfer: the pops remove the newest values.
AfterXferNewest(q) ==
    SubSeq(committed[q] \o pushes[q], 1, Len(committed[q]) + Len(pushes[q]) - pops[q])

\* doXfer: pushes first, then the proposed pops from the front.
AfterXfer(q) ==
    SubSeq(committed[q] \o pushes[q], pops[q] + 1, Len(committed[q]) + Len(pushes[q]))

Changed == {q \in Queues : pushes[q] # <<>> \/ pops[q] # 0}

-----------------------------------------------------------------------------
(* Work: one object of the snapshot, in ascending id order. *)

Turn(id) == phase = "work" /\ todo # {} /\ id = Min(todo) /\ fault = ""

\* QueueLink::doWork proposes one paired transfer or stalls.
LinkWork(l) ==
    /\ l \in Links /\ Turn(l)
    /\ LET s == From[l]
           d == To[l]
       IN  IF committed[s] = <<>> \/ IsFull(d)
           THEN UNCHANGED <<pushes, pops, moving, fault>>
           ELSE IF CanPop(s) /\ CanPush(d)
           THEN /\ pushes' = [pushes EXCEPT ![d] = Append(@, Front(s))]
                /\ pops' = [pops EXCEPT ![s] = @ + 1]
                /\ moving' = [moving EXCEPT ![l] = TRUE]
                /\ UNCHANGED fault
           ELSE /\ fault' = "queue_link_atomic_proposal_failed"
                /\ UNCHANGED <<pushes, pops, moving>>
    /\ todo' = todo \ {l}
    /\ UNCHANGED <<committed, proc, proposal, hostVars, ready, phase, labelVars>>

\* Mutant of Resume: the value a refused send holds is not kept.
ResumeEmpty(pc, held, wake) ==
    [pc |-> pc, held |-> Nothing, wake |-> wake, status |-> "Suspended"]

\* Where a process stands: pc, the value it holds, its status, and the object
\* whose commit wakes it (its own id after yield_sim).
Resume(pc, held, wake) == [pc |-> pc, held |-> held, wake |-> wake, status |-> "Suspended"]
Entry == [pc |-> "recv", held |-> Nothing, wake |-> Nothing, status |-> "Runnable"]
NoProposal == [Entry EXCEPT !.status = "None"]

\* ProcessRuntime::doWork: the generated loop runs until it suspends.  A
\* process that is scheduled without being runnable would block the model
\* here (the code returns at once); the deadlock check shows there is none.
ProcessWork(p) ==
    /\ p \in Processes /\ Turn(p)
    /\ proc[p].status = "Runnable"
    /\ LET i == From[p]
           o == To[p]
           receives == proc[p].pc = "recv"
           held == IF receives THEN Front(i) ELSE proc[p].held
       IN  \/ /\ receives /\ ~CanPop(i)
              /\ proposal' = [proposal EXCEPT ![p] = Resume("recv", Nothing, i)]
              /\ UNCHANGED <<pushes, pops>>
           \/ /\ receives => CanPop(i)
              /\ pops' = IF receives THEN [pops EXCEPT ![i] = @ + 1] ELSE pops
              /\ IF CanPush(o)
                 THEN /\ pushes' = [pushes EXCEPT ![o] = Append(@, held)]
                      /\ proposal' = [proposal EXCEPT ![p] = Resume("recv", Nothing, p)]
                 ELSE /\ proposal' = [proposal EXCEPT ![p] = Resume("send", held, o)]
                      /\ UNCHANGED pushes
    /\ todo' = todo \ {p}
    /\ UNCHANGED <<committed, moving, proc, hostVars, ready, phase, fault, labelVars>>

\* Mutant of IngressWork: the mailbox is not tested.
IngressWorkUnchecked(i) ==
    /\ i \in Ingress /\ Turn(i)
    /\ IF CanPush(To[i])
       THEN /\ pushes' = [pushes EXCEPT ![To[i]] = Append(@, inbox[i])]
            /\ offered' = [offered EXCEPT ![i] = TRUE]
       ELSE UNCHANGED <<pushes, offered>>
    /\ todo' = todo \ {i}
    /\ UNCHANGED <<committed, pops, moverVars, inbox, outbox, taking, ready, phase,
                   fault, labelVars>>

\* HostIngress::doWork
IngressWork(i) ==
    /\ i \in Ingress /\ Turn(i)
    /\ IF inbox[i] # Nothing /\ ~offered[i] /\ CanPush(To[i])
       THEN /\ pushes' = [pushes EXCEPT ![To[i]] = Append(@, inbox[i])]
            /\ offered' = [offered EXCEPT ![i] = TRUE]
       ELSE UNCHANGED <<pushes, offered>>
    /\ todo' = todo \ {i}
    /\ UNCHANGED <<committed, pops, moverVars, inbox, outbox, taking, ready, phase,
                   fault, labelVars>>

\* HostEgress::doWork
EgressWork(e) ==
    /\ e \in Egress /\ Turn(e)
    /\ IF outbox[e] = Nothing /\ taking[e] = Nothing /\ CanPop(From[e])
       THEN /\ taking' = [taking EXCEPT ![e] = Front(From[e])]
            /\ pops' = [pops EXCEPT ![From[e]] = @ + 1]
       ELSE UNCHANGED <<taking, pops>>
    /\ todo' = todo \ {e}
    /\ UNCHANGED <<committed, pushes, moverVars, inbox, offered, outbox, ready, phase,
                   fault, labelVars>>

-----------------------------------------------------------------------------
(* Xfer: every participant commits; then the activation edges. *)

Stepped == {p \in Processes : proposal[p] # NoProposal}
Continuation(p) == IF p \in Stepped THEN proposal[p] ELSE proc[p]

\* Mutants of SourcesOf: no self edge, no edge from the input queue, none from
\* the output queue.
SourcesOfQueues(p) == {From[p], To[p]} \cap Changed
SourcesOfOutput(p) == ({To[p]} \cap Changed) \cup ({p} \cap Stepped)
SourcesOfInput(p) == ({From[p]} \cap Changed) \cup ({p} \cap Stepped)

\* Committed sources whose activation edges lead to a process: its queues,
\* and itself (the self edge of every runtime row).
SourcesOf(p) == ({From[p], To[p]} \cap Changed) \cup ({p} \cap Stepped)

\* activateFrom: a runnable process stays scheduled, a suspended one wakes
\* for the source it waits for.
Activated(p) ==
    \E s \in SourcesOf(p) :
        Continuation(p).status = "Runnable" \/ Continuation(p).wake = s

Xfer ==
    /\ phase = "work" /\ todo = {} /\ fault = ""
    /\ committed' = [q \in Queues |-> AfterXfer(q)]
    /\ pushes' = [q \in Queues |-> <<>>]
    /\ pops' = [q \in Queues |-> 0]
    /\ moving' = [l \in Links |-> FALSE]
    /\ proc' = [p \in Processes |->
                  IF Activated(p)
                  THEN [Continuation(p) EXCEPT !.status = "Runnable", !.wake = Nothing]
                  ELSE Continuation(p)]
    /\ proposal' = [p \in Processes |-> NoProposal]
    /\ inbox' = [i \in Ingress |-> IF offered[i] THEN Nothing ELSE inbox[i]]
    /\ offered' = [i \in Ingress |-> FALSE]
    /\ outbox' = [e \in Egress |-> IF taking[e] # Nothing THEN taking[e] ELSE outbox[e]]
    /\ taking' = [e \in Egress |-> Nothing]
    /\ ready' = ready \cup {p \in Processes : Activated(p)}
                      \cup {l \in Links : moving[l] \/ {From[l], To[l]} \cap Changed # {}}
    /\ phase' = "idle"
    /\ UNCHANGED <<todo, fault, labelVars>>

-----------------------------------------------------------------------------
(* The host. *)

\* Model::stepTick: the bridges join the work of this tick, the inputs also
\* that of the next, which keeps the run from ending for lack of work.
StepTick ==
    /\ phase = "idle" /\ fault = ""
    /\ todo' = ready \cup Ingress \cup Egress
    /\ ready' = Ingress
    /\ phase' = "work"
    /\ UNCHANGED <<queueVars, moverVars, hostVars, fault, labelVars>>

\* HostIngress::stage
Stage(i) ==
    /\ phase = "idle" /\ fault = ""
    /\ inbox[i] = Nothing /\ ~offered[i]
    /\ inbox' = [inbox EXCEPT ![i] = sent]
    /\ sent' = (sent + 1) % Labels
    /\ inflight' = inflight + 1
    /\ UNCHANGED <<queueVars, moverVars, offered, outbox, taking, ready, todo, phase,
                   fault, got>>

\* HostEgress::take
Take(e) ==
    /\ phase = "idle" /\ fault = ""
    /\ outbox[e] # Nothing
    /\ outbox' = [outbox EXCEPT ![e] = Nothing]
    /\ got' = (outbox[e] + 1) % Labels
    /\ inflight' = inflight - 1
    /\ UNCHANGED <<queueVars, moverVars, inbox, offered, taking, ready, todo, phase,
                   fault, sent>>

Init ==
    /\ committed = [q \in Queues |-> <<>>]
    /\ pushes = [q \in Queues |-> <<>>] /\ pops = [q \in Queues |-> 0]
    /\ moving = [l \in Links |-> FALSE]
    /\ proc = [p \in Processes |-> Entry]
    /\ proposal = [p \in Processes |-> NoProposal]
    /\ inbox = [i \in Ingress |-> Nothing] /\ offered = [i \in Ingress |-> FALSE]
    /\ outbox = [e \in Egress |-> Nothing] /\ taking = [e \in Egress |-> Nothing]
    /\ ready = Processes /\ todo = {} /\ phase = "idle" /\ fault = ""
    /\ sent = 0 /\ got = 0 /\ inflight = 0

\* Model::reset
Reset ==
    /\ phase = "idle" \/ fault # ""
    /\ committed' = [q \in Queues |-> <<>>]
    /\ pushes' = [q \in Queues |-> <<>>] /\ pops' = [q \in Queues |-> 0]
    /\ moving' = [l \in Links |-> FALSE]
    /\ proc' = [p \in Processes |-> Entry]
    /\ proposal' = [p \in Processes |-> NoProposal]
    /\ inbox' = [i \in Ingress |-> Nothing] /\ offered' = [i \in Ingress |-> FALSE]
    /\ outbox' = [e \in Egress |-> Nothing] /\ taking' = [e \in Egress |-> Nothing]
    /\ ready' = Processes /\ todo' = {} /\ phase' = "idle" /\ fault' = ""
    /\ sent' = 0 /\ got' = 0 /\ inflight' = 0

Work == \E id \in todo : LinkWork(id) \/ ProcessWork(id) \/ IngressWork(id) \/ EgressWork(id)
Host == StepTick \/ (\E i \in Ingress : Stage(i)) \/ (\E e \in Egress : Take(e))

Next == Work \/ Xfer \/ Host \/ Reset

Spec == Init /\ [][Next]_vars

\* The host keeps stepping and takes what it finds between ticks (a take is
\* possible only there, hence SF); a tick that has begun runs to its end.
FairSpec ==
    /\ Init /\ [][Work \/ Xfer \/ Host]_vars
    /\ WF_vars(Work) /\ WF_vars(Xfer) /\ WF_vars(StepTick)
    /\ \A e \in Egress : SF_vars(Take(e))

-----------------------------------------------------------------------------
(* Properties. *)

Continuations ==
    [pc : {"recv", "send"}, held : Payload \cup {Nothing},
     wake : Queues \cup Processes \cup {Nothing}, status : {"Runnable", "Suspended", "None"}]

\* Types of the objects' state.
TypeOK ==
    /\ committed \in [Queues -> Seq(Payload)] /\ pushes \in [Queues -> Seq(Payload)]
    /\ pops \in [Queues -> Nat]
    /\ moving \in [Links -> BOOLEAN]
    /\ proc \in [Processes -> Continuations] /\ proposal \in [Processes -> Continuations]
    /\ inbox \in [Ingress -> Payload \cup {Nothing}] /\ offered \in [Ingress -> BOOLEAN]
    /\ outbox \in [Egress -> Payload \cup {Nothing}]
    /\ taking \in [Egress -> Payload \cup {Nothing}]
    /\ ready \subseteq Takers \cup Putters /\ todo \subseteq Takers \cup Putters
    /\ phase \in {"idle", "work"}
    /\ fault \in {"", "queue_link_atomic_proposal_failed"}
    /\ sent \in Payload /\ got \in Payload /\ inflight \in Nat

\* No queue ever holds more than both of its capacities allow, and a pop
\* proposed in the same tick never makes room for a push (SimQueue).
NoOverflow ==
    \A q \in Queues :
        /\ Len(committed[q]) + Len(pushes[q]) <= Room(q)
        /\ pops[q] <= Len(committed[q])

\* Event-driven activation never strands an object that could move: between
\* ticks, whoever is not scheduled for the next one cannot make progress.
\* A process waiting to receive faces an empty queue, one waiting to send a
\* full one, none waits on itself, and a link that is not scheduled is
\* stalled at its source or its destination (activateFrom and the
\* activation edges).
NoLostWakeup ==
    phase = "idle" /\ fault = "" =>
      /\ \A p \in Processes \ ready :
            /\ proc[p].status = "Suspended"
            /\ \/ proc[p].pc = "recv" /\ proc[p].wake = From[p] /\ committed[From[p]] = <<>>
               \/ proc[p].pc = "send" /\ proc[p].wake = To[p] /\ IsFull(To[p])
      /\ \A p \in Processes \cap ready : proc[p].status = "Runnable"
      /\ \A l \in Links \ ready : committed[From[l]] = <<>> \/ IsFull(To[l])

\* A link whose two committed checks pass never has its paired proposal
\* refused: nobody else proposes on its side of either queue (QueueLink).
LinksNeverFail == TypeOK /\ fault = ""

\* Committed values: in mailboxes, in queues and in the slots of processes.
Cells(length) == UNION {{q} \X (1..length[q]) : q \in Queues}
Stored == Cells([q \in Queues |-> Len(committed[q])])
Holding == {p \in Processes : proc[p].held # Nothing}
Filled(box, S) == {x \in S : box[x] # Nothing}

\* Every value the host staged and has not taken is in exactly one place, the
\* middle of a tick included: no push without its pop, no pop without its push.
Conserved ==
    inflight = Cardinality(Stored) + Cardinality(Holding)
               + Cardinality(Filled(inbox, Ingress)) + Cardinality(Filled(outbox, Egress))

\* Values keep moving: while some are inside, the host is offered one again
\* and again, however full the queues are.
OutputKeepsComing == inflight > 0 ~> \E e \in Egress : outbox[e] # Nothing

\* A staged value does not wait in its mailbox for ever.
MailboxDrains == \A i \in Ingress : inbox[i] # Nothing ~> inbox[i] = Nothing

=============================================================================
