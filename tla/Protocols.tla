----------------------------- MODULE Protocols -----------------------------
(***************************************************************************)
(* The protocol components of include/gfsim/components.h as values and     *)
(* operators on them, for the modules that compose them.                   *)
(*                                                                         *)
(* A component is a record.  An operator named Propose... is the effect of *)
(* the call of that name during Work, Can... the condition under which the *)
(* call returns true; the operator ending in Xfer is doXfer, which applies *)
(* what was proposed.  doArbitrate of these components only emits          *)
(* observations unless an operator ending in Arbitrate says otherwise.     *)
(***************************************************************************)
EXTENDS Integers, Sequences, SequencesExt, FiniteSets, TLC

-----------------------------------------------------------------------------
(* RequestResponse.  An envelope is a record [id, payload].               *)

Id(envelope) == envelope.id
Ids(s) == {Id(s[i]) : i \in DOMAIN s}

RRInit == [asked |-> <<>>,        \* requestProposals_
           requests |-> <<>>,     \* committedRequests_
           active |-> {},         \* active_
           delivered |-> {},      \* deliveredRequests_
           answered |-> <<>>,     \* responseProposals_
           responses |-> <<>>,    \* committedResponses_
           requestPops |-> 0,     \* requestPopCount_
           responsePops |-> 0]    \* responsePopCount_

\* Mutant of RRKnown: a response nobody has taken yet does not hold its id.
RRKnownActive(rr, id) == id \in rr.active \cup Ids(rr.asked)

\* containsCorrelation
RRKnown(rr, id) == id \in rr.active \cup Ids(rr.asked) \cup Ids(rr.responses)

CanRequest(rr, maxInFlight, id) ==
    /\ Cardinality(rr.active) + Len(rr.asked) < maxInFlight
    /\ ~RRKnown(rr, id)

ProposeRequest(rr, envelope) == [rr EXCEPT !.asked = Append(@, envelope)]

\* peekRequest, which sees the front even when its pop is proposed, and the
\* request that proposePopRequest would return.
CanPeek(rr) == rr.requests # <<>>
CanPopRequest(rr) == rr.requestPops < Len(rr.requests)
NextRequest(rr) == rr.requests[rr.requestPops + 1]
ProposePopRequest(rr) == [rr EXCEPT !.requestPops = @ + 1]

\* Mutant of CanRespond: the request need not have been delivered.
CanRespondEarly(rr, id) == id \in rr.active /\ id \notin Ids(rr.answered)

CanRespond(rr, id) ==
    /\ id \in rr.active \cap rr.delivered
    /\ id \notin Ids(rr.answered)

ProposeResponse(rr, envelope) == [rr EXCEPT !.answered = Append(@, envelope)]

CanPopResponse(rr) == rr.responsePops < Len(rr.responses)
ProposePopResponse(rr) == [rr EXCEPT !.responsePops = @ + 1]

\* Mutant of RRXfer: an answered request stays active.
RRXferKeepsActive(rr) ==
    LET popped == {Id(rr.requests[i]) : i \in 1..rr.requestPops}
    IN  [asked |-> <<>>,
         requests |-> SubSeq(rr.requests, rr.requestPops + 1, Len(rr.requests)) \o rr.asked,
         active |-> rr.active \cup Ids(rr.asked),
         delivered |-> (rr.delivered \cup popped) \ Ids(rr.answered),
         answered |-> <<>>,
         responses |-> SubSeq(rr.responses, rr.responsePops + 1, Len(rr.responses)) \o rr.answered,
         requestPops |-> 0, responsePops |-> 0]

RRXfer(rr) ==
    LET popped == {Id(rr.requests[i]) : i \in 1..rr.requestPops}
    IN  [asked |-> <<>>,
         requests |-> SubSeq(rr.requests, rr.requestPops + 1, Len(rr.requests)) \o rr.asked,
         active |-> (rr.active \cup Ids(rr.asked)) \ Ids(rr.answered),
         delivered |-> (rr.delivered \cup popped) \ Ids(rr.answered),
         answered |-> <<>>,
         responses |-> SubSeq(rr.responses, rr.responsePops + 1, Len(rr.responses)) \o rr.answered,
         requestPops |-> 0, responsePops |-> 0]

\* hasPendingCommit and runtimeState
RRPending(rr) ==
    rr.asked # <<>> \/ rr.answered # <<>> \/ rr.requestPops # 0 \/ rr.responsePops # 0

RRQuiescent(rr) ==
    rr.active = {} /\ rr.requests = <<>> /\ rr.responses = <<>> /\ ~RRPending(rr)

\* validate, with the bound the constructor was given
RRValid(rr, maxInFlight) ==
    /\ Cardinality(rr.active) + Len(rr.asked) <= maxInFlight
    /\ rr.delivered \subseteq rr.active
    /\ Ids(rr.requests) \subseteq rr.active
    /\ Ids(rr.answered) \subseteq rr.delivered

-----------------------------------------------------------------------------
(* ReadyValid.  An optional value is a sequence of length 0 or 1.          *)

Nothing == <<>>
Just(v) == <<v>>

RVInit == [ready |-> FALSE, offer |-> Nothing, offering |-> Nothing, readying |-> Nothing,
           last |-> 0, transfers |-> 0]

CanOffer(rv) == rv.offer = Nothing /\ rv.offering = Nothing
ProposeOffer(rv, v) == [rv EXCEPT !.offering = Just(v)]
ProposeReady(rv, b) == [rv EXCEPT !.readying = Just(b)]
RVPending(rv) == rv.offering # Nothing \/ rv.readying # Nothing
RVQuiescent(rv) == rv.offer = Nothing /\ ~RVPending(rv)

\* Mutant of RVXfer: a transferred offer stays on the channel.
RVXferKeepsOffer(rv) ==
    LET ready == IF rv.readying = Nothing THEN rv.ready ELSE rv.readying[1]
        offer == IF rv.offering = Nothing THEN rv.offer ELSE rv.offering
        moves == ready /\ offer # Nothing
    IN  [ready |-> ready, offer |-> offer, offering |-> Nothing, readying |-> Nothing,
         last |-> IF moves THEN offer[1] ELSE rv.last,
         transfers |-> IF moves THEN rv.transfers + 1 ELSE rv.transfers]

\* doXfer: the proposals become state, and an offer that meets a ready
\* receiver is transferred at once.
RVXfer(rv) ==
    LET ready == IF rv.readying = Nothing THEN rv.ready ELSE rv.readying[1]
        offer == IF rv.offering = Nothing THEN rv.offer ELSE rv.offering
        moves == ready /\ offer # Nothing
    IN  [ready |-> ready, offer |-> IF moves THEN Nothing ELSE offer,
         offering |-> Nothing, readying |-> Nothing,
         last |-> IF moves THEN offer[1] ELSE rv.last,
         transfers |-> IF moves THEN rv.transfers + 1 ELSE rv.transfers]

\* validate
RVValid(rv) == ~(rv.ready /\ rv.offer # Nothing)

-----------------------------------------------------------------------------
(* Memory and Sink *)

MemoryInit(capacity) == [storage |-> [a \in 0..(capacity - 1) |-> 0], writes |-> <<>>]
CanWrite(m, a) == a \in DOMAIN m.storage
ProposeWrite(m, a, v) ==
    [m EXCEPT !.writes = [x \in DOMAIN m.writes \cup {a} |-> IF x = a THEN v ELSE m.writes[x]]]
MemoryXfer(m) == [storage |-> [a \in DOMAIN m.storage |->
                                 IF a \in DOMAIN m.writes THEN m.writes[a] ELSE m.storage[a]],
                  writes |-> <<>>]

SinkInit == [received |-> <<>>, receiving |-> <<>>]
Receive(k, v) == [k EXCEPT !.receiving = Append(@, v)]
SinkXfer(k) == [received |-> k.received \o k.receiving, receiving |-> <<>>]
=============================================================================
