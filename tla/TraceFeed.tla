----------------------------- MODULE TraceFeed -----------------------------
(***************************************************************************)
(* A PTO trace from its bytes to the completion of its last transaction:   *)
(* PtoTraceStream and the validating parser of lib/gfsim/trace.cpp, the    *)
(* cursor TraceSource of include/gfsim/trace.h, and consumers that accept  *)
(* its offers and order them in the Scheduler component of                 *)
(* include/gfsim/components.h.                                             *)
(*                                                                         *)
(* The consumers are user code: in the Work of a tick each may make any    *)
(* call on the source and on the Scheduler, before or after the Work of    *)
(* the source; EndTick is the arbitration and Xfer of that tick.  The      *)
(* source is activated by whatever uses it, as the lowering's edges do:    *)
(* after a tick in which something committed it runs again, otherwise only *)
(* its issue event wakes it.                                               *)
(***************************************************************************)
EXTENDS Integers, Sequences, SequencesExt, FiniteSets, FiniteSetsExt, TLC

CONSTANTS
    Documents,      \* the documents offered to the stream
    Consumers,      \* object ids of the consumers
    Capacity,       \* capacity of the Scheduler
    MaxBytes, MaxRecords, MaxOperands, MaxDependencies, MaxDecoded,   \* TraceValidationLimits
    LastTick        \* bound: from this tick on, which is after every issue time, time stands still

VARIABLES
    input,      \* the document that is being streamed
    stream,     \* PtoTraceStream: [bytes, over, finished]
    diagnosis,  \* "" before finish(), then "ok" or the code of the diagnostic
    tick, alarm,    \* the clock and the source's pending issue event (-1: none)
    awake, worked,  \* the source is scheduled in this tick, and has done its Work
    commits,        \* a consumer commits in this tick
    source,     \* TraceSource: [next, offer, offering, accepting, issued, completed, waking]
    ready,      \* Scheduler: [proposals, committed, pops]
    held,       \* transactions a consumer accepted and has not scheduled: id -> consumer
    running     \* transactions taken from the Scheduler and not completed

streamVars == <<input, stream, diagnosis>>
clockVars == <<tick, alarm, awake, worked, commits>>
feedVars == <<source, ready, held, running>>
vars == <<streamVars, clockVars, feedVars>>

-----------------------------------------------------------------------------
(* TraceParser: the checks in the order of the code.  The first one that   *)
(* fails gives the diagnostic.                                             *)

FirstFailure(checks) ==
    LET failing == {i \in DOMAIN checks : checks[i][1]}
    IN  IF failing = {} THEN "ok" ELSE checks[Min(failing)][2]

Seen(d, k) == {d.records[i].seq : i \in 1..(k - 1)}

\* spendDecoded: every integer and string that was read up to record k.
Spent(d, k) == MapThenSumSet(LAMBDA i : 2 + Len(d.records[i].operands) + Len(d.records[i].deps), 1..k)

\* parseOperand: an address names a declared space, a result an earlier record.
OperandCode(d, k, operand) ==
    FirstFailure(<<
        <<operand.kind \notin {"immediate", "tile", "address", "record_result"}, "ACTRACE-SCHEMA">>,
        <<operand.kind = "address" /\ operand.of \notin d.spaces, "ACTRACE-ADDRESS">>,
        <<operand.kind = "record_result" /\ operand.of \notin Seen(d, k), "ACTRACE-DEPENDENCY">> >>)

\* Mutant of DependenciesEarlier: any record of the document will do.
DependenciesAnywhere(d, k) ==
    /\ Cardinality(ToSet(d.records[k].deps)) = Len(d.records[k].deps)
    /\ ToSet(d.records[k].deps) \subseteq Seen(d, Len(d.records) + 1)

DependenciesEarlier(d, k) ==
    /\ Cardinality(ToSet(d.records[k].deps)) = Len(d.records[k].deps)
    /\ ToSet(d.records[k].deps) \subseteq Seen(d, k)

\* parseRecord
RecordCode(d, k) ==
    LET r == d.records[k]
        operands == {OperandCode(d, k, r.operands[i]) : i \in DOMAIN r.operands} \ {"ok"}
    IN  FirstFailure(<<
            <<k > 1 /\ r.seq <= d.records[k - 1].seq, "ACTRACE-IDENTITY">>,
            <<~r.opcode, "ACTRACE-SCHEMA">>,
            <<Len(r.operands) > MaxOperands, "ACTRACE-LIMIT">>,
            <<operands # {}, IF operands = {} THEN "ok" ELSE CHOOSE c \in operands : TRUE>>,
            <<Len(r.deps) > MaxDependencies, "ACTRACE-LIMIT">>,
            <<~DependenciesEarlier(d, k), "ACTRACE-DEPENDENCY">>,
            <<Spent(d, k) > MaxDecoded, "ACTRACE-LIMIT">> >>)

\* The records in order.
RecordsCode(d) ==
    FirstFailure([k \in DOMAIN d.records |-> <<RecordCode(d, k) # "ok", RecordCode(d, k)>>])

\* parse and parseRoot: well-formed JSON of the schema, the records, then the
\* counts and the hash the metadata declares.
Parse(d) ==
    FirstFailure(<<
        <<d.json, "ACTRACE-JSON">>,
        <<d.schema, "ACTRACE-SCHEMA">>,
        <<Len(d.records) > MaxRecords, "ACTRACE-LIMIT">>,
        <<RecordsCode(d) # "ok", RecordsCode(d)>>,
        <<d.count \notin {-1, Len(d.records)}, "ACTRACE-METADATA">>,
        <<d.hash, "ACTRACE-METADATA">> >>)

-----------------------------------------------------------------------------
(* PtoTraceStream *)

Append1 ==
    /\ ~stream.finished /\ ~stream.over /\ stream.bytes < input.bytes
    /\ stream' = IF stream.bytes + 1 > MaxBytes THEN [stream EXCEPT !.over = TRUE]
                 ELSE [stream EXCEPT !.bytes = @ + 1]
    /\ UNCHANGED <<input, diagnosis, clockVars, feedVars>>

\* finish(): a document that was cut short is not JSON.
Finish ==
    /\ ~stream.finished
    /\ stream' = [stream EXCEPT !.finished = TRUE]
    /\ diagnosis' = IF stream.over THEN "ACTRACE-LIMIT"
                    ELSE IF stream.bytes < input.bytes THEN "ACTRACE-JSON"
                    ELSE Parse(input)
    /\ UNCHANGED <<input, clockVars, feedVars>>

-----------------------------------------------------------------------------
(* TraceSource *)

Records == input.records
Loaded == diagnosis = "ok"
EndOfTrace == source.next > Len(Records)
Record == Records[source.next]

\* doWork; nothing is pending when it looks for the next record.
Idle == EndOfTrace \/ source.offer \/ source.offering \/ source.accepting
Early == Record.issue > tick

\* Mutant of DependenciesDone: issued is enough.
DependenciesIssued == ToSet(Record.deps) \subseteq source.issued

DependenciesDone == ToSet(Record.deps) \subseteq source.completed

SourceWork ==
    /\ Loaded /\ awake /\ ~worked
    /\ worked' = TRUE
    /\ \/ Idle /\ UNCHANGED <<source, alarm>>
       \/ /\ ~Idle /\ Early
          /\ alarm' = IF source.waking THEN alarm ELSE Record.issue
          /\ source' = [source EXCEPT !.waking = TRUE]
       \/ /\ ~Idle /\ ~Early
          /\ source' = [source EXCEPT !.offering = DependenciesDone, !.waking = FALSE]
          /\ UNCHANGED alarm
    /\ UNCHANGED <<streamVars, tick, awake, commits, ready, held, running>>

\* doXfer: an accepted record moves the cursor; a new offer becomes visible.
SourceXfer(s) ==
    [s EXCEPT !.next = IF s.accepting THEN @ + 1 ELSE @,
              !.issued = IF s.accepting THEN @ \cup {Records[s.next].seq} ELSE @,
              !.offer = s.offering \/ (@ /\ ~s.accepting),
              !.offering = FALSE, !.accepting = FALSE]

SourcePending(s) == s.offering \/ s.accepting

-----------------------------------------------------------------------------
(* Scheduler: an entry is [id, priority, time, owner] *)

\* stableKey
StableLess(x, y) ==
    \/ x.priority < y.priority
    \/ x.priority = y.priority /\ x.time < y.time
    \/ x.priority = y.priority /\ x.time = y.time /\ x.owner < y.owner
    \/ x.priority = y.priority /\ x.time = y.time /\ x.owner = y.owner /\ x.id < y.id

\* std::sort: the n-th entry is the one that n - 1 others precede.
Rank(entries, e) == 1 + Cardinality({x \in entries : StableLess(x, e)})
Sorted(entries) ==
    [n \in 1..Cardinality(entries) |-> CHOOSE e \in entries : Rank(entries, e) = n]
Entries(s) == {s[i] : i \in DOMAIN s}

\* doArbitrate: the first entries in stable order fill what the committed
\* ones leave free; the pops of this tick free nothing yet.
Room == IF Capacity > Len(ready.committed) THEN Capacity - Len(ready.committed) ELSE 0
Stamped == {[e EXCEPT !.time = tick] : e \in ready.proposals}
Admitted == {Sorted(Stamped)[n] : n \in {m \in 1..Cardinality(Stamped) : m <= Room}}
Refused == Stamped \ Admitted

\* Mutant of SchedulerXfer: the pops are counted after the new entries are in.
SchedulerXferSortsFirst ==
    LET all == Sorted(Entries(ready.committed) \cup Admitted)
    IN  [proposals |-> {}, pops |-> 0, committed |-> SubSeq(all, ready.pops + 1, Len(all))]

\* doXfer
SchedulerXfer ==
    LET left == {ready.committed[i] : i \in (ready.pops + 1)..Len(ready.committed)}
    IN  [proposals |-> {}, pops |-> 0, committed |-> Sorted(left \cup Admitted)]

SchedulerPending == ready.proposals # {} \/ ready.pops # 0

-----------------------------------------------------------------------------
(* The consumers' calls.  A process that makes one commits.             *)

Consuming ==
    /\ commits' = TRUE
    /\ UNCHANGED <<streamVars, tick, alarm, awake, worked>>

\* proposeAccept: the first caller of a tick gets the offer.
Accept(c) ==
    /\ Loaded /\ source.offer /\ ~source.accepting
    /\ source' = [source EXCEPT !.accepting = TRUE]
    /\ held' = [id \in DOMAIN held \cup {Record.seq} |-> IF id = Record.seq THEN c ELSE held[id]]
    /\ Consuming /\ UNCHANGED <<ready, running>>

\* proposeSchedule refuses an identity it already holds.
Schedule(c, id, priority) ==
    /\ id \in DOMAIN held /\ held[id] = c
    /\ \A e \in ready.proposals \cup Entries(ready.committed) : e.id # id
    /\ ready' = [ready EXCEPT !.proposals = @ \cup
                    {[id |-> id, priority |-> priority, time |-> 0, owner |-> c]}]
    /\ Consuming /\ UNCHANGED <<source, held, running>>

\* proposePop
Pop ==
    /\ ready.pops < Len(ready.committed)
    /\ running' = running \cup {ready.committed[ready.pops + 1].id}
    /\ ready' = [ready EXCEPT !.pops = @ + 1]
    /\ Consuming /\ UNCHANGED <<source, held>>

\* Mutant of Complete: an object that commits nothing reports the completion,
\* which by itself does not schedule the source.
CompleteSilently(id) ==
    /\ id \in running \cap source.issued
    /\ source' = [source EXCEPT !.completed = @ \cup {id}]
    /\ running' = running \ {id}
    /\ UNCHANGED <<streamVars, clockVars, ready, held>>

\* markDependencyComplete, which is refused before the record was issued and
\* takes effect within the Work phase.
Complete(id) ==
    /\ id \in running \cap source.issued
    /\ source' = [source EXCEPT !.completed = @ \cup {id}]
    /\ running' = running \ {id}
    /\ Consuming /\ UNCHANGED <<ready, held>>

\* The source commits only when it is scheduled.  Entries the Scheduler
\* refused stay with their owner (rejectedTransactions), admitted ones leave.
EndTick ==
    /\ Loaded
    /\ awake => worked
    /\ source' = IF awake THEN SourceXfer(source) ELSE source
    /\ ready' = SchedulerXfer
    /\ held' = [id \in {x \in DOMAIN held : \A e \in Admitted : e.id # x} |-> held[id]]
    /\ tick' = IF tick < LastTick THEN tick + 1 ELSE tick
    /\ awake' = (commits \/ SchedulerPending \/ (awake /\ SourcePending(source)) \/ alarm = tick + 1)
    /\ alarm' = IF alarm = tick + 1 THEN -1 ELSE alarm
    /\ worked' = FALSE /\ commits' = FALSE
    /\ UNCHANGED <<streamVars, running>>

-----------------------------------------------------------------------------

Init ==
    /\ input \in Documents
    /\ stream = [bytes |-> 0, over |-> FALSE, finished |-> FALSE] /\ diagnosis = ""
    /\ tick = 0 /\ alarm = -1 /\ awake = TRUE /\ worked = FALSE /\ commits = FALSE
    /\ source = [next |-> 1, offer |-> FALSE, offering |-> FALSE, accepting |-> FALSE,
                 issued |-> {}, completed |-> {}, waking |-> FALSE]
    /\ ready = [proposals |-> {}, committed |-> <<>>, pops |-> 0]
    /\ held = <<>> /\ running = {}

Consume ==
    \/ \E c \in Consumers : Accept(c)
    \/ \E id \in DOMAIN held, p \in {0, 1} : Schedule(held[id], id, p)
    \/ Pop
    \/ \E id \in running : Complete(id)

Next == Append1 \/ Finish \/ SourceWork \/ Consume \/ EndTick

\* The stream is read to its end, the simulator runs every tick to its end,
\* and a consumer in the end takes the offer, schedules, pops and completes.
Spec ==
    /\ Init /\ [][Next]_vars
    /\ WF_vars(Append1) /\ WF_vars(Finish)
    /\ WF_vars(SourceWork) /\ WF_vars(EndTick)
    /\ WF_vars(\E c \in Consumers : Accept(c))
    /\ WF_vars(\E id \in DOMAIN held : Schedule(held[id], id, 0))
    /\ WF_vars(Pop) /\ WF_vars(\E id \in running : Complete(id))

-----------------------------------------------------------------------------
(* Properties *)

Accepted == source.issued \cup (IF source.accepting THEN {Record.seq} ELSE {})
Popped == {ready.committed[i].id : i \in 1..ready.pops}
Waiting == {ready.committed[i].id : i \in (ready.pops + 1)..Len(ready.committed)}

\* Every transaction that left the source is in exactly one place, with the
\* consumer that holds it, in the Scheduler, running or completed, whatever
\* the Scheduler refused and whoever else asked for the same offer.
NoTransactionLost ==
    /\ Accepted = DOMAIN held \cup Waiting \cup running \cup source.completed
    /\ DOMAIN held \cap (Waiting \cup running \cup source.completed) = {}
    /\ Waiting \cap (running \cup source.completed) = {}
    /\ running \cap source.completed = {}
    /\ Len(ready.committed) <= Capacity
    /\ Popped \subseteq running \cup source.completed

\* A record is offered only after its dependencies have completed and its
\* issue time has come, and records are issued in the order of the trace.
OffersInOrder ==
    Loaded =>
        /\ source.offer \/ source.offering =>
             ToSet(Record.deps) \subseteq source.completed /\ Record.issue <= tick
        /\ source.issued = {Records[i].seq : i \in 1..(source.next - 1)}
        /\ source.completed \subseteq source.issued

\* The parser admits only documents that cannot get stuck: what it accepts
\* is issued and completed to the last record.
AcceptedTracesDrain ==
    diagnosis = "ok" ~> source.completed = {Records[i].seq : i \in DOMAIN Records}
=============================================================================
