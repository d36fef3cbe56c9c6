------------------------------ MODULE Devices ------------------------------
(***************************************************************************)
(* The device models checked together: each run follows one of the NPU     *)
(* pipeline (Npu), a showcase scenario (Showcase) or the trace source with *)
(* its consumers (TraceFeed).  The models share nothing but the clock, the *)
(* alarm and the name of the source; a device that is not followed stands  *)
(* still.                                                                  *)
(***************************************************************************)
EXTENDS Npu

CONSTANTS
    Policies, MaxTicks,                 \* of Showcase
    Documents, Consumers, Capacity,     \* of TraceFeed
    MaxBytes, MaxRecords, MaxOperands, MaxDependencies, MaxDecoded, LastTick

VARIABLES
    device,     \* the device that is followed
    alarm, source,
    policy, delta, agenda, actor, queues, sinks, channel, server, memory, process, verdict,
    input, stream, diagnosis, awake, worked, commits, ready, held, running

S == INSTANCE Showcase
F == INSTANCE TraceFeed

-----------------------------------------------------------------------------
(* A record of a trace carries unsigned sequence ids and an issue time (-1 *)
(* when it has none); object ids and capacities are unsigned.              *)

TraceRecords ==
    [seq : Nat, opcode : BOOLEAN, operands : Seq([kind : STRING, of : Nat]),
     deps : Seq(Nat), issue : Int]

ASSUME FeedAssumption ==
    /\ \A d \in Documents : d.records \in Seq(TraceRecords)
    /\ Consumers \subseteq Nat
    /\ Capacity \in Nat

-----------------------------------------------------------------------------
(* The policy of a scenario: unsigned values, capacities, ticks and        *)
(* periods.  Only the nested array has more than one lane; the scenarios   *)
(* that take no values have one empty lane.                                *)

ASSUME PolicyAssumption ==
    /\ MaxTicks \in Nat
    /\ \A p \in Policies :
          /\ p.kind \in {"queue", "lanes", "channel", "bridge", "memory", "process"}
          /\ p.lanes \in Seq(Seq(Nat)) /\ p.lanes # <<>>
          /\ p.kind # "lanes" => Len(p.lanes) = 1
          /\ p.kind = "memory" => p.requests \in Seq([id : Nat, address : Nat, value : Nat])
          /\ p.kind = "memory" => p.capacity \in Nat
          /\ p.kind = "process" => p.initial \in Nat /\ p.increment \in Nat /\ p.wakeTick \in Nat

-----------------------------------------------------------------------------
(* Small traces for the NPU: all sequences of up to three records, and of  *)
(* four of the records that move or compute tiles.                         *)

\* A record whose roles name its inputs first and its outputs last.
Plain(op, block, inputs, outputs) ==
    [op |-> op, block |-> block, inputs |-> inputs, outputs |-> outputs, scalars |-> <<>>,
     roles |-> [k \in 1..Len(inputs) |-> "input_tile"] \o [k \in 1..Len(outputs) |-> "output_tile"],
     operands |-> [k \in 1..Len(inputs) |-> <<"tile", Tile(block, inputs[k])>>]
                  \o [k \in 1..Len(outputs) |-> <<"tile", Tile(block, outputs[k])>>]]

\* Tiles 1 and 2 are local, 8 and 9 are addresses in global memory.
Load == Plain("TLOAD", 0, <<8>>, <<1>>)
LoadOther == Plain("TLOAD", 1, <<8>>, <<1>>)
Save == Plain("TSTORE", 0, <<1>>, <<9>>)
Exp == Plain("TEXP", 0, <<1>>, <<2>>)
Add == Plain("TADD", 0, <<1, 2>>, <<1>>)
Assign == Plain("TASSIGN", 0, <<>>, <<1>>)
Matmul == Plain("TMATMUL", 0, <<2>>, <<2>>)
Event == [Plain("RECORD_EVENT", 1, <<>>, <<>>) EXCEPT !.scalars = <<5>>,
              !.roles = <<"scalar_input">>, !.operands = <<<<"immediate", 5>>>>]
Unmatched == [Load EXCEPT !.operands = <<<<"tile", Tile(0, 8)>>, <<"tile", Tile(1, 1)>>>>]

Nowhere == Plain("TLOAD", 0, <<-1>>, <<1>>)

Records == {Load, LoadOther, Save, Exp, Add, Assign, Matmul, Event}
MCTraces == UNION {[1..n -> Records] : n \in 0..3} \cup {<<Load, Unmatched>>, <<Exp, Nowhere>>}
              \cup [1..4 -> {Load, Save, Add, Exp, Assign}]
MCUnits == [scalar |-> 1, vector |-> 2, cube |-> 1, tma |-> 1]

-----------------------------------------------------------------------------
(* The showcase scenarios on small policies. *)

ReadOrWrite(id, address, value) == [id |-> id, address |-> address, value |-> value]

QueuePolicies ==
    [kind : {"queue"}, capacity : 0..2, lanes : {<< <<>> >>, << <<3, 5, 3, 7>> >>}]

LanePolicies ==
    [kind : {"lanes"}, capacity : {1, 2},
     lanes : {<< <<1, 2>>, <<>> >>, << <<1, 2, 3>>, <<4>>, <<5, 6>> >>}]

ChannelPolicies ==
    [kind : {"channel"}, lanes : {<< <<>> >>, << <<3>> >>, << <<3, 5, 3>> >>},
     readyTicks : SUBSET {0, 1, 2, 4, 7}]

BridgePolicies ==
    [kind : {"bridge"}, lanes : {<< <<3, 5, 3>> >>}, sourcePeriod : 1..3, targetPeriod : 1..3]

MemoryPolicies ==
    [kind : {"memory"}, lanes : {<< <<>> >>}, capacity : {1, 2},
     requests : {<<>>,
                 <<ReadOrWrite(1, 0, 5), ReadOrWrite(2, 1, 6), ReadOrWrite(1, 0, 7)>>}]

ProcessPolicies ==
    [kind : {"process"}, lanes : {<< <<>> >>}, initial : {4}, increment : {3},
     wakeTick : {0, 1, 2, 5, 30}]

ScenarioPolicies ==
    QueuePolicies \cup LanePolicies \cup ChannelPolicies \cup BridgePolicies
        \cup MemoryPolicies \cup ProcessPolicies

-----------------------------------------------------------------------------
(* Small documents of a trace, good ones and ones that the parser refuses. *)

Row(seq, after, issue) ==
    [seq |-> seq, opcode |-> TRUE, operands |-> <<>>, deps |-> after, issue |-> issue]
Using(record, kind, of) == [record EXCEPT !.operands = <<[kind |-> kind, of |-> of]>>]

Document(records) ==
    [records |-> records, bytes |-> 1, json |-> FALSE, schema |-> FALSE, hash |-> FALSE,
     count |-> -1, spaces |-> {7}]

GoodDocuments ==
    {Document(<<>>),
     Document(<<Row(1, <<>>, -1), Row(3, <<1>>, -1), Row(4, <<>>, -1)>>),
     Document(<<Row(1, <<>>, 1), Row(2, <<>>, 3), Row(5, <<1, 2>>, 2)>>),
     [Document(<<Using(Row(0, <<>>, -1), "address", 7),
                 Using(Row(2, <<0>>, 2), "record_result", 0)>>) EXCEPT !.count = 2]}

BadDocuments ==
    {[Document(<<>>) EXCEPT !.json = TRUE], [Document(<<>>) EXCEPT !.schema = TRUE],
     [Document(<<>>) EXCEPT !.hash = TRUE], [Document(<<>>) EXCEPT !.count = 1],
     [Document(<<>>) EXCEPT !.bytes = 3],
     Document(<<Row(1, <<2>>, -1), Row(2, <<>>, -1)>>),
     Document(<<Row(1, <<1>>, -1)>>),
     Document(<<Row(1, <<>>, -1), Row(1, <<>>, -1)>>),
     Document(<<Row(1, <<>>, -1), Row(2, <<1, 1>>, -1)>>),
     Document(<<Using(Row(1, <<>>, -1), "address", 8)>>),
     Document(<<Using(Row(1, <<>>, -1), "record_result", 1)>>)}

FeedDocuments == GoodDocuments \cup BadDocuments

-----------------------------------------------------------------------------
npuOnly == <<status, trace, cursor, rounds, trackerVars, robVars, memoryVars>>
showcaseOnly == <<policy, delta, agenda, actor, queues, sinks, channel, server, memory, process, verdict>>
feedOnly == <<input, stream, diagnosis, awake, worked, commits, ready, held, running>>
all == <<device, tick, alarm, source, npuOnly, showcaseOnly, feedOnly>>

\* A variable of a device that is not followed.
Off == "off"
NpuOff ==
    /\ status = Off /\ trace = Off /\ cursor = Off /\ rounds = Off /\ queued = Off /\ deps = Off
    /\ producers = Off /\ outstanding = Off /\ done = Off /\ issued = Off /\ rob = Off
    /\ executed = Off /\ active = Off /\ finished = Off /\ completed = Off /\ retired = Off
    /\ exhausted = Off /\ scratchpad = Off /\ globalMemory = Off /\ protocol = Off /\ controller = Off
ShowcaseOff ==
    /\ policy = Off /\ delta = Off /\ agenda = Off /\ actor = Off /\ queues = Off /\ sinks = Off
    /\ channel = Off /\ server = Off /\ memory = Off /\ process = Off /\ verdict = Off
FeedOff ==
    /\ input = Off /\ stream = Off /\ diagnosis = Off /\ awake = Off /\ worked = Off
    /\ commits = Off /\ ready = Off /\ held = Off /\ running = Off

DevicesInit ==
    \/ device = "npu" /\ Init /\ alarm = Off /\ source = Off /\ ShowcaseOff /\ FeedOff
    \/ device = "showcase" /\ S!Init /\ NpuOff /\ FeedOff
    \/ device = "feed" /\ F!Init /\ NpuOff /\ ShowcaseOff

\* A step A of the NPU, of the showcase, of the feed.
InNpu(A) == device = "npu" /\ A /\ UNCHANGED <<device, alarm, source, showcaseOnly, feedOnly>>
InShowcase(A) == device = "showcase" /\ A /\ UNCHANGED <<device, npuOnly, feedOnly>>
InFeed(A) == device = "feed" /\ A /\ UNCHANGED <<device, npuOnly, showcaseOnly>>

DevicesNext == InNpu(Next) \/ InShowcase(S!Next) \/ InFeed(F!Next)

\* The fairness of each device's own specification.
DevicesSpec ==
    /\ DevicesInit /\ [][DevicesNext]_all
    /\ WF_all(InNpu(Step))
    /\ WF_all(InShowcase(S!Epoch \/ S!EndOfRun \/ S!SourceXfer))
    /\ WF_all(InFeed(F!Append1)) /\ WF_all(InFeed(F!Finish))
    /\ WF_all(InFeed(F!SourceWork)) /\ WF_all(InFeed(F!EndTick))
    /\ WF_all(InFeed(\E c \in Consumers : F!Accept(c)))
    /\ WF_all(InFeed(\E id \in DOMAIN held : F!Schedule(held[id], id, 0)))
    /\ WF_all(InFeed(F!Pop)) /\ WF_all(InFeed(\E id \in running : F!Complete(id)))

-----------------------------------------------------------------------------
(* Properties *)

\* The NPU pipeline of npu.cpp: an instruction starts only after the last
\* writer of each of its input tiles has completed, each block retires its own
\* instructions once and in trace order, and the executions in flight, the
\* protocol's correlations and the controller's reservations agree.
NpuSound == device = "npu" => TypeOK /\ ProducersFirst /\ RetirementInOrder /\ MemoryAccountsAgree

\* The showcase scenarios of showcase.cpp: no value is lost, doubled or
\* reordered between a producer and its sink, the memory holds the last write
\* of each address, and a run that reports Completed has done all of its work.
ShowcaseSound == device = "showcase" => S!StreamExact /\ S!MemoryExact /\ S!CompletionHonest

\* The trace source of trace.h and the Scheduler of components.h: every record
\* that was accepted is in exactly one place, and a record is offered only
\* after its dependencies completed and its issue time has come.
FeedSound == device = "feed" => F!NoTransactionLost /\ F!OffersInOrder

\* Every device gets its work done: a well-formed trace runs through the NPU
\* to its last retirement, a loaded scenario of a feasible policy commits its
\* result, and a document that the trace reader accepts is issued and
\* completed to its last record.
DevicesFinish ==
    /\ (device = "npu" /\ status = "dispatch" /\ WellFormed(trace)) ~>
          (device = "npu" /\ status = "finished" /\ Len(retired) = Len(trace))
    /\ (device = "showcase" /\ source = "loaded" /\ S!Feasible) ~>
          (device = "showcase" /\ source = "committed")
    /\ (device = "feed" /\ diagnosis = "ok") ~>
          (device = "feed" /\ source.completed = {F!Records[i].seq : i \in DOMAIN F!Records})
=============================================================================
