-------------------------------- MODULE Npu --------------------------------
(***************************************************************************)
(* The trace-driven NPU of lib/gfsim/npu.cpp: Phase5NpuTraceSource decodes *)
(* a trace, dispatches it in order into NpuDependencyTracker and drives    *)
(* NpuExecutionPipeline until everything has retired.                      *)
(*                                                                         *)
(* The whole run happens inside one doWork of the source, on a clock of    *)
(* its own: one step below is one commit of the tracker or of the          *)
(* pipeline.  The driver gives the pipeline no SimSystem, so it schedules  *)
(* no events.  Sequence ids are positions in the trace.  The value a       *)
(* completed instruction leaves in a tile (its sequence id, or a load's    *)
(* address xor its sequence id) is represented by that instruction.        *)
(* Observations, flow ids, statistics and the digest are left out.         *)
(***************************************************************************)
EXTENDS Integers, Sequences, SequencesExt, FiniteSets, FiniteSetsExt, TLC, Protocols

CONSTANTS
    Traces,          \* the documents that may be loaded: sequences of records
    Units,           \* NpuExecutionConfig: execution units per engine
    MemoryRequests   \* NpuExecutionConfig::memoryRequests

Engines == {"scalar", "vector", "cube", "tma"}

ASSUME NpuAssumption ==
    /\ \A t \in Traces : t \in Seq(UNION {Range(u) : u \in Traces})
    /\ \A t \in Traces : \A s \in DOMAIN t : t[s].block \in Nat
    /\ Units \in [Engines -> Nat \ {0}]
    /\ MemoryRequests \in Nat \ {0}

VARIABLES
    status,       \* where the driver stands, or the failure code of the run
    trace,        \* document_
    cursor,       \* next record to dispatch
    tick, rounds, \* the driver's clock and loop counter
    queued, deps, producers,         \* tracker: queues_, derivedDependencies, producers_
    outstanding, done, issued,       \* tracker: outstandingSequences_, completedSequences_, issued_
    rob, executed, active,           \* pipeline: rob, executedSequences, active
    finished, completed,             \* pipeline: RobEntry::completed; completed()
    retired, exhausted,              \* pipeline: retiredSequenceIds, traceExhausted
    scratchpad, globalMemory,        \* pipeline: tile -> value, address -> value
    protocol, controller             \* pipeline: memoryProtocol, memoryController

trackerVars == <<queued, deps, producers, outstanding, done, issued>>
robVars == <<rob, executed, active, finished, completed, retired, exhausted>>
memoryVars == <<scratchpad, globalMemory, protocol, controller>>
vars == <<status, trace, cursor, tick, rounds, trackerVars, robVars, memoryVars>>

-----------------------------------------------------------------------------
(* Decode *)

\* The opcode tables: one opcode for each behaviour the pipeline tells apart.
Opcodes ==
    [RECORD_EVENT |-> "scalar", TASSIGN |-> "scalar",
     TADD |-> "vector", TEXP |-> "vector",
     TMATMUL |-> "cube", TMATMUL_MX |-> "cube",
     TLOAD |-> "tma", TSTORE |-> "tma"]

Store(op) == op = "TSTORE"

\* executionLatency
Latency(op) ==
    CASE Opcodes[op] = "scalar" -> 1
      [] Opcodes[op] = "vector" -> IF op = "TEXP" THEN 3 ELSE 2
      [] Opcodes[op] = "cube" -> IF op = "TMATMUL_MX" THEN 5 ELSE 4
      [] OTHER -> IF Store(op) THEN 4 ELSE 3

\* tileIdentity: tiles are local to their block.
Tile(block, address) == <<block, address>>

\* The imported attribute that operand k of record r is matched with: the
\* attributes of a role are consumed in the order of the operands.
Position(r, k) == Cardinality({i \in 1..k : r.roles[i] = r.roles[k]})
Attributes(r) == [input_tile |-> r.inputs, output_tile |-> r.outputs, scalar_input |-> r.scalars]

OperandMatches(r, k) ==
    LET role == r.roles[k]
    IN  /\ role \in DOMAIN Attributes(r)
        /\ Position(r, k) <= Len(Attributes(r)[role])
        /\ LET attribute == Attributes(r)[role][Position(r, k)]
           IN  r.operands[k] = IF role = "scalar_input" THEN <<"immediate", attribute>>
                               ELSE <<"tile", Tile(r.block, attribute)>>

\* NpuDecoder::decode accepts the record.
Decodable(r) ==
    /\ r.op \in DOMAIN Opcodes
    /\ Len(r.roles) = Len(r.operands)
    /\ \A k \in DOMAIN r.roles : OperandMatches(r, k)
    /\ \A role \in DOMAIN Attributes(r) :
          Cardinality({k \in DOMAIN r.roles : r.roles[k] = role}) = Len(Attributes(r)[role])

Op(s) == trace[s].op
Block(s) == trace[s].block
Engine(s) == Opcodes[Op(s)]
Inputs(s) == {Tile(Block(s), a) : a \in Range(trace[s].inputs)}
Outputs(s) == {Tile(Block(s), a) : a \in Range(trace[s].outputs)}

-----------------------------------------------------------------------------
(* NpuDependencyTracker *)

Queue(e) == {s \in queued : Engine(s) = e}

\* Issue queues of the driver: one slot per record.
QueueCapacity == Max({Len(trace), 1})

\* proposeDispatch and knownSequence
CanDispatch(s) ==
    /\ \A d \in DOMAIN deps : s > d
    /\ s \notin done \cup outstanding \cup queued

\* doXfer: the instruction becomes the producer of its output tiles.
ProducersAfter(s) ==
    [t \in DOMAIN producers \cup Outputs(s) |-> IF t \in Outputs(s) THEN s ELSE producers[t]]

\* Mutant of Dependencies: the outputs are registered before the inputs are
\* looked up, so an instruction that updates a tile waits for itself.
DependenciesAfter(s) == {ProducersAfter(s)[t] : t \in Inputs(s) \cap DOMAIN ProducersAfter(s)}

\* doArbitrate: the producers of the input tiles that have committed so far.
Dependencies(s) == {producers[t] : t \in Inputs(s) \cap DOMAIN producers}

\* Mutant of Ready: one completed producer is enough.
ReadyOnAny(s) == deps[s] = {} \/ deps[s] \cap done # {}

Ready(s) == deps[s] \subseteq done

\* proposeIssue: the oldest ready entry of an engine's queue.
Candidates(e) == {s \in Queue(e) : Ready(s)}

\* Mutant of Oldest: a position counted from zero is taken for a sequence id.
OldestFromZero(e) == Min(Candidates(e)) - 1

Oldest(e) == Min(Candidates(e))

-----------------------------------------------------------------------------
(* NpuExecutionPipeline: what proposeExecute asks before it takes an issue *)

ActiveOn(e, taken) == {s \in DOMAIN active \cup taken : Engine(s) = e}

UnitFree(e, taken) == Cardinality(ActiveOn(e, taken)) < Units[e]

\* canAccept
CanAccept(e) == UnitFree(e, {}) /\ (e = "tma" => Cardinality(ActiveOn("tma", {})) < MemoryRequests)

\* The tiles the scratchpad holds, or will when the executions in ss end.
ScratchpadTiles == Max({2 * Len(trace), 8})
Claimed(ss) == DOMAIN scratchpad \cup UNION {Outputs(s) : s \in {x \in ss : ~Store(Op(x))}}

\* The transfer has both ends, and its global end is an address that parses
\* (parseAddress; text that does not is represented by a negative number).
GlobalEnd(s) == IF Store(Op(s)) THEN trace[s].outputs ELSE trace[s].inputs
MemoryDescribed(s) ==
    trace[s].inputs # <<>> /\ trace[s].outputs # <<>> /\ GlobalEnd(s)[1] >= 0

\* proposeExecute, after the proposals taken earlier in the same epoch
CanExecute(s, taken) ==
    /\ s \in rob \ (executed \cup taken)
    /\ UnitFree(Engine(s), taken)
    /\ Cardinality(Claimed(DOMAIN active \cup taken \cup {s})) <= ScratchpadTiles
    /\ Store(Op(s)) => /\ trace[s].inputs # <<>>
                       /\ Tile(Block(s), trace[s].inputs[1]) \in DOMAIN scratchpad
    /\ Engine(s) = "tma" => /\ Cardinality(ActiveOn("tma", taken)) < MemoryRequests
                            /\ MemoryDescribed(s)

Admissible(ss) == \A s \in ss : CanExecute(s, {x \in ss : x < s})

Execution(s) == [issue |-> tick, ready |-> tick + Latency(Op(s)), delivered |-> FALSE]

-----------------------------------------------------------------------------
(* NpuExecutionPipeline: doWork *)

\* The request at the front of the protocol is due one tick after its issue.
\* peekRequest keeps showing that front, so the loop pops all of them.
RequestsDue ==
    /\ CanPeek(protocol)
    /\ LET front == Id(Head(protocol.requests))
       IN  front \in DOMAIN active /\ tick >= active[front].issue + 1 /\ ~active[front].delivered

Delivering == IF RequestsDue THEN Ids(protocol.requests) ELSE {}

Completing ==
    {s \in DOMAIN active : active[s].ready = tick /\ (Engine(s) = "tma" => active[s].delivered)}

Envelope(s) == [id |-> s, payload |-> s]
\* The n-th instruction of ss is the one that n - 1 others precede.
InOrder(ss) ==
    [n \in 1..Cardinality(ss) |-> CHOOSE s \in ss : Cardinality({x \in ss : x < s}) = n - 1]
Envelopes(ss) == [i \in 1..Cardinality(ss) |-> Envelope(InOrder(ss)[i])]
MemoryOps(ss) == {s \in ss : Engine(s) = "tma"}

\* Every response is popped, the due requests are popped, the completions of
\* memory instructions answer, and doArbitrate asks for the new executions.
ProtocolProposed(ss) ==
    [protocol EXCEPT !.responsePops = Len(protocol.responses),
                     !.requestPops = IF RequestsDue THEN Len(protocol.requests) ELSE 0,
                     !.answered = Envelopes(MemoryOps(Completing)),
                     !.asked = Envelopes(MemoryOps(ss))]

\* The calls of doWork and doArbitrate that would set a failure code.
MemoryFails(ss) ==
    \/ CanPeek(protocol) /\ Id(Head(protocol.requests)) \notin DOMAIN active
    \/ \E s \in MemoryOps(Completing) : ~CanRespond(protocol, s) \/ s \notin controller
    \/ Cardinality(protocol.active \cup MemoryOps(ss)) > MemoryRequests
    \/ \E s \in MemoryOps(ss) : RRKnown(protocol, s) \/ s \in controller

-----------------------------------------------------------------------------
(* NpuExecutionPipeline: doXfer *)

\* Completions take effect in sequence order: a store reads the scratchpad,
\* everything else writes its output tiles.
Complete(state, s) ==
    IF Store(Op(s))
    THEN [state EXCEPT !.memory =
            (trace[s].outputs[1] :> state.tiles[Tile(Block(s), trace[s].inputs[1])]) @@ @]
    ELSE [state EXCEPT !.tiles = [t \in Outputs(s) |-> s] @@ @]

Completed == FoldLeft(Complete, [tiles |-> scratchpad, memory |-> globalMemory], InOrder(Completing))

\* Mutant of Retiring: an instruction retires as soon as it has completed.
RetiringAnyOrder(entries, ends) == entries \cap ends

\* The completed prefix of every block's reorder buffer.
Retiring(entries, ends) ==
    {s \in entries : \A x \in entries : Block(x) = Block(s) /\ x <= s => x \in ends}

\* Retirement visits the blocks in order and each block in sequence order.
RetireLess(x, y) == Block(x) < Block(y) \/ (Block(x) = Block(y) /\ x < y)
RetireOrder(ss) ==
    [n \in 1..Cardinality(ss) |-> CHOOSE s \in ss : Cardinality({x \in ss : RetireLess(x, s)}) = n - 1]

-----------------------------------------------------------------------------
(* The driver: Phase5NpuTraceSource *)

Init ==
    /\ status = "unloaded" /\ trace = <<>>
    /\ cursor = 1 /\ tick = 0 /\ rounds = 0
    /\ queued = {} /\ deps = <<>> /\ producers = <<>>
    /\ outstanding = {} /\ done = {} /\ issued = {}
    /\ rob = {} /\ executed = {} /\ active = <<>> /\ finished = {} /\ completed = {}
    /\ retired = <<>> /\ exhausted = FALSE
    /\ scratchpad = <<>> /\ globalMemory = <<>>
    /\ protocol = RRInit /\ controller = {}


LoadDocument(t) ==
    /\ status = "unloaded"
    /\ status' = "dispatch" /\ trace' = t
    /\ UNCHANGED <<cursor, tick, rounds, trackerVars, robVars, memoryVars>>

\* doWork without a document
WorkUnloaded ==
    /\ status = "unloaded"
    /\ status' = "npu_trace_not_loaded"
    /\ UNCHANGED <<trace, cursor, tick, rounds, trackerVars, robVars, memoryVars>>

Accepted(s) ==
    /\ CanDispatch(s)
    /\ \A x \in rob : Block(x) = Block(s) => x < s
    /\ Cardinality(Queue(Engine(s))) < QueueCapacity

Rejected(s) == ~Decodable(trace[s]) \/ ~Accepted(s)

DispatchFails ==
    /\ status = "dispatch" /\ cursor <= Len(trace)
    /\ Rejected(cursor)
    /\ status' = IF Decodable(trace[cursor]) THEN "npu_dispatch_failed" ELSE "npu_decode_failed"
    /\ UNCHANGED <<trace, cursor, tick, rounds, trackerVars, robVars, memoryVars>>

\* One record per tick: the tracker queues it, the pipeline admits it.
Dispatch ==
    /\ status = "dispatch" /\ cursor <= Len(trace)
    /\ ~Rejected(cursor)
    /\ deps' = [s \in DOMAIN deps \cup {cursor} |->
                  IF s = cursor THEN Dependencies(cursor) ELSE deps[s]]
    /\ producers' = ProducersAfter(cursor)
    /\ queued' = queued \cup {cursor}
    /\ rob' = rob \cup {cursor}
    /\ cursor' = cursor + 1 /\ tick' = tick + 1
    /\ UNCHANGED <<status, trace, rounds, outstanding, done, issued, executed, active, finished,
                   completed, retired, exhausted, memoryVars>>

DispatchDone ==
    /\ status = "dispatch" /\ cursor > Len(trace)
    /\ status' = "execute"
    /\ UNCHANGED <<trace, cursor, tick, rounds, trackerVars, robVars, memoryVars>>

\* First half of a loop iteration: the issues of the last iteration enter the
\* pipeline, then its Work, arbitration and Xfer.
Execute ==
    /\ status = "execute"
    /\ Admissible(issued)
    /\ LET ends == finished \cup Completing
           gone == Retiring(rob, ends)
       IN  /\ active' = [s \in (DOMAIN active \cup issued) \ Completing |->
                            IF s \in issued THEN Execution(s)
                            ELSE [active[s] EXCEPT !.delivered = @ \/ s \in Delivering]]
           /\ rob' = rob \ gone
           /\ finished' = ends \ gone
           /\ retired' = retired \o RetireOrder(gone)
    /\ executed' = executed \cup issued
    /\ completed' = Completing
    /\ exhausted' = TRUE
    /\ scratchpad' = Completed.tiles
    /\ globalMemory' = Completed.memory
    /\ protocol' = RRXfer(ProtocolProposed(issued))
    /\ controller' = (controller \cup MemoryOps(issued)) \ Completing
    /\ status' = IF MemoryFails(issued) THEN "npu_execution_runtime_failed"
                 ELSE IF ~(Completing \subseteq outstanding) THEN "npu_completion_broadcast_failed"
                 ELSE "track"
    /\ issued' = {}
    /\ UNCHANGED <<trace, cursor, tick, rounds, queued, deps, producers, outstanding, done>>

ExecuteFails ==
    /\ status = "execute"
    /\ ~Admissible(issued)
    /\ status' = "npu_execution_admission_failed"
    /\ UNCHANGED <<trace, cursor, tick, rounds, trackerVars, robVars, memoryVars>>

\* NpuExecutionPipeline::complete, and the tracker is quiescent.
AllQuiet ==
    /\ exhausted /\ active = <<>> /\ rob = {}
    /\ RRQuiescent(protocol) /\ controller = {}

MaximumTicks == Max({128, 32 * Len(trace)})

\* Second half: completions are broadcast, every engine that can accept one
\* issues its oldest ready entry, and the tracker commits.
Track ==
    /\ status = "track"
    /\ LET issues == {Oldest(e) : e \in {x \in Engines : CanAccept(x) /\ Candidates(x) # {}}}
       IN  /\ issued' = issues
           /\ queued' = queued \ issues
           /\ outstanding' = (outstanding \cup issues) \ completed
           /\ done' = done \cup completed
    /\ status' = IF AllQuiet /\ issued' = {} /\ queued' = {} /\ outstanding' = {} THEN "finished"
                 ELSE IF rounds + 1 = MaximumTicks THEN "npu_execution_limit_reached"
                 ELSE "execute"
    /\ tick' = tick + 1 /\ rounds' = rounds + 1
    /\ UNCHANGED <<trace, cursor, deps, producers, robVars, memoryVars>>

\* doXfer of the source publishes the result.
Commit ==
    /\ status = "finished"
    /\ status' = "committed"
    /\ UNCHANGED <<trace, cursor, tick, rounds, trackerVars, robVars, memoryVars>>

Reset ==
    /\ status \notin {"unloaded", "dispatch", "execute", "track"}
    /\ status' = "unloaded" /\ trace' = <<>>
    /\ cursor' = 1 /\ tick' = 0 /\ rounds' = 0
    /\ queued' = {} /\ deps' = <<>> /\ producers' = <<>>
    /\ outstanding' = {} /\ done' = {} /\ issued' = {}
    /\ rob' = {} /\ executed' = {} /\ active' = <<>> /\ finished' = {} /\ completed' = {}
    /\ retired' = <<>> /\ exhausted' = FALSE
    /\ scratchpad' = <<>> /\ globalMemory' = <<>>
    /\ protocol' = RRInit /\ controller' = {}

Step == DispatchFails \/ Dispatch \/ DispatchDone \/ Execute \/ ExecuteFails \/ Track \/ Commit
Next == (\E t \in Traces : LoadDocument(t)) \/ WorkUnloaded \/ Step \/ Reset

\* doWork runs to its end, and the kernel commits what it proposed.
Spec == Init /\ [][Next]_vars /\ WF_vars(Step)

-----------------------------------------------------------------------------
(* Properties *)

Sequences_ == 1..Len(trace)

\* Types of the tracker's and the pipeline's state.
TypeOK ==
    /\ cursor \in Nat /\ tick \in Nat /\ rounds \in Nat
    /\ queued \cup outstanding \cup done \cup issued \cup rob \cup executed \subseteq Sequences_
    /\ finished \cup completed \cup controller \subseteq Sequences_
    /\ DOMAIN deps = 1..(cursor - 1) /\ \A s \in DOMAIN deps : deps[s] \subseteq Sequences_
    /\ DOMAIN active \subseteq Sequences_
    /\ retired \in Seq(Sequences_) /\ exhausted \in BOOLEAN

\* The last record before s in the trace, of the same block, that writes tile t.
Writers(s, t) == {x \in 1..(s - 1) : Block(x) = Block(s) /\ t \in Outputs(x)}

\* No instruction starts before the trace's last writer of each of its input
\* tiles has completed, although issue is out of order, a producer's completion
\* and its consumer's issue may fall into the same tick, and later records may
\* overwrite the tile (tracker producers_, proposeIssue, proposeComplete).
ProducersFirst ==
    \A s \in executed \cup issued : \A t \in Inputs(s) :
        Writers(s, t) # {} => Max(Writers(s, t)) \in done

\* Each block retires exactly its own instructions, each once, in trace order,
\* whatever order they completed in; the rest is still in the reorder buffer.
RetirementInOrder ==
    /\ \A i, j \in DOMAIN retired :
          i < j /\ Block(retired[i]) = Block(retired[j]) => retired[i] < retired[j]
    /\ Range(retired) \cup rob = 1..(cursor - 1)
    /\ \A s \in Range(retired), x \in rob : Block(x) = Block(s) => s < x

\* The memory path keeps three accounts of one fact: the executions in flight
\* that use memory, the protocol's active correlations and the controller's
\* reservations.  They agree after every commit, a delivered request is one the
\* protocol delivered, and no execution outlives the tick it is due.
MemoryAccountsAgree ==
    status \in {"execute", "track"} =>
      /\ MemoryOps(DOMAIN active) = protocol.active
      /\ protocol.active = controller
      /\ {s \in DOMAIN active : active[s].delivered} = protocol.delivered
      /\ RRValid(protocol, MemoryRequests)
      /\ \A s \in DOMAIN active : active[s].ready >= tick + (IF status = "track" THEN 1 ELSE 0)

\* The traces a run must get through: they decode, and a store's input tile
\* was last written by an instruction that leaves it in the scratchpad.
WellFormed(t) ==
    \A s \in DOMAIN t :
        /\ Decodable(t[s])
        /\ t[s].op \in {"TLOAD", "TSTORE"} => 
              /\ t[s].inputs # <<>> /\ t[s].outputs # <<>>
              /\ \A a \in Range(t[s].inputs \o t[s].outputs) : a >= 0
        /\ Store(t[s].op) =>
              LET tile == t[s].inputs[1]
                  writers == {x \in 1..(s - 1) : t[x].block = t[s].block /\ tile \in Range(t[x].outputs)}
              IN  writers # {} /\ ~Store(t[Max(writers)].op)

\* Every well-formed trace runs to its end: no admission, correlation or
\* broadcast fails, nothing deadlocks on its own dependencies, the tick limit
\* is not reached, and everything has retired when the result is proposed.
EveryTraceFinishes ==
    (status = "dispatch" /\ WellFormed(trace)) ~>
        (status = "finished" /\ Len(retired) = Len(trace))

=============================================================================
