---------------------------- MODULE ProcessPlan ----------------------------
(***************************************************************************)
(* The process state planner (lib/Analysis/ProcessState*.cpp).  An         *)
(* ac.process is SSA code with calls, static loops and conditionals that   *)
(* suspends at awaits and yields.  The planner expands calls, cuts the     *)
(* body into program counters (PCs) and blocks, decides which values live  *)
(* in slots across a suspension and counts the work.                       *)
(*                                                                         *)
(* A source operation is a record whose kind is                            *)
(*   const, scalar   an arith/index operation                              *)
(*   invoke          a queue or event operation (try_send, try_recv, ...)  *)
(*   await           ac.await_queue/await_event                            *)
(*   wait, until     ac.wait_for on a resource, ac.wait_until a condition   *)
(*   yield           ac.yield_sim                                          *)
(*   if, for, call   scf.if (without results), static scf.for, func.call   *)
(***************************************************************************)
EXTENDS Integers, FiniteSets, SequencesExt

CONSTANTS Processes,           \* the source processes to plan
          Queues,              \* the declared queues, event queues and resources
          Packets,             \* names of values that need no scalar wrapper
          RawLimits,           \* [depth, nodes, edges, trips] of a process
          MaxProgramCounters,  \* ProcessStateLimits
          MaxLiveSlots,
          MaxFairnessWork

ASSUME LimitsAreCounts ==
  /\ {MaxProgramCounters, MaxLiveSlots, MaxFairnessWork} \subseteq Nat
  /\ RawLimits \in [{"depth", "nodes", "edges", "trips"} -> Nat]

NoPlan == [ok |-> FALSE]

Concat(left, right) == left \o right

FlattenSeqs(sequences) == FoldLeft(Concat, <<>>, sequences)

PositionOf(sequence, Test(_)) ==
  LET found == {i \in DOMAIN sequence : Test(sequence[i])}
  IN  IF found = {} THEN 0 ELSE CHOOSE i \in found : \A j \in found : i <= j

IsSuspension(op) == op.kind \in {"await", "wait", "until", "yield"}

(***************************************************************************)
(* Expansion.  A planned value is named by its SSA value and the call      *)
(* sites it was reached through; the values a loop makes up (induction     *)
(* variable, condition, next values) are synthetic.                        *)
(***************************************************************************)
Original(name, ctx) == [kind |-> "original", name |-> name, ctx |-> ctx, at |-> 0]

Synthetic(loop, ctx, phase, index) ==
  [kind |-> "synthetic", name |-> loop.id, ctx |-> ctx, at |-> 100 * phase + index]

\* valueEnvironment: aliases introduced by calls and loops.
Resolve(env, name, ctx) ==
  IF <<name, ctx>> \in DOMAIN env THEN env[<<name, ctx>>] ELSE Original(name, ctx)

Bind(env, name, ctx, value) ==
  [key \in DOMAIN env \cup {<<name, ctx>>} |->
     IF key = <<name, ctx>> THEN value ELSE env[key]]

Rename(values, from, to) ==
  [i \in DOMAIN values |-> IF values[i] = from THEN to ELSE values[i]]

\* addForwarding: an alias, not a runtime action.  Uses already recorded are
\* rewritten; later ones resolve through the environment.
AddForwarding(state, from, fromCtx, to, toCtx) ==
  LET value  == Resolve(state.env, from, fromCtx)
      target == Resolve(state.env, to, toCtx)
  IN  [actions    |-> [i \in DOMAIN state.actions |->
                         [state.actions[i] EXCEPT
                            !.operands = Rename(@, target, value)]],
       forwarding |-> Append([i \in DOMAIN state.forwarding |->
                                [state.forwarding[i] EXCEPT
                                   !.from = IF @ = target THEN value ELSE @]],
                             [from |-> value, to |-> target]),
       env        |-> Bind(state.env, to, toCtx, value)]

ForwardAll(state, froms, fromCtx, tos, toCtx) ==
  FoldLeft(LAMBDA s, i : AddForwarding(s, froms[i], fromCtx, tos[i], toCtx),
           state, [i \in DOMAIN tos |-> i])

ActionOf(kind, op, ctx, operands, results) ==
  [kind |-> kind, op |-> op, ctx |-> ctx, operands |-> operands, results |-> results]

AddAction(state, action) == [state EXCEPT !.actions = Append(@, action)]

ExpandOriginal(state, op, ctx) ==
  AddAction(state,
    ActionOf("original", op, ctx,
             [i \in DOMAIN op.uses |-> Resolve(state.env, op.uses[i], ctx)],
             [i \in DOMAIN op.defs |-> Resolve(state.env, op.defs[i], ctx)]))

\* A static loop stays structural: initialize, condition and increment.
ExpandFor(state, op, ctx) ==
  LET carried == [i \in DOMAIN op.args |-> Resolve(state.env, op.args[i], ctx)]
      env     == FoldLeft(LAMBDA e, i : Bind(Bind(e, op.args[i], ctx, carried[i]),
                                             op.defs[i], ctx, carried[i]),
                          state.env, [i \in DOMAIN op.args |-> i])
      Value(name) == Resolve(env, name, ctx)
      Values(names) == [i \in DOMAIN names |-> Value(names[i])]
      induction == Synthetic(op, ctx, 0, 0)
      next(i)   == Synthetic(op, ctx, 2, i)
      initialize == ActionOf("for_initialize", op, ctx,
                             <<Value(op.lower)>> \o Values(op.init),
                             <<induction>> \o carried)
      condition  == ActionOf("for_condition", op, ctx,
                             <<induction, Value(op.upper)>>,
                             <<Synthetic(op, ctx, 1, 0)>>)
      increment  == ActionOf("for_increment", op, ctx,
                             <<induction, Value(op.step)>> \o carried \o Values(op.yields),
                             <<next(0)>> \o [i \in DOMAIN carried |-> next(i)])
  IN  [actions    |-> state.actions \o <<initialize, condition, increment>>,
       forwarding |-> Append(state.forwarding,
                             [from |-> induction, to |-> Value(op.iv)]),
       env        |-> Bind(env, op.iv, ctx, induction)]

ExpandCall(state, op, ctx) ==
  LET inside == Append(ctx, op.id)
      entered == ForwardAll(state, op.uses, ctx, op.params, inside)
  IN  ForwardAll(entered, op.returns, inside, op.defs, ctx)

Tasks(ops, ctx) == [i \in DOMAIN ops |-> [op |-> ops[i], ctx |-> ctx]]

\* The pending stack of expandProcess: a region's operations are pushed on
\* top, so an else region comes before its then region.
RECURSIVE Expand(_, _)
Expand(pending, state) ==
  IF pending = <<>> THEN state
  ELSE LET op   == Head(pending).op
           ctx  == Head(pending).ctx
           rest == Tail(pending)
       IN  CASE op.kind = "call" -> Expand(Tasks(op.body, Append(ctx, op.id)) \o rest,
                                           ExpandCall(state, op, ctx))
             [] op.kind = "for"  -> Expand(Tasks(op.body, ctx) \o rest,
                                           ExpandFor(state, op, ctx))
             [] op.kind = "if"   -> Expand(Tasks(op.else, ctx) \o Tasks(op.then, ctx) \o rest,
                                           state)
             [] OTHER            -> Expand(rest, ExpandOriginal(state, op, ctx))

ExpandProcess(body) ==
  Expand(Tasks(body, <<>>), [actions |-> <<>>, forwarding |-> <<>>, env |-> <<>>])

\* The operations of a process; with the bodies of the functions it calls.
RECURSIVE NestedOps(_), InlinedOps(_)
NestedOps(ops) ==
  FlattenSeqs([i \in DOMAIN ops |->
    <<ops[i]>> \o (CASE ops[i].kind = "if"  -> NestedOps(ops[i].then) \o NestedOps(ops[i].else)
                     [] ops[i].kind = "for" -> NestedOps(ops[i].body)
                     [] OTHER               -> <<>>)])
InlinedOps(ops) ==
  FlattenSeqs([i \in DOMAIN ops |->
    <<ops[i]>> \o InlinedOps(ops[i].then \o ops[i].else \o ops[i].body)])

RECURSIVE Nesting(_)
Nesting(ops) ==
  LET deeper == {Nesting(ops[i].then \o ops[i].else \o ops[i].body) :
                   i \in {j \in DOMAIN ops : ops[j].kind \in {"if", "for"}}}
  IN  1 + (IF deeper = {} THEN 0 ELSE CHOOSE n \in deeper : \A m \in deeper : n >= m)

Total(ops, Count(_)) == FoldLeft(LAMBDA n, op : n + Count(op), 0, ops)
\* An operation with the terminators of its regions, and their operands.
NodesOf(op) ==
  CASE op.kind = "if"  -> IF op.else = <<>> THEN 2 ELSE 3
    [] op.kind = "for" -> 2
    [] OTHER           -> 1
OperandsOf(op) ==
  Len(op.uses) + Len(op.init) + Len(op.yields)
  + (CASE op.kind = "if" -> 1 [] op.kind = "for" -> 3 [] OTHER -> 0)

\* verifyProcessLowerability, of a process whose loops have constant bounds.
Lowerable(body) ==
  LET ops == NestedOps(body)
  IN  /\ Nesting(body) <= RawLimits.depth
      /\ Total(ops, NodesOf) + 1 <= RawLimits.nodes
      /\ Total(ops, OperandsOf) <= RawLimits.edges
      /\ \A i \in DOMAIN ops : ops[i].kind = "for" => ops[i].trip <= RawLimits.trips

\* reserveNodes and reserveEdges: every call site inlines its function, and
\* forwards its arguments and results.
ExpansionFits(body) ==
  LET ops == InlinedOps(body)
      Nodes(op) == NodesOf(op) + IF op.kind = "call" THEN 1 ELSE 0
      Edges(op) == OperandsOf(op) + Len(op.params) + 2 * Len(op.returns)
  IN  /\ Total(ops, Nodes) <= RawLimits.nodes
      /\ Total(ops, Edges) <= RawLimits.edges

IsStructured(body) ==
  \E i \in DOMAIN NestedOps(body) : NestedOps(body)[i].kind \in {"if", "for"}

(***************************************************************************)
(* Structured continuation: the graph of action, branch and jump nodes,    *)
(* built from the last operation of a region to the first.                 *)
(***************************************************************************)
NoNode == <<"", <<>>, "">>
NodeId(op, ctx, phase) == <<op.id, ctx, phase>>

\* values: SSA value to planned value, keyed by the SSA value alone.  The
\* results of actions come first, forwarding overrides them and the aliases
\* of loops fill what is left.
ValueMap(expanded) ==
  LET results == FlattenSeqs([i \in DOMAIN expanded.actions |->
                   LET a == expanded.actions[i]
                   IN  IF a.kind = "original"
                       THEN [k \in DOMAIN a.results |-> <<a.op.defs[k], a.results[k]>>]
                       ELSE <<>>])
      loops   == FlattenSeqs([i \in DOMAIN expanded.actions |->
                   LET a == expanded.actions[i]
                   IN  IF a.kind = "for_initialize"
                       THEN <<<<a.op.iv, a.results[1]>>>>
                            \o [k \in DOMAIN a.op.args |-> <<a.op.args[k], a.results[k + 1]>>]
                            \o [k \in DOMAIN a.op.defs |-> <<a.op.defs[k], a.results[k + 1]>>]
                       ELSE <<>>])
      originals == SelectSeq(expanded.forwarding, LAMBDA f : f.to.kind = "original")
      aliases == [i \in DOMAIN originals |-> <<originals[i].to.name, originals[i].from>>]
      \* first entry wins, so the overriding ones are put first, latest first
      entries == Reverse(aliases) \o results \o loops
      names   == {entries[i][1] : i \in DOMAIN entries}
  IN  [n \in names |-> entries[PositionOf(entries, LAMBDA e : e[1] = n)][2]]

\* The action of an operation in a call context; of a loop, one of its three.
ActionFor(expanded, kind, op, ctx) ==
  PositionOf(expanded.actions,
             LAMBDA a : a.kind = kind /\ a.op.id = op.id /\ a.ctx = ctx)

AddNode(graph, id, node) ==
  [graph EXCEPT !.nodes = [n \in DOMAIN @ \cup {id} |-> IF n = id THEN node ELSE @[n]]]

\* definitionsByValue: the node that defines a value; the first one built wins.
AddDefinitions(graph, op, id) ==
  LET new == {op.defs[i] : i \in DOMAIN op.defs} \ DOMAIN graph.definitions
  IN  [graph EXCEPT !.definitions =
         [n \in DOMAIN @ \cup new |-> IF n \in new THEN id ELSE @[n]]]

Node(kind, op, action, condition, next, then, else) ==
  [kind |-> kind, op |-> op, action |-> action, condition |-> condition,
   next |-> next, then |-> then, else |-> else]

NoCondition == Original("", <<>>)

RECURSIVE BuildSequence(_, _, _, _, _)
BuildOperation(expanded, values, op, ctx, graph) ==
  LET continuation == graph.head IN
  CASE op.kind = "call" ->
         BuildSequence(expanded, values, op.body, Append(ctx, op.id), graph)
    [] op.kind = "if" ->
         IF op.cond \notin DOMAIN values THEN [graph EXCEPT !.supported = FALSE]
         ELSE LET thenGraph == BuildSequence(expanded, values, op.then, ctx, graph)
                  elseGraph == BuildSequence(expanded, values, op.else, ctx,
                                 [thenGraph EXCEPT !.head = continuation])
                  id == NodeId(op, ctx, "if")
              IN  [AddNode(elseGraph, id,
                           Node("branch", op, 0, values[op.cond], continuation,
                                thenGraph.head, elseGraph.head))
                     EXCEPT !.head = id]
    [] op.kind = "for" ->
         LET initialize == ActionFor(expanded, "for_initialize", op, ctx)
             condition  == ActionFor(expanded, "for_condition", op, ctx)
             increment  == ActionFor(expanded, "for_increment", op, ctx)
             header == NodeId(op, ctx, "header")
             latch  == NodeId(op, ctx, "latch")
             first  == NodeId(op, ctx, "initialize")
             inner  == BuildSequence(expanded, values, op.body, ctx,
                         [AddNode(graph, latch, Node("jump", op, increment, NoCondition,
                                                     header, NoNode, NoNode))
                            EXCEPT !.head = latch])
             looped == AddNode(inner, header,
                         Node("branch", op, condition,
                              expanded.actions[condition].results[1],
                              NoNode, inner.head, continuation))
         IN  [AddNode(looped, first, Node("jump", op, initialize, NoCondition,
                                          header, NoNode, NoNode))
                EXCEPT !.head = first]
    [] OTHER ->
         LET action == ActionFor(expanded, "original", op, ctx)
             id     == NodeId(op, ctx, "action")
         IN  [AddDefinitions(AddNode(graph, id, Node("action", op, action, NoCondition,
                                                     continuation, NoNode, NoNode)),
                             op, id)
                EXCEPT !.head = id]

BuildSequence(expanded, values, ops, ctx, graph) ==
  IF ops = <<>> THEN graph
  ELSE BuildSequence(expanded, values, Front(ops), ctx,
                     BuildOperation(expanded, values, Last(ops), ctx, graph))

\* A loop reached through two call sites has two sets of loop actions, which
\* the planner does not tell apart: it gives up.
LoopsOnce(expanded) ==
  \A i, j \in DOMAIN expanded.actions :
    /\ expanded.actions[i].kind = "for_initialize"
    /\ expanded.actions[j].kind = "for_initialize"
    /\ expanded.actions[i].op.id = expanded.actions[j].op.id
    => i = j

GraphOf(expanded, body) ==
  BuildSequence(expanded, ValueMap(expanded), body, <<>>,
    [head |-> NoNode, nodes |-> <<>>, definitions |-> <<>>,
     supported |-> LoopsOnce(expanded)])

\* The scf.if that directly or indirectly encloses an operation, innermost.
RECURSIVE EnclosingIfs(_, _, _)
EnclosingIfs(ops, id, enclosing) ==
  UNION {LET op == ops[i] IN
         CASE op.id = id      -> {enclosing}
           [] op.kind = "if"  -> EnclosingIfs(op.then \o op.else, id, <<op>>)
           [] op.kind = "for" -> EnclosingIfs(op.body, id, enclosing)
           [] OTHER           -> {} : i \in DOMAIN ops}

EnclosingIf(body, op) == CHOOSE e \in EnclosingIfs(body, op.id, <<>>) : TRUE

\* Mutant of ResumeNode: an await in a retry resumes after itself.
ResumeNodeAfter(graph, body, id) == graph.nodes[id].next

\* retryRoots: an await inside an scf.if on the outcome of a queue operation
\* on the same queue resumes at that operation.
ResumeNode(graph, body, id) ==
  LET node == graph.nodes[id]
      enclosing == EnclosingIf(body, node.op)
      retries ==
        /\ node.op.kind = "await"
        /\ enclosing # <<>>
        /\ enclosing[1].cond \in DOMAIN graph.definitions
        /\ LET definer == graph.nodes[graph.definitions[enclosing[1].cond]].op
           IN  definer.kind = "invoke" /\ definer.queue = node.op.queue
  IN  IF retries THEN graph.definitions[enclosing[1].cond] ELSE node.next

(***************************************************************************)
(* Program counters and blocks.  A block holds planned actions, the slots  *)
(* it loads, its edge and its cost; PC 0 is the entry.                     *)
(***************************************************************************)
Edge(kind, condition, targets, transition) ==
  [kind |-> kind, condition |-> condition, targets |-> targets, transition |-> transition]

Terminate     == Edge("terminate", NoCondition, <<>>, 0)
Branch(c, t, f) == Edge("branch", c, <<t, f>>, 0)
Continue(t)   == Edge("continue", NoCondition, <<t>>, 0)
Suspend(transition) == Edge("suspend", NoCondition, <<>>, transition)

EmptyControl ==
  [pcs |-> <<>>, blocks |-> <<>>, wakes |-> <<>>, transitions |-> <<>>,
   roots |-> <<>>, slots |-> <<>>, bounded |-> 0, ok |-> TRUE]

WakeKind(op) ==
  CASE op.kind = "yield" -> "next_delta"
    [] op.kind = "await" -> "queue"
    [] op.kind = "wait"  -> "resource"
    [] op.kind = "until" -> "condition"

\* A wake subscribes to the operands of its suspension.
WakeOf(op, action) ==
  [kind |-> WakeKind(op), op |-> op, target |-> "", sources |-> action.operands]

TransitionOf(from, to, wake) ==
  [from |-> from, to |-> to, wake |-> wake, stores |-> <<>>, loads |-> <<>>]

BlockOf(pc) ==
  [pc |-> pc, actions |-> <<>>, loads |-> <<>>, edge |-> Terminate, cost |-> 0]

AppendAction(control, block, action) ==
  [control EXCEPT !.blocks[block].actions = Append(@, action)]

SetEdge(control, block, edge) == [control EXCEPT !.blocks[block].edge = edge]

\* The straight-line run of non-suspending actions at the start of a block.
RECURSIVE ActionRun(_, _)
ActionRun(graph, cursor) ==
  IF cursor # NoNode /\ graph.nodes[cursor].kind = "action"
                     /\ ~IsSuspension(graph.nodes[cursor].op)
  THEN LET rest == ActionRun(graph, graph.nodes[cursor].next)
       IN  [actions |-> <<graph.nodes[cursor].action>> \o rest.actions,
            cursor  |-> rest.cursor]
  ELSE [actions |-> <<>>, cursor |-> cursor]

RECURSIVE CreatePc(_, _, _, _)
RECURSIVE BuildBlock(_, _, _, _, _)

\* buildBlock: result.memo maps the nodes of this PC to their blocks.
BuildBlock(expanded, graph, body, start, state) ==
  IF start \in DOMAIN state.memo THEN [state EXCEPT !.block = state.memo[start]]
  ELSE
  LET run    == ActionRun(graph, start)
      block  == Len(state.control.blocks) + 1
      pc     == state.pc
      opened ==
        [control |-> [state.control EXCEPT
           !.blocks = Append(@, [BlockOf(pc) EXCEPT
              !.actions = [i \in DOMAIN run.actions |-> expanded.actions[run.actions[i]]]]),
           !.pcs[pc] = Append(@, block)],
         memo    |-> [n \in DOMAIN state.memo \cup {start} |->
                        IF n = start THEN block ELSE state.memo[n]],
         pc      |-> pc,
         block   |-> block]
      node   == graph.nodes[run.cursor]
      With(s, action) ==
        IF action = 0 THEN s
        ELSE [s EXCEPT !.control = AppendAction(@, block, expanded.actions[action])]
  IN
  IF run.cursor = NoNode THEN opened
  ELSE IF node.kind = "branch" THEN
    LET acted == With(opened, node.action)
        true  == BuildBlock(expanded, graph, body, node.then, acted)
        false == BuildBlock(expanded, graph, body, node.else, true)
    IN  [false EXCEPT !.control = SetEdge(@, block, Branch(node.condition, true.block, false.block)),
                      !.block   = block]
  ELSE IF node.kind = "jump" THEN
    LET next == BuildBlock(expanded, graph, body, node.next, With(opened, node.action))
    IN  [next EXCEPT !.control = SetEdge(@, block, Continue(next.block)), !.block = block]
  ELSE
    LET acted      == With(opened, node.action)
        wake       == Len(acted.control.wakes) + 1
        transition == Len(acted.control.transitions) + 1
        recorded   == [acted.control EXCEPT
                         !.wakes = Append(@, WakeOf(node.op, expanded.actions[node.action])),
                         !.transitions = Append(@, TransitionOf(pc, 1, wake))]
        resumed    == IF node.op.kind = "yield" THEN [control |-> recorded, pc |-> 1]
                      ELSE CreatePc(expanded, graph, body,
                                    [control |-> recorded,
                                     root |-> ResumeNode(graph, body, run.cursor)])
    IN  [acted EXCEPT
           !.control = [SetEdge(resumed.control, block, Suspend(transition))
                          EXCEPT !.transitions[transition].to = resumed.pc]]

\* createPc: one PC per node execution may resume at.
CreatePc(expanded, graph, body, request) ==
  LET control == request.control
      known   == PositionOf(control.roots, LAMBDA r : r = request.root)
      pc      == Len(control.pcs) + 1
  IN  CASE known # 0 -> [control |-> control, pc |-> known]
        [] known = 0 /\ Len(control.pcs) >= MaxProgramCounters ->
             [control |-> [control EXCEPT !.ok = FALSE], pc |-> 1]
        [] OTHER ->
             [control |-> BuildBlock(expanded, graph, body, request.root,
                            [control |-> [control EXCEPT !.pcs = Append(@, <<>>),
                                                         !.roots = Append(@, request.root)],
                             memo |-> <<>>, pc |-> pc, block |-> 0]).control,
              pc |-> pc]

\* Work a process with loops may do without suspending, as estimated.
BoundedWork(expanded, control, body) ==
  LET ops   == NestedOps(body)
      loops == SelectSeq(ops, LAMBDA op : op.kind = "for")
  IN  IF \E i \in DOMAIN expanded.actions : expanded.actions[i].kind = "for_initialize"
      THEN FoldLeft(LAMBDA sum, op : sum + 3 + op.trip * (IF op.body = <<>> THEN 1 ELSE Len(op.body)),
                    Len(expanded.actions) + Len(control.blocks), loops)
      ELSE 0

StructuredControl(expanded, body) ==
  LET graph == GraphOf(expanded, body)
      control == CreatePc(expanded, graph, body,
                          [control |-> EmptyControl, root |-> graph.head]).control
  IN  IF ~graph.supported \/ graph.head = NoNode THEN [EmptyControl EXCEPT !.ok = FALSE]
      ELSE [control EXCEPT !.bounded = BoundedWork(expanded, control, body)]

(***************************************************************************)
(* Linear continuation: one block per suspension, one resume PC per        *)
(* suspension other than a yield; what follows the last one is not planned.*)
(***************************************************************************)
LinearWakes(actions, suspensions) ==
  [k \in DOMAIN suspensions |->
     WakeOf(actions[suspensions[k]].op, actions[suspensions[k]])]

LinearControl(expanded) ==
  LET actions     == expanded.actions
      suspensions == SelectSeq([i \in DOMAIN actions |-> i],
                               LAMBDA i : IsSuspension(actions[i].op))
      Awaiting(k) == Cardinality({j \in 1..k : actions[suspensions[j]].op.kind # "yield"})
      PcAfter(k)  == IF k = 0 \/ actions[suspensions[k]].op.kind = "yield" THEN 1
                     ELSE 1 + Awaiting(k)
      Start(k)    == IF k = 1 THEN 1 ELSE suspensions[k - 1] + 1
      segments    == DOMAIN suspensions
      PcOf(k)     == PcAfter(k - 1)
  IN  IF actions = <<>> THEN [EmptyControl EXCEPT !.ok = FALSE]
      ELSE [EmptyControl EXCEPT
              !.pcs = [pc \in 1..(1 + Awaiting(Len(suspensions))) |->
                         SelectSeq([k \in segments |-> k], LAMBDA k : PcOf(k) = pc)],
              !.blocks = [k \in segments |->
                            [BlockOf(PcOf(k)) EXCEPT
                               !.actions = SubSeq(actions, Start(k), suspensions[k]),
                               !.edge    = Suspend(k)]],
              !.wakes = LinearWakes(actions, suspensions),
              !.transitions = [k \in segments |-> TransitionOf(PcOf(k), PcAfter(k), k)]]

PlanContinuation(expanded, body) ==
  IF IsStructured(body) THEN StructuredControl(expanded, body) ELSE LinearControl(expanded)

\* planProcessWakes: a wake on a name that is not declared fails the plan; a
\* condition is its own target.
PlanWakes(control) ==
  LET Unnamed == {"next_delta", "condition"}
      Target(wake) == IF wake.kind \in Unnamed THEN "" ELSE wake.op.queue
  IN  [control EXCEPT
         !.wakes = [i \in DOMAIN @ |-> [@[i] EXCEPT !.target = Target(control.wakes[i])]],
         !.ok = @ /\ \A i \in DOMAIN control.wakes :
                       control.wakes[i].kind \in Unnamed \/ control.wakes[i].op.queue \in Queues]

(***************************************************************************)
(* Liveness: which values a transition stores in slots and its target      *)
(* loads.  Values are looked up by their path, which does not name the     *)
(* call sites.                                                             *)
(***************************************************************************)
Wrapped(value, transition, slot) ==
  [kind |-> "wrapped", name |-> value.name, ctx |-> value.ctx, at |-> 1000 * transition + slot]
LiveSlot(slot) == [kind |-> "slot", name |-> "", ctx |-> <<>>, at |-> slot]

NeedsWrapper(value) == value.name \notin Packets

IsOriginal(value) == value.kind = "original"

\* All results (operands) of the actions of one PC, in block order.
PcValues(control, pc, field) ==
  FlattenSeqs([b \in DOMAIN control.blocks |->
    IF control.blocks[b].pc # pc THEN <<>>
    ELSE FlattenSeqs([i \in DOMAIN control.blocks[b].actions |->
           SelectSeq(control.blocks[b].actions[i][field], IsOriginal)])])

Names(values) == {values[i].name : i \in DOMAIN values}

EntryBlock(control, pc) == control.pcs[pc][1]
SuspendingBlock(control, transition) ==
  PositionOf(control.blocks,
             LAMBDA b : b.edge.kind = "suspend" /\ b.edge.transition = transition)

\* One use of a value defined in the source PC: its slot, store and load.
\* wrappers collects the wrap and unwrap actions, inserted at the end.
CarryValue(state, transition, definition, operand) ==
  LET control  == state.control
      known    == PositionOf(control.slots, LAMBDA v : v.name = operand.name)
      slot     == IF known = 0 THEN Len(control.slots) + 1 ELSE known
      leg      == control.transitions[transition]
      stored   == \E i \in DOMAIN leg.stores : leg.stores[i].slot = slot
      loaded   == \E i \in DOMAIN leg.loads : leg.loads[i] = slot
      wrapping == NeedsWrapper(definition)
      kept     == IF wrapping THEN Wrapped(definition, transition, slot) ELSE definition
      target   == EntryBlock(control, leg.to)
      wrap     == [kind |-> "scalar_wrap", operands |-> <<definition>>, results |-> <<kept>>]
      unwrap   == [kind |-> "scalar_unwrap", operands |-> <<LiveSlot(slot)>>,
                   results |-> <<operand>>]
      alias    == [slot |-> slot, value |-> operand]
  IN  [control |-> [control EXCEPT
         !.ok = @ /\ (known # 0 \/ Len(control.slots) < MaxLiveSlots),
         !.slots = IF known = 0 THEN Append(@, definition) ELSE @,
         !.transitions[transition].stores =
           IF stored THEN @ ELSE Append(@, [slot |-> slot, value |-> kept]),
         !.transitions[transition].loads = IF loaded THEN @ ELSE Append(@, slot),
         !.blocks[target].loads =
           CASE ~NeedsWrapper(operand) -> Append(@, alias)
             [] NeedsWrapper(operand) /\ ~loaded -> Append(@, [alias EXCEPT !.value = LiveSlot(slot)])
             [] OTHER -> @],
       wraps   |-> IF stored \/ ~wrapping THEN state.wraps
                   ELSE Append(state.wraps,
                               [block |-> SuspendingBlock(control, transition), action |-> wrap]),
       unwraps |-> IF loaded \/ ~NeedsWrapper(operand) THEN state.unwraps
                   ELSE Append(state.unwraps, [block |-> target, action |-> unwrap])]

\* A value the target PC defines itself (a retried operation) is not restored.
CarryTransition(state, transition) ==
  LET control == state.control
      leg     == control.transitions[transition]
      definitions == PcValues(control, leg.from, "results")
      uses    == SelectSeq(PcValues(control, leg.to, "operands"),
                           LAMBDA v : /\ v.name \in Names(definitions)
                                      /\ v.name \notin Names(PcValues(control, leg.to, "results")))
      DefinitionOf(v) == definitions[PositionOf(definitions, LAMBDA d : d.name = v.name)]
  IN  IF leg.from = leg.to THEN state
      ELSE IF control.pcs[leg.to] = <<>>
      THEN [state EXCEPT !.control.ok = FALSE]
      ELSE FoldLeft(LAMBDA s, v : CarryValue(s, transition, DefinitionOf(v), v), state, uses)

PlanLiveness(control) ==
  LET carried == FoldLeft(CarryTransition, [control |-> control, wraps |-> <<>>, unwraps |-> <<>>],
                          [t \in DOMAIN control.transitions |-> t])
      Of(list, b) == LET own == SelectSeq(list, LAMBDA w : w.block = b)
                     IN  [i \in DOMAIN own |-> own[i].action]
      Loads(list) == ToSet(list)
  IN  [carried.control EXCEPT
         !.blocks = [b \in DOMAIN @ |->
           [@[b] EXCEPT !.actions = Of(carried.unwraps, b) \o @ \o Of(carried.wraps, b),
                        !.loads   = Loads(@)]]]

(***************************************************************************)
(* Cost and fairness.                                                      *)
(***************************************************************************)
Emission(action) ==
  CASE action.kind \in {"for_condition", "for_increment"} -> "copy_scalar"
    [] action.kind \in {"scalar_wrap", "scalar_unwrap"}   -> action.kind
    [] action.kind = "for_initialize"                     -> "forward_only"
    [] action.kind = "original" /\ action.op.kind \in {"const", "scalar"} -> "copy_scalar"
    [] action.kind = "original" /\ action.op.kind = "invoke" -> "invoke"
    [] OTHER -> "forward_only"

LoadedSlots(block) == {load.slot : load \in block.loads}

BlockCost(control, block) ==
  LET costed == {i \in DOMAIN block.actions : Emission(block.actions[i]) # "forward_only"}
  IN  Cardinality(LoadedSlots(block)) + Cardinality(costed)
      + (IF block.edge.kind = "suspend"
         THEN Len(control.transitions[block.edge.transition].stores) + 2
         ELSE 1)

Successors(control, block) == ToSet(control.blocks[block].edge.targets)

RECURSIVE ReachFrom(_, _)
ReachFrom(control, seen) ==
  LET more == seen \cup UNION {Successors(control, b) : b \in seen}
  IN  IF more = seen THEN seen ELSE ReachFrom(control, more)

Cyclic(control, pc) ==
  \E b \in ToSet(control.pcs[pc]) : b \in ReachFrom(control, Successors(control, b))

MaxOf(numbers) == CHOOSE n \in numbers : \A m \in numbers : n >= m

RECURSIVE LongestFrom(_, _)
LongestFrom(control, block) ==
  control.blocks[block].cost
  + MaxOf({0} \cup {LongestFrom(control, s) : s \in Successors(control, block)})

PcWork(control, pc) ==
  IF Cyclic(control, pc) THEN control.bounded ELSE LongestFrom(control, EntryBlock(control, pc))

PlanCost(control) ==
  LET costed == [control EXCEPT !.blocks = [b \in DOMAIN @ |->
                   [@[b] EXCEPT !.cost = BlockCost(control, control.blocks[b])]]]
      valid  == \A pc \in DOMAIN control.pcs :
                  /\ control.pcs[pc] # <<>>
                  /\ Cyclic(control, pc) =>
                       control.bounded > 0 /\ control.bounded <= MaxFairnessWork
                  /\ ~Cyclic(control, pc) =>
                       ReachFrom(control, {EntryBlock(control, pc)}) = ToSet(control.pcs[pc])
      fairness == MaxOf({PcWork(costed, pc) : pc \in DOMAIN control.pcs})
  IN  IF ~valid THEN [control EXCEPT !.ok = FALSE] @@ [fairness |-> 0]
      ELSE [costed EXCEPT !.ok = @ /\ fairness > 0 /\ fairness <= MaxFairnessWork]
           @@ [fairness |-> fairness]

\* planProcessState for one process: the first stage that fails ends it.
IfPlanned(control, Stage(_)) == IF control.ok THEN Stage(control) ELSE NoPlan
Settled(control) == control

PlanOf(body) ==
  IF ~Lowerable(body) \/ ~ExpansionFits(body) THEN NoPlan
  ELSE IfPlanned(IfPlanned(IfPlanned(PlanWakes(PlanContinuation(ExpandProcess(body), body)),
                                     PlanLiveness), PlanCost), Settled)
=============================================================================
