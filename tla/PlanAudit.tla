------------------------------ MODULE PlanAudit ------------------------------
(***************************************************************************)
(* verifyProcessStatePlan: what a plan set must satisfy before anything is *)
(* emitted from it; the damaged clones the planner's own hooks produce     *)
(* from a sound plan set; and the activations of the processes of an       *)
(* accepted plan set, which run the blocks of one program counter until a  *)
(* suspension or the end and must finish within the planned work.          *)
(***************************************************************************)
EXTENDS PlanSet

CONSTANTS Models,       \* the frozen models: [frozen, items]
          ChainLength   \* blocks of the longest local chain

VARIABLES stage,        \* "model", "planned", "refused", "accepted"
          model,        \* the frozen model the plan set is built from
          source,       \* the builder of the plan set
          damage,       \* the corruption applied, or "none"
          plans,        \* the plan set
          at            \* the running activation: [process, pc, block, work]
vars == <<stage, model, source, damage, plans, at>>

(***************************************************************************)
(* structuralError: each variant has exactly the arm of its kind and every *)
(* mandatory reference is there and in range.                              *)
(***************************************************************************)
\* An occurrence is [kind, op, phase, direction, transition, slot]; op is
\* its own operation, or the one of the occurrence it is anchored at.
OccurrenceKinds == {"Original", "Loop", "Wrapper", "Constant"}
ValidOccurrence(o) == o.kind \in OccurrenceKinds
\* A planned value is [kind, type, arms, ref, occurrence].
ValidValue(v) ==
    /\ v.type # ""
    /\ v.arms = {v.kind}
    /\ v.kind \in {"Original", "Synthetic"} => ValidOccurrence(v.occurrence)

ValidBinding(b) == ValidValue(b.from) /\ ValidValue(b.to)

ValidEdgeShape(e) ==
    CASE e.kind = "Branch" ->
             /\ e.condition # <<>> /\ e.true # None /\ e.false # None
             /\ e.target = None /\ e.transition = None /\ e.bindings = <<>>
      [] e.kind = "LocalContinue" ->
             /\ e.target # None
             /\ e.condition = <<>> /\ e.true = None /\ e.false = None
             /\ e.transition = None
             /\ e.trueBindings = <<>> /\ e.falseBindings = <<>>
      [] e.kind = "Suspend" ->
             /\ e.transition # None
             /\ e.condition = <<>> /\ e.true = None /\ e.false = None
             /\ e.target = None /\ e.trueBindings = <<>>
             /\ e.falseBindings = <<>> /\ e.bindings = <<>>
      [] e.kind = "Terminate" ->
             /\ e.condition = <<>> /\ e.true = None /\ e.false = None
             /\ e.target = None /\ e.transition = None
             /\ e.trueBindings = <<>> /\ e.falseBindings = <<>>
             /\ e.bindings = <<>>
      [] OTHER -> FALSE
Successors(e) ==
    CASE e.kind = "Branch" -> {e.true, e.false}
      [] e.kind = "LocalContinue" -> {e.target}
      [] OTHER -> {}
EdgeStructure(e, p) ==
    /\ ValidEdgeShape(e)
    /\ Each(e.condition, ValidValue)
    /\ Each(e.trueBindings \o e.falseBindings \o e.bindings, ValidBinding)
    /\ e.kind = "Suspend" => InRange(e.transition, p.transitions)
    /\ \A b \in Successors(e) : InRange(b, p.blocks)

CalleeEmissions == {"Inline", "Invoke", "Wrap", "Unwrap"}
LoopKinds == {"ForInitialize", "ForCondition", "ForIncrement"}
\* The attributes that occur, in the order of name and then value.
AttributeOrder == <<<<"predicate", "2 : i64">>, <<"predicate", "3 : i64">>,
                    <<"unexpected", "2 : i64">>, <<"unexpected", "true">>>>
AttributeRank(a) == CHOOSE i \in DOMAIN AttributeOrder : AttributeOrder[i] = a
ScalarStructure(s) ==
    /\ s.name # "" /\ s.properties # ""
    /\ \A i \in 1 .. Len(s.attributes) - 1 :
           AttributeRank(s.attributes[i]) < AttributeRank(s.attributes[i + 1])
ActionStructure(a, set) ==
    /\ ValidOccurrence(a.occurrence)
    /\ (a.callee # None) = (a.emission \in CalleeEmissions)
    /\ (a.scalar # <<>>) = (a.emission = "CopyScalar")
    /\ a.callee # None => InRange(a.callee, set.callees)
    /\ Each(a.scalar, ScalarStructure)
    /\ (a.source # NoOp) = (a.kind \in LoopKinds \cup {"Original"})
    /\ a.kind \in LoopKinds =>
           /\ a.source.op = "for"
           /\ a.occurrence.kind = "Loop"
           /\ a.occurrence.op = a.source
    /\ Each(a.operands \o a.results, ValidValue)
LoadStructure(l, p) ==
    InRange(l.slot, p.slots) /\ Each(l.replacements, ValidValue)
BlockStructure(b, p, set) ==
    /\ InRange(b.pc, p.pcs)
    /\ EdgeStructure(b.edge, p)
    /\ Each(b.actions, LAMBDA a : ActionStructure(a, set))
    /\ Each(b.loads, LAMBDA l : LoadStructure(l, p))
    /\ Each(b.frames, LAMBDA f : Each(f.bindings, ValidBinding))
SlotStructure(s, set) ==
    /\ InRange(s.storage, set.types)
    /\ s.wrap # None => InRange(s.wrap, set.callees)
    /\ s.unwrap # None => InRange(s.unwrap, set.callees)
    /\ (s.wrap = None) = (s.unwrap = None)
    /\ Each(s.members, ValidValue)
\* The sources a wake subscribes to: [kind, capture, value, declaration].
SourceStructure(s) ==
    CASE s.kind = "Capture" ->
             s.capture # None /\ s.value = "" /\ s.declaration = ""
      [] s.kind = "Value" ->
             s.value # "" /\ s.capture = None /\ s.declaration = ""
      [] s.kind = "Symbol" ->
             s.declaration # "" /\ s.capture = None /\ s.value = ""
WakeStructure(w, set) ==
    /\ w.callee # None /\ InRange(w.callee, set.callees)
    /\ ValidOccurrence(w.occurrence)
    /\ Each(w.sources, SourceStructure)
TransitionStructure(t, p) ==
    /\ InRange(t.source, p.pcs) /\ InRange(t.target, p.pcs)
    /\ InRange(t.wake, p.wakes)
    /\ Each(t.stores, LAMBDA s : InRange(s.slot, p.slots) /\ ValidValue(s.source))
    /\ Each(t.loads, LAMBDA l : LoadStructure(l, p))
ProcessStructure(p, set) ==
    /\ InRange(p.entry, p.pcs)
    /\ Each(p.pcs, LAMBDA pc : Each(pc.blocks, LAMBDA b : InRange(b, p.blocks)))
    /\ Each(p.blocks, LAMBDA b : BlockStructure(b, p, set))
    /\ Each(p.slots, LAMBDA s : SlotStructure(s, set))
    /\ Each(p.wakes, LAMBDA w : WakeStructure(w, set))
    /\ Each(p.transitions, LAMBDA t : TransitionStructure(t, p))
Structure(set) ==
    /\ Each(set.callees, LAMBDA c : /\ c.arms = {PayloadArm(c.role)}
                                    /\ c.role = "ArbitrateRoundRobin" =>
                                           c.detail.count > 0)
    /\ Each(set.types, LAMBDA t : t.arms = {t.kind})
    /\ Each(set.processes, LAMBDA p : ProcessStructure(p, set))

(***************************************************************************)
(* verifyProcessStatePlan, one process.                                    *)
(***************************************************************************)
OccurrenceCloses(o, p) ==
    o.kind = "Wrapper" => /\ InRange(o.transition, p.transitions)
                          /\ InRange(o.slot, p.slots)
ValueCloses(v, p) ==
    CASE v.kind \in {"Original", "Synthetic"} -> OccurrenceCloses(v.occurrence, p)
      [] v.kind = "Capture" -> InRange(v.ref, p.captures)
      [] v.kind = "LiveSlot" -> InRange(v.ref, p.slots)
      [] OTHER -> TRUE
BindingsClose(bindings, p) ==
    Each(bindings, LAMBDA b : /\ ValueCloses(b.from, p) /\ ValueCloses(b.to, p)
                              /\ b.from.type = b.to.type)

PcsVerified(p) ==
    /\ p.pcs # <<>> /\ p.entry = 0
    /\ p.width = PcWidth(Len(p.pcs))
    /\ \A i \in DOMAIN p.pcs : p.pcs[i].id = i - 1
    \* Every block is listed once, by the program counter it names.
    /\ \A i \in DOMAIN p.pcs :
           /\ Increasing(p.pcs[i].blocks)
           /\ Each(p.pcs[i].blocks, LAMBDA b : At(p.blocks, b).pc = i - 1)
    /\ \A i \in DOMAIN p.blocks :
           \E pc \in Range(p.pcs) : i - 1 \in Range(pc.blocks)
CapturesVerified(p) == \A i \in DOMAIN p.captures : p.captures[i].id = i - 1
SlotsVerified(p, set) ==
    \A i \in DOMAIN p.slots :
        LET s == p.slots[i] IN
        /\ s.id = i - 1
        /\ s.wrap # None => /\ At(set.callees, s.wrap).role = "ScalarWrap"
                            /\ At(set.callees, s.unwrap).role = "ScalarUnwrap"
        /\ (s.type \in ScalarTypes) = (s.wrap # None)
        /\ Each(s.members, LAMBDA v : ValueCloses(v, p))

ActionCost(a) == IF a.emission = "ForwardOnly" THEN 0 ELSE 1
RoleEmission(role) ==
    CASE role \in RolesUpTo("TraceDecode") -> "Inline"
      [] role = "ScalarWrap" -> "Wrap"
      [] role = "ScalarUnwrap" -> "Unwrap"
      [] OTHER -> "Invoke"
EmissionVerified(a, set) ==
    /\ a.callee # None =>
           LET role == At(set.callees, a.callee).role IN
           /\ role \notin {WakeRole(k) : k \in {"Condition", "Resource",
                                                "EventQueue", "NextDelta"}}
           /\ a.emission = RoleEmission(role)
    /\ (a.kind = "ScalarWrap") = (a.emission = "Wrap")
    /\ (a.kind = "ScalarUnwrap") = (a.emission = "Unwrap")
    /\ a.kind = "ForInitialize" => a.emission = "ForwardOnly"
\* The condition and the increment of a loop are fixed scalar operations.
IsIndex(v) == v.type = "index"
ConditionOp == [name |-> "arith.cmpi", properties |-> "{}",
                attributes |-> <<<<"predicate", "2 : i64">>>>]
IncrementOp == [name |-> "arith.addi", properties |-> "{}", attributes |-> <<>>]
LoopActionVerifiedCondition(a) ==
    a.kind = "ForCondition" => a.emission = "CopyScalar" /\ a.scalar = <<ConditionOp>>
LoopActionVerified(a) ==
    /\ a.kind = "ForCondition" =>
           /\ a.emission = "CopyScalar" /\ a.scalar = <<ConditionOp>>
           /\ Len(a.operands) = 2 /\ Each(a.operands, IsIndex)
           /\ Len(a.results) = 1 /\ a.results[1].type = "i1"
    /\ a.kind = "ForIncrement" =>
           LET carried == Len(a.results) - 1 IN
           /\ a.emission = "CopyScalar" /\ a.scalar = <<IncrementOp>>
           /\ Len(a.operands) = 2 * Len(a.results) /\ a.results # <<>>
           /\ IsIndex(a.operands[1]) /\ IsIndex(a.operands[2])
           /\ IsIndex(a.results[1])
           /\ \A i \in 1 .. carried :
                  /\ a.operands[2 + i].type = a.results[1 + i].type
                  /\ a.operands[2 + carried + i].type = a.results[1 + i].type
\* The occurrence an action of each kind must carry.
OccurrenceVerified(a, p) ==
    LET o == a.occurrence
        Phase == [ForInitialize |-> "Initialize", ForCondition |-> "Condition",
                  ForIncrement |-> "Increment"]
        Way == [ScalarWrap |-> "Wrap", ScalarUnwrap |-> "Unwrap"] IN
    CASE a.kind = "Original" -> o.kind = "Original"
      [] a.kind = "Constant" -> o.kind = "Constant"
      [] a.kind \in LoopKinds -> o.kind = "Loop" /\ o.phase = Phase[a.kind]
      [] OTHER ->
             /\ o.kind = "Wrapper" /\ o.direction = Way[a.kind]
             /\ LET slot == At(p.slots, o.slot) IN
                a.callee = IF a.kind = "ScalarWrap" THEN slot.wrap ELSE slot.unwrap
             /\ a.callee # None
             /\ Len(a.operands) = 1 /\ Len(a.results) = 1
ActionsVerified(b, p, set) ==
    \A i \in DOMAIN b.actions :
        LET a == b.actions[i] IN
        /\ a.id = i - 1
        /\ a.cost = ActionCost(a)
        /\ EmissionVerified(a, set)
        /\ LoopActionVerified(a)
        /\ OccurrenceVerified(a, p)
        /\ a.resultTypes = [j \in DOMAIN a.results |-> a.results[j].type]
        /\ Each(a.operands \o a.results, LAMBDA v : ValueCloses(v, p))

FramePhases ==
    [Entry |-> {"Entry"}, ScfIf |-> {"Then", "Else", "Merge"},
     ScfFor |-> {"Header", "Body", "Exit"},
     ScfWhile |-> {"Before", "After", "Exit"}]
SlotsOf(items) == [i \in DOMAIN items |-> items[i].slot]
\* The work of one block: its loads, its actions, and the stores, wake and
\* suspend of a suspension or the one branch that ends it otherwise.
BlockCost(b, p) ==
    Len(b.loads)
    + FoldSeq(LAMBDA a, n : n + ActionCost(a), 0, b.actions)
    + IF b.edge.kind = "Suspend"
      THEN Len(At(p.transitions, b.edge.transition).stores) + 2
      ELSE 1
BlocksVerified(p, set) ==
    \A i \in DOMAIN p.blocks :
        LET b == p.blocks[i] IN
        /\ b.id = i - 1
        /\ b.path = <<p.key, b.pc, i - 1>>
        /\ ActionsVerified(b, p, set)
        /\ Each(b.frames, LAMBDA f : /\ f.phase \in FramePhases[f.kind]
                                     /\ BindingsClose(f.bindings, p))
        /\ Each(b.edge.condition, LAMBDA v : ValueCloses(v, p))
        /\ BindingsClose(b.edge.trueBindings \o b.edge.falseBindings
                             \o b.edge.bindings, p)
        /\ Each(b.loads, LAMBDA l : Each(l.replacements,
                                         LAMBDA v : ValueCloses(v, p)))
        /\ Increasing(SlotsOf(b.loads))
        /\ b.cost = BlockCost(b, p)

WakesVerified(p, set) ==
    \A i \in DOMAIN p.wakes :
        LET w == p.wakes[i]
            callee == At(set.callees, w.callee) IN
        /\ w.id = i - 1
        /\ w.key = WakeKey(w.kind)
        /\ OccurrenceCloses(w.occurrence, p)
        /\ Each(w.sources, LAMBDA s : s.capture # None =>
                                          InRange(s.capture, p.captures))
        /\ (w.trigger # "") = (w.kind = "Condition")
        /\ (w.declaration # "") = (w.kind \in QueueWakes \cup {"Resource"})
        /\ (w.target # "") = (w.kind # "NextDelta")
        /\ callee.role = WakeRole(w.kind)
        /\ callee.inputs = WakeInputs(w.kind)
        /\ callee.results = <<w.key>>

\* Some action of the process wraps or unwraps the slot for the transition.
Wrapped(p, t, slot, kind) ==
    \E b \in Range(p.blocks) : \E a \in Range(b.actions) :
        /\ a.kind = kind
        /\ a.occurrence.transition = t /\ a.occurrence.slot = slot
TransitionsVerified(p) ==
    \A i \in DOMAIN p.transitions :
        LET t == p.transitions[i] IN
        /\ t.id = i - 1
        /\ Each(t.stores, LAMBDA s :
                   /\ ValueCloses(s.source, p)
                   /\ At(p.slots, s.slot).wrap # None =>
                          Wrapped(p, i - 1, s.slot, "ScalarWrap"))
        /\ Each(t.loads, LAMBDA l :
                   /\ Each(l.replacements, LAMBDA v : ValueCloses(v, p))
                   /\ At(p.slots, l.slot).unwrap # None =>
                          Wrapped(p, i - 1, l.slot, "ScalarUnwrap"))
        /\ Increasing(SlotsOf(t.stores)) /\ Increasing(SlotsOf(t.loads))

\* The blocks of one program counter in topological order: each round takes
\* the blocks whose predecessors are done, with the longest cost to them.
RECURSIVE LongestPaths(_, _, _)
LongestPaths(p, blocks, distance) ==
    LET ready == {b \in blocks \ DOMAIN distance :
                      \A x \in blocks : b \in Successors(At(p.blocks, x).edge)
                                            => x \in DOMAIN distance}
        Reach(b) == {distance[x] : x \in {y \in DOMAIN distance :
                         /\ b \in Successors(At(p.blocks, y).edge)
                         /\ distance[y] # None}}
        Longest(b) == IF Reach(b) = {} THEN None
                      ELSE Max(Reach(b)) + At(p.blocks, b).cost
    IN  IF ready = {} THEN distance
        ELSE LongestPaths(p, blocks,
                          [b \in ready |-> Longest(b)] @@ distance)
PcDistances(p, pc) ==
    LET blocks == Range(pc.blocks)
        first == Head(pc.blocks)
        entered == \E x \in blocks : first \in Successors(At(p.blocks, x).edge)
    IN  IF entered THEN [b \in {} |-> 0]
        ELSE LongestPaths(p, blocks, first :> At(p.blocks, first).cost)
LocalGraph(p, pc) ==
    /\ pc.blocks # <<>>
    /\ pc.entryPath = At(p.blocks, Head(pc.blocks)).path
    /\ \A b \in Range(pc.blocks) : \A x \in Successors(At(p.blocks, b).edge) :
           At(p.blocks, x).pc = pc.id
    /\ \/ p.loops
       \/ LET d == PcDistances(p, pc) IN
          /\ DOMAIN d = Range(pc.blocks)
          /\ \A b \in DOMAIN d : d[b] # None
PcWork(p, pc) == LET d == PcDistances(p, pc) IN Max({d[b] : b \in DOMAIN d})
FairnessVerifiedStored(p) == p.fairness \in 1 .. MaxFairness
\* A plan with bounded local loops is believed about its work.
FairnessVerified(p) ==
    /\ Each(p.pcs, LAMBDA pc : LocalGraph(p, pc))
    /\ p.fairness = IF p.loops THEN p.fairness
                    ELSE Max({PcWork(p, pc) : pc \in Range(p.pcs)})
    /\ p.fairness \in 1 .. MaxFairness

ProcessVerified(p, set) ==
    /\ p.key = p.process
    /\ PcsVerified(p)
    /\ CapturesVerified(p)
    /\ SlotsVerified(p, set)
    /\ BlocksVerified(p, set)
    /\ WakesVerified(p, set)
    /\ TransitionsVerified(p)
    /\ FairnessVerified(p)

(***************************************************************************)
(* verifyProcessStatePlan, the set.                                        *)
(***************************************************************************)
CalleesVerified(set) ==
    \A i \in DOMAIN set.callees :
        LET c == set.callees[i]
            sig == Signature(c.role, c.detail) IN
        /\ c.id = i - 1
        /\ i > 1 => SpecRank(set.callees[i - 1].spec) < SpecRank(c.spec)
        /\ c.effect = RoleEffect(c.role)
        /\ Fits(c.inputs, sig.inputs) /\ Fits(c.results, sig.results)
        /\ c.kind = "implementation"
        /\ Each(c.inputs \o c.results, ValidTypeKey)
        /\ Increasing(c.paths) /\ Cardinality(c.sources) = Len(c.paths)
        /\ OwnsDeclaration(c.role) = (c.decls # {})
        /\ c.role = "QueueTryTransfer" =>
               /\ \A op \in c.sources : op.op = "transfer" /\ op.decls \subseteq c.decls
               /\ \A d \in c.decls : d[2] = c.detail.type
        /\ c.spec = Specialization(c) /\ c.print = c.spec
ValueTypesVerified(set) ==
    \A i \in DOMAIN set.types :
        LET t == set.types[i] IN
        /\ t.id = i - 1
        /\ i > 1 => TypeIndex(set.types[i - 1].type) < TypeIndex(t.type)
        /\ t.spec = <<t.kind, t.type>> /\ t.print = t.spec
        /\ t.cpp = IF t.kind = "value" THEN "scalar" ELSE "generated"
        /\ Each(t.members, LAMBDA m : /\ m.offset + m.width <= t.width
                                      /\ ValidTypeKey(m.key))
KeysClose(set) ==
    \A c \in Range(set.callees) : \A key \in Range(c.inputs \o c.results) :
        key[1] = "storage" => \E t \in Range(set.types) : key[2] = t.type
Total(set, Count(_)) == FoldSeq(LAMBDA p, n : n + Count(p), 0, set.processes)

KeysOrderedDistinct(set) ==
    \A i, j \in DOMAIN set.processes :
        set.processes[i].key = set.processes[j].key => i = j
KeysOrdered(set) == Increasing([i \in DOMAIN set.processes |-> set.processes[i].key])
SetVerified(set) ==
    /\ Len(set.processes) <= MaxProcesses
    /\ Len(set.callees) <= MaxCallees
    /\ KeysOrdered(set)
    /\ Each(set.processes, LAMBDA p : ProcessVerified(p, set))
    /\ Total(set, LAMBDA p : Len(p.pcs)) <= MaxPcs
    /\ Total(set, LAMBDA p : Len(p.slots)) <= MaxSlots
    /\ Total(set, LAMBDA p : Len(p.wakes)) <= MaxWakes
    /\ Total(set, LAMBDA p : Len(p.transitions)) <= MaxTransitions
    /\ Total(set, LAMBDA p :
                 FoldSeq(LAMBDA b, n : n + Len(b.actions), 0, p.blocks))
           <= MaxActions
    /\ CalleesVerified(set)
    /\ ValueTypesVerified(set)
    /\ KeysClose(set)
verifyProcessStatePlan(set) == Structure(set) /\ SetVerified(set)
(***************************************************************************)
(* The two fixtures: a plan that only yields for every process, and the    *)
(* three actions of a loop in the block of such a plan.                    *)
(***************************************************************************)
Bare == [condition |-> <<>>, true |-> None, false |-> None, target |-> None,
         transition |-> None, trueBindings |-> <<>>, falseBindings |-> <<>>,
         bindings |-> <<>>]
SuspendEdge(t) == [Bare EXCEPT !.transition = t] @@ [kind |-> "Suspend"]
ContinueEdge(b) == [Bare EXCEPT !.target = b] @@ [kind |-> "LocalContinue"]
TerminateEdge == Bare @@ [kind |-> "Terminate"]
BranchEdge(v, t, f) ==
    [Bare EXCEPT !.condition = v, !.true = t, !.false = f] @@ [kind |-> "Branch"]
Occurrence(kind, op) ==
    [kind |-> kind, op |-> op, phase |-> "", direction |-> "",
     transition |-> None, slot |-> None]
Constant(type) == [kind |-> "Constant", type |-> type, arms |-> {"Constant"},
                   ref |-> None, occurrence |-> Occurrence("Original", NoOp)]
Block(key, pc, id, edge, cost) ==
    [id |-> id, pc |-> pc, path |-> <<key, pc, id>>, actions |-> <<>>,
     loads |-> <<>>, frames |-> <<>>, edge |-> edge, cost |-> cost]
Action(id, kind, emission, op) ==
    [id |-> id, kind |-> kind, emission |-> emission, source |-> op,
     occurrence |-> Occurrence("Original", op), callee |-> None,
     scalar |-> <<>>, operands |-> <<>>, results |-> <<>>,
     resultTypes |-> <<>>, cost |-> IF emission = "ForwardOnly" THEN 0 ELSE 1]
YieldWake(op) ==
    [id |-> 0, kind |-> "NextDelta", callee |-> 0, key |-> WakeKey("NextDelta"),
     op |-> op, occurrence |-> Occurrence("Original", op), sources |-> <<>>,
     trigger |-> "", declaration |-> "", target |-> ""]
YieldPlan(item) ==
    [key |-> item.key, process |-> item.process, entry |-> 0,
     pcs |-> <<[id |-> 0, entryPath |-> <<item.key, 0, 0>>, blocks |-> <<0>>]>>,
     blocks |-> <<Block(item.key, 0, 0, SuspendEdge(0), 2)>>,
     wakes |-> <<YieldWake(item.yield)>>,
     transitions |-> <<[id |-> 0, source |-> 0, target |-> 0, wake |-> 0,
                        stores |-> <<>>, loads |-> <<>>]>>,
     slots |-> <<>>, captures |-> <<>>, width |-> 1, fairness |-> 2,
     loops |-> FALSE]
\* Both fixtures want a frozen model with one yield in every process.
FixtureModel(m) ==
    m.frozen /\ m.items # <<>> /\ Each(m.items, LAMBDA i : i.yield # NoOp)
FrozenFixture(items) ==
    LET sorted == SortSeq(items, LAMBDA a, b : a.key < b.key)
        wake == Callee("WakeNextDelta", Blank, <<>>, <<WakeKey("NextDelta")>>, {})
    IN  [processes |-> [i \in DOMAIN sorted |-> YieldPlan(sorted[i])],
         callees |-> <<[wake EXCEPT !.id = 0]>>, types |-> <<>>]
LoopAction(id, kind, emission, phase, loop, scalar, operands, result) ==
    [Action(id, kind, emission, loop) EXCEPT
       !.occurrence = [Occurrence("Loop", loop) EXCEPT !.phase = phase],
       !.scalar = scalar, !.operands = operands, !.results = <<result>>,
       !.resultTypes = <<result.type>>]
LoopFixture(items) ==
    LET set == FrozenFixture(items)
        loop == items[1].loopOps[1]
        index == Constant("index")
        actions ==
            <<LoopAction(0, "ForInitialize", "ForwardOnly", "Initialize", loop,
                         <<>>, <<index>>, index),
              LoopAction(1, "ForCondition", "CopyScalar", "Condition", loop,
                         <<ConditionOp>>, <<index, index>>, Constant("i1")),
              LoopAction(2, "ForIncrement", "CopyScalar", "Increment", loop,
                         <<IncrementOp>>, <<index, index>>, index)>> IN
    [set EXCEPT !.processes[1].blocks[1].actions = actions,
                !.processes[1].blocks[1].cost = 4,
                !.processes[1].fairness = 4]

(***************************************************************************)
(* The damaged clones.  Each hook copies a plan set and spoils one place   *)
(* of its first process or first helper.                                   *)
(***************************************************************************)
Loose == 99
\* A storage type and a slot for it that knows only how to be wrapped.
SeedSlot(set) ==
    [set EXCEPT
       !.types = Append(@, [ValueType("i32") EXCEPT !.id = 0, !.cpp = "generated"]),
       !.processes[1].slots =
           Append(@, [id |-> 0, type |-> "i32", storage |-> 0, wrap |-> 0,
                      unwrap |-> None, members |-> <<>>])]
SeedType(set) == [SeedSlot(set) EXCEPT !.processes[1].slots = <<>>]
StrayAction(set, kind, occurrence, op) ==
    [set EXCEPT !.processes[1].blocks[1].actions =
         Append(@, [Action(0, kind, "ForwardOnly", op) EXCEPT
                      !.occurrence = occurrence])]
LongLocalChain(set) ==
    LET p == set.processes[1]
        Edge(i) == IF i + 1 = ChainLength THEN TerminateEdge
                   ELSE ContinueEdge(i + 1)
        chain == [i \in 1 .. ChainLength |-> Block(p.key, 0, i - 1, Edge(i - 1), 1)]
    IN  [set EXCEPT
           !.processes[1].blocks = chain,
           !.processes[1].wakes = <<>>, !.processes[1].transitions = <<>>,
           !.processes[1].pcs[1].blocks = [i \in 1 .. ChainLength |-> i - 1],
           !.processes[1].pcs[1].entryPath = chain[1].path,
           !.processes[1].fairness = ChainLength]
\* cloneWithCorruption.
Corruptions ==
    {"DuplicateOrdinal", "NonDenseOrdinal", "DanglingReference",
     "DuplicateIdentity", "UnsortedCanonicalOrder", "CostMismatch",
     "DefinitionKeyMismatch", "CalleeSpecializationMismatch",
     "ValueTypeSpecializationMismatch", "EffectMismatch",
     "IdKindMismatch", "WrongTypeKey", "InvalidFramePhase",
     "InvalidEdgeBinding", "InvalidWakeCallee"}
Corrupted(set, d) ==
    CASE d = "DuplicateOrdinal" -> [set EXCEPT !.callees = Append(@, @[1])]
      [] d = "NonDenseOrdinal" -> [set EXCEPT !.callees[1].id = 1]
      [] d = "DanglingReference" ->
             [set EXCEPT !.processes[1].transitions[1].target = Loose]
      [] d = "DuplicateIdentity" ->
             [set EXCEPT !.callees = Append(@, [@[1] EXCEPT !.id = 1])]
      [] d = "UnsortedCanonicalOrder" ->
             [set EXCEPT !.processes[1] = set.processes[2],
                         !.processes[2] = set.processes[1]]
      [] d = "CostMismatch" -> [set EXCEPT !.processes[1].blocks[1].cost = @ + 1]
      [] d = "DefinitionKeyMismatch" -> [set EXCEPT !.processes[1].key = Loose]
      [] d = "CalleeSpecializationMismatch" ->
             [set EXCEPT !.callees[1].spec.tail = 1]
      [] d = "ValueTypeSpecializationMismatch" ->
             [SeedType(set) EXCEPT !.types[1].print = <<"zero", "">>]
      [] d = "EffectMismatch" -> [set EXCEPT !.callees[1].effect = "pure"]
      [] d = "IdKindMismatch" ->
             [set EXCEPT !.processes[1].pcs[1].blocks[1] = 1]
      [] d = "WrongTypeKey" -> [set EXCEPT !.processes[1].wakes[1].key = BadKey]
      [] d = "InvalidFramePhase" ->
             [set EXCEPT !.processes[1].blocks[1].frames =
                  Append(@, [kind |-> "ScfIf", phase |-> "Entry",
                             bindings |-> <<>>])]
      [] d = "InvalidEdgeBinding" ->
             [set EXCEPT !.processes[1].blocks[1].edge = BranchEdge(<<>>, 0, 0)]
      [] d = "InvalidWakeCallee" ->
             [set EXCEPT !.processes[1].wakes[1].callee = Loose]
\* The hooks that break a variant or a reference.
Manglings ==
    {"MissingWakeCallee", "DanglingSuspendTransition",
     "UnpairedLiveSlotCallee", "MissingValueTypePayload",
     "NullEdgeStorage", "InactiveEdgeField", "DoubleValueTypePayload",
     "MissingOriginalActionSource", "UnexpectedConstantActionSource"}
Mangled(set, d) ==
    LET p == set.processes[1] IN
    CASE d = "MissingWakeCallee" ->
             [set EXCEPT !.processes[1].wakes[1].callee = None]
      [] d = "DanglingSuspendTransition" ->
             [set EXCEPT !.processes[1].blocks[1].edge.transition = Loose]
      [] d = "UnpairedLiveSlotCallee" -> SeedSlot(set)
      [] d = "MissingValueTypePayload" ->
             [SeedType(set) EXCEPT !.types[1].arms = {}]
      [] d = "NullEdgeStorage" ->
             [set EXCEPT !.processes[1].blocks[1].edge = Bare @@ [kind |-> "null"]]
      [] d = "InactiveEdgeField" ->
             [set EXCEPT !.processes[1].blocks[1].edge.target = 0]
      [] d = "DoubleValueTypePayload" ->
             [SeedType(set) EXCEPT !.types[1].arms = {"value", "packet"}]
      [] d = "MissingOriginalActionSource" ->
             StrayAction(set, "Original", p.wakes[1].occurrence, NoOp)
      [] d = "UnexpectedConstantActionSource" ->
             StrayAction(set, "Constant",
                         Occurrence("Constant", p.wakes[1].occurrence.op),
                         p.wakes[1].op)
\* The hooks that change the local graph.
Rewirings ==
    {"LongLocalChain", "LocalCycle", "UnreachableBlock"}
Rewired(set, d) ==
    LET p == set.processes[1]
        last == Len(p.blocks) IN
    CASE d = "LongLocalChain" -> LongLocalChain(set)
      [] d = "LocalCycle" ->
             [set EXCEPT !.processes[1].blocks[last].edge = ContinueEdge(0)]
      [] d = "UnreachableBlock" ->
             [set EXCEPT
                !.processes[1].blocks =
                    Append(@, [@[1] EXCEPT !.id = 1, !.path = <<p.key, 0, 1>>,
                                           !.edge = TerminateEdge, !.cost = 1]),
                !.processes[1].pcs[1].blocks = Append(@, 1)]
\* The ones that say something of a plan with local loops.
LoopRewirings == {"LongLocalChain", "LocalCycle"}
PlainDamages == Corruptions \cup Manglings \cup Rewirings
PlainDamage(set, d) ==
    CASE d \in Corruptions -> Corrupted(set, d)
      [] d \in Manglings -> Mangled(set, d)
      [] OTHER -> Rewired(set, d)

\* On action i of the loop fixture (cloneLoopActionWithMutationForTest).
LoopDamages ==
    {"WrongOwningLoopSource", "NonLoopSource", "WrongResultType",
     "InactiveCallee", "InactiveScalar", "WrongEmission", "WrongScalarName",
     "MissingScalar", "WrongScalarProperties", "WrongScalarAttributeCount",
     "WrongScalarAttributeName", "WrongScalarAttributeValue",
     "WrongOperandCount", "WrongOperandType", "WrongResultCount"}
\* An initializer carries no scalar operation, and nothing is asked of its
\* operands and results; only a condition has an attribute.
InitializeDamages == {"WrongOwningLoopSource", "NonLoopSource",
                      "InactiveCallee", "InactiveScalar", "WrongEmission"}
AttributeDamages == {"WrongScalarAttributeName", "WrongScalarAttributeValue"}
LoopDamaged(a, d, p, loops, condition) ==
    LET test == a.kind = "ForCondition" IN
    CASE d = "WrongOwningLoopSource" -> [a EXCEPT !.source = loops[2]]
      [] d = "NonLoopSource" -> [a EXCEPT !.source = p.wakes[1].op]
      [] d = "WrongResultType" ->
             [a EXCEPT !.results[1].type = IF test THEN "index" ELSE "i1"]
      [] d = "InactiveCallee" -> [a EXCEPT !.callee = 0]
      [] d = "InactiveScalar" -> [a EXCEPT !.scalar = condition]
      [] d = "WrongEmission" -> [a EXCEPT !.emission = "Inline"]
      [] d = "WrongScalarName" ->
             [a EXCEPT !.scalar[1].name =
                  IF test THEN "arith.addi" ELSE "arith.cmpi"]
      [] d = "MissingScalar" -> [a EXCEPT !.scalar = <<>>]
      [] d = "WrongScalarProperties" ->
             [a EXCEPT !.scalar[1].properties = "{unexpected = true}"]
      [] d = "WrongScalarAttributeCount" ->
             [a EXCEPT !.scalar[1].attributes =
                  IF test THEN <<>> ELSE Append(@, <<"unexpected", "true">>)]
      [] d = "WrongScalarAttributeName" ->
             [a EXCEPT !.scalar[1].attributes[1][1] = "unexpected"]
      [] d = "WrongScalarAttributeValue" ->
             [a EXCEPT !.scalar[1].attributes[1][2] = "3 : i64"]
      [] d = "WrongOperandCount" -> [a EXCEPT !.operands = Front(@)]
      [] d = "WrongOperandType" -> [a EXCEPT !.operands[1].type = "i1"]
      [] d = "WrongResultCount" -> [a EXCEPT !.results = Front(@)]
LoopDamage(set, i, d, loops) ==
    LET p == set.processes[1]
        actions == p.blocks[1].actions IN
    [set EXCEPT !.processes[1].blocks[1].actions[i] =
         LoopDamaged(actions[i], d, p, loops, actions[2].scalar)]

(***************************************************************************)
(* Planning, damage, verification, and the activations of what passed.     *)
(***************************************************************************)
Idle == [process |-> 0, pc |-> 0, block |-> None, work |-> 0]
Init ==
    /\ stage = "model" /\ model \in Models
    /\ source = "" /\ damage = "none" /\ at = Idle
    /\ plans = [processes |-> <<>>, callees |-> <<>>, types |-> <<>>]

Plan(by, set) ==
    /\ stage = "model" /\ stage' = "planned"
    /\ source' = by /\ plans' = set
    /\ UNCHANGED <<model, damage, at>>
PlanProduction ==
    Buildable(model) /\ Plan("production", Build(model.items))
PlanYieldOnly ==
    /\ FixtureModel(model) /\ Each(model.items, LAMBDA i : i.bare)
    /\ Plan("yield", FrozenFixture(model.items))
PlanLoopAction ==
    /\ FixtureModel(model) /\ Len(model.items) = 1
    /\ Len(model.items[1].loopOps) = 2
    /\ Plan("loop", LoopFixture(model.items))
GiveUp ==
    /\ stage = "model" /\ ~Buildable(model) /\ stage' = "refused"
    /\ UNCHANGED <<model, source, damage, plans, at>>

\* A second hook follows only the chain, as its callers have it.
Spoil(d, set) ==
    /\ stage = "planned" /\ damage \in {"none", "LongLocalChain"} /\ d # damage
    /\ set # plans
    /\ damage' = d /\ plans' = set
    /\ UNCHANGED <<stage, model, source, at>>
SpoilPlan ==
    \E d \in PlainDamages :
        /\ \/ source = "yield"
           \/ source = "production" /\ plans.processes[1].loops /\ d \in LoopRewirings
        /\ d = "UnsortedCanonicalOrder" => Len(plans.processes) > 1
        /\ damage = "LongLocalChain" => d \in {"LocalCycle", "UnreachableBlock"}
        /\ Spoil(d, PlainDamage(plans, d))
SpoilLoop ==
    \E i \in 1 .. 3, d \in LoopDamages :
        /\ source = "loop" /\ damage = "none"
        /\ i = 1 => d \in InitializeDamages
        /\ d \in AttributeDamages => i = 2
        /\ Spoil(d, LoopDamage(plans, i, d, model.items[1].loopOps))

Verify ==
    /\ stage = "planned"
    /\ stage' = IF verifyProcessStatePlan(plans) THEN "accepted" ELSE "refused"
    /\ UNCHANGED <<model, source, damage, plans, at>>

Running == plans.processes[at.process]
EntryBlock(p, pc) == Head(At(p.pcs, pc).blocks)
Start(i) ==
    /\ stage = "accepted" /\ at = Idle
    /\ LET p == plans.processes[i] IN
       at' = [process |-> i, pc |-> p.entry, block |-> EntryBlock(p, p.entry),
              work |-> 0]
    /\ UNCHANGED <<stage, model, source, damage, plans>>
\* An activation that goes round in a loop is followed up to MaxFairness.
RunBlock ==
    /\ at.block # None /\ at.work <= MaxFairness
    /\ LET b == At(Running.blocks, at.block)
           work == at.work + BlockCost(b, Running) IN
       at' \in CASE b.edge.kind = "Suspend" ->
                        {[at EXCEPT !.block = None, !.work = work,
                            !.pc = At(Running.transitions,
                                      b.edge.transition).target]}
                 [] b.edge.kind = "Terminate" ->
                        {[at EXCEPT !.block = None, !.work = work, !.pc = None]}
                 [] OTHER -> {[at EXCEPT !.block = next, !.work = work] :
                                  next \in Successors(b.edge)}
    /\ UNCHANGED <<stage, model, source, damage, plans>>
Resume ==
    /\ at # Idle /\ at.block = None /\ at.pc # None
    /\ at' = [at EXCEPT !.block = EntryBlock(Running, at.pc), !.work = 0]
    /\ UNCHANGED <<stage, model, source, damage, plans>>

Next ==
    \/ PlanProduction \/ PlanYieldOnly \/ PlanLoopAction \/ GiveUp
    \/ SpoilPlan \/ SpoilLoop \/ Verify
    \/ \E i \in DOMAIN plans.processes : Start(i)
    \/ RunBlock \/ Resume
AuditSpec == Init /\ [][Next]_vars

(***************************************************************************)
(* Properties.                                                             *)
(***************************************************************************)
\* lookupByDefinitionKey: a binary search for the first plan whose key is
\* not below the wanted one.
RECURSIVE LowerBound(_, _, _, _)
LowerBound(set, key, low, count) ==
    LET half == count \div 2 IN
    IF count = 0 THEN low
    ELSE IF set[low + half].key < key
         THEN LowerBound(set, key, low + half + 1, count - half - 1)
         ELSE LowerBound(set, key, low, half)
lookupByDefinitionKey(set, key) ==
    LET i == LowerBound(set, key, 1, Len(set))
    IN  IF i \in DOMAIN set /\ set[i].key = key THEN i ELSE 0

\* ProcessStatePlan.cpp:1085-1372 (the table is sorted and renumbered after
\* it is filled, then every user looks its helper up again): in the plan set
\* of a model every action, wake and slot calls the helper made for its own
\* operation, kind and type, and the order in which the processes were found
\* leaves no trace.
HelpersRight ==
    (stage = "accepted" /\ damage = "none" /\ source = "production") =>
        /\ \A p \in Range(plans.processes) :
               /\ \A b \in Range(p.blocks) : \A a \in Range(b.actions) :
                      HelperRole(a.source) # "" =>
                          LET c == At(plans.callees, a.callee) IN
                          /\ c.role = HelperRole(a.source)
                          /\ c.detail = HelperDetail(a.source)
                          /\ a.source \in c.sources
               /\ \A w \in Range(p.wakes) :
                      LET c == At(plans.callees, w.callee) IN
                      /\ c.results = <<WakeKey(w.kind)>>
                      /\ w.kind \in QueueWakes => w.op.path \in Range(c.paths)
               /\ \A s \in Range(p.slots) :
                      /\ At(plans.types, s.storage).type = s.type
                      /\ At(plans.callees, s.wrap).inputs = <<TypeKey(s.type)>>
                      /\ At(plans.callees, s.unwrap).results = <<TypeKey(s.type)>>
        /\ plans = Build(Reverse(model.items))

\* ProcessStatePlan.cpp:4502-4579: an activation of a process of an accepted
\* plan set does no more work before it suspends or ends than the fairness
\* bound the plan carries, whichever branches it takes.  A plan with bounded
\* local loops is excepted: its cycles are not looked at and the work it
\* stores is its own proof (4562-4572), where acir-process-state-plan-v0.2.md
\* :1357 says "Each PC-local graph is acyclic" and :1361 that "a graph cycle"
\* fails.
WorkBounded ==
    at.process > 0 /\ ~Running.loops => at.work <= Running.fairness

\* ProcessStateIdentity.cpp:342-354 searches the plans as a sorted array:
\* in an accepted plan set every process is found by its own name.
ProcessesFound ==
    stage = "accepted" =>
        \A i \in DOMAIN plans.processes :
            lookupByDefinitionKey(plans.processes, plans.processes[i].process) = i

\* ProcessStatePlan.cpp:3999-4818: the verifier accepts every plan set the
\* planner builds and the chain without end, and refuses every other clone; but
\* a plan with bounded local loops may be closed to an endless cycle and is
\* still accepted (4562), against acir-process-state-plan-v0.2.md:1361.
AuditDecides ==
    stage \in {"accepted", "refused"} /\ plans.processes # <<>> =>
        (stage = "accepted") <=>
            \/ damage \in {"none", "LongLocalChain"}
            \/ damage = "LocalCycle" /\ plans.processes[1].loops
=============================================================================
