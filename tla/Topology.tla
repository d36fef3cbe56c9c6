------------------------------ MODULE Topology ------------------------------
(***************************************************************************)
(* The whole-model verifier of ACIR: the elaboration of the selected        *)
(* system's module hierarchy (GraphRegion.cpp), the resolution of native    *)
(* flows, the search for zero-delay cycles and the purity check of the      *)
(* functions that processes call (ModelAnalysis.cpp).                       *)
(*                                                                          *)
(* A model m is a record                                                    *)
(*   systems  a set of [root, workload, selected]                           *)
(*   mods     module name -> [args, body, ret]: the block arguments, the    *)
(*            declarations in order and the operands of ac.return           *)
(*   externs  the names of ac.module.extern / ac.module.generated           *)
(*   funcs    function name -> [body, calls, result]: body one of "pure",   *)
(*            "effect" and "none", result what it computes                  *)
(* An SSA value is a pair <<type, number>>; only "flow" types matter.       *)
(* Every declaration has the same fields; the ones its kind lacks are       *)
(* empty.  A path or stable ID is the sequence of its segments, an array    *)
(* index being a segment of its own: the segment rules make the joined      *)
(* strings unambiguous.  Symbols are naturals, so that they are ordered.    *)
(***************************************************************************)
EXTENDS Naturals, Sequences, FiniteSets, SequencesExt, FiniteSetsExt

CONSTANTS MaxDepth,      \* maxHierarchyDepth
          MaxOwners,     \* maxHierarchyOwners
          MaxCallDepth,  \* PureCallGraphLimits::maxDepth
          MaxCallEdges   \* PureCallGraphLimits::maxEdges

IsFlow(v) == v[1] = "flow"
NoSymbol == 0

Leaves == {"queue", "event_queue", "state_array", "resource", "address_space",
           "process", "stat"}

Body(m, x) == m.mods[x].body
IsModule(m, x) == x \in DOMAIN m.mods
Selected(m) == {s \in m.systems : s.selected}
Root(m) == (CHOOSE s \in Selected(m) : TRUE).root

\* The definitions a module's children instantiate, in order.
InstantiatedDefinitions(m, x) ==
  FlattenSeq([i \in DOMAIN Body(m, x) |->
    IF Body(m, x)[i].kind \in {"instance", "array", "instances"}
    THEN [k \in DOMAIN Body(m, x)[i].defs |-> Body(m, x)[i].defs[k].def]
    ELSE << >>])

(***************************************************************************)
(* Systems and the instantiation graph.                                     *)
(***************************************************************************)

\* Each system names a module of the file, and its primary workload is a
\* process directly in that module.
SystemResolves(m, s) ==
  /\ IsModule(m, s.root)
  /\ \/ s.workload = NoSymbol
     \/ \E i \in DOMAIN Body(m, s.root) :
          LET op == Body(m, s.root)[i]
          IN  op.kind = "process" /\ op.sym = s.workload

Instantiates(m) ==
  {<<x, y>> \in (DOMAIN m.mods) \X (DOMAIN m.mods) :
     y \in Range(InstantiatedDefinitions(m, x))}

RECURSIVE ReachFrom(_, _)
ReachFrom(edges, from) ==
  LET next == from \union {e[2] : e \in {f \in edges : f[1] \in from}}
  IN  IF next = from THEN from ELSE ReachFrom(edges, next)

\* A depth-first search from every module meets an active module again
\* exactly when a module is reached from its own children.
OnCycle(edges, n) == n \in ReachFrom(edges, {e[2] : e \in {f \in edges : f[1] = n}})

VerifyFiniteInstantiationGraph(m) ==
  \A x \in DOMAIN m.mods : ~ OnCycle(Instantiates(m), x)

(***************************************************************************)
(* Bounds on the expansion, computed on definitions and not on instances.   *)
(***************************************************************************)

SatAdd(a, b, cap) == IF a >= cap \/ b >= cap \/ a > cap - b THEN cap ELSE a + b
SatMultiply(a, b, cap) ==
  IF a # 0 /\ b > cap \div a THEN cap ELSE IF a * b < cap THEN a * b ELSE cap

ArrayCount(op) == FoldLeft(LAMBDA n, extent : n * extent, 1, op.shape)
\* The cardinality saturates so that no product can wrap.
SatCount(op, cap) == FoldLeft(LAMBDA n, extent : SatMultiply(n, extent, cap), 1, op.shape)

\* The depth worklist: some chain of instantiations is deeper than the bound.
RECURSIVE DepthExceeded(_, _, _)
DepthExceeded(m, x, d) ==
  \E i \in DOMAIN Body(m, x) :
    LET op == Body(m, x)[i]
        below(def, e) == e > MaxDepth \/ (IsModule(m, def) /\ DepthExceeded(m, def, e))
    IN  \/ op.kind = "instance" /\ below(op.defs[1].def, d + 1)
        \/ /\ op.kind = "array"
           /\ \/ d + 1 > MaxDepth
              \/ SatCount(op, 1) # 0 /\ below(op.defs[1].def, d + 2)
        \/ /\ op.kind = "instances"
           /\ \/ d + 1 > MaxDepth
              \/ \E k \in DOMAIN op.defs : below(op.defs[k].def, d + 2)

\* The owners and the depth of one copy of definition x; a definition that
\* is not an ac.module has neither.
RECURSIVE Expansion(_, _)
Expansion(m, x) ==
  LET ocap == MaxOwners + 1
      dcap == MaxDepth + 1
      local(op) ==
        LET child(k) == Expansion(m, op.defs[k].def)
        IN  CASE op.kind = "instance" ->
                   [owners |-> SatAdd(1, child(1).owners, ocap),
                    depth  |-> SatAdd(1, child(1).depth, dcap)]
              [] op.kind = "array" ->
                   LET n == SatCount(op, ocap)
                   IN  [owners |-> SatAdd(1, SatMultiply(n, SatAdd(1, child(1).owners, ocap), ocap), ocap),
                        depth  |-> IF n = 0 THEN 1 ELSE SatAdd(2, child(1).depth, dcap)]
              [] op.kind = "instances" ->
                   [owners |-> FoldLeft(LAMBDA n, k : SatAdd(n, SatAdd(1, child(k).owners, ocap), ocap),
                                        1, [k \in DOMAIN op.defs |-> k]),
                    depth  |-> Max({1} \union {SatAdd(2, child(k).depth, dcap) : k \in DOMAIN op.defs})]
              [] op.kind \in Leaves -> [owners |-> 1, depth |-> 1]
              [] OTHER -> [owners |-> 0, depth |-> 0]
  IN  IF ~ IsModule(m, x) THEN [owners |-> 0, depth |-> 0]
      ELSE [owners |-> FoldLeft(LAMBDA n, op : SatAdd(n, local(op).owners, ocap), 0, Body(m, x)),
            depth  |-> Max({0} \union {local(Body(m, x)[i]).depth : i \in DOMAIN Body(m, x)})]

\* Every definition counted once, whatever its multiplicity.
RECURSIVE ExpansionOfOneElement(_, _)
ExpansionOfOneElement(m, x) ==
  IF ~ IsModule(m, x) THEN [owners |-> 0, depth |-> 0]
  ELSE LET sub(op) == IF op.defs = << >> THEN [owners |-> 0, depth |-> 0]
                      ELSE ExpansionOfOneElement(m, op.defs[1].def)
       IN  [owners |-> FoldLeft(LAMBDA n, op : n + 1 + sub(op).owners, 0, Body(m, x)),
            depth  |-> Max({0} \union {1 + sub(Body(m, x)[i]).depth : i \in DOMAIN Body(m, x)})]

WithinBoundsPerDefinition(m) ==
  LET stats == ExpansionOfOneElement(m, Root(m))
  IN  stats.depth <= MaxDepth /\ 1 + stats.owners <= MaxOwners

WithinBounds(m) ==
  LET stats == Expansion(m, Root(m))
  IN  stats.depth <= MaxDepth /\ SatAdd(1, stats.owners, MaxOwners + 1) <= MaxOwners

(***************************************************************************)
(* One cursor per trace source: the sources of a definition are merged into *)
(* its parent once per copy, and a second copy of any source is refused.    *)
(***************************************************************************)

Distinct(s) == Cardinality(Range(s)) = Len(s)

RECURSIVE TraceSources(_, _)
TraceSources(m, x) ==
  IF ~ IsModule(m, x) THEN << >>
  ELSE FlattenSeq([i \in DOMAIN Body(m, x) |->
         LET op == Body(m, x)[i]
         IN  CASE op.kind = "process" -> op.traces
               [] op.kind = "array" /\ ArrayCount(op) = 0 -> << >>
               [] op.kind \in {"instance", "array", "instances"} ->
                    FlattenSeq([k \in DOMAIN op.defs |-> TraceSources(m, op.defs[k].def)])
               [] OTHER -> << >>])

TraceArrayAccepted(m, op) == FALSE

\* mergeTraceSources refuses an array of two or more elements that open a trace.
TraceArrayRefused(m, op) ==
  /\ op.kind = "array"
  /\ SatCount(op, MaxOwners + 1) > 1
  /\ TraceSources(m, op.defs[1].def) # << >>

TraceCursorsUnique(m) ==
  \A x \in ReachFrom(Instantiates(m), {Root(m)}) :
    /\ Distinct(TraceSources(m, x))
    /\ \A i \in DOMAIN Body(m, x) : ~ TraceArrayRefused(m, Body(m, x)[i])

(***************************************************************************)
(* The elaboration: every owner with its absolute path and stable ID.       *)
(***************************************************************************)

Owner(x, i, path, id) == [decl |-> <<x, i>>, path |-> path, id |-> id]

\* The multi-dimensional index of an array element, row-major.
ElementIndex(shape, ordinal) ==
  [d \in DOMAIN shape |->
     (ordinal \div FoldLeft(LAMBDA n, extent : n * extent, 1, SubSeq(shape, d + 1, Len(shape))))
       % shape[d]]

RECURSIVE Elaborate(_, _, _, _)
Elaborate(m, x, path, id) ==
  IF ~ IsModule(m, x) THEN << >>
  ELSE FlattenSeq([i \in DOMAIN Body(m, x) |->
    LET op == Body(m, x)[i]
        p  == Append(path, op.path)
        d  == Append(id, op.id)
        element(k, ep, ed) == <<Owner(x, i, ep, ed)>> \o Elaborate(m, op.defs[k].def, ep, ed)
    IN  CASE op.kind = "instance" -> element(1, p, d)
          [] op.kind = "array" ->
               <<Owner(x, i, p, d)>> \o
               FlattenSeq([n \in 1 .. ArrayCount(op) |->
                 LET index == ElementIndex(op.shape, n - 1)
                 IN  element(1, Append(p, index), Append(d, index))])
          [] op.kind = "instances" ->
               <<Owner(x, i, p, d)>> \o
               FlattenSeq([k \in DOMAIN op.defs |->
                 element(k, Append(p, op.defs[k].path), Append(d, op.defs[k].id))])
          [] op.kind \in Leaves -> <<Owner(x, i, p, d)>>
          [] OTHER -> << >>])

Owners(m) == Elaborate(m, Root(m), <<"root">>, <<"root">>)

\* registerOwner: paths and stable IDs are unique in the elaborated hierarchy.
RegisterOwners(m) ==
  LET owners == Owners(m)
  IN  /\ Distinct(<< <<"root">> >> \o [k \in DOMAIN owners |-> owners[k].path])
      /\ Distinct(<< <<"root">> >> \o [k \in DOMAIN owners |-> owners[k].id])

\* collectElaboratedStateOwners: the owners that are not instances.
StateOwners(m) ==
  SelectSeq(Owners(m), LAMBDA o : Body(m, o.decl[1])[o.decl[2]].kind \in Leaves)

\* The first failing check, or "ok".
VerifyGraphStructure(m) ==
  CASE \E s \in m.systems : ~ SystemResolves(m, s) -> "system"
    [] m.systems # {} /\ Cardinality(Selected(m)) # 1 -> "selection"
    [] ~ VerifyFiniteInstantiationGraph(m) -> "recursion"
    [] m.systems = {} -> "ok"
    [] DepthExceeded(m, Root(m), 0) -> "depth"
    [] ~ TraceCursorsUnique(m) -> "trace"
    [] ~ WithinBounds(m) -> "bounds"
    [] ~ RegisterOwners(m) -> "owners"
    [] OTHER -> "ok"

(***************************************************************************)
(* Native flows: each export opens a net, an instance is analysed once all  *)
(* its flow operands have one, an import joins the net of its operand.      *)
(***************************************************************************)

NoNet == 0
Refused == [ok |-> FALSE, nets |-> << >>, outs |-> << >>]
Net(src) == [source |-> src, sinks |-> 0]

\* values: a function from the module's resolved flow values to net numbers.
Resolve(values, v) == IF v \in DOMAIN values THEN values[v] ELSE NoNet

RECURSIVE Analyze(_, _, _, _), SettleInstances(_, _, _, _, _)

\* The instances of a module, in the order in which they become ready.
SettleInstances(m, x, pending, values, nets) ==
  LET ready(i) == \A k \in DOMAIN Body(m, x)[i].ins :
                    IsFlow(Body(m, x)[i].ins[k]) => Body(m, x)[i].ins[k] \in DOMAIN values
  IN  IF pending = << >> THEN [ok |-> TRUE, values |-> values, nets |-> nets]
      ELSE IF \A k \in DOMAIN pending : ~ ready(pending[k])
           THEN [ok |-> FALSE, values |-> values, nets |-> nets]
      ELSE LET first == Min({k \in DOMAIN pending : ready(pending[k])})
               op    == Body(m, x)[pending[first]]
               rest  == RemoveAt(pending, first)
               child == op.defs[1].def
               flows == \E v \in Range(op.ins) \union Range(op.outs) : IsFlow(v)
           IN  IF ~ IsModule(m, child)
               THEN IF flows THEN [ok |-> FALSE, values |-> values, nets |-> nets]
                    ELSE SettleInstances(m, x, rest, values, nets)
               ELSE LET sub   == Analyze(m, child, [k \in DOMAIN op.ins |-> Resolve(values, op.ins[k])], nets)
                        bound == {k \in DOMAIN op.outs : IsFlow(op.outs[k]) /\ sub.outs[k] # NoNet}
                        more  == [v \in {op.outs[k] : k \in bound} |->
                                    sub.outs[CHOOSE k \in bound : op.outs[k] = v]]
                    IN  IF ~ sub.ok THEN [ok |-> FALSE, values |-> values, nets |-> sub.nets]
                        ELSE SettleInstances(m, x, rest, more @@ values, sub.nets)

Analyze(m, x, inputs, nets0) ==
  LET mod     == m.mods[x]
      flowArg == {k \in DOMAIN mod.args : IsFlow(mod.args[k])}
      exports == SelectSeq([i \in DOMAIN mod.body |-> i], LAMBDA i : mod.body[i].kind = "export")
      fresh   == Len(nets0)
      nets1   == nets0 \o [k \in DOMAIN exports |-> Net(<<x, exports[k]>>)]
      values1 == [v \in {mod.args[k] : k \in flowArg} |->
                    inputs[CHOOSE k \in flowArg : mod.args[k] = v]] @@
                 [v \in {mod.body[exports[k]].outs[1] : k \in DOMAIN exports} |->
                    fresh + CHOOSE k \in DOMAIN exports : mod.body[exports[k]].outs[1] = v]
      inner   == SettleInstances(m, x,
                   SelectSeq([i \in DOMAIN mod.body |-> i], LAMBDA i : mod.body[i].kind = "instance"),
                   values1, nets1)
      imports == SelectSeq([i \in DOMAIN mod.body |-> mod.body[i]], LAMBDA op : op.kind = "import")
      joined  == [n \in DOMAIN inner.nets |->
                    [inner.nets[n] EXCEPT !.sinks =
                       @ + Len(SelectSeq(imports, LAMBDA op : Resolve(inner.values, op.ins[1]) = n))]]
      outs    == [k \in DOMAIN mod.ret |-> Resolve(inner.values, mod.ret[k])]
  IN  IF \/ ~ inner.ok
         \/ \E k \in DOMAIN imports : imports[k].ins[1] \notin DOMAIN inner.values
         \/ \E k \in DOMAIN mod.ret : IsFlow(mod.ret[k]) /\ mod.ret[k] \notin DOMAIN inner.values
      THEN [Refused EXCEPT !.nets = inner.nets]
      ELSE [ok |-> TRUE, nets |-> joined, outs |-> outs]

\* Fanout is refused, a dangling export is not.
NetNotShared(net) == net.sinks <= 1
NetLinear(net) == net.sinks = 1

\* verifyFlowConnections: no flow crosses the root's boundary and every net
\* has one export, which its number shows, and one import.
VerifyFlowConnections(m) ==
  LET mod == m.mods[Root(m)]
      all == Analyze(m, Root(m), [k \in DOMAIN mod.args |-> NoNet], << >>)
  IN  \/ Selected(m) = {}
      \/ /\ \A k \in DOMAIN mod.args : ~ IsFlow(mod.args[k])
         /\ all.ok
         /\ \A k \in DOMAIN all.outs : all.outs[k] = NoNet
         /\ \A n \in DOMAIN all.nets : NetLinear(all.nets[n])

\* Each flow or endpoint value has at most one use (verifyTopologyTypeUses).
VerifyTopologyTypeUses(m) ==
  \A x \in DOMAIN m.mods :
    LET uses == FlattenSeq([i \in DOMAIN Body(m, x) |-> Body(m, x)[i].ins]) \o m.mods[x].ret
    IN  \A k, l \in DOMAIN uses : IsFlow(uses[k]) /\ uses[k] = uses[l] => k = l

(***************************************************************************)
(* Zero-delay cycles among the stateless operations of each module.  A      *)
(* state array is not among the state owners.                               *)
(***************************************************************************)

IsDirectStateOwner(op) ==
  op.kind \in {"queue", "event_queue", "resource", "address_space", "process", "stat"}

RECURSIVE HasState(_, _)
HasState(m, x) ==
  IF ~ IsModule(m, x) THEN TRUE
  ELSE \E i \in DOMAIN Body(m, x) :
         \/ IsDirectStateOwner(Body(m, x)[i])
         \/ \E k \in DOMAIN Body(m, x)[i].defs : HasState(m, Body(m, x)[i].defs[k].def)

\* Only operations without definitions are nodes.
ZeroDelayNodeLocal(m, op) == op.outs # << >> /\ op.kind = "view"

\* An instance is a node of the graph only if no state is below it.
ZeroDelayNode(m, op) ==
  /\ op.outs # << >>
  /\ ~ IsDirectStateOwner(op)
  /\ \A k \in DOMAIN op.defs : ~ HasState(m, op.defs[k].def)

ZeroDelayEdges(m, x) ==
  LET body  == Body(m, x)
      nodes == {i \in DOMAIN body : ZeroDelayNode(m, body[i])}
  IN  {<<i, j>> \in nodes \X nodes : Range(body[i].outs) \intersect Range(body[j].ins) # {}}

VerifyZeroDelayDependencies(m) ==
  \A x \in DOMAIN m.mods : \A i \in DOMAIN Body(m, x) : ~ OnCycle(ZeroDelayEdges(m, x), i)

(***************************************************************************)
(* Purity of the functions that processes call: a depth-first search with   *)
(* an explicit stack.  A function found pure is not entered again.          *)
(***************************************************************************)

Calls(m, f) == m.funcs[f].calls

\* A callee met before is taken for pure, finished or not.
RECURSIVE PureSearchOptimistic(_, _, _, _)
PureSearchOptimistic(m, stack, pure, edges) ==
  IF stack = << >> THEN [ok |-> TRUE, pure |-> pure, edges |-> edges]
  ELSE LET top == stack[Len(stack)]
           rest == SubSeq(stack, 1, Len(stack) - 1)
       IN  IF top.fn \in pure THEN PureSearchOptimistic(m, rest, pure, edges)
           ELSE PureSearchOptimistic(m,
                  rest \o [k \in DOMAIN Calls(m, top.fn) |-> [fn |-> Calls(m, top.fn)[k], next |-> 1]],
                  pure \union {top.fn}, edges)

\* One frame per active function: [fn, next].
RECURSIVE PureSearch(_, _, _, _)
PureSearch(m, stack, pure, edges) ==
  IF stack = << >> THEN [ok |-> TRUE, pure |-> pure, edges |-> edges]
  ELSE LET top  == stack[Len(stack)]
           no   == [ok |-> FALSE, pure |-> pure, edges |-> edges]
       IN  IF top.next = 1 /\ (m.funcs[top.fn].body # "pure" \/ Len(stack) > MaxCallDepth)
           THEN no
           ELSE IF top.next > Len(Calls(m, top.fn))
           THEN PureSearch(m, SubSeq(stack, 1, Len(stack) - 1), pure \union {top.fn}, edges)
           ELSE LET callee == Calls(m, top.fn)[top.next]
                    popped == [stack EXCEPT ![Len(stack)].next = @ + 1]
                IN  IF edges = MaxCallEdges \/ callee \notin DOMAIN m.funcs THEN no
                    ELSE IF callee \in pure THEN PureSearch(m, popped, pure, edges + 1)
                    ELSE IF \E k \in DOMAIN stack : stack[k].fn = callee THEN no
                    ELSE PureSearch(m, Append(popped, [fn |-> callee, next |-> 1]), pure, edges + 1)

\* The functions process bodies call directly, each module's in order.
ProcessCalls(m) ==
  FlattenSeq(FlattenSeq(SetToSeq({
    [i \in DOMAIN Body(m, x) |-> Body(m, x)[i].calls] : x \in DOMAIN m.mods})))

ValidatePureProcessCallGraph(m) ==
  FoldLeft(LAMBDA acc, f :
             IF ~ acc.ok \/ f \in acc.pure THEN acc
             ELSE IF f \notin DOMAIN m.funcs THEN [acc EXCEPT !.ok = FALSE]
             ELSE PureSearch(m, <<[fn |-> f, next |-> 1]>>, acc.pure, acc.edges),
           [ok |-> TRUE, pure |-> {}, edges |-> 0], ProcessCalls(m))

FirstFailure(verdict, otherwise) == IF verdict # "ok" THEN verdict ELSE otherwise

(***************************************************************************)
(* ModelAnalysis::verify, up to the freeze evidence.                        *)
(***************************************************************************)
Verify(m) ==
  FirstFailure(VerifyGraphStructure(m),
    CASE ~ ValidatePureProcessCallGraph(m).ok -> "calls"
      [] ~ VerifyFlowConnections(m) -> "flow"
      [] ~ VerifyTopologyTypeUses(m) -> "uses"
      [] ~ VerifyZeroDelayDependencies(m) -> "zero_delay"
      [] OTHER -> "ok")

\* verifyFreezeContracts: each require or ensure of a module is a constant
\* that holds.
VerifyFreezeContracts(m) ==
  \A x \in DOMAIN m.mods : \A i \in DOMAIN Body(m, x) :
    Body(m, x)[i].kind = "contract" => Body(m, x)[i].cond = "true"
=============================================================================
