---------------------------- MODULE RuntimeGraph ----------------------------
(***************************************************************************)
(* From a frozen design to the runtime graph of a simulator: the lowering  *)
(* expands the hierarchy into runtime objects and emits, beside the module *)
(* bodies, one dispatch row per object and the static activation edges     *)
(* (ACIRToACSim.cpp); the ACSim verifier derives the same rows and edges   *)
(* again by following values through the module bodies (ACSimOps.cpp).     *)
(* An accepted file is the activation plan of the simulator and bounds     *)
(* what a process may execute in one activation.                           *)
(*                                                                         *)
(* A path is a sequence of <<name, indices>>, one for each owner from the  *)
(* root.  A design maps module names to                                    *)
(*   [places, procs, ports]   placements and processes in name order;      *)
(* a place is [kind, name, target, shape, ins, outs, aliases], an endpoint *)
(* [value, acc, flow].  A file has the bodies as sequences of operations   *)
(* and refers to their results by their id.                                *)
(***************************************************************************)
EXTENDS Integers, Sequences, FiniteSets, SequencesExt

CONSTANTS Designs,       \* frozen designs
          ReadFiles,     \* ACSim files that do not come from the lowering
          MaxObjects,    \* kMaxExpandedRows, maxExpandedObjects
          MaxNodes,      \* maxDependencyNodes
          MaxWork        \* bound on what a process is followed for

VARIABLES stage, design, file, run

graphVars == <<stage, design, file, run>>

NoDesign == [root |-> "", mods |-> << >>]
NoFile == [root |-> ""]
Idle == [process |-> << >>, pc |-> 0, block |-> 0, spent |-> 0]

Single == << >>          \* the shape and the indices of what is no array

-----------------------------------------------------------------------------
(* Arrays *)

ArrayVolume(shape) == FoldSeq(LAMBDA extent, n : extent * n, 1, shape)
Stride(shape, d) == ArrayVolume(SubSeq(shape, d + 1, Len(shape)))

LexicographicIndices(shape, ordinal) ==
    [d \in DOMAIN shape |-> (ordinal \div Stride(shape, d)) % shape[d]]

\* Mutant of ElementOrdinal: the first index runs fastest.
ElementOrdinalReversed(indices, shape) ==
    FoldLeft(LAMBDA n, d : n * shape[d] + indices[d], 0,
             Reverse([d \in DOMAIN shape |-> d]))
ElementOrdinal(indices, shape) ==
    FoldLeft(LAMBDA n, d : n * shape[d] + indices[d], 0, [d \in DOMAIN shape |-> d])

-----------------------------------------------------------------------------
(* Planning of a module: which placement feeds which, and through what. *)

\* Queues, state arrays and event queues are objects of the runtime library.
IsObject(place) == place.kind \in {"queue", "event", "link"}
IsRuntime(place) == IsObject(place) \/ place.kind \in {"binding", "process"}

Aliases(m) == UNION {m.places[i].aliases : i \in DOMAIN m.places}

RECURSIVE ResolveFlowAlias(_, _, _)
ResolveFlowAlias(m, value, step) ==
    CASE step > Len(m.places) -> ""
      [] \A a \in Aliases(m) : a[1] # value -> value
      [] OTHER -> ResolveFlowAlias(m, (CHOOSE a \in Aliases(m) : a[1] = value)[2], step + 1)

\* The inputs of a module's placements, in the order in which they are bound.
Inputs(m) == FlattenSeq([i \in DOMAIN m.places |->
                            [k \in DOMAIN m.places[i].ins |-> <<i, k>>]])
Input(m, at) == m.places[at[1]].ins[at[2]]

Producers(m, value) ==
    {i \in DOMAIN m.places :
        \E k \in DOMAIN m.places[i].outs : m.places[i].outs[k].value = value}
Producer(m, value) == CHOOSE i \in Producers(m, value) : TRUE
Output(m, value) ==
    CHOOSE e \in UNION {ToSet(m.places[i].outs) : i \in DOMAIN m.places} : e.value = value

\* The queues behind a flow port of a child module.
BoundaryQueues(d, place, acc, out) ==
    IF place.kind # "module" THEN {}
    ELSE {p.queue : p \in {q \in ToSet(d.mods[place.target].ports) :
                              q.out = out /\ q.acc = acc}}
Below(queues) == IF queues = {} THEN << >> ELSE <<<<CHOOSE q \in queues : TRUE, Single>>>>

InputPlanned(d, m, at) ==
    /\ ResolveFlowAlias(m, Input(m, at).value, 0) # ""
    /\ Producers(m, ResolveFlowAlias(m, Input(m, at).value, 0)) # {}
    /\ Input(m, at).flow =>
         \A source \in {Output(m, ResolveFlowAlias(m, Input(m, at).value, 0))} :
         \A from \in {m.places[Producer(m, source.value)]}, to \in {m.places[at[1]]} :
           /\ IsObject(from) \/ BoundaryQueues(d, from, source.acc, TRUE) # {}
           /\ IsObject(to) \/ BoundaryQueues(d, to, Input(m, at).acc, FALSE) # {}

ProcessPlanned(m, p) ==
    /\ \A k \in DOMAIN p.captures : Producers(m, p.captures[k]) # {}
    /\ \A q \in p.uses : \E i \in DOMAIN m.places : IsObject(m.places[i]) /\ m.places[i].name = q

\* A flow is carried by a link named after the number of edges before it.
LinkName(n) == "zz_flow_link_" \o ToString(n)

Links(m) ==
    LET flows == SelectSeq([n \in DOMAIN Inputs(m) |-> n],
                           LAMBDA n : Input(m, Inputs(m)[n]).flow)
    IN  [k \in DOMAIN flows |-> [kind |-> "link", name |-> LinkName(flows[k] - 1),
                                 target |-> "QueueLink", shape |-> Single]]

InputEdge(d, m, n, at, source) ==
    [from |-> m.places[Producer(m, source.value)], to |-> m.places[at[1]],
     flow |-> Input(m, at).flow, link |-> LinkName(n - 1),
     fromChild |-> Below(BoundaryQueues(d, m.places[Producer(m, source.value)], source.acc, TRUE)),
     toChild |-> Below(BoundaryQueues(d, m.places[at[1]], Input(m, at).acc, FALSE))]

InputEdges(d, m) ==
    {InputEdge(d, m, n, Inputs(m)[n],
               Output(m, ResolveFlowAlias(m, Input(m, Inputs(m)[n]).value, 0))) :
        n \in DOMAIN Inputs(m)}

\* Mutant of Activators: a producer is woken by the events it schedules.
ActivatorsAll(m, p) ==
    {m.places[Producer(m, p.captures[k])].name : k \in DOMAIN p.captures} \cup p.uses
\* A process is activated by what it captures and by the queues it uses, but
\* by an event queue only if it receives from it.
Activators(m, p) ==
    {m.places[Producer(m, p.captures[k])].name : k \in DOMAIN p.captures}
    \cup {q \in p.uses : q \in p.polls
            \/ \E i \in DOMAIN m.places : m.places[i].name = q /\ m.places[i].kind # "event"}

Placements(m) ==
    m.places \o Links(m)
    \o [k \in DOMAIN m.procs |-> [kind |-> "process", name |-> m.procs[k].name,
                                  target |-> "", shape |-> Single]]

-----------------------------------------------------------------------------
(* Expansion of the planned hierarchy. *)

RECURSIVE InstantiatesItself(_, _, _)
InstantiatesItself(d, name, active) ==
    \/ name \in active
    \/ \E i \in DOMAIN d.mods[name].places :
          \A place \in {d.mods[name].places[i]} :
            /\ place.kind = "module" /\ ArrayVolume(place.shape) > 0
            /\ InstantiatesItself(d, place.target, active \cup {name})

RECURSIVE ExpandModule(_, _, _)
ExpandPlace(d, name, path, place) ==
    FlattenSeq([n \in 1..ArrayVolume(place.shape) |->
        LET here == Append(path, <<place.name, LexicographicIndices(place.shape, n - 1)>>)
        IN  <<[mod |-> name, place |-> place, context |-> path, path |-> here]>>
            \o (IF place.kind = "module" THEN ExpandModule(d, place.target, here) ELSE << >>)])
ExpandModule(d, name, path) ==
    FlattenSeq([i \in DOMAIN Placements(d.mods[name]) |->
        ExpandPlace(d, name, path, Placements(d.mods[name])[i])])

RootPath(d) == <<<<d.root, Single>>>>
PlannedRows(owners) == SelectSeq(owners, LAMBDA r : IsRuntime(r.place))

-----------------------------------------------------------------------------
(* Emission *)

Thunks(mod, kind, name, target) ==
    CASE kind = "process" -> <<"generated", mod, name>>
      [] kind = "binding" -> <<"binding", target>>
      [] kind = "link" -> <<"gfsim::QueueLinkRuntime">>
      [] OTHER -> <<"gfsim::QueueRuntime">>

Dispatch(id, row) ==
    [id |-> id, activation |-> id, path |-> row.path, target |-> <<row.mod, row.place.name>>,
     thunks |-> Thunks(row.mod, row.place.kind, row.place.name, row.place.target)]

\* The edges of one planned flow: link and end queues activate each other.
FlowEdges(rows, mod, edge) ==
    UNION {UNION {{<<s, l>>, <<t, l>>, <<l, s>>, <<l, t>>} :
        s \in {i \in DOMAIN rows : rows[i].path =
                 (Append(rows[l].context, <<edge.from.name, Single>>) \o edge.fromChild)},
        t \in {i \in DOMAIN rows : rows[i].path =
                 (Append(rows[l].context, <<edge.to.name, Single>>) \o edge.toChild)}} :
      l \in {i \in DOMAIN rows : rows[i].mod = mod /\ rows[i].place.name = edge.link}}

PlaceEdges(rows, mod, from, to) ==
    {<<s, t>> \in (DOMAIN rows) \X (DOMAIN rows) :
        /\ rows[s].mod = mod /\ rows[s].place.name = from
        /\ rows[t].mod = mod /\ rows[t].place.name = to
        /\ rows[s].context = rows[t].context}

ActivationEdges(d, rows) ==
    {<<i, i>> : i \in {j \in DOMAIN rows : rows[j].place.kind # "event"}}
    \cup UNION {UNION {IF e.flow THEN FlowEdges(rows, mod, e)
                       ELSE PlaceEdges(rows, mod, e.from.name, e.to.name) :
                           e \in InputEdges(d, d.mods[mod])} : mod \in DOMAIN d.mods}
    \cup UNION {UNION {UNION {PlaceEdges(rows, mod, q, p.name) :
                           q \in Activators(d.mods[mod], p)} :
                    p \in ToSet(d.mods[mod].procs)} : mod \in DOMAIN d.mods}

EdgeLess(a, b) == a[1] < b[1] \/ (a[1] = b[1] /\ a[2] < b[2])
Ascending(edges) ==
    [k \in 1..Cardinality(edges) |->
        CHOOSE e \in edges : Cardinality({x \in edges : EdgeLess(x, e)}) = k - 1]

Boundary(m, value) == {p \in ToSet(m.ports) : p.source = value}
OutputId(m, value) ==
    CHOOSE id \in {<<"out", m.places[i].name, m.places[i].outs[k].acc>> : i \in {Producer(m, value)},
                   k \in DOMAIN m.places[Producer(m, value)].outs} :
        \E k \in DOMAIN m.places[Producer(m, value)].outs :
            /\ m.places[Producer(m, value)].outs[k].value = value
            /\ id[3] = m.places[Producer(m, value)].outs[k].acc
EmittedValue(m, value) ==
    IF Boundary(m, value) # {}
    THEN <<"boundary", (CHOOSE p \in Boundary(m, value) : TRUE).name>>
    ELSE OutputId(m, value)

EmitOwners(m) ==
    LET owned == m.places \o Links(m)
    IN  [i \in DOMAIN owned |-> [op |-> "own", id |-> <<"own", owned[i].name>>,
            name |-> owned[i].name, kind |-> owned[i].kind, target |-> owned[i].target,
            shape |-> owned[i].shape]]

Projection(id, owner, acc) ==
    [op |-> "port", id |-> id, base |-> <<"own", owner>>, acc |-> acc]
EmitPorts(m) ==
    FlattenSeq([i \in DOMAIN m.places |->
        [k \in DOMAIN m.places[i].outs |->
            Projection(<<"out", m.places[i].name, m.places[i].outs[k].acc>>,
                       m.places[i].name, m.places[i].outs[k].acc)]
        \o [k \in DOMAIN m.places[i].ins |->
            Projection(<<"in", m.places[i].name, m.places[i].ins[k].acc>>,
                       m.places[i].name, m.places[i].ins[k].acc)]])
    \o [k \in DOMAIN m.ports |->
            Projection(<<"boundary", m.ports[k].name>>, m.ports[k].queue, "local")]

EmitBinds(m) ==
    [n \in DOMAIN Inputs(m) |->
        [op |-> "bind", id |-> <<"bind", ToString(n)>>,
         source |-> EmittedValue(m, ResolveFlowAlias(m, Input(m, Inputs(m)[n]).value, 0)),
         target |-> <<"in", m.places[Inputs(m)[n][1]].name, Input(m, Inputs(m)[n]).acc>>,
         flow |-> Input(m, Inputs(m)[n]).flow]]

EmitExports(m) ==
    [k \in DOMAIN m.ports |-> [op |-> "export", id |-> <<"export", m.ports[k].name>>,
        value |-> <<"boundary", m.ports[k].name>>]]

\* Captured values and queues become captures; every use of a queue becomes
\* a call on it.
EmitProcess(m, p) ==
    LET queues == SetToSeq(p.uses)
        captures == [k \in DOMAIN p.captures |-> EmittedValue(m, p.captures[k])]
                    \o [k \in DOMAIN queues |-> <<"own", queues[k]>>]
    IN  [op |-> "process", id |-> <<"process", p.name>>, name |-> p.name, kind |-> "process",
         target |-> "", shape |-> Single, captures |-> captures,
         calls |-> [k \in DOMAIN queues |->
             [schedule |-> queues[k] \in (p.schedules \ p.polls),
              args |-> <<<<"arg", p.name, 1, 1, Len(p.captures) + k>>>>]],
         pcs |-> p.pcs, states |-> p.states, cap |-> p.cap, back |-> p.back]

EmitModuleBody(m) ==
    EmitOwners(m) \o EmitPorts(m) \o EmitBinds(m) \o EmitExports(m)
    \o [k \in DOMAIN m.procs |-> EmitProcess(m, m.procs[k])]

EmitFile(d, owners, rows) ==
    [root |-> d.root,
     bodies |-> [name \in DOMAIN d.mods |-> EmitModuleBody(d.mods[name])],
     interface |-> [name \in DOMAIN d.mods |-> [k \in DOMAIN d.mods[name].ports |->
                        <<"ports", d.mods[name].ports[k].acc>>]],
     construction |-> [i \in DOMAIN owners |-> owners[i].path],
     destruction |-> Reverse([i \in DOMAIN owners |-> owners[i].path]),
     dispatch |-> [i \in DOMAIN rows |-> Dispatch(i, rows[i])],
     edges |-> Ascending(ActivationEdges(d, rows))]

\* What the lowering refuses.
Plannable(d) ==
    \A name \in DOMAIN d.mods :
        /\ \A n \in DOMAIN Inputs(d.mods[name]) :
              InputPlanned(d, d.mods[name], Inputs(d.mods[name])[n])
        /\ \A p \in ToSet(d.mods[name].procs) : ProcessPlanned(d.mods[name], p)

Lowered(d, owners) ==
    IF Len(owners) > MaxObjects THEN NoFile ELSE EmitFile(d, owners, PlannedRows(owners))
Lower ==
    /\ stage = "design"
    /\ file' = IF Plannable(design) /\ ~ InstantiatesItself(design, design.root, {})
               THEN Lowered(design, ExpandModule(design, design.root, RootPath(design)))
               ELSE NoFile
    /\ stage' = IF file' = NoFile THEN "not lowered" ELSE "lowered"
    /\ UNCHANGED <<design, run>>

-----------------------------------------------------------------------------
(* The verifier: expansion of the bodies, in ownership preorder. *)

Operation(f, mod, id) ==
    f.bodies[mod][CHOOSE i \in DOMAIN f.bodies[mod] : f.bodies[mod][i].id = id]
Owned(f, mod) == SelectSeq(f.bodies[mod], LAMBDA o : o.op \in {"own", "process"})

RECURSIVE ContainsItself(_, _, _)
ContainsItself(f, mod, active) ==
    \/ mod \in active
    \/ \E o \in ToSet(Owned(f, mod)) :
          /\ o.kind = "module" /\ ArrayVolume(o.shape) > 0
          /\ ContainsItself(f, o.target, active \cup {mod})

RECURSIVE ExpandOwners(_, _, _)
ExpandOperation(f, mod, path, o) ==
    FlattenSeq([n \in 1..ArrayVolume(o.shape) |->
        LET here == Append(path, <<o.name, LexicographicIndices(o.shape, n - 1)>>)
        IN  <<[mod |-> mod, op |-> o, context |-> path, path |-> here]>>
            \o (IF o.kind = "module" THEN ExpandOwners(f, o.target, here) ELSE << >>)])
ExpandOwners(f, mod, path) ==
    FlattenSeq([i \in DOMAIN Owned(f, mod) |-> ExpandOperation(f, mod, path, Owned(f, mod)[i])])

\* The root is called what the construction order calls it.
FileRoot(f) ==
    IF f.construction = << >> THEN <<<<f.root, Single>>>> ELSE <<f.construction[1][1]>>

OwnersVerified(owners) ==
    /\ Len(owners) <= MaxObjects
    /\ \A i, j \in DOMAIN owners : owners[i].path = owners[j].path => i = j
    /\ \A i \in DOMAIN owners : owners[i].op.kind \notin {"pure", "packet"}

ExpandRuntime(owners) == SelectSeq(owners, LAMBDA r : r.op.kind # "module")

\* Mutant of ConstructionOrderVerified: only what is built is compared.
ConstructionSetVerified(f, owners) ==
    /\ ToSet(f.construction) = {owners[i].path : i \in DOMAIN owners}
    /\ f.destruction = Reverse(f.construction)
ConstructionOrderVerified(f, owners) ==
    /\ f.construction = [i \in DOMAIN owners |-> owners[i].path]
    /\ f.destruction = Reverse(f.construction)

-----------------------------------------------------------------------------
(* The verifier: one process.  A state is a sequence of blocks              *)
(* [size, exit, pc, next]; next has the successors with their arguments.    *)

Pc(p, pc) == CHOOSE s \in DOMAIN p.pcs : p.pcs[s] = pc
BackEdges(p) ==
    UNION {{<<s, b, p.states[s][b].next[n].block>> :
        n \in {k \in DOMAIN p.states[s][b].next : p.states[s][b].next[k].block <= b}} :
        <<s, b>> \in UNION {{<<t, c>> : c \in DOMAIN p.states[t]} : t \in DOMAIN p.states}}

ContinuesTo(p, s) ==
    {Pc(p, block.pc) : block \in {b \in ToSet(p.states[s]) : b.exit = "continue"}}

RECURSIVE TopologicalOrder(_, _, _)
TopologicalOrder(p, left, order) ==
    LET ready == {s \in left : \A t \in left : s \notin ContinuesTo(p, t)}
    IN  IF ready = {} THEN order
        ELSE TopologicalOrder(p, left \ {Min(ready)}, Append(order, Min(ready)))

\* Mutant of BlockCost: a branch costs what its first successor costs.
RECURSIVE BlockCostFirst(_, _, _)
BlockCostFirst(p, s, b) ==
    p.states[s][b].size +
    CASE p.states[s][b].exit = "continue" ->
            Max({BlockCostFirst(p, Pc(p, p.states[s][b].pc), c) :
                     c \in DOMAIN p.states[Pc(p, p.states[s][b].pc)]})
      [] p.states[s][b].exit = "branch" /\ p.states[s][b].next[1].block > b ->
            BlockCostFirst(p, s, p.states[s][b].next[1].block)
      [] OTHER -> 0

\* The operations from a block to the end of the activation.  Back edges
\* cost nothing.
RECURSIVE BlockCost(_, _, _)
BlockCost(p, s, b) ==
    p.states[s][b].size +
    IF p.states[s][b].exit = "continue"
    THEN Max({BlockCost(p, Pc(p, p.states[s][b].pc), c) :
                  c \in DOMAIN p.states[Pc(p, p.states[s][b].pc)]})
    ELSE Max({0} \cup {BlockCost(p, s, p.states[s][b].next[n].block) :
                  n \in {k \in DOMAIN p.states[s][b].next : p.states[s][b].next[k].block > b}})

ProcessVerified(p) ==
    /\ p.cap > 0
    /\ p.pcs # << >> /\ Cardinality(ToSet(p.pcs)) = Len(p.pcs)
    /\ Len(p.states) = Len(p.pcs)
    /\ \A s \in DOMAIN p.states : p.states[s] # << >>
    /\ p.back = BackEdges(p)
    /\ \A s \in DOMAIN p.states : \A block \in ToSet(p.states[s]) :
          block.exit \in {"continue", "suspend"} => block.pc \in ToSet(p.pcs)
    /\ Len(p.pcs) + Cardinality(UNION {{s} \X ContinuesTo(p, s) : s \in DOMAIN p.states}) <= MaxNodes
    /\ Len(TopologicalOrder(p, DOMAIN p.states, << >>)) = Len(p.pcs)
    /\ \A s \in DOMAIN p.states : \A b \in DOMAIN p.states[s] : BlockCost(p, s, b) <= p.cap

ProcessesVerified(f) ==
    \A mod \in DOMAIN f.bodies : \A o \in ToSet(f.bodies[mod]) :
        o.op = "process" => ProcessVerified(o)

-----------------------------------------------------------------------------
(* The verifier: dispatch rows. *)

DispatchRowVerified(x, rows) ==
    /\ x.id \in DOMAIN rows
    /\ x = Dispatch(x.id, [mod |-> rows[x.id].mod, place |-> rows[x.id].op,
                           path |-> rows[x.id].path])

DispatchVerified(f, rows) ==
    /\ \A i \in DOMAIN f.dispatch : DispatchRowVerified(f.dispatch[i], rows)
    /\ \A i, j \in DOMAIN f.dispatch : f.dispatch[i].id = f.dispatch[j].id => i = j
    /\ Len(f.dispatch) = Len(rows)

-----------------------------------------------------------------------------
(* The verifier: the objects a value stands for.  A node is a value in one *)
(* copy of a module; the copies of a placement are known by their ordinal. *)

ObjectIds(rows, context, name) ==
    SelectSeq([i \in DOMAIN rows |-> i],
              LAMBDA i : rows[i].context = context /\ rows[i].op.name = name)
ChildContexts(owners, context, name) ==
    SelectSeq(owners, LAMBDA r : /\ r.context = context /\ r.op.name = name
                                 /\ r.op.kind = "module")

Node(mod, context, id) == [mod |-> mod, context |-> context, id |-> id]

\* The export behind an endpoint of a module: exports follow the interface,
\* ports before resources before results.
\* Mutant of EndpointExport: ports and resources are not told apart.
EndpointExportByAccessor(f, mod, field, acc) ==
    LET exports == SelectSeq(f.bodies[mod], LAMBDA o : o.op = "export")
    IN  {exports[n] : n \in {Min({k \in DOMAIN f.interface[mod] : f.interface[mod][k][2] = acc})}}
EndpointExport(f, mod, field, acc) ==
    LET exports == SelectSeq(f.bodies[mod], LAMBDA o : o.op = "export")
        matches == {k \in DOMAIN f.interface[mod] : f.interface[mod][k] = <<field, acc>>}
    IN  {exports[n] : n \in {k \in matches \cap DOMAIN exports : k = Min(matches)}}

\* The copies of a module that a base stands for, and which one is meant.
Copies(f, owners, node, base) ==
    CASE base.op = "own" -> ChildContexts(owners, node.context, base.name)
      [] base.op = "element" ->
            ChildContexts(owners, node.context, Operation(f, node.mod, base.array).name)
      [] OTHER -> << >>
Ordinal(f, mod, base) ==
    IF base.op = "element" THEN ElementOrdinal(base.indices, Operation(f, mod, base.array).shape)
    ELSE 0

\* An endpoint of a generated module is what that copy of it exports; any
\* other endpoint is its base.
EndpointOf(f, copies, ordinal, node, o) ==
    IF copies = << >> THEN {Node(node.mod, node.context, o.base)}
    ELSE UNION {{Node(copy.op.target, copy.path, e.value) :
                    e \in EndpointExport(f, copy.op.target,
                                         IF o.op = "port" THEN "ports" ELSE "resources", o.acc)} :
                  copy \in {copies[n] : n \in {ordinal + 1} \cap DOMAIN copies}}

\* A block argument is a capture in an entry block and what the branches
\* pass in any other; of two edges of one branch the first one counts.
ArgumentSources(p, s, b, k) ==
    IF b = 1 THEN {p.captures[n] : n \in {k} \cap DOMAIN p.captures}
    ELSE UNION {LET edges == {n \in DOMAIN block.next : block.next[n].block = b}
                IN  {block.next[Min(edges)].args[k] : n \in edges} : block \in ToSet(p.states[s])}

Dependencies(f, owners, node) ==
    IF node.id[1] = "arg"
    THEN {Node(node.mod, node.context, id) :
            id \in ArgumentSources(Operation(f, node.mod, <<"process", node.id[2]>>),
                                   node.id[3], node.id[4], node.id[5])}
    ELSE UNION {EndpointOf(f, Copies(f, owners, node, Operation(f, node.mod, o.base)),
                           Ordinal(f, node.mod, Operation(f, node.mod, o.base)), node, o) :
                  o \in {x \in {Operation(f, node.mod, node.id)} : x.op \in {"port", "resource"}}}

ElementId(ids, ordinal) == {ids[n] : n \in {ordinal + 1} \cap DOMAIN ids}
OwnIds(f, rows, node) ==
    IF node.id[1] = "arg" THEN {}
    ELSE UNION {CASE o.op = "own" -> ToSet(ObjectIds(rows, node.context, o.name))
                  [] o.op = "element" ->
                        ElementId(ObjectIds(rows, node.context, Operation(f, node.mod, o.array).name),
                                  Ordinal(f, node.mod, o))
                  [] OTHER -> {} : o \in {Operation(f, node.mod, node.id)}}

RECURSIVE Reached(_, _, _)
Reached(f, owners, nodes) ==
    IF UNION {Dependencies(f, owners, n) : n \in nodes} \subseteq nodes THEN nodes
    ELSE Reached(f, owners, nodes \cup UNION {Dependencies(f, owners, n) : n \in nodes})

RECURSIVE CollectIds(_, _, _, _)
CollectIds(f, owners, rows, node) ==
    OwnIds(f, rows, node)
    \cup UNION {CollectIds(f, owners, rows, n) : n \in Dependencies(f, owners, node)}

-----------------------------------------------------------------------------
(* The verifier: activation edges. *)

Contexts(f, owners) ==
    {[mod |-> f.root, path |-> FileRoot(f)]}
    \cup {[mod |-> r.op.target, path |-> r.path] : r \in {x \in ToSet(owners) : x.op.kind = "module"}}
InBody(f, mod, op) == {o \in ToSet(f.bodies[mod]) : o.op = op}

IsTimedEventReference(f, mod, id) ==
    \E o \in {Operation(f, mod, id)} :
        \/ o.op = "own" /\ o.kind = "event"
        \/ o.op = "element" /\ Operation(f, mod, o.array).kind = "event"

\* Scalars name no object; neither a captured event queue nor a queue that
\* is only scheduled on wakes the process.
CanCarryIdentity(f, mod, id) ==
    id[1] # "arg" \/ id[4] = 1
        \/ Operation(f, mod, <<"process", id[2]>>).states[id[3]][id[4]].types[id[5]] # "scalar"
ProcessSources(f, mod, p) ==
    {id \in ToSet(p.captures) : ~ IsTimedEventReference(f, mod, id)}
    \cup {id \in UNION {ToSet(call.args) : call \in {c \in ToSet(p.calls) : ~ c.schedule}} :
              CanCarryIdentity(f, mod, id)}

ContextRoots(f, c) ==
    {Node(c.mod, c.path, id) : id \in UNION {{b.source, b.target} : b \in InBody(f, c.mod, "bind")}
        \cup UNION {ProcessSources(f, c.mod, p) : p \in InBody(f, c.mod, "process")}}

\* Every value is visited once; a value that depends on itself is refused.
DependenciesVerified(f, owners) ==
    \A nodes \in {Reached(f, owners, UNION {ContextRoots(f, c) : c \in Contexts(f, owners)})} :
        /\ Cardinality(nodes) <= MaxNodes
        /\ \A n \in nodes : n \notin Reached(f, owners, Dependencies(f, owners, n))

FlowBinds(f, mod) == SelectSeq(f.bodies[mod], LAMBDA o : o.op = "bind" /\ o.flow)
LinkIds(f, rows, c, k) ==
    ToSet(ObjectIds(rows, c.path,
        IF \E o \in InBody(f, c.mod, "own") : o.name = LinkName(k - 1) /\ o.shape = Single
        THEN LinkName(k - 1) ELSE ""))
LinksVerified(f, owners, rows) ==
    \A c \in Contexts(f, owners) : \A k \in DOMAIN FlowBinds(f, c.mod) :
        Cardinality(LinkIds(f, rows, c, k)) = 1

Symmetric(left, right) == (left \X right) \cup (right \X left)
ContextEdges(f, owners, rows, c) ==
    UNION {Symmetric(LinkIds(f, rows, c, k),
               UNION {CollectIds(f, owners, rows, Node(c.mod, c.path, id)) :
                   id \in {FlowBinds(f, c.mod)[k].source, FlowBinds(f, c.mod)[k].target}}) :
             k \in DOMAIN FlowBinds(f, c.mod)}
    \cup UNION {CollectIds(f, owners, rows, Node(c.mod, c.path, b.source))
                  \X CollectIds(f, owners, rows, Node(c.mod, c.path, b.target)) :
             b \in {x \in InBody(f, c.mod, "bind") : ~ x.flow}}
    \cup UNION {(UNION {CollectIds(f, owners, rows, Node(c.mod, c.path, id)) :
                           id \in ProcessSources(f, c.mod, p)})
                  \X ToSet(ObjectIds(rows, c.path, p.name)) : p \in InBody(f, c.mod, "process")}

ExpectedEdges(f, owners, rows) ==
    {<<i, i>> : i \in {j \in DOMAIN rows : rows[j].op.kind # "event"}}
    \cup UNION {ContextEdges(f, owners, rows, c) : c \in Contexts(f, owners)}

EdgesVerified(f, owners, rows) ==
    /\ \A i \in 1..(Len(f.edges) - 1) : EdgeLess(f.edges[i], f.edges[i + 1])
    /\ ToSet(f.edges) = ExpectedEdges(f, owners, rows)

\* The checks in their order; the first that fails is the answer.
RowsVerdict(f, owners, rows) ==
    CASE ~ OwnersVerified(owners) -> "expansion"
      [] ~ ConstructionOrderVerified(f, owners) -> "order"
      [] ~ ProcessesVerified(f) -> "process"
      [] ~ DispatchVerified(f, rows) -> "dispatch"
      [] ~ DependenciesVerified(f, owners) -> "dependencies"
      [] ~ LinksVerified(f, owners, rows) -> "link"
      [] ~ EdgesVerified(f, owners, rows) -> "edges"
      [] OTHER -> "accepted"

ExpansionVerdict(f, owners) == RowsVerdict(f, owners, ExpandRuntime(owners))

VerifyModel ==
    /\ stage \in {"lowered", "read"}
    /\ stage' = IF ContainsItself(file, file.root, {}) THEN "cycle"
                ELSE ExpansionVerdict(file, ExpandOwners(file, file.root, FileRoot(file)))
    /\ UNCHANGED <<design, file, run>>

-----------------------------------------------------------------------------
(* A file may be changed between the lowering and the generator, which     *)
(* verifies what it reads.                                                 *)

Swapped(sequence, i) == [sequence EXCEPT ![i] = sequence[i + 1], ![i + 1] = sequence[i]]
Swaps(sequence) == {Swapped(sequence, i) : i \in 1..(Len(sequence) - 1)}
Damaged(f) ==
    {[f EXCEPT !.edges = RemoveAt(f.edges, i)] : i \in DOMAIN f.edges}
    \cup {[f EXCEPT !.edges = s] : s \in Swaps(f.edges)}
    \cup {[f EXCEPT !.edges = Ascending(ToSet(f.edges) \cup {e})] :
             e \in (DOMAIN f.dispatch) \X (DOMAIN f.dispatch)}
    \cup {[f EXCEPT !.construction = s, !.destruction = Reverse(s)] : s \in Swaps(f.construction)}
    \cup {[f EXCEPT !.dispatch = s] : s \in Swaps(f.dispatch)}
    \cup {[f EXCEPT !.dispatch[i].id = f.dispatch[i + 1].id] : i \in 1..(Len(f.dispatch) - 1)}

Edit ==
    /\ stage = "lowered"
    /\ file' \in Damaged(file)
    /\ design' = NoDesign /\ stage' = "read"
    /\ UNCHANGED run

-----------------------------------------------------------------------------
(* One activation of a process of an accepted file, at any program counter. *)

StartProcess ==
    /\ stage = "accepted" /\ run = Idle
    /\ \E mod \in DOMAIN file.bodies : \E p \in InBody(file, mod, "process") :
       \E s \in DOMAIN p.states :
         run' = [process |-> p, pc |-> s, block |-> 1, spent |-> 0]
    /\ UNCHANGED <<stage, design, file>>

Targets(p, pc, block) ==
    CASE block.exit = "branch" -> {<<pc, x.block>> : x \in ToSet(block.next)}
      [] block.exit = "continue" -> {<<Pc(p, block.pc), 1>>}
      [] OTHER -> {<<pc, 0>>}
ExecuteBlock ==
    /\ run.block # 0 /\ run.spent < MaxWork
    /\ \E block \in {run.process.states[run.pc][run.block]} :
       \E target \in Targets(run.process, run.pc, block) :
         run' = [run EXCEPT !.pc = target[1], !.block = target[2], !.spent = @ + block.size]
    /\ UNCHANGED <<stage, design, file>>

GraphInit ==
    /\ \/ design \in Designs /\ file = NoFile /\ stage = "design"
       \/ design = NoDesign /\ file \in ReadFiles /\ stage = "read"
    /\ run = Idle

GraphNext == Lower \/ Edit \/ VerifyModel \/ StartProcess \/ ExecuteBlock

GraphSpec == GraphInit /\ [][GraphNext]_graphVars

-----------------------------------------------------------------------------
(* What a value means, by the path of the object it stands for. *)

AllIndices(shape) ==
    {x \in [DOMAIN shape -> 0..Max({0} \cup ToSet(shape))] : \A d \in DOMAIN shape : x[d] < shape[d]}

OwnerOf(f, mod, base) ==
    IF base.op = "element" THEN Operation(f, mod, base.array) ELSE base
Offered(f, mod, field, acc) ==
    {SelectSeq(f.bodies[mod], LAMBDA o : o.op = "export")[k].value :
        k \in {n \in DOMAIN f.interface[mod] : f.interface[mod][n] = <<field, acc>>}}

RECURSIVE Denotes(_, _, _, _)
DenotesEndpoint(f, mod, path, o, base) ==
    IF OwnerOf(f, mod, base).op = "own" /\ OwnerOf(f, mod, base).kind = "module"
    THEN UNION {UNION {Denotes(f, OwnerOf(f, mod, base).target, copy, value) :
                   value \in Offered(f, OwnerOf(f, mod, base).target,
                                     IF o.op = "port" THEN "ports" ELSE "resources", o.acc)} :
                copy \in Denotes(f, mod, path, o.base)}
    ELSE Denotes(f, mod, path, o.base)
Denotes(f, mod, path, id) ==
    IF id[1] = "arg"
    THEN UNION {IF id[4] = 1 THEN Denotes(f, mod, path, p.captures[id[5]])
                ELSE UNION {UNION {Denotes(f, mod, path, x.args[id[5]]) :
                                x \in {y \in ToSet(b.next) : y.block = id[4]}} :
                            b \in ToSet(p.states[id[3]])} :
                  p \in {Operation(f, mod, <<"process", id[2]>>)}}
    ELSE UNION {CASE o.op = "own" -> {Append(path, <<o.name, x>>) : x \in AllIndices(o.shape)}
                  [] o.op = "element" ->
                        {Append(path, <<Operation(f, mod, o.array).name, o.indices>>)}
                  [] OTHER -> DenotesEndpoint(f, mod, path, o, Operation(f, mod, o.base)) :
                  o \in {Operation(f, mod, id)}}

OwnersOf(f) == ExpandOwners(f, f.root, FileRoot(f))
Objects(f) == {r.path : r \in ToSet(ExpandRuntime(OwnersOf(f)))}
Link(c, k) == {Append(c.path, <<LinkName(k - 1), Single>>)}

\* Who must be woken when an object changes, as pairs of paths.
RightEdgesIn(f, c) ==
    UNION {Symmetric(Link(c, k), UNION {Denotes(f, c.mod, c.path, id) :
                 id \in {FlowBinds(f, c.mod)[k].source, FlowBinds(f, c.mod)[k].target}}) :
             k \in DOMAIN FlowBinds(f, c.mod)}
    \cup UNION {Denotes(f, c.mod, c.path, b.source) \X Denotes(f, c.mod, c.path, b.target) :
             b \in {x \in InBody(f, c.mod, "bind") : ~ x.flow}}
    \cup UNION {(UNION {Denotes(f, c.mod, c.path, id) : id \in ProcessSources(f, c.mod, p)})
                  \X {Append(c.path, <<p.name, Single>>)} : p \in InBody(f, c.mod, "process")}
RightEdges(f) ==
    {<<r.path, r.path>> : r \in {x \in ToSet(ExpandRuntime(OwnersOf(f))) : x.op.kind # "event"}}
    \cup UNION {RightEdgesIn(f, c) : c \in Contexts(f, OwnersOf(f))}

PathOf(f, id) == (CHOOSE x \in ToSet(f.dispatch) : x.id = id).path
DeclaredEdges(f) == {<<PathOf(f, e[1]), PathOf(f, e[2])>> : e \in ToSet(f.edges)}

\* A conditional branch whose two edges enter one block: the verifier follows
\* what the true edge passes and forgets the false one (ACSimOps.cpp:2641-2650).
TwinBranch(f) ==
    \E mod \in DOMAIN f.bodies : \E p \in InBody(f, mod, "process") : \E s \in DOMAIN p.states :
        \E block \in ToSet(p.states[s]) : \E i, j \in DOMAIN block.next :
            i < j /\ block.next[i].block = block.next[j].block

\* An accepted plan wakes exactly the objects that a change concerns, through
\* arrays and module boundaries alike, and has a row for every object; a plan
\* refused for its edges is wrong (verifyDispatchAndActivation).  With a
\* TwinBranch an accepted plan may lack the wakes of the second edge, and one
\* that has them is refused.
PlanRight ==
    /\ stage = "accepted" =>
         /\ {x.path : x \in ToSet(file.dispatch)} = Objects(file)
         /\ DeclaredEdges(file) \subseteq RightEdges(file)
         /\ RightEdges(file) \subseteq DeclaredEdges(file) \/ TwinBranch(file)
    /\ stage = "edges" =>
         \/ DeclaredEdges(file) # RightEdges(file)
         \/ \E i \in 1..(Len(file.edges) - 1) : ~ EdgeLess(file.edges[i], file.edges[i + 1])
         \/ TwinBranch(file)

\* What the lowering emits passes the verifier it ends with, unless a port
\* input comes before a flow: then the link has a name the verifier does not
\* expect (ACIRToACSim.cpp numbers all inputs, ACSimOps.cpp the flows).
PortBeforeFlow(m) ==
    \E i, j \in DOMAIN Inputs(m) : i < j /\ ~ Input(m, Inputs(m)[i]).flow /\ Input(m, Inputs(m)[j]).flow
LoweringAccepted ==
    \/ design = NoDesign
    \/ stage \in {"design", "not lowered", "lowered", "accepted"}
    \/ stage = "link" /\ \E mod \in DOMAIN design.mods : PortBeforeFlow(design.mods[mod])

\* Whatever contains an object is built before it and destroyed after it
\* (verifyConstructionOrder).
ParentsFirst ==
    stage = "accepted" =>
        \A i \in DOMAIN file.construction :
            /\ Len(file.construction[i]) > 2 =>
                 \E j \in 1..(i - 1) : file.construction[j] = Front(file.construction[i])
            /\ file.destruction[Len(file.construction) + 1 - i] = file.construction[i]

\* An activation of a process without local loops executes no more operations
\* than its cap (verifyProcess).
WorkWithinCap ==
    run # Idle /\ run.process.back = {} => run.spent <= run.process.cap

-----------------------------------------------------------------------------
(* A small instance: designs with chains of stages, a relay, event queues,  *)
(* library objects and arrays, some of them refused, and files.            *)

Block(size, exit, pc) == [size |-> size, exit |-> exit, pc |-> pc, next |-> << >>, types |-> << >>]
To(block, args) == [block |-> block, args |-> args]
Fork(size, next) == [size |-> size, exit |-> "branch", pc |-> "", next |-> next, types |-> << >>]

Straight == [pcs |-> <<"a">>, states |-> <<<<Block(2, "suspend", "a")>>>>, cap |-> 2, back |-> {}]
Diamond == [pcs |-> <<"a", "b">>, cap |-> 4, back |-> {},
            states |-> <<<<Fork(1, <<To(2, << >>), To(3, << >>)>>), Block(1, "continue", "b"),
                          Block(3, "suspend", "b")>>,
                         <<Block(2, "end", "")>>>>]
\* A loop in its program counter that carries one value around.
Loop(type, passed) ==
    [pcs |-> <<"a">>, cap |-> 4, back |-> {<<1, 2, 2>>},
     states |-> <<<<Fork(1, <<To(2, <<passed>>)>>),
                   [Fork(2, <<To(3, << >>), To(2, <<<<"arg", "p", 1, 2, 1>>>>)>>)
                      EXCEPT !.types = <<type>>],
                   Block(1, "suspend", "a")>>>>]
Plans ==
    {Straight, Diamond, [Diamond EXCEPT !.cap = 3], [Diamond EXCEPT !.cap = 0],
     [Diamond EXCEPT !.states[1][3].size = 4],
     [Diamond EXCEPT !.pcs = <<"a", "a">>], [Diamond EXCEPT !.states[2][1].exit = "continue",
                                                            !.states[2][1].pc = "a"],
     Loop("scalar", <<"arg", "p", 1, 1, 1>>), Loop("owner", <<"arg", "p", 1, 1, 1>>),
     [Loop("scalar", <<"arg", "p", 1, 1, 1>>) EXCEPT !.back = {}]}

Place(kind, name, target, shape, ins, outs) ==
    [kind |-> kind, name |-> name, target |-> target, shape |-> shape, ins |-> ins,
     outs |-> outs, aliases |-> {}]
End(value, acc, flow) == [value |-> value, acc |-> acc, flow |-> flow]
Queue(name, ins, outs) == Place("queue", name, "Queue", Single, ins, outs)
Proc(name, captures, uses, polls, schedules, plan) ==
    [name |-> name, captures |-> captures, uses |-> uses, polls |-> polls,
     schedules |-> schedules, pcs |-> plan.pcs, states |-> plan.states, cap |-> plan.cap,
     back |-> plan.back]
Module(places, procs, ports) == [places |-> places, procs |-> procs, ports |-> ports]
Port(name, queue, out, source) ==
    [name |-> name, queue |-> queue, acc |-> name, out |-> out, source |-> source]

\* A stage receives a flow in one queue and sends from another.
Stage == Module(<<Queue("qin", << >>, << >>), Queue("qout", << >>, <<End("sent", "src", TRUE)>>)>>,
                <<Proc("move", << >>, {"qin", "qout"}, {}, {}, Diamond)>>,
                <<Port("flow_input", "qin", FALSE, "received"),
                  Port("flow_output", "qout", TRUE, "sent")>>)
StageAt(name, from, to) ==
    Place("module", name, "stage", Single, <<End(from, "flow_input", TRUE)>>,
          <<End(to, "flow_output", TRUE)>>)
Feed == Queue("feed", << >>, <<End("fed", "src", TRUE)>>)
Relay(from, to) ==
    [Place("module", "relay", "empty", Single, << >>, << >>) EXCEPT !.aliases = {<<to, from>>}]
Empty == Module(<< >>, << >>, << >>)
Binding(name, shape, ins, outs) == Place("binding", name, "lib", shape, ins, outs)

ModulesOf(top) ==
    [name \in {"top", "stage", "empty"} |->
        CASE name = "top" -> top [] name = "stage" -> Stage [] OTHER -> Empty]
SmallDesigns ==
    {[root |-> "top", mods |-> ModulesOf(top)] : top \in {
        Module(<<Feed, StageAt("first", "fed", "x"), StageAt("second", "x", "y")>>, << >>, << >>),
        Module(<<Feed, Relay("fed", "x"), StageAt("s", "x", "y")>>, << >>, << >>),
        Module(<<Feed, Relay("x", "x"), StageAt("s", "x", "y")>>, << >>, << >>),
        Module(<<StageAt("s", "nowhere", "y")>>, << >>, << >>),
        Module(<<Place("event", "ev", "TimedEventQueue", Single, << >>, << >>), Queue("q", << >>, << >>)>>,
               <<Proc("consume", << >>, {"ev", "q"}, {"ev"}, {}, Straight),
                 Proc("produce", << >>, {"ev"}, {}, {"ev"}, Straight)>>, << >>),
        Module(<<Binding("b1", Single, << >>, <<End("e", "out", FALSE)>>),
                 Binding("b2", <<2>>, << >>, << >>),
                 Binding("b3", Single, <<End("e", "in", FALSE)>>, << >>)>>,
               <<Proc("watch", <<"e">>, {}, {}, {}, Straight)>>, << >>),
        Module(<<Binding("b1", Single, << >>, <<End("e", "out", FALSE)>>),
                 Binding("b3", Single, <<End("e", "in", FALSE)>>, << >>),
                 Feed, StageAt("s", "fed", "y")>>, << >>, << >>),
        Module(<<Place("module", "row", "stage", <<2>>, << >>, << >>)>>, << >>, << >>),
        Module(<<Place("module", "row", "stage", <<2, 3>>, << >>, << >>)>>, << >>, << >>),
        Module(<<Place("module", "again", "top", Single, << >>, << >>)>>, << >>, << >>)}}

\* Files written by hand: a grid of cells that export a port and a resource
\* of the same name, and one process with each of the plans above.
Own(kind, name, target, shape) ==
    [op |-> "own", id |-> <<"own", name>>, kind |-> kind, name |-> name, target |-> target,
     shape |-> shape]
Element(id, array, indices) == [op |-> "element", id |-> id, array |-> array, indices |-> indices]
Project(op, id, base, acc) == [op |-> op, id |-> id, base |-> base, acc |-> acc]
ProcessOp(captures, calls, plan) ==
    [op |-> "process", id |-> <<"process", "p">>, name |-> "p", kind |-> "process", target |-> "",
     shape |-> Single, captures |-> captures, calls |-> calls, pcs |-> plan.pcs,
     states |-> plan.states, cap |-> plan.cap, back |-> plan.back]
Cell == <<Own("queue", "qi", "Queue", Single), Own("queue", "qr", "Queue", Single),
          Project("port", <<"p">>, <<"own", "qi">>, "local"),
          Project("resource", <<"r">>, <<"own", "qr">>, "local"),
          [op |-> "export", id |-> <<"export", "1">>, value |-> <<"p">>],
          [op |-> "export", id |-> <<"export", "2">>, value |-> <<"r">>]>>
GridTop(shape, at, plan, calls) ==
    <<Own("module", "grid", "cell", shape),
      Element(<<"e">>, <<"own", "grid">>, at),
      Project("port", <<"pe">>, <<"e">>, "a"), Project("resource", <<"re">>, <<"e">>, "a"),
      ProcessOp(<<<<"pe">>, <<"re">>>>, calls, plan)>>
Unfilled(top) ==
    [root |-> "top", bodies |-> [m \in {"top", "cell"} |-> IF m = "top" THEN top ELSE Cell],
     interface |-> [m \in {"top", "cell"} |->
                       IF m = "top" THEN << >> ELSE <<<<"ports", "a">>, <<"resources", "a">>>>],
     construction |-> << >>, destruction |-> << >>, dispatch |-> << >>, edges |-> << >>]
\* The rows and edges a file should have, by the meaning of its values.
Filled(f, owners, rows) ==
    [f EXCEPT !.construction = [i \in DOMAIN owners |-> owners[i].path],
              !.destruction = Reverse([i \in DOMAIN owners |-> owners[i].path]),
              !.dispatch = [i \in DOMAIN rows |->
                  Dispatch(i, [mod |-> rows[i].mod, place |-> rows[i].op, path |-> rows[i].path])],
              !.edges = Ascending({e \in (DOMAIN rows) \X (DOMAIN rows) :
                            <<rows[e[1]].path, rows[e[2]].path>> \in RightEdges(f)})]
Fill(f) == Filled(f, OwnersOf(f), ExpandRuntime(OwnersOf(f)))

InnerCall == [schedule |-> FALSE, args |-> <<<<"arg", "p", 1, 2, 1>>>>]
EntryCall == [schedule |-> FALSE, args |-> <<<<"arg", "p", 1, 1, 2>>>>]

\* A process that receives from one of two event queues: the branches pass it
\* to the last block through blocks of their own (Join) or directly (Twin).
Capture(k) == <<"arg", "p", 1, 1, k>>
Receiving(blocks) ==
    [pcs |-> <<"a">>, cap |-> 4, back |-> {},
     states |-> <<Append(blocks, [Block(1, "suspend", "a") EXCEPT !.types = <<"owner">>])>>]
Join == Receiving(<<Fork(1, <<To(2, << >>), To(3, << >>)>>), Fork(1, <<To(4, <<Capture(1)>>)>>),
                    Fork(1, <<To(4, <<Capture(2)>>)>>)>>)
Twin == Receiving(<<Fork(1, <<To(2, <<Capture(1)>>), To(2, <<Capture(2)>>)>>)>>)
EventFile(plan) ==
    Fill(Unfilled(<<Own("event", "e1", "TimedEventQueue", Single), Own("event", "e2", "TimedEventQueue", Single),
                    ProcessOp(<<<<"own", "e1">>, <<"own", "e2">>>>,
                              <<[schedule |-> FALSE, args |-> <<<<"arg", "p", 1, Len(plan.states[1]), 1>>>>]>>,
                              plan)>>))
SmallFiles ==
    {Fill(Unfilled(GridTop(<<2, 3>>, at, Straight, <<EntryCall>>))) :
        at \in {<<0, 0>>, <<0, 2>>, <<1, 0>>, <<1, 1>>}}
    \cup {Fill(Unfilled(GridTop(<<2>>, <<1>>, plan, << >>))) : plan \in Plans}
    \cup {LET plan == Loop(type, <<"arg", "p", 1, 1, 1>>)
          IN  [Fill(Unfilled(GridTop(<<1>>, <<0>>, plan, << >>)))
                 EXCEPT !.bodies["top"] = GridTop(<<1>>, <<0>>, plan, <<InnerCall>>)] :
            type \in {"scalar", "owner"}}
    \cup {[Fill(Unfilled(GridTop(<<1>>, <<0>>, Straight, << >>)))
             EXCEPT !.bodies["cell"] = Append(Cell, Own("module", "self", "cell", Single))]}
    \cup {EventFile(Join), EventFile(Twin)}
    \cup {[EventFile(plan) EXCEPT !.edges = RemoveAt(@, i)] : plan \in {Join, Twin}, i \in 1..3}
=============================================================================
