------------------------------- MODULE Freeze -------------------------------
(***************************************************************************)
(* The topology freeze of ACIR: canonical order, whole-model verification,  *)
(* the manifest of elaborated owners, the skeleton of every process, the    *)
(* digest of the rest, and the verification that any later pass repeats     *)
(* (FreezeTopology.cpp, CanonicalizeModel.cpp, ModelAnalysis.cpp).          *)
(*                                                                          *)
(* A process carries its body as code: a sequence of operations             *)
(* [kind, attr, ins, outs, regions, owner]; owner is the ac.frozen_owner    *)
(* attribute of a trace.open.  evidence holds the freeze attributes.        *)
(***************************************************************************)
EXTENDS Topology

CONSTANTS Models,        \* the files the compiler is given
          Edits(_)       \* the models one later pass makes of a model

VARIABLES model, evidence, frozen, why

freezeVars == <<model, evidence, frozen, why>>

NoOwner == << >>
NoEvidence == [marker |-> FALSE]

(***************************************************************************)
(* Canonical order.                                                         *)
(***************************************************************************)

GraphRank(op) ==
  CASE op.kind \in {"instance", "array", "instances", "view"} -> 0
    [] op.kind \in {"queue", "event_queue", "resource", "address_space"} -> 1
    [] op.kind = "process" -> 2
    [] op.kind = "stat" -> 3
    [] op.kind = "contract" -> 4
    [] OTHER -> 5

\* The names of the operations, in the order of their spelling.
KindOrder == <<"address_space", "array", "contract", "event_queue", "export", "import",
               "instance", "instances", "process", "queue", "resource", "stat",
               "state_array", "view">>
StableKey(op) ==
  <<GraphRank(op), CHOOSE k \in DOMAIN KindOrder : KindOrder[k] = op.kind, op.sym, op.queue>>

KeyLess(a, b) == \E k \in DOMAIN a : a[k] < b[k] /\ \A l \in 1 .. (k - 1) : a[l] = b[l]

\* A stable sort.
SortBlock(body) ==
  LET before(i, j) == \/ KeyLess(StableKey(body[i]), StableKey(body[j]))
                      \/ StableKey(body[i]) = StableKey(body[j]) /\ i < j
      place(i) == 1 + Cardinality({j \in DOMAIN body : before(j, i)})
  IN  [k \in DOMAIN body |-> body[CHOOSE i \in DOMAIN body : place(i) = k]]

CanonicalizeModel(m) ==
  [m EXCEPT !.mods = [x \in DOMAIN m.mods |-> [m.mods[x] EXCEPT !.body = SortBlock(@)]]]

(***************************************************************************)
(* The owner manifest.                                                      *)
(***************************************************************************)

Reference(m, decl) ==
  LET op == Body(m, decl[1])[decl[2]]
  IN  IF op.sym # NoSymbol THEN <<decl[1], op.sym>> ELSE <<decl[1]>>

\* One record per elaborated owner and one for the root; a state owner's
\* record names the traces it reads.
BuildFrozenOwnerManifest(m) ==
  LET owners == Owners(m)
      kind(o) == Body(m, o.decl[1])[o.decl[2]].kind
      traces(o) == IF o \in Range(StateOwners(m)) THEN Range(Body(m, o.decl[1])[o.decl[2]].traces)
                   ELSE {}
  IN  {[path |-> <<"root">>, id |-> <<"root">>, kind |-> "system_root", owner |-> <<Root(m)>>,
        traces |-> {}]} \union
      {[path |-> o.path, id |-> o.id, kind |-> kind(o), owner |-> Reference(m, o.decl),
        traces |-> traces(o)] : o \in Range(owners)}

\* ManifestOwnerIndex::lookup finds exactly one record.
UniqueOwner(manifest, reference) ==
  Cardinality({r \in manifest : r.owner = reference /\ r.kind = "process"}) = 1
TheOwner(manifest, reference) ==
  CHOOSE r \in manifest : r.owner = reference /\ r.kind = "process"

(***************************************************************************)
(* The skeleton of a process: its ac and call operations, everything their  *)
(* operands come from, the operations around them and the terminators of    *)
(* the regions of all of these.                                             *)
(***************************************************************************)

Effects == {"recv", "send", "trace_open", "call"}

RECURSIVE Positions(_)
Positions(code) ==
  UNION {{<<i>>} \union UNION {{<<i, r>> \o q : q \in Positions(code[i].regions[r])} :
                                 r \in DOMAIN code[i].regions} : i \in DOMAIN code}

RECURSIVE At(_, _)
At(code, p) ==
  IF Len(p) = 1 THEN code[p[1]] ELSE At(code[p[1]].regions[p[2]], SubSeq(p, 3, Len(p)))

Parents(p) == IF Len(p) = 1 THEN {} ELSE {SubSeq(p, 1, Len(p) - 2)}
Producers(code, p) ==
  {q \in Positions(code) : Range(At(code, q).outs) \intersect Range(At(code, p).ins) # {}}
Terminators(code, p) ==
  {p \o <<r, Len(At(code, p).regions[r])>> :
     r \in {s \in DOMAIN At(code, p).regions : At(code, p).regions[s] # << >>}}

\* The results of a region are taken for given.
DependenciesOfOperands(code, p) == Producers(code, p) \union Parents(p)
\* Region results are committed through the terminators.
Dependencies(code, p) == Producers(code, p) \union Parents(p) \union Terminators(code, p)

RECURSIVE Closure(_, _)
Closure(code, included) ==
  LET next == included \union UNION {Dependencies(code, p) : p \in included}
  IN  IF next = included THEN included ELSE Closure(code, next)

Included(code) == Closure(code, {p \in Positions(code) : At(code, p).kind \in Effects})

\* Paths count the included operations only.
SkeletonPath(inc, p) ==
  [k \in DOMAIN p |->
     IF k % 2 = 0 THEN p[k]
     ELSE Cardinality({q \in inc : Len(q) = k /\ SubSeq(q, 1, k - 1) = SubSeq(p, 1, k - 1) /\ q[k] < p[k]})]

\* An operand is its producer's path and result number, or external.
ValueId(code, inc, v) ==
  LET from == {q \in inc : v \in Range(At(code, q).outs)}
  IN  IF from = {} THEN <<"external">>
      ELSE LET q == CHOOSE q \in from : TRUE
           IN  <<SkeletonPath(inc, q), CHOOSE k \in DOMAIN At(code, q).outs : At(code, q).outs[k] = v>>

BuildFrozenProcessSkeleton(code) ==
  LET inc == Included(code)
  IN  {[path |-> SkeletonPath(inc, p), kind |-> At(code, p).kind, attr |-> At(code, p).attr,
        owner |-> At(code, p).owner,
        ins |-> [k \in DOMAIN At(code, p).ins |-> ValueId(code, inc, At(code, p).ins[k])],
        outs |-> Len(At(code, p).outs),
        regions |-> Len(At(code, p).regions)] : p \in inc}

Processes(m) ==
  {d \in UNION {{<<x, i>> : i \in DOMAIN Body(m, x)} : x \in DOMAIN m.mods} :
     Body(m, d[1])[d[2]].kind = "process"}
Skeletons(m) ==
  [d \in Processes(m) |-> BuildFrozenProcessSkeleton(Body(m, d[1])[d[2]].code)]

(***************************************************************************)
(* The digest commits every ac operation, without process bodies, freeze    *)
(* attributes and functions.                                                *)
(***************************************************************************)
ComputeTopologyDigest(m) ==
  <<m.systems, m.externs,
    [x \in DOMAIN m.mods |->
       [m.mods[x] EXCEPT !.body = [i \in DOMAIN @ |-> [@[i] EXCEPT !.code = << >>, !.calls = << >>]]]]>>

(***************************************************************************)
(* verifyModel: the analyses of Topology, then the freeze evidence.         *)
(***************************************************************************)

VerifyFrozenIntegrity(m, e) ==
  CASE e = NoEvidence -> "ok"
    [] ~ e.marker -> "malformed"
    [] e.skeletons # Skeletons(m) -> "skeleton"
    [] e.digest # ComputeTopologyDigest(m) -> "digest"
    [] e.owners # BuildFrozenOwnerManifest(m) -> "manifest"
    [] OTHER -> "ok"

VerifyModel(m, e) ==
  FirstFailure(Verify(m), VerifyFrozenIntegrity(m, e))

(***************************************************************************)
(* freezeTopology.                                                          *)
(***************************************************************************)

\* Each trace.open is given the absolute path of its only owner.
RECURSIVE OwnTraces(_, _)
OwnTraces(code, record) ==
  [i \in DOMAIN code |->
     [code[i] EXCEPT
        !.owner = IF code[i].kind = "trace_open" /\ code[i].attr \in record.traces
                  THEN <<record.path, code[i].attr>> ELSE @,
        !.regions = [r \in DOMAIN @ |-> OwnTraces(@[r], record)]]]

FrozenBody(m, manifest, x) ==
  [i \in DOMAIN Body(m, x) |->
     LET op == Body(m, x)[i]
         records == {r \in manifest : r.kind = "process" /\ r.traces # {}
                                        /\ r.owner = Reference(m, <<x, i>>)}
     IN  IF op.kind # "process" \/ records = {} THEN op
         ELSE [op EXCEPT !.code = OwnTraces(@, CHOOSE r \in records : TRUE)]]

WithOwners(m, manifest) ==
  [m EXCEPT !.mods = [x \in DOMAIN m.mods |-> [m.mods[x] EXCEPT !.body = FrozenBody(m, manifest, x)]]]

\* The skeletons are taken before the trace owners are set.
EvidenceBeforeOwners(m, manifest) ==
  [marker |-> TRUE, owners |-> manifest, skeletons |-> Skeletons(m),
   digest |-> ComputeTopologyDigest(m)]

\* The evidence is computed on the model with its owners on it.
Evidence(m, manifest) ==
  [marker |-> TRUE, owners |-> manifest, skeletons |-> Skeletons(WithOwners(m, manifest)),
   digest |-> ComputeTopologyDigest(m)]

Workload(m) == (CHOOSE s \in Selected(m) : TRUE).workload
Instrumentation(m) == (CHOOSE s \in Selected(m) : TRUE).instrumentation

\* The last part of the freeze: the workload and the instrumentation have one
\* owner each, the evidence is stored, and the model is verified once more.
FreezeWith(m, manifest) ==
  IF \/ ~ UniqueOwner(manifest, <<Root(m), Workload(m)>>)
     \/ \E r \in Instrumentation(m) : ~ UniqueOwner(manifest, r)
  THEN /\ why' = "owner" /\ model' = m
       /\ evidence' = [marker |-> FALSE, owners |-> manifest] /\ UNCHANGED frozen
  ELSE \E owned \in {WithOwners(m, manifest)}, proof \in {Evidence(m, manifest)} :
         /\ model' = owned /\ evidence' = proof /\ frozen' = owned
         /\ why' = IF VerifyModel(owned, proof) = "ok" THEN "frozen" ELSE "self"

\* A model without evidence is canonicalized, verified and frozen.  A freeze
\* that fails after the manifest leaves the first attributes on the model.
FreezeTopology ==
  /\ why = "source"
  /\ evidence = NoEvidence
  /\ \E m \in {CanonicalizeModel(model)} : \E verdict \in {Verify(m)} :
       \/ /\ verdict # "ok"
          /\ why' = verdict /\ model' = m /\ UNCHANGED <<evidence, frozen>>
       \/ /\ verdict = "ok" /\ (~ VerifyFreezeContracts(m) \/ Selected(m) = {})
          /\ why' = "contract" /\ model' = m /\ UNCHANGED <<evidence, frozen>>
       \/ /\ verdict = "ok" /\ VerifyFreezeContracts(m) /\ Selected(m) # {}
          /\ Workload(m) = NoSymbol
          /\ why' = "workload" /\ model' = m /\ UNCHANGED <<evidence, frozen>>
       \/ /\ verdict = "ok" /\ VerifyFreezeContracts(m) /\ Selected(m) # {}
          /\ Workload(m) # NoSymbol
          /\ \E manifest \in {BuildFrozenOwnerManifest(m)} : FreezeWith(m, manifest)

\* A pass that runs after the freeze changes the model.
LaterPass ==
  /\ why = "frozen" /\ model = frozen
  /\ \E edited \in Edits(model) : model' = edited
  /\ why' = "edited"
  /\ UNCHANGED <<evidence, frozen>>

\* ac-verify-model, and ac-canonicalize and ac-freeze-topology when there is
\* freeze evidence.
VerifyAgain ==
  /\ why \in {"edited", "owner"}
  /\ why' = IF VerifyModel(model, evidence) = "ok" THEN "verified" ELSE "refused"
  /\ UNCHANGED <<model, evidence, frozen>>

FreezeInit ==
  /\ model \in Models
  /\ evidence = NoEvidence
  /\ frozen = [mods |-> << >>]
  /\ why = "source"

FreezeNext == FreezeTopology \/ LaterPass \/ VerifyAgain
FreezeSpec == FreezeInit /\ [][FreezeNext]_freezeVars

(***************************************************************************)
(* References: the elaborated hierarchy as a flat graph.  A node is an SSA  *)
(* value of one copy of a module; an edge binds an operand to the argument  *)
(* of the copy below, or a returned value to the result above.              *)
(***************************************************************************)

Slice(s, n, of) == SubSeq(s, (n - 1) * (Len(s) \div of) + 1, n * (Len(s) \div of))

\* The copies a declaration makes: [def, seg, ins, outs].
Copies(op) ==
  LET n == CASE op.kind = "instance" -> 1
             [] op.kind = "array" -> ArrayCount(op)
             [] op.kind = "instances" -> Len(op.defs)
             [] OTHER -> 0
  IN  {[def |-> IF op.kind = "instances" THEN op.defs[k].def ELSE op.defs[1].def,
        seg |-> <<op.path, k>>, ins |-> Slice(op.ins, k, n), outs |-> Slice(op.outs, k, n)] : k \in 1 .. n}

AllCopies(m, x) ==
  {c \in UNION {Copies(Body(m, x)[i]) : i \in DOMAIN Body(m, x)} : IsModule(m, c.def)}

RECURSIVE CopyPaths(_, _, _)
\* Every copy of a module in the hierarchy: <<path, module>>.
CopyPaths(m, x, path) ==
  {<<path, x>>} \union UNION {CopyPaths(m, c.def, path \o c.seg) : c \in AllCopies(m, x)}

HierarchyOf(m) == CopyPaths(m, Root(m), << >>)

Bindings(m, path, c) ==
  {<<<<path, c.ins[k]>>, <<path \o c.seg, m.mods[c.def].args[k]>>>> : k \in DOMAIN c.ins} \union
  {<<<<path \o c.seg, m.mods[c.def].ret[k]>>, <<path, c.outs[k]>>>> : k \in DOMAIN c.outs}

FlatBindings(m) ==
  UNION {UNION {Bindings(m, n[1], c) : c \in AllCopies(m, n[2])} : n \in HierarchyOf(m)}

\* The flow endpoints of every copy, each with its flow value.
Endpoints(m, kind) ==
  UNION {{<<n[1], i, IF kind = "export" THEN Body(m, n[2])[i].outs[1] ELSE Body(m, n[2])[i].ins[1]>> :
            i \in {k \in DOMAIN Body(m, n[2]) : Body(m, n[2])[k].kind = kind}} : n \in HierarchyOf(m)}

Reaches(edges, e, f) == <<f[1], f[3]>> \in ReachFrom(edges, {<<e[1], e[3]>>})

\* Every edge along which a value is passed on in no time: bindings to copies
\* without state below them, and the operands of stateless operations.
Stateless(m, x) ==
  \A n \in CopyPaths(m, x, << >>) :
    \A i \in DOMAIN Body(m, n[2]) : Body(m, n[2])[i].kind \notin Leaves
FlatZeroDelay(m) ==
  UNION {UNION {Bindings(m, n[1], c) : c \in {d \in AllCopies(m, n[2]) : Stateless(m, d.def)}} \union
         UNION {{<<<<n[1], v>>, <<n[1], w>>>> : v \in Range(op.ins), w \in Range(op.outs)} :
                  op \in {o \in Range(Body(m, n[2])) : o.kind = "view"}} : n \in HierarchyOf(m)}

CallEdges(m) == UNION {{<<f, g>> : g \in Range(m.funcs[f].calls)} : f \in DOMAIN m.funcs}

(***************************************************************************)
(* What a process does: the effects of its body, for each value received.   *)
(***************************************************************************)

RECURSIVE RunCode(_, _, _)
\* st: [env, log, input].  A call gives what the body of its function computes.
RunCode(funcs, code, st) ==
  IF code = << >> THEN st
  ELSE LET op == code[1]
           set(v) == [st EXCEPT !.env = (op.outs[1] :> v) @@ @]
           arg(k) == st.env[op.ins[k]]
           branch == IF arg(1) = 1 THEN 1 ELSE 2
           inner  == RunCode(funcs, op.regions[branch], st)
           yield  == op.regions[branch][Len(op.regions[branch])]
           next   ==
             CASE op.kind = "const" -> set(op.attr)
               [] op.kind = "xor" -> set((arg(1) + arg(2)) % 2)
               [] op.kind = "recv" -> [set(st.input) EXCEPT !.log = Append(@, <<"recv", op.attr>>)]
               [] op.kind = "send" -> [st EXCEPT !.log = Append(@, <<"send", op.attr, arg(1)>>)]
               [] op.kind = "trace_open" -> [st EXCEPT !.log = Append(@, <<"open", op.attr>>)]
               [] op.kind = "call" -> [set(funcs[op.attr].result) EXCEPT !.log = Append(@, <<"call", op.attr>>)]
               [] op.kind = "if" -> [inner EXCEPT !.env = IF op.outs = << >> THEN @
                                                          ELSE (op.outs[1] :> inner.env[yield.ins[1]]) @@ @]
               [] OTHER -> st
       IN  RunCode(funcs, Tail(code), next)

EffectsOf(funcs, code) ==
  [in \in {0, 1} |-> RunCode(funcs, code, [env |-> << >>, log |-> << >>, input |-> in]).log]

\* The owners of the elaborated hierarchy with what they are and do when the
\* functions have these bodies.
MeaningWith(funcs, m) ==
  {LET op == Body(m, o.decl[1])[o.decl[2]]
   IN  <<o.path, o.id, op.kind, IF op.kind = "process" THEN EffectsOf(funcs, op.code) ELSE << >> >> :
     o \in Range(Owners(m))} \union {<<m.systems, FlatBindings(m)>>}

(***************************************************************************)
(* Properties.                                                              *)
(***************************************************************************)

TracesOf(m, o) == Range(Body(m, o.decl[1])[o.decl[2]].traces)

(***************************************************************************)
(* The bounds computed on definitions are those of the elaborated           *)
(* hierarchy: a frozen model has at most MaxOwners owners, none deeper than *)
(* MaxDepth, and one process per trace source; a model refused for a bound  *)
(* does exceed it (the memoized, saturating expansion of                    *)
(* verifyGraphStructureImpl against its elaboration).                       *)
(***************************************************************************)
HierarchyBounded ==
  LET owners == Owners(model)
      small  == 1 + Len(owners) <= MaxOwners
      flat   == \A k \in DOMAIN owners : Len(owners[k].path) - 1 <= MaxDepth
  IN  /\ why = "frozen" =>
           /\ small /\ flat
           /\ \A k, l \in DOMAIN owners :
                TracesOf(model, owners[k]) \intersect TracesOf(model, owners[l]) # {} => k = l
      /\ why \in {"depth", "bounds"} => ~ (small /\ flat)

RECURSIVE InstancePaths(_, _, _)
\* The copies that are reached through ac.instance only.
InstancePaths(m, x, path) ==
  {path} \union
  UNION {InstancePaths(m, c.def, path \o c.seg) :
           c \in {d \in UNION {Copies(op) : op \in {o \in Range(Body(m, x)) : o.kind = "instance"}} :
                    IsModule(m, d.def)}}

(***************************************************************************)
(* Flows are linear in the elaborated hierarchy of a frozen model: each     *)
(* copy of an export leads to exactly one copy of an import and each import *)
(* comes from exactly one export.  It holds for the endpoints in copies     *)
(* that are reached through ac.instance, whatever arrays of modules stand   *)
(* beside them; a copy below ac.array or ac.instances is not visited        *)
(* (verifyFlowConnections, ModelAnalysis.cpp:1099-1101), and its flows may  *)
(* dangle although docs/specs/acir-core-v0.2.md:426-429 says "Each resolved *)
(* connection has exactly one export and one import in the selected-root    *)
(* hierarchy" and makes dangling flows errors.                              *)
(***************************************************************************)
FlowsLinear ==
  why = "frozen" =>
    LET edges   == FlatBindings(model)
        exports == Endpoints(model, "export")
        imports == Endpoints(model, "import")
        visited == InstancePaths(model, Root(model), << >>)
    IN  /\ \A e \in exports : e[1] \in visited =>
             Cardinality({f \in imports : Reaches(edges, e, f)}) = 1
        /\ \A f \in imports : f[1] \in visited =>
             Cardinality({e \in exports : Reaches(edges, e, f)}) = 1

(***************************************************************************)
(* Nothing goes round in no time: every zero-delay cycle of a frozen        *)
(* model's elaborated hierarchy passes through a module that holds state    *)
(* (a cycle that crosses module boundaries is found although the check      *)
(* looks at one module at a time), and the functions its processes reach    *)
(* are resolved, free of effects and not recursive.                         *)
(***************************************************************************)
NothingGoesRound ==
  why = "frozen" =>
    /\ LET edges == FlatZeroDelay(model)
       IN  \A e \in edges : ~ OnCycle(edges, e[1])
    /\ \A f \in ReachFrom(CallEdges(model), Range(ProcessCalls(model))) :
         /\ f \in DOMAIN model.funcs
         /\ model.funcs[f].body = "pure"
         /\ ~ OnCycle(CallEdges(model), f)

(***************************************************************************)
(* A model that still verifies after a later pass has the frozen owners,    *)
(* connections and process effects, as long as functions compute what they  *)
(* did: their bodies are in neither the digest nor a skeleton               *)
(* (isProcessSkeletonOperation, ModelAnalysis.cpp:195-198, keeps the call   *)
(* only), and a pass may change them unnoticed.  The freeze never refuses   *)
(* its own result, and a freeze that failed half way leaves nothing that    *)
(* verifies (verifyFrozenIntegrity, buildFrozenProcessSkeleton).            *)
(***************************************************************************)
FrozenEffectsKept ==
  /\ why # "self"
  /\ why = "verified" =>
       evidence.marker /\ MeaningWith(frozen.funcs, model) = MeaningWith(frozen.funcs, frozen)
=============================================================================
