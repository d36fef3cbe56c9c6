------------------------------ MODULE FreezeMC ------------------------------
(***************************************************************************)
(* Small files for the verifier and the freeze, one family per analysis,    *)
(* and the edits a later pass could make.                                   *)
(***************************************************************************)
EXTENDS Freeze

Decl(kind, sym) ==
  [kind |-> kind, sym |-> sym, path |-> sym, id |-> sym, defs |-> << >>, shape |-> << >>,
   ins |-> << >>, outs |-> << >>, traces |-> << >>, calls |-> << >>, queue |-> 0,
   cond |-> "true", code |-> << >>]
Def(d, sym) == [def |-> d, path |-> sym, id |-> sym]
Instance(sym, d, ins, outs) == [Decl("instance", sym) EXCEPT !.defs = <<Def(d, sym)>>, !.ins = ins, !.outs = outs]
Array(sym, d, shape) == [Decl("array", sym) EXCEPT !.defs = <<Def(d, sym)>>, !.shape = shape]
FlowArray(sym, d, shape, ins, outs) == [Array(sym, d, shape) EXCEPT !.ins = ins, !.outs = outs]
Instances(sym, ds) == [Decl("instances", sym) EXCEPT !.defs = [k \in DOMAIN ds |-> Def(ds[k], k)]]
Export(q, v) == [Decl("export", 0) EXCEPT !.queue = q, !.outs = <<v>>]
Import(q, v) == [Decl("import", 0) EXCEPT !.queue = q, !.ins = <<v>>]
View(sym, ins, outs) == [Decl("view", sym) EXCEPT !.ins = ins, !.outs = outs]

Code(kind, attr, ins, outs) ==
  [kind |-> kind, attr |-> attr, ins |-> ins, outs |-> outs, regions |-> << >>, owner |-> NoOwner]
Open(t) == Code("trace_open", t, << >>, << >>)
Main == [Decl("process", 9) EXCEPT !.code = <<Code("recv", 1, << >>, <<"v">>)>>]
Tracer(sym, t) == [Decl("process", sym) EXCEPT !.traces = <<t>>, !.code = <<Open(t)>>]

Module(args, body, ret) == [args |-> args, body |-> body, ret |-> ret]
NoFuncs == [f \in {} |-> 0]
File(mods, funcs) ==
  [systems |-> {[root |-> "R", workload |-> 9, selected |-> TRUE, instrumentation |-> {}]},
   mods |-> mods, externs |-> {"X"}, funcs |-> funcs]
Mods(r, a, b) ==
  [x \in {"R", "A", "B"} |-> CASE x = "R" -> r [] x = "A" -> a [] x = "B" -> b]
Empty == Module(<< >>, << >>, << >>)

SeqsUpTo(S, n) == UNION {[1 .. k -> S] : k \in 0 .. n}

\* Hierarchies: two levels of children below the root.
RootChildren ==
  {Instance(1, "A", << >>, << >>), Instance(2, "B", << >>, << >>), Array(3, "A", <<2>>),
   Array(4, "A", <<1, 2>>), Array(5, "A", <<0>>), Instances(6, <<"A", "B">>),
   Tracer(7, 1), Instance(8, "X", << >>, << >>),
   [Decl("queue", 1) EXCEPT !.id = 2]}
MiddleChildren ==
  {Instance(1, "B", << >>, << >>), Array(2, "B", <<2>>), Instances(3, <<"B">>),
   Decl("queue", 4), Tracer(5, 1), Instance(6, "A", << >>, << >>), Array(7, "B", <<2, 2>>)}
BottomChildren == {<< >>, <<Decl("stat", 1)>>, <<Tracer(2, 1)>>}
Hierarchies ==
  {File(Mods(Module(<< >>, Append(r, Main), << >>), Module(<< >>, a, << >>), Module(<< >>, b, << >>)), NoFuncs) :
     r \in SeqsUpTo(RootChildren, 2), a \in SeqsUpTo(MiddleChildren, 1) \union {<<Decl("queue", 4), Instance(1, "B", << >>, << >>)>>},
     b \in BottomChildren}

\* Flows: any set of endpoints and instances below the root, over three flows.
F(n) == <<"flow", n>>
FlowOps ==
  {Export(1, F(1)), Export(2, F(2)), Import(3, F(1)), Import(4, F(2)), Import(5, F(3)), Import(6, F(4)),
   Instance(1, "A", <<F(1)>>, <<F(3)>>), Instance(2, "A", <<F(3)>>, <<F(4)>>),
   Instance(3, "A", <<F(4)>>, <<F(2)>>), Instance(4, "B", << >>, <<F(1)>>),
   FlowArray(5, "A", <<1>>, <<F(1)>>, <<F(3)>>), FlowArray(6, "B", <<2>>, << >>, <<F(5), F(6)>>)}
Defined(ops) == UNION {Range(op.outs) : op \in ops}
WellFormed(ops) ==
  /\ UNION {Range(op.ins) : op \in ops} \subseteq Defined(ops)
  /\ \A a, b \in ops : a # b => Range(a.outs) \intersect Range(b.outs) = {}
FlowModules ==
  {Module(<<F(1)>>, << >>, <<F(1)>>),
   Module(<<F(1)>>, <<Import(1, F(1)), Export(2, F(2))>>, <<F(2)>>),
   Module(<<F(1)>>, <<Export(2, F(2))>>, <<F(2)>>),
   Module(<<F(1)>>, <<Instance(1, "B", << >>, <<F(2)>>), Import(1, F(1))>>, <<F(2)>>)}
FlowSources == {Module(<< >>, <<Export(1, F(1))>>, <<F(1)>>),
                Module(<< >>, <<Instance(1, "X", << >>, <<F(1)>>)>>, <<F(1)>>)}
Flows ==
  {File(Mods(Module(<< >>, Append(SetToSeq(ops), Main), << >>), a, b), NoFuncs) :
     ops \in {S \in SUBSET FlowOps : Cardinality(S) <= 5 /\ WellFormed(S)}, a \in FlowModules, b \in FlowSources}

\* Wires: cycles through views, copies and state.
W(n) == <<"wire", n>>
WireOps ==
  {View(1, <<W(1)>>, <<W(2)>>), View(2, <<W(2)>>, <<W(1)>>), Instance(3, "A", <<W(2)>>, <<W(3)>>),
   Instance(4, "B", <<W(3)>>, <<W(1)>>), View(5, << >>, <<W(1)>>), View(6, <<W(3)>>, <<W(4)>>),
   Instance(7, "A", <<W(4)>>, <<W(2)>>)}
WireModules ==
  {Module(<<W(1)>>, << >>, <<W(1)>>), Module(<<W(1)>>, <<Decl("stat", 1)>>, <<W(1)>>),
   Module(<<W(1)>>, <<Decl("state_array", 1)>>, <<W(1)>>),
   Module(<<W(1)>>, <<View(1, <<W(1)>>, <<W(2)>>)>>, <<W(2)>>)}
Wires ==
  {File(Mods(Module(<< >>, Append(SetToSeq(ops), Main), << >>), a,
             IF nested THEN Module(<<W(1)>>, <<Instance(1, "A", <<W(1)>>, <<W(2)>>)>>, <<W(2)>>) ELSE a), NoFuncs) :
     ops \in {S \in SUBSET WireOps : Cardinality(S) <= 4 /\ WellFormed(S)}, a \in WireModules,
     nested \in BOOLEAN}

\* Functions: every call graph over three functions, from two calls.
Functions ==
  {File(Mods(Module(<< >>, <<[Main EXCEPT !.calls = c]>>, << >>), Empty, Empty),
        [f \in {1, 2, 3} |-> [body |-> IF f = 3 THEN b ELSE "pure", calls |-> g[f], result |-> 0]]) :
     c \in {<< >>, <<1>>, <<3, 1>>, <<4>>}, b \in {"pure", "effect", "none"},
     g \in [{1, 2, 3} -> {<< >>, <<2>>, <<3>>, <<2, 3>>, <<1>>}]}

\* Systems, contracts and instrumentation.
Plain == File(Mods(Module(<< >>, <<Main, Decl("queue", 1), Decl("stat", 2)>>, << >>), Empty, Empty), NoFuncs)
Probed ==
  {[File(Mods(Module(<< >>, <<Main>> \o r, << >>), Module(<< >>, <<Tracer(3, 1)>>, << >>),
              Module(<< >>, <<[Decl("process", 3) EXCEPT !.code = << >>]>>, << >>)), NoFuncs)
      EXCEPT !.systems = {[root |-> "R", workload |-> 9, selected |-> TRUE, instrumentation |-> {<<"B", 3>>}]}] :
     r \in {<<Instance(1, "B", << >>, << >>)>>, <<Array(1, "B", <<2>>)>>,
            <<Instance(1, "A", << >>, << >>), Instance(2, "B", << >>, << >>)>>}}
Systems ==
  {[Plain EXCEPT !.systems = s] :
     s \in SUBSET {[root |-> r, workload |-> w, selected |-> b, instrumentation |-> {}] :
                     r \in {"R", "A", "X"}, w \in {0, 9}, b \in BOOLEAN}}
SmallSystems == {f \in Systems : Cardinality(f.systems) <= 2}
Contracted ==
  {[Plain EXCEPT !.mods["A"].body = <<[Decl("contract", 0) EXCEPT !.cond = c]>>] : c \in {"true", "false", "unknown"}}

\* Process bodies.
Branch(then, else) == [Code("if", 0, <<"c">>, <<"r">>) EXCEPT !.regions = <<then, else>>]
Yield(v) == Code("yield", 0, <<v>>, << >>)
Prelude == <<Code("recv", 1, << >>, <<"c">>), Code("const", 1, << >>, <<"a">>), Code("const", 0, << >>, <<"b">>)>>
Bodies ==
  {Prelude \o rest : rest \in {
     <<Code("xor", 0, <<"a", "c">>, <<"d">>), Code("send", 1, <<"d">>, << >>)>>,
     <<Branch(<<Code("const", 1, << >>, <<"e">>), Yield("e")>>, <<Yield("b")>>), Code("send", 1, <<"r">>, << >>)>>,
     <<Branch(<<Code("send", 2, <<"a">>, << >>), Yield("a")>>, <<Code("xor", 0, <<"a", "b">>, <<"f">>), Yield("f")>>),
       Code("xor", 0, <<"r", "a">>, <<"d">>)>>,
     <<Open(1), Code("call", 1, << >>, <<"g">>), Code("send", 1, <<"g">>, << >>), Code("xor", 0, <<"a", "b">>, <<"d">>)>>}}
OneFunction == [f \in {1} |-> [body |-> "pure", calls |-> << >>, result |-> 0]]
Written ==
  {File(Mods(Module(<< >>, <<Instance(1, "A", << >>, << >>),
                             [Main EXCEPT !.code = code, !.traces = t, !.calls = <<1>>],
                             Decl("queue", 2)>>, << >>),
             Module(<< >>, <<Decl("stat", 1)>>, << >>), Empty), OneFunction) :
     code \in Bodies, t \in {<<1>>}}

SmallModels ==
  Hierarchies \union Flows \union Wires \union Functions \union Probed \union SmallSystems
    \union Contracted \union Written

(***************************************************************************)
(* What a later pass may do: change one operation of a process, drop or     *)
(* insert one, change one declaration or what a function computes.          *)
(***************************************************************************)
RECURSIVE CodeEdits(_)
CodeEdits(code) ==
  UNION {{[code EXCEPT ![i].attr = a] : a \in {0, 1, 2}} \union
         {[code EXCEPT ![i].ins[k] = v] : k \in DOMAIN code[i].ins, v \in {"a", "b", "c"}} \union
         (IF code[i].outs = << >> \/ code[i].kind = "xor" THEN {RemoveAt(code, i)} ELSE {}) \union
         {[code EXCEPT ![i].regions[r] = e] : r \in DOMAIN code[i].regions, e \in
            UNION {CodeEdits(code[i].regions[s]) : s \in DOMAIN code[i].regions}} :
           i \in DOMAIN code}
  \union {InsertAt(code, i, Code("const", 1, << >>, <<"z">>)) : i \in 1 .. Len(code)}
  \union {[code EXCEPT ![i] = code[i + 1], ![i + 1] = code[i]] : i \in {j \in 1 .. (Len(code) - 1) :
            code[j].kind \in {"send", "trace_open"} /\ code[j + 1].kind \in {"const", "call", "trace_open"}}}

\* Bodies whose values are defined before they are used, and whose regions
\* end in a yield.
RECURSIVE CodeValid(_, _)
CodeValid(code, known) ==
  \A i \in DOMAIN code :
    LET seen == known \union UNION {Range(code[j].outs) : j \in 1 .. (i - 1)}
    IN  /\ Range(code[i].ins) \subseteq seen
        /\ \A r \in DOMAIN code[i].regions :
             /\ CodeValid(code[i].regions[r], seen)
             /\ code[i].regions[r] # << >>
             /\ code[i].regions[r][Len(code[i].regions[r])].kind = "yield"
             /\ \A j \in DOMAIN code[i].regions[r] :
                  code[i].regions[r][j].kind = "yield" => j = Len(code[i].regions[r])

SmallEdits(m) ==
  UNION {{[m EXCEPT !.mods["R"].body[i].code = c] :
            c \in {d \in CodeEdits(m.mods["R"].body[i].code) : CodeValid(d, {})}} :
           i \in {j \in DOMAIN m.mods["R"].body : m.mods["R"].body[j].kind = "process"}}
  \union {[m EXCEPT !.mods["R"].body[i].path = 8] : i \in DOMAIN m.mods["R"].body}
  \union {[m EXCEPT !.mods["R"].body[i].defs = <<Def("B", 1)>>] :
            i \in {j \in DOMAIN m.mods["R"].body : m.mods["R"].body[j].kind = "instance"}}
  \union {[m EXCEPT !.mods["A"].body = << >>]}
  \union {[m EXCEPT !.funcs[f].result = 1] : f \in DOMAIN m.funcs}
=============================================================================
