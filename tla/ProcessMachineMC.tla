---------------------------- MODULE ProcessMachineMC ---------------------------
(***************************************************************************)
(* Source processes of up to MaxStatements statements before the final     *)
(* yield: every well-formed combination of the statement templates below.  *)
(* Awaits stand only in the false branch of the attempt on their queue.    *)
(***************************************************************************)
EXTENDS ProcessMachine

CONSTANTS Templates,      \* the statement templates to combine
          MaxStatements

Op == [id |-> "", kind |-> "", queue |-> "", uses |-> <<>>, defs |-> <<>>, value |-> 0,
       cond |-> "", then |-> <<>>, else |-> <<>>, body |-> <<>>, trip |-> 0, iv |-> "",
       lower |-> "", upper |-> "", step |-> "", init |-> <<>>, args |-> <<>>,
       yields |-> <<>>, params |-> <<>>, returns |-> <<>>]

Name(letter, i) == letter \o ToString(i)

Const(id, value, def) ==
  [Op EXCEPT !.id = id, !.kind = "const", !.value = value, !.defs = <<def>>]
Scalar(id, uses, def) ==
  [Op EXCEPT !.id = id, !.kind = "scalar", !.value = 1, !.uses = uses, !.defs = <<def>>]
Invoke(id, queue, uses, defs) ==
  [Op EXCEPT !.id = id, !.kind = "invoke", !.queue = queue, !.uses = uses, !.defs = defs]
Await(id, queue) == [Op EXCEPT !.id = id, !.kind = "await", !.queue = queue]
Wait(id) == [Op EXCEPT !.id = id, !.kind = "wait", !.queue = "resource"]
Until(id, cond) == [Op EXCEPT !.id = id, !.kind = "until", !.uses = <<cond>>]
Yield(id) == [Op EXCEPT !.id = id, !.kind = "yield"]
If(id, cond, then, else) ==
  [Op EXCEPT !.id = id, !.kind = "if", !.cond = cond, !.then = then, !.else = else]
For(id, trip, bounds, iv, init, arg, yielded, def, body) ==
  [Op EXCEPT !.id = id, !.kind = "for", !.trip = trip, !.lower = bounds[1],
             !.upper = bounds[2], !.step = bounds[3], !.iv = iv, !.init = <<init>>,
             !.args = <<arg>>, !.yields = <<yielded>>, !.defs = <<def>>, !.body = body]
\* A function that computes, and one that returns what that one returns.
Calling(id, use, def, param, return, body) ==
  [Op EXCEPT !.id = id, !.kind = "call", !.uses = <<use>>, !.defs = <<def>>,
             !.params = <<param>>, !.returns = <<return>>, !.body = body]
Call(id, use, def) == Calling(id, use, def, "p", "r", <<Scalar("f", <<"p">>, "r")>>)
Nested(id, use, def) == Calling(id, use, def, "np", "nr", <<Call("n", "np", "nr")>>)
Loop(i, trip, val, body) ==
  <<Const(Name("c", i), 0, Name("l", i)),
    Const(Name("d", i), trip, Name("u", i)),
    Const(Name("e", i), 1, Name("t", i)),
    For(Name("s", i), trip, <<Name("l", i), Name("u", i), Name("t", i)>>, Name("i", i),
        val, Name("g", i), Name("y", i), Name("v", i), body)>>
Touch(i) == Invoke(Name("a", i), "q", <<Name("i", i), Name("g", i)>>, <<Name("x", i)>>)
Step(i) == Scalar(Name("b", i), <<Name("g", i), Name("i", i)>>, Name("y", i))

QueueOf(t) == IF t \in {"take", "give"} THEN "packets" ELSE "q"

\* Statement i: v is the position of the value it uses, k of the outcome it
\* tests (0 when the template has none), tried the template that made it.
StatementOps(t, i, v, k, tried) ==
  LET id  == Name("s", i)
      val == Name("v", v)
      out == Name("v", i)
      ok  == Name("k", i)
      tested == Name("k", k)
  IN  CASE t = "recv"  -> <<Invoke(id, "q", <<>>, <<ok, out>>)>>
        [] t = "send"  -> <<Invoke(id, "q", <<val>>, <<ok>>)>>
        [] t = "take"  -> <<Invoke(id, "packets", <<>>, <<ok, Name("m", i)>>)>>
        [] t = "give"  -> <<Invoke(id, "packets", <<Name("m", v)>>, <<ok>>)>>
        [] t = "call"  -> <<Call(id, val, out)>>
        [] t = "twice" -> <<Call(Name("a", i), val, Name("h", i)), Call(id, Name("h", i), out)>>
        [] t = "nest"  -> <<Nested(id, val, out)>>
        [] t = "wait"  -> <<Wait(id)>>
        [] t = "until" -> <<Until(id, tested)>>
        [] t = "retry" -> <<If(id, tested, <<>>, <<Await(Name("a", i), QueueOf(tried))>>)>>
        [] t = "guard" -> <<If(id, tested,
                               <<Invoke(Name("a", i), "q", <<val>>, <<Name("x", i)>>)>>,
                               <<Await(Name("b", i), QueueOf(tried))>>)>>
        [] t = "loop"  -> Loop(i, 2, val, <<Touch(i), Step(i)>>)
        [] t = "long"  -> Loop(i, RawLimits.trips + 1, val, <<Step(i)>>)
        [] t = "pause" -> Loop(i, 2, val, <<Touch(i), Wait(Name("w", i)), Step(i)>>)

UsesValue(t)   == t \in {"send", "call", "twice", "nest", "guard", "loop", "long", "pause"}
TestsOutcome(t) == t \in {"until", "retry", "guard"}
MakesValue(t)  == t \in {"recv", "call", "twice", "nest", "loop", "pause"}
MakesOutcome(t) == t \in {"recv", "send", "take", "give"}

Statement == [t : Templates, v : 0..MaxStatements, k : 0..MaxStatements]

\* The last statement may follow the others.
WellFormed(s) ==
  LET i == Len(s)
      x == s[i]
  IN  /\ CASE UsesValue(x.t) -> x.v \in 1..(i - 1) /\ MakesValue(s[x.v].t)
            [] x.t = "give"   -> x.v \in 1..(i - 1) /\ s[x.v].t = "take"
            [] OTHER          -> x.v = 0
      /\ IF TestsOutcome(x.t)
         THEN x.k \in 1..(i - 1) /\ MakesOutcome(s[x.k].t)
         ELSE x.k = 0

RECURSIVE Statements(_)
Statements(n) ==
  IF n = 0 THEN {<<>>}
  ELSE LET shorter == Statements(n - 1)
       IN  shorter \cup {s \in {Append(r, x) : r \in {q \in shorter : Len(q) = n - 1}, x \in Statement} : WellFormed(s)}

BodyOf(s) ==
  Append(FlattenSeqs([i \in DOMAIN s |->
           StatementOps(s[i].t, i, s[i].v, s[i].k, IF s[i].k = 0 THEN "" ELSE s[s[i].k].t)]),
         Yield("end"))

Bodies == {BodyOf(s) : s \in Statements(MaxStatements)}
SmallLimits == [depth |-> 2, nodes |-> 24, edges |-> 40, trips |-> 2]
PacketNames == {Name("m", i) : i \in 1..MaxStatements}
=============================================================================
