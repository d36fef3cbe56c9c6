---------------------------- MODULE ContractsMC ----------------------------
(***************************************************************************)
(* Small files: every protocol of up to three transitions over three       *)
(* states, every scope of two declarations with two fields, every          *)
(* record program of up to MaxOperations operations on a packet, and the   *)
(* interfaces over two roles.  One part varies at a time.                  *)
(***************************************************************************)
EXTENDS Contracts

CONSTANT MaxOperations    \* of a program, after the three that make a packet

Actions == <<"offer", "accept", "retry", "cancel", "response">>

I16 == TypeOf(<<>>, "int", "i16")
IntOf(size) == IF size = 2 THEN I16 ELSE TypeOf(<<>>, "int", "i8")
Field(name, type, max, size) ==
  [name |-> name, type |-> type, max |-> max, size |-> size, align |-> size]
Declaration(kind, fs, size, align, width, big) ==
  [kind |-> kind, fields |-> fs, layout |-> TRUE, size |-> size, align |-> align,
   width |-> width, big |-> big, enumerants |-> <<>>, discriminator |-> "a"]
PacketP == TypeOf(<<>>, "packet", "P")

\* A packet with two integer fields of these sizes.
Layout(sizes, size, align, width, big) ==
  Declaration("packet", <<Field("a", IntOf(sizes[1]), 0, sizes[1]),
                          Field("b", IntOf(sizes[2]), 0, sizes[2])>>, size, align, width, big)
Scope == [n \in {"P"} |-> Layout(<<2, 2>>, 4, 2, 4, TRUE)]

Roles == [r \in {"x", "y"} |-> [cardinality |-> "exclusive",
                                dual |-> IF r = "x" THEN "y" ELSE "x"]]
Event(action) ==
  [name |-> action, action |-> action, from |-> IF action = "offer" THEN "x" ELSE "y",
   to |-> IF action = "offer" THEN "y" ELSE "x", payload |-> PacketP]
Protocol(transitions, guarantees) ==
  [roles |-> Roles, events |-> {Event(Actions[i]) : i \in DOMAIN Actions},
   states |-> {[name |-> "s1", initial |-> TRUE, terminal |-> FALSE],
               [name |-> "s2", initial |-> FALSE, terminal |-> FALSE],
               [name |-> "s3", initial |-> FALSE, terminal |-> TRUE]},
   transitions |-> transitions, guarantees |-> guarantees]
Stable == [k \in {"stable_pending"} |-> TRUE]

\* The transitions, numbered: source, event, target and flag of number n.
Digit(n, unit, digits) == digits[((n \div unit) % Len(digits)) + 1]
Flags == <<"none", "transfer", "retain">>
Targets == <<"s1", "s2", "s3">>
Transition(n) ==
  LET source == Digit(n, 1, <<"s1", "s2">>)
      flag   == Digit(n, 6, Flags)
  IN  [source |-> source, event |-> Digit(n, 18, Actions), target |-> Digit(n, 2, Targets),
       transfer |-> flag = "transfer", retain |-> flag = "retain",
       priority |-> IF source = "s2" THEN 0 ELSE 1 + ((n \div 2) % 3)]
Numbers == 0..(18 * Len(Actions) - 1)

GuaranteeSets ==
  {[k \in {"stable_pending"} |-> FALSE],
   Stable @@ [k \in {"completion"} |-> "on_accept"],
   Stable @@ [k \in {"completion"} |-> "on_terminal_phase"],
   Stable @@ [k \in {"completion", "correlation"} |->
                IF k = "completion" THEN "on_response" ELSE "b"],
   Stable @@ [k \in {"max_inflight"} |-> 2],
   Stable @@ [k \in {"backpressure"} |-> "custom"],
   Stable @@ [k \in {"ordering"} |-> "per_key"],
   Stable @@ [k \in {"latency"} |-> "short"]}

NoInterface == [roles |-> Roles, ports |-> {}]
SmallFile(scope, program, interface, protocol) ==
  [scope |-> scope, program |-> program, interface |-> interface, protocol |-> protocol]

\* Protocols of two transitions, and of three of which one is an offer.
StartWithProtocol ==
  \E i, j \in Numbers : i <= j /\
    \/ \E k \in {n \in Numbers : n >= j /\ Transition(i).event = "offer"} :
         StartWith(SmallFile(Scope, <<>>, NoInterface,
                             Protocol({Transition(i), Transition(j), Transition(k)}, Stable)))
    \/ \E g \in GuaranteeSets :
         StartWith(SmallFile(Scope, <<>>, NoInterface,
                             Protocol({Transition(i), Transition(j)}, g)))

Plain == Protocol({}, Stable)

\* Scopes of two declarations that refer to each other in every way.
FieldTypes == {I16, TypeOf(<<>>, "token", ""), TypeOf(<<>>, "struct", "S"),
               TypeOf(<<"optional">>, "union", "T"), TypeOf(<<"list">>, "union", "T"),
               TypeOf(<<"vector">>, "struct", "S"), TypeOf(<<>>, "packet", "S")}
Fields == {<<Field("a", t, 0, 2)>> : t \in FieldTypes}
          \cup {<<Field("a", I16, 0, 2), Field("b", t, m, 2)>> :
                  t \in FieldTypes, m \in {0, 4}}
ScopeFiles ==
  {SmallFile(Scope @@ [n \in {"S", "T"} |->
               IF n = "S" THEN Declaration("struct", s, 4, 2, 4, FALSE)
               ELSE Declaration("union", t, 4, 2, 4, FALSE)],
             <<>>, NoInterface, Plain) : s \in Fields, t \in Fields}

\* Record programs on a packet that they create or take from a queue, with
\* padding inside or at the end, and with declared layouts that are wrong.
Layouts ==
  {Layout(sizes, 4, 2, 4, big) : sizes \in {<<1, 2>>, <<2, 1>>, <<2, 2>>}, big \in BOOLEAN}
  \cup {Layout(<<1, 2>>, 3, 2, 3, FALSE), Layout(<<2, 2>>, 4, 1, 4, TRUE),
        Layout(<<2, 2>>, 4, 2, 5, FALSE)}

Operation(kind, type, values, names, field, value) ==
  [kind |-> kind, type |-> type, values |-> values, names |-> names, field |-> field,
   packet |-> "P", value |-> value]
Prelude(layout, taken) ==
  LET size(i) == layout.fields[i].size
  IN  <<Operation("constant", IntOf(size(1)), <<>>, <<>>, "", SubSeq(<<1, 0>>, 1, size(1))),
        Operation("constant", IntOf(size(2)), <<>>, <<>>, "", SubSeq(<<2, 3>>, 1, size(2))),
        IF taken THEN Operation("constant", PacketP, <<>>, <<>>, "", <<4, 5, 6, 7>>)
        ELSE Operation("create", PacketP, <<1, 2>>, <<"a", "b">>, "", <<>>)>>
Steps(n) ==
  {Operation("with", PacketP, <<p, v>>, <<>>, f, <<>>) : p \in 3..n, v \in 1..n, f \in {"a", "b"}}
  \cup {Operation("get", IntOf(w), <<p>>, <<>>, f, <<>>) :
          w \in 1..2, p \in 3..n, f \in {"a", "b", "c"}}
  \cup {Operation("serialize", Bytes(w), <<p>>, <<>>, "", <<>>) : p \in 3..n, w \in {4, 5}}
  \cup {Operation("deserialize", PacketP, <<p>>, <<>>, "", <<>>) : p \in 3..n}
RECURSIVE Continuations(_)
Continuations(n) ==
  IF n = 0 THEN {<<>>}
  ELSE LET shorter == Continuations(n - 1)
       IN  shorter \cup {Append(c, s) : <<c, s>> \in
             UNION {{d} \X Steps(Len(d) + 3) : d \in {e \in shorter : Len(e) = n - 1}}}
Port == [from : {"x", "y"}, to : {"x", "y"}, payload : {I16, PacketP},
         protocolFrom : {"x", "y", "z"}, protocolTo : {"x", "y"}]
InterfaceFiles ==
  {SmallFile(Scope, <<>>,
             [roles |-> [r \in {"x", "y"} |-> [Roles[r] EXCEPT !.cardinality = c]],
              ports |-> {p}], Plain) : p \in Port, c \in {"exclusive", "shared", "many"}}

Init ==
  \/ StartWithProtocol
  \/ \E f \in ScopeFiles \cup InterfaceFiles : StartWith(f)
  \/ \E rest \in Continuations(MaxOperations), layout \in Layouts, taken \in BOOLEAN :
       StartWith(SmallFile([n \in {"P"} |-> layout], Prelude(layout, taken) \o rest,
                           NoInterface, Plain))

Spec == Init /\ [][Next]_vars
=============================================================================
