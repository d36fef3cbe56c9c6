------------------------------ MODULE BindingsMC ------------------------------
(***************************************************************************)
(* Small registries: candidates one or two fields away from the record a   *)
(* request asks for, in one or two bindings.                               *)
(***************************************************************************)
EXTENDS Bindings

Seal(r) == Content(r) @@ [print |-> Content(r)]
Parameter == [shape |-> "exact", name |-> "w", ordinal |-> 0, type |-> "i64",
              value |-> 4, mapping |-> "template_argument"]
Port == [shape |-> "exact", accessor |-> "in", cardinality |-> "exclusive",
         direction |-> "input", ownership |-> "owned", protocol |-> "rv"]
Memory == [shape |-> "exact", accessor |-> "mem", mode |-> "target",
           ownership |-> "borrowed", resource |-> "ram"]
Out == [shape |-> "exact", name |-> "o", cpp |-> "int"]
Wake == [shape |-> "exact", kind |-> "queue", name |-> "q"]
Base(b, n) ==
    [shape |-> "exact", schema |-> "acsim-binding-0.2", epoch |-> "0.2",
     availability |-> "available", binding |-> b, component |-> "alu",
     provider |-> "lib", effect |-> "stateful", entries |-> {"work", "xfer"},
     construction |-> "constructor", ownership |-> <<"unique", "member_or_array">>,
     parameters |-> <<Parameter>>, ports |-> <<Port>>, resources |-> <<Memory>>,
     results |-> <<Out>>, activations |-> <<Wake>>, text |-> n]
Pure(r) == [r EXCEPT !.effect = "pure", !.entries = {"pure"},
                     !.ownership = <<"none", "inline">>, !.activations = <<>>]
Variants(b) ==
    LET r(n) == Base(b, n) IN
    {r(1), [r(2) EXCEPT !.component = "fpu"], [r(3) EXCEPT !.provider = "other"],
     [r(4) EXCEPT !.parameters[1].value = 5], [r(5) EXCEPT !.ports[1].protocol = "rr"],
     [r(6) EXCEPT !.results = <<>>], Pure(r(7)), [r(8) EXCEPT !.entries = @ \cup {"reset"}]}
Broken(b) ==
    LET r(n) == Base(b, n) IN
    {[r(10) EXCEPT !.entries = {"work"}], [Pure(r(11)) EXCEPT !.activations = <<Wake>>],
     [r(12) EXCEPT !.parameters = <<Parameter, Parameter>>],
     [r(13) EXCEPT !.ports = <<Port, Port>>], [r(14) EXCEPT !.resources[1].mode = "both"],
     [r(15) EXCEPT !.shape = "other"], [r(16) EXCEPT !.ownership = <<"none", "inline">>]}
Offer(r, profile, available) ==
    [shape |-> "exact", profile |-> profile, target |-> "x86",
     available |-> available, record |-> Seal(r)]
Tampered(c) == [c EXCEPT !.record.provider = "liar"]

Request(b, key, rank) ==
    [shape |-> "exact", key |-> key, rank |-> rank, type |-> "t", binding |-> b,
     schema |-> "acsim-binding-0.2", epoch |-> "0.2", component |-> "alu",
     effect |-> "stateful", provider |-> "lib", parameters |-> <<Parameter>>,
     ports |-> <<Port>>, resources |-> <<Memory>>,
     results |-> <<[shape |-> "exact", name |-> "o", type |-> "i32"]>>,
     activations |-> <<Wake>>]
Extern(b, key) ==
    [key |-> key, binding |-> b, type |-> "t", results |-> <<"i32">>,
     static |-> [n \in {"w"} |-> <<"i64", 4>>]]

Offers(b) ==
    {Offer(r, "release", a) : r \in Variants(b), a \in BOOLEAN}
    \cup {Offer(Base(b, 1), "debug", TRUE)}
One == <<Request("b1", "k1", 1)>>
Two == <<Request("b2", "k2", 2), Request("b1", "k1", 1)>>
Shared == <<Request("b1", "k2", 2), Request("b1", "k1", 1)>>
OddRequests ==
    {<<>>, <<[One[1] EXCEPT !.epoch = "0.1"]>>, <<[One[1] EXCEPT !.key = "k9"]>>,
     <<One[1], One[1]>>, <<[One[1] EXCEPT !.parameters = <<>>]>>,
     <<[One[1] EXCEPT !.results[1].type = "i8"]>>, <<[One[1] EXCEPT !.shape = "other"]>>,
     <<[One[1] EXCEPT !.results = @ \o @]>>, <<[One[1] EXCEPT !.binding = "b2"]>>}
Reg(cs, qs) == [candidates |-> cs, requests |-> qs]
SmallRegistries ==
    {Reg(<<a, b>>, One) : a \in Offers("b1"), b \in Offers("b1")}
    \cup {Reg(<<a, b, Offer(Base("b2", 20), "release", TRUE)>>, q) :
             a \in Offers("b1"), b \in {Offer(Base("b1", 1), "release", TRUE),
                                        Tampered(Offer(Base("b1", 1), "release", TRUE))},
             q \in {Two, Shared}}
    \cup {Reg(<<Offer(r, "release", TRUE)>>, One) : r \in Broken("b1")}
    \cup {Reg(<<Offer(Base("b1", 1), "release", TRUE)>>, q) : q \in OddRequests}
SmallModules ==
    {[frozen |-> TRUE, sound |-> TRUE, externs |-> <<Extern("b1", "k1")>>],
     [frozen |-> TRUE, sound |-> TRUE,
      externs |-> <<Extern("b1", "k1"), Extern("b2", "k2")>>],
     [frozen |-> TRUE, sound |-> TRUE,
      externs |-> <<Extern("b1", "k1"), Extern("b1", "k2")>>]}
Released(fails) == [profile |-> "release", target |-> "x86", fails |-> fails]
SmallSelections == {Released(TRUE), [Released(FALSE) EXCEPT !.profile = "debug"]}
=============================================================================
