------------------------------- MODULE PlanSet -------------------------------
(***************************************************************************)
(* The plan set of a frozen model: how buildProduction turns the control   *)
(* plans of the processes into one closed table of generated helpers       *)
(* ("callees"), storage types and process plans, and what                  *)
(* verifyProcessStatePlan demands of a plan set before a report or ACSim   *)
(* is emitted from it.                                                     *)
(*                                                                         *)
(* Ordinals are the code's, from zero, so element i of an array is s[i+1]. *)
(* A definition key, a path or a canonical JSON text is a value compared   *)
(* for equality and order only.  A fingerprint is the text it hashes.      *)
(***************************************************************************)
EXTENDS Integers, Sequences, FiniteSets, SequencesExt

CONSTANTS MaxProcesses, MaxCallees, MaxPcs, MaxSlots, MaxWakes,
          MaxTransitions, MaxActions, MaxFairness

None == -1
At(s, id) == s[id + 1]
InRange(id, s) == id \in 0 .. Len(s) - 1
Each(s, P(_)) == \A i \in DOMAIN s : P(s[i])
SortedSeq(S, Less(_, _)) == SortSeq(FoldSet(LAMBDA x, s : Append(s, x), <<>>, S), Less)
Increasing(s) == \A i \in 1 .. Len(s) - 1 : s[i] < s[i + 1]

(***************************************************************************)
(* Type keys, helper roles and their signatures.                           *)
(***************************************************************************)
Types == <<"i1", "i32", "i64", "index", "record">>
TypeKey(t) == <<"mlir", t>>
StorageKey(t) == <<"storage", t>>
WakeKey(kind) == <<"wake", kind>>
QueueRef == <<"queue-ref", "queue">>
EventRef == <<"event-queue-ref", "event">>
StateRef == <<"state-array-ref", "state">>
AnyKey == <<"any", "">>
BadKey == <<"mlir:", "!acsim.wake">>

WakeKinds == {"Condition", "Resource", "EventQueue", "NextDelta",
              "QueueReadable", "QueueWritable"}
QueueWakes == {"QueueReadable", "QueueWritable", "EventQueue"}

\* ProcessHelperRole, in the order of its enumerators.
Roles ==
    <<"RecordCreate", "RecordGet", "RecordWith", "PacketSerialize",
      "PacketDeserialize", "TraceDecode", "QueueTrySend", "QueueTryRecv",
      "QueuePeek", "QueueSpace", "EventSchedule", "EventTryRecv",
      "TraceOpen", "TraceNext", "TraceEof", "TracePosition",
      "ContractRequire", "ContractEnsure", "ContractAssert", "Probe",
      "StatAdd", "WakeCondition", "WakeResource", "WakeEventQueue",
      "WakeNextDelta", "ScalarWrap", "ScalarUnwrap", "WakeQueueReadable",
      "WakeQueueWritable", "QueueTryTransfer", "ArbitrateRoundRobin",
      "StateRead", "StateWrite">>
RoleIndex(role) == CHOOSE i \in DOMAIN Roles : Roles[i] = role
RolesUpTo(role) == {Roles[i] : i \in 1 .. RoleIndex(role)}
WakeRole(kind) ==
    CASE kind = "Condition" -> "WakeCondition"
      [] kind = "Resource" -> "WakeResource"
      [] kind = "EventQueue" -> "WakeEventQueue"
      [] kind = "NextDelta" -> "WakeNextDelta"
      [] kind = "QueueReadable" -> "WakeQueueReadable"
      [] kind = "QueueWritable" -> "WakeQueueWritable"
WakeInputs(kind) ==
    IF kind \notin QueueWakes THEN <<>>
    ELSE IF kind = "EventQueue" THEN <<EventRef>> ELSE <<QueueRef>>

\* Which arm of the payload variant a role fills; the state-array and the
\* queue-wake roles borrow the arm of another role.
PayloadArm(role) ==
    CASE role = "StateRead" -> "QueuePeek"
      [] role = "StateWrite" -> "QueueTrySend"
      [] role \in {"WakeQueueReadable", "WakeQueueWritable"} ->
             "WakeEventQueue"
      [] OTHER -> role

RoleEffect(role) ==
    IF \/ role \in RolesUpTo("TraceDecode")
       \/ role \in {"ScalarWrap", "ScalarUnwrap", "ArbitrateRoundRobin"}
    THEN "pure" ELSE "stateful"

OwnsDeclaration(role) ==
    \/ role \in RolesUpTo("PacketDeserialize")
    \/ role \in {"QueueTrySend", "QueueTryRecv", "QueueTryTransfer",
                 "QueuePeek", "QueueSpace", "EventSchedule",
                 "EventTryRecv", "StateRead", "StateWrite", "Probe",
                 "StatAdd"}

\* The types a helper takes and returns, from the detail of its payload:
\* [type, value, count, field, fields]; AnyKey where none is demanded.
Sig(inputs, results) == [inputs |-> inputs, results |-> results]
Signature(role, d) ==
    LET T == TypeKey(d.type)
        V == TypeKey(d.value)
        Bit == TypeKey("i1")
        Word == TypeKey("i32")
        Ports == [i \in 1 .. d.count + 1 |->
                      IF i <= d.count THEN Bit ELSE Word] IN
    CASE role = "RecordCreate" ->
             Sig([i \in DOMAIN d.fields |-> TypeKey(d.fields[i][2])], <<T>>)
      [] role = "RecordGet" -> Sig(<<T>>, <<V>>)
      [] role = "RecordWith" -> Sig(<<T, V>>, <<T>>)
      [] role = "PacketSerialize" -> Sig(<<T>>, <<AnyKey>>)
      [] role = "PacketDeserialize" -> Sig(<<AnyKey>>, <<T>>)
      [] role = "TraceDecode" -> Sig(<<T>>, <<V>>)
      [] role = "ArbitrateRoundRobin" -> Sig(Ports, Ports)
      [] role = "QueueTrySend" -> Sig(<<QueueRef, T>>, <<AnyKey>>)
      [] role = "QueueTryRecv" -> Sig(<<QueueRef>>, <<T, AnyKey>>)
      [] role = "QueueTryTransfer" ->
             Sig(<<<<"queue-ref", "source">>,
                   <<"queue-ref", "destination">>, Bit>>, <<Bit>>)
      [] role = "QueuePeek" -> Sig(<<QueueRef>>, <<T, Bit>>)
      [] role = "QueueSpace" -> Sig(<<QueueRef>>, <<Word>>)
      [] role = "StateRead" -> Sig(<<StateRef, Word, Word>>, <<T>>)
      [] role = "StateWrite" -> Sig(<<StateRef, Word, T, Bit, Word>>, <<>>)
      [] role = "EventSchedule" -> Sig(<<EventRef, T, TypeKey("i64")>>,
                                       <<Bit>>)
      [] role = "EventTryRecv" -> Sig(<<EventRef>>, <<T, Bit>>)
      [] role = "TraceOpen" -> Sig(<<>>, <<AnyKey>>)
      [] role = "TraceNext" -> Sig(<<AnyKey>>, <<AnyKey, T, AnyKey>>)
      [] role \in {"TraceEof", "TracePosition"} -> Sig(<<AnyKey>>, <<AnyKey>>)
      [] role \in {"ContractRequire", "ContractEnsure", "ContractAssert"} ->
             Sig(<<AnyKey>>, <<>>)
      [] role = "Probe" -> Sig(<<>>, <<V>>)
      [] role = "StatAdd" -> Sig(<<T>>, <<>>)
      [] role = "ScalarWrap" -> Sig(<<T>>, <<StorageKey(d.type)>>)
      [] role = "ScalarUnwrap" -> Sig(<<StorageKey(d.type)>>, <<T>>)
      [] OTHER -> LET kind == CHOOSE k \in WakeKinds : WakeRole(k) = role
                  IN  Sig(WakeInputs(kind), <<WakeKey(kind)>>)
Fits(keys, pattern) ==
    /\ Len(keys) = Len(pattern)
    /\ \A i \in DOMAIN keys : pattern[i] \in {AnyKey, keys[i]}
ValidTypeKey(key) ==
    key[1] \in {"mlir", "queue-ref", "event-queue-ref", "state-array-ref",
                "storage", "wake"}

(***************************************************************************)
(* The callee table.  An operation is [op, type, value, count, field,      *)
(* fields, decls, path]; NoOp is the null operation.                       *)
(***************************************************************************)
NoOp == [op |-> "none", type |-> "", value |-> "", count |-> 0, field |-> "",
         fields |-> <<>>, decls |-> {}, path |-> 0]
QueueOps ==
    [send |-> "QueueTrySend", recv |-> "QueueTryRecv",
     transfer |-> "QueueTryTransfer", peek |-> "QueuePeek",
     space |-> "QueueSpace", schedule |-> "EventSchedule",
     event |-> "EventTryRecv", read |-> "StateRead", write |-> "StateWrite"]
RecordOps ==
    [create |-> "RecordCreate", get |-> "RecordGet", with |-> "RecordWith",
     serialize |-> "PacketSerialize", deserialize |-> "PacketDeserialize"]
HelperRole(op) ==
    CASE op.op \in DOMAIN QueueOps -> QueueOps[op.op]
      [] op.op \in DOMAIN RecordOps -> RecordOps[op.op]
      [] op.op = "arbitrate" -> "ArbitrateRoundRobin"
      [] op.op = "assert" -> "ContractAssert"
      [] OTHER -> ""

\* Operations with the same key share one helper: queue and state-array
\* operations by element type, arbiters by candidate count, record
\* operations by operand and result types and field, asserts by message.
Blank == [type |-> "", value |-> "", count |-> 0, field |-> "", fields |-> <<>>]
HelperDetail(op) ==
    CASE op.op = "space" -> Blank
      [] op.op = "arbitrate" -> [Blank EXCEPT !.count = op.count]
      [] op.op = "assert" -> [Blank EXCEPT !.field = op.field]
      [] op.op \in DOMAIN RecordOps ->
             [type |-> op.type, value |-> op.value, count |-> 0,
              field |-> op.field, fields |-> op.fields]
      [] OTHER -> [Blank EXCEPT !.type = op.type]

\* canonicalGeneratedCalleeSpecialization: every field of the descriptor;
\* tail stands for bytes that are no part of it.
Specialization(c) ==
    [role |-> c.role, effect |-> c.effect, inputs |-> c.inputs,
     results |-> c.results, detail |-> c.detail, paths |-> c.paths, tail |-> 0]
\* The order of two specializations as texts (any total order that tells the
\* keys of the table apart serves).
TypeIndex(t) == IF t = "" THEN 0 ELSE CHOOSE i \in DOMAIN Types : Types[i] = t
Fields == <<"f", "g">>
FieldIndex(f) == IF f = "" THEN 0 ELSE CHOOSE i \in DOMAIN Fields : Fields[i] = f
SpecRank(s) ==
    ((((RoleIndex(s.role) * 8 + TypeIndex(s.detail.type)) * 4
        + s.detail.count) * 4 + FieldIndex(s.detail.field)) * 2) + s.tail

Callee(role, d, inputs, results, ops) ==
    LET c == [id |-> None, role |-> role, effect |-> RoleEffect(role),
              kind |-> "implementation", inputs |-> inputs,
              results |-> results, arms |-> {PayloadArm(role)}, detail |-> d,
              paths |-> SortedSeq({op.path : op \in ops}, <),
              sources |-> ops, decls |-> UNION {op.decls : op \in ops}]
    IN  c @@ [spec |-> Specialization(c), print |-> Specialization(c)]

\* A pattern position nothing demands is given the key the builder writes.
Concrete(keys, key) == [i \in DOMAIN keys |->
                            IF keys[i] = AnyKey THEN key ELSE keys[i]]
ItemActions(items) ==
    UNION {UNION {Range(b.actions) : b \in Range(item.blocks)} :
               item \in Range(items)}
HelperCallees(items, names) ==
    LET ops == {a.source : a \in {x \in ItemActions(items) : x.source.op \in names}}
        Key(op) == <<HelperRole(op), HelperDetail(op)>>
        Free(key) == IF key[1] \in {"PacketSerialize", "PacketDeserialize"}
                     THEN TypeKey(key[2].value) ELSE TypeKey("i1")
    IN  {LET sig == Signature(key[1], key[2]) IN
         Callee(key[1], key[2], Concrete(sig.inputs, Free(key)),
                Concrete(sig.results, Free(key)), {op \in ops : Key(op) = key}) :
             key \in {Key(op) : op \in ops}}
QueueCallees(items) == HelperCallees(items, DOMAIN QueueOps)
ArbiterCallees(items) == HelperCallees(items, {"arbitrate"})
RecordCallees(items) == HelperCallees(items, DOMAIN RecordOps)
AssertCallees(items) == HelperCallees(items, {"assert"})
\* Only the helpers of queue and event wakes name their operations.
WakeCallees(items) ==
    LET wakes == UNION {Range(item.wakes) : item \in Range(items)} IN
    {Callee(WakeRole(kind), Blank, WakeInputs(kind), <<WakeKey(kind)>>,
            IF kind \in QueueWakes
            THEN {[w.op EXCEPT !.decls = {}] :
                      w \in {x \in wakes : x.kind = kind}}
            ELSE {}) :
         kind \in {w.kind : w \in wakes}}
SlotTypes(items) ==
    UNION {{s.type : s \in Range(item.slots)} : item \in Range(items)}
ScalarCallees(items) ==
    {LET d == [Blank EXCEPT !.type = t] IN
     Callee(role, d, Signature(role, d).inputs, Signature(role, d).results, {}) :
         t \in SlotTypes(items), role \in {"ScalarWrap", "ScalarUnwrap"}}
Callees(items) ==
    LET sorted == SortedSeq(WakeCallees(items) \cup QueueCallees(items)
                                \cup ArbiterCallees(items) \cup RecordCallees(items)
                                \cup AssertCallees(items) \cup ScalarCallees(items),
                            LAMBDA a, b : SpecRank(a.spec) < SpecRank(b.spec))
    IN  [i \in DOMAIN sorted |-> [sorted[i] EXCEPT !.id = i - 1]]

ScalarTypes == {"i1", "i32", "i64", "index"}
TypeWidth(t) == CASE t = "i1" -> 1 [] t = "i32" -> 32 [] OTHER -> 64
ValueType(t) ==
    [id |-> None, kind |-> "value", type |-> t, arms |-> {"value"},
     width |-> TypeWidth(t), members |-> <<>>, spec |-> <<"value", t>>,
     print |-> <<"value", t>>, cpp |-> "scalar"]
ValueTypes(items) ==
    LET sorted == SortedSeq({ValueType(t) : t \in SlotTypes(items)},
                               LAMBDA a, b : TypeIndex(a.type) < TypeIndex(b.type))
    IN  [i \in DOMAIN sorted |-> [sorted[i] EXCEPT !.id = i - 1]]

(***************************************************************************)
(* The process plans: every reference to a helper or a storage type is     *)
(* resolved to its ordinal.                                                *)
(***************************************************************************)
FirstId(callees, P(_)) ==
    LET ids == {i \in DOMAIN callees : P(callees[i])}
    IN  IF ids = {} THEN None
        ELSE (CHOOSE i \in ids : \A j \in ids : i <= j) - 1
WakeCallee(callees, kind) ==
    FirstId(callees, LAMBDA c : /\ c.role = WakeRole(kind)
                                /\ c.inputs = WakeInputs(kind))
SlotCallee(callees, type, role) ==
    LET sig == Signature(role, [Blank EXCEPT !.type = type]) IN
    FirstId(callees, LAMBDA c : /\ c.role = role
                                /\ Head(c.inputs) = Head(sig.inputs)
                                /\ Head(c.results) = Head(sig.results))
ActionCalleeByRole(callees, op) ==
    FirstId(callees, LAMBDA c : c.role = HelperRole(op))
\* Queue helpers are found by the shape of their signature, arbiters by
\* their candidate count, record and assert helpers by their operations.
ActionCallee(callees, op) ==
    LET role == HelperRole(op)
        sig == Signature(role, HelperDetail(op)) IN
    FirstId(callees,
            LAMBDA c :
                /\ c.role = role
                /\ CASE op.op = "arbitrate" -> c.detail.count = op.count
                     [] op.op = "transfer" -> /\ c.inputs = sig.inputs
                                              /\ c.detail.type = op.type
                     [] op.op \in DOMAIN RecordOps \/ op.op = "assert" ->
                            op \in c.sources
                     [] OTHER -> /\ Fits(c.inputs, sig.inputs)
                                 /\ Fits(c.results, sig.results))

BuildSlot(slot, callees, types) ==
    [slot EXCEPT
       !.storage = FirstId(types, LAMBDA t : t.type = slot.type),
       !.wrap = SlotCallee(callees, slot.type, "ScalarWrap"),
       !.unwrap = SlotCallee(callees, slot.type, "ScalarUnwrap")]
BuildAction(action, slots, callees) ==
    [action EXCEPT
       !.callee =
           IF HelperRole(action.source) # ""
           THEN ActionCallee(callees, action.source)
           ELSE CASE action.kind = "ScalarWrap" ->
                         At(slots, action.occurrence.slot).wrap
                  [] action.kind = "ScalarUnwrap" ->
                         At(slots, action.occurrence.slot).unwrap
                  [] OTHER -> action.callee]
PcWidth(n) == CHOOSE w \in 1 .. 32 :
                  /\ n <= 2 ^ w
                  /\ w = 1 \/ n > 2 ^ (w - 1)
BuildProcess(item, callees, types) ==
    LET slots == [i \in DOMAIN item.slots |->
                      BuildSlot(item.slots[i], callees, types)] IN
    [key |-> item.key, process |-> item.process, entry |-> 0,
     pcs |-> item.pcs,
     blocks |-> [i \in DOMAIN item.blocks |->
                    [item.blocks[i] EXCEPT
                       !.actions = [j \in DOMAIN @ |->
                                       BuildAction(@[j], slots, callees)]]],
     wakes |-> [i \in DOMAIN item.wakes |->
                   [item.wakes[i] EXCEPT
                      !.callee = WakeCallee(callees, item.wakes[i].kind)]],
     transitions |-> item.transitions, slots |-> slots,
     captures |-> [i \in DOMAIN item.captures |->
                      [id |-> i - 1, type |-> item.captures[i]]],
     width |-> PcWidth(Len(item.pcs)), fairness |-> item.fairness,
     loops |-> item.loops]
Build(items) ==
    LET sorted == SortSeq(items, LAMBDA a, b : a.key < b.key)
        callees == Callees(items)
        types == ValueTypes(items) IN
    [processes |-> [i \in DOMAIN sorted |->
                       BuildProcess(sorted[i], callees, types)],
     callees |-> callees, types |-> types]
\* buildProduction gives up before it builds.
Buildable(model) ==
    /\ model.frozen
    /\ Len(model.items) \in 1 .. MaxProcesses
    /\ \A a \in ItemActions(model.items) :
           a.source.op \in DOMAIN RecordOps => a.source.decls # {}
=============================================================================
