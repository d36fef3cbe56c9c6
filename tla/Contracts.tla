----------------------------- MODULE Contracts -----------------------------
(***************************************************************************)
(* The declarations of an ACIR file: data types with their record          *)
(* programs, interfaces and protocols.  The verifiers of ACIROps.cpp       *)
(* accept or reject the file; what an accepted file declares is then       *)
(* executed: the protocol as a state machine over offered packets, the     *)
(* record program on packet bytes (gfsim/packet.h).                        *)
(***************************************************************************)
EXTENDS Records

CONSTANT MaxOffers     \* offers followed in the execution of a protocol

VARIABLES file,     \* [scope, program, interface, protocol]
          verdict,  \* "unread", "accepted" or "rejected"
          at,       \* the protocol's state
          pending,  \* an offer waits for its resolution
          account,  \* packets offered, transferred and withdrawn
          packed,   \* values of the record program as bytes
          fields    \* the same values as the source defines them

vars == <<file, verdict, at, pending, account, packed, fields>>

(***************************************************************************)
(* Roles and interfaces.                                                   *)
(***************************************************************************)
\* roles: name to [cardinality, dual].
VerifyRoleContainer(roles) ==
  \A r \in DOMAIN roles :
    /\ roles[r].cardinality \in {"exclusive", "shared"}
    /\ roles[r].dual \in DOMAIN roles
    /\ roles[r].dual # r
    /\ roles[roles[r].dual].dual = r
    /\ roles[roles[r].dual].cardinality = roles[r].cardinality

IsCarrierAction(action) == action \in {"offer", "response", "notify"}

MatchesCarrierEvent(protocol, payload, from, to) ==
  \E e \in protocol.events :
    IsCarrierAction(e.action) /\ e.payload = payload /\ e.from = from /\ e.to = to

IsProtocolPayloadType(type) == IsNormativeValueType(type)

VerifyPort(scope, interface, protocol, port) ==
  LET roles == interface.roles
      mapped == protocol.roles
  IN  /\ {port.from, port.to} \subseteq DOMAIN roles
      /\ port.from # port.to
      /\ roles[port.from].dual = port.to
      /\ IsProtocolPayloadType(port.payload)
      /\ VerifyNamedTypes(scope, port.payload)
      /\ {port.protocolFrom, port.protocolTo} \subseteq DOMAIN mapped
      /\ mapped[port.protocolFrom].dual = port.protocolTo
      /\ mapped[port.protocolTo].dual = port.protocolFrom
      /\ roles[port.from].cardinality = mapped[port.protocolFrom].cardinality
      /\ roles[port.to].cardinality = mapped[port.protocolTo].cardinality
      /\ MatchesCarrierEvent(protocol, port.payload, port.protocolFrom, port.protocolTo)

VerifyInterface(scope, interface, protocol) ==
  /\ VerifyRoleContainer(interface.roles)
  /\ \A port \in interface.ports : VerifyPort(scope, interface, protocol, port)

(***************************************************************************)
(* Protocols: states [name, initial, terminal], events [name, action,      *)
(* from, to, payload], transitions [source, event, target, transfer,       *)
(* retain, priority] and guarantees, a function from kind to value.        *)
(***************************************************************************)
EventActions == {"offer", "accept", "cancel", "reject", "retry", "response", "notify"}

VerifyEvent(scope, protocol, event) ==
  /\ {event.from, event.to} \subseteq DOMAIN protocol.roles
  /\ event.from # event.to
  /\ IsProtocolPayloadType(event.payload)
  /\ VerifyNamedTypes(scope, event.payload)
  /\ event.action \in EventActions

\* The values each kind of guarantee may have.
GuaranteeValues(kind) ==
  CASE kind = "backpressure" -> {"none", "accept", "credit", "capacity", "custom"}
    [] kind = "ordering"     -> {"fifo", "per_key", "unordered"}
    [] kind = "delivery"     -> {"exactly_once", "at_most_once", "best_effort"}
    [] kind = "completion"   -> {"on_accept", "on_response", "on_terminal_phase"}

VerifyGuarantee(kind, value) ==
  CASE kind \in {"backpressure", "ordering", "delivery", "completion"} ->
         value \in GuaranteeValues(kind)
    [] kind = "stable_pending" -> value \in BOOLEAN
    [] kind \in {"correlation", "custom_backpressure"} -> value # ""
    [] kind = "max_inflight" -> TRUE
    [] OTHER -> FALSE

Declares(protocol, kind) == kind \in DOMAIN protocol.guarantees
Guaranteed(protocol, kind, value) ==
  Declares(protocol, kind) /\ protocol.guarantees[kind] = value

StateNames(protocol) == {s.name : s \in protocol.states}
InitialStates(protocol) == {s.name : s \in {x \in protocol.states : x.initial}}

EventOf(protocol, transition) ==
  CHOOSE e \in protocol.events : e.name = transition.event
Action(protocol, transition) == EventOf(protocol, transition).action

VerifyReferences(protocol) ==
  \A t \in protocol.transitions :
    /\ {t.source, t.target} \subseteq StateNames(protocol)
    /\ t.event \in {e.name : e \in protocol.events}

\* Transitions on the same event from one state are told apart by priority;
\* 0 stands for none.
VerifyOverlap(protocol) ==
  \A s, t \in protocol.transitions :
    (s # t /\ s.source = t.source /\ s.event = t.event) =>
       s.priority > 0 /\ t.priority > 0 /\ s.priority # t.priority

VerifyOwnershipFlags(protocol) ==
  \A t \in protocol.transitions :
    LET action == Action(protocol, t)
    IN  /\ ~(t.transfer /\ t.retain)
        /\ action = "offer" => t.transfer \/ t.retain
        /\ action = "offer" /\ t.retain => Guaranteed(protocol, "stable_pending", TRUE)
        /\ action = "retry" => t.retain
        /\ t.retain => action \in {"offer", "retry"}

Outgoing(protocol, state) == {t \in protocol.transitions : t.source = state}

\* transferOwnership: what a transition makes of an ownership state (is an
\* offer pending?); empty when it cannot be taken in it.
TransferOwnership(protocol, t, isPending) ==
  LET action == Action(protocol, t)
  IN  CASE action = "offer" -> IF isPending THEN {} ELSE {~t.transfer}
        [] action = "retry" -> IF isPending THEN {TRUE} ELSE {}
        [] action \in {"cancel", "reject"} -> IF isPending THEN {FALSE} ELSE {}
        [] OTHER -> IF t.transfer THEN (IF isPending THEN {FALSE} ELSE {}) ELSE {isPending}

\* The worklist: all ownership states each protocol state is reached with.
RECURSIVE Ownership(_, _)
Ownership(protocol, known) ==
  LET reached == known \cup UNION {
        {<<t.target, o>> : o \in TransferOwnership(protocol, t, k[2])} :
          <<t, k>> \in {p \in protocol.transitions \X known : p[1].source = p[2][1]}}
  IN  IF reached = known THEN known ELSE Ownership(protocol, reached)

OwnershipOf(protocol) ==
  Ownership(protocol, {<<s, FALSE>> : s \in InitialStates(protocol)})

Reached(ownership, state) == \E o \in BOOLEAN : <<state, o>> \in ownership

\* Mutant: a transfer or retry is allowed whether or not an offer is pending.
VerifyOwnershipUnresolved(protocol, ownership) ==
  \A s \in protocol.states :
    <<s.name, TRUE>> \in ownership => ~s.terminal /\ Outgoing(protocol, s.name) # {}

\* Mutant: the final check of pending offers is left out.
VerifyOwnershipOpenEnded(protocol, ownership) ==
  \A s \in StateNames(protocol) : ~({<<s, TRUE>>, <<s, FALSE>>} \subseteq ownership)

VerifyOwnership(protocol, ownership) ==
  /\ \A s \in StateNames(protocol) : ~({<<s, TRUE>>, <<s, FALSE>>} \subseteq ownership)
  /\ \A t \in protocol.transitions :
       LET action == Action(protocol, t)
           resolves == action \in {"cancel", "reject"} \/ (t.transfer /\ action # "offer")
       IN  /\ action = "offer" => <<t.source, TRUE>> \notin ownership
           /\ (action = "retry" \/ resolves) => <<t.source, FALSE>> \notin ownership
           /\ (t.transfer \/ action \in {"retry", "cancel", "reject"}) =>
                Reached(ownership, t.source)
  /\ \A s \in protocol.states :
       <<s.name, TRUE>> \in ownership => ~s.terminal /\ Outgoing(protocol, s.name) # {}

HasReachableAction(protocol, ownership, action) ==
  \E t \in protocol.transitions :
    Reached(ownership, t.source) /\ Action(protocol, t) = action

VerifyCompletion(protocol, ownership) ==
  /\ Declares(protocol, "max_inflight") =>
       /\ protocol.guarantees["max_inflight"] > 0
       /\ protocol.guarantees["max_inflight"] > 1 => Declares(protocol, "correlation")
  /\ Guaranteed(protocol, "backpressure", "custom") => Declares(protocol, "custom_backpressure")
  /\ Guaranteed(protocol, "ordering", "per_key") => Declares(protocol, "correlation")
  /\ Guaranteed(protocol, "completion", "on_response") =>
       /\ Declares(protocol, "correlation")
       /\ HasReachableAction(protocol, ownership, "response")
  /\ Guaranteed(protocol, "completion", "on_accept") =>
       HasReachableAction(protocol, ownership, "accept")
  /\ Guaranteed(protocol, "completion", "on_terminal_phase") =>
       \E s \in protocol.states : s.terminal /\ Reached(ownership, s.name)

\* The correlation field is in every reachable offer and response payload,
\* with one type, and some offer is reachable.
VerifyCorrelation(scope, protocol, ownership) ==
  Declares(protocol, "correlation") =>
    LET field == protocol.guarantees["correlation"]
        Payloads(actions) ==
          {EventOf(protocol, t).payload : t \in {u \in protocol.transitions :
             Reached(ownership, u.source) /\ Action(protocol, u) \in actions}}
    IN  /\ Payloads({"offer"}) # {}
        /\ \E type \in UNION {{d.fields[i].type : i \in DOMAIN d.fields} :
                              d \in UNION {RecordDecl(scope, p) : p \in Payloads({"offer"})}} :
             \A p \in Payloads({"offer", "response"}) :
               \E d \in RecordDecl(scope, p) :
                 FindField(d, field) # 0 /\ FieldType(d, field) = type

VerifyProtocol(scope, protocol) ==
  /\ VerifyRoleContainer(protocol.roles)
  /\ \A e \in protocol.events : VerifyEvent(scope, protocol, e)
  /\ \A kind \in DOMAIN protocol.guarantees :
       VerifyGuarantee(kind, protocol.guarantees[kind])
  /\ Cardinality(InitialStates(protocol)) = 1
  /\ VerifyReferences(protocol)
  /\ VerifyOverlap(protocol)
  /\ VerifyOwnershipFlags(protocol)
  /\ LET ownership == OwnershipOf(protocol)
     IN  /\ VerifyOwnership(protocol, ownership)
         /\ VerifyCompletion(protocol, ownership)
         /\ VerifyCorrelation(scope, protocol, ownership)

(***************************************************************************)
(* Packets at run time: a record is its serialised bytes, a field a range  *)
(* of them, in reverse for a big-endian packet.  The host is little-endian.*)
(* The lowering derives the layout; the declaration gives only a size,     *)
(* alignment, serialisation width and byte order (its DLTI entry).         *)
(***************************************************************************)
RoundUp(n, alignment) == ((n + alignment - 1) \div alignment) * alignment

\* recordFieldOffsets: in declaration order, each field at its alignment.
NaturalLayout(declaration) ==
  FoldLeft(LAMBDA l, f :
             LET start == RoundUp(l.end, f.align)
             IN  [offsets |-> Append(l.offsets, start), end |-> start + f.size,
                  align |-> IF f.align > l.align THEN f.align ELSE l.align],
           [offsets |-> <<>>, end |-> 0, align |-> 1], declaration.fields)

\* nativeQueueCppType: a packet has a C++ type when its declared size,
\* alignment and width are the derived ones; the lowering stops otherwise.
HasNativeType(declaration) ==
  LET natural == NaturalLayout(declaration)
  IN  /\ declaration.width > 0 /\ declaration.width = declaration.size
      /\ declaration.size = RoundUp(natural.end, natural.align)
      /\ declaration.align = natural.align

InOrder(big, bytes) == IF big THEN Reverse(bytes) ELSE bytes

\* Where a field lies: [offset, size].
FieldRange(declaration, name) ==
  LET i == FindField(declaration, name)
  IN  [offset |-> NaturalLayout(declaration).offsets[i], size |-> declaration.fields[i].size]

PacketFieldGet(declaration, name, big, packet) ==
  LET f == FieldRange(declaration, name)
  IN  InOrder(big, SubSeq(packet, f.offset + 1, f.offset + f.size))

PacketFieldSet(declaration, name, big, packet, value) ==
  LET f == FieldRange(declaration, name)
  IN  [i \in DOMAIN packet |->
         IF i \in f.offset + 1 .. f.offset + f.size
         THEN InOrder(big, value)[i - f.offset] ELSE packet[i]]

ZeroPacket(declaration) == [i \in 1..declaration.width |-> 0]

DeclarationOf(type) == file.scope[type.leaf.name]

\* The byte order of a generated helper is that of the type of its first
\* operand (of its result, for deserialize), and little-endian when that is
\* no record: so it is for record.create, whose operands are the fields.
HelperBigEndian(program, op) ==
  LET type == IF op.kind = "deserialize" THEN op.type ELSE program[op.values[1]].type
  IN  type.leaf.kind \in RecordKinds /\ DeclarationOf(type).big

\* One operation of the generated code on bytes.  A constant is a value the
\* program does not compute, such as a packet taken from a queue.
ExecutePacked(op) ==
  LET Value(i) == packed[op.values[i]]
      operandDecl == DeclarationOf(file.program[op.values[1]].type)
      decl == DeclarationOf(op.type)
      big == HelperBigEndian(file.program, op)
  IN  CASE op.kind = "constant" -> op.value
        [] op.kind = "create" ->
             FoldLeft(LAMBDA packet, i : PacketFieldSet(decl, op.names[i], big, packet, Value(i)),
                      ZeroPacket(decl), [i \in DOMAIN op.names |-> i])
        [] op.kind = "get"  -> PacketFieldGet(operandDecl, op.field, big, Value(1))
        [] op.kind = "with" -> PacketFieldSet(decl, op.field, big, Value(1), Value(2))
        [] op.kind \in {"serialize", "deserialize"} -> Value(1)

\* The fields of a packet as its declared encoding gives them.
Unpack(type, bytes) ==
  LET d == DeclarationOf(type)
  IN  [n \in ToSet(FieldNames(d)) |-> PacketFieldGet(d, n, d.big, bytes)]

\* What the operation means: a record is a function from field names.  A
\* serialised record is still the record it came from.
ExecuteFields(op) ==
  LET Value(i) == fields[op.values[i]]
  IN  CASE op.kind = "constant" ->
             IF op.type.leaf.kind = "packet" THEN Unpack(op.type, op.value) ELSE op.value
        [] op.kind = "create" ->
             [n \in ToSet(op.names) |-> Value(SelectInSeq(op.names, LAMBDA m : m = n))]
        [] op.kind = "get"  -> Value(1)[op.field]
        [] op.kind = "with" -> [Value(1) EXCEPT ![op.field] = Value(2)]
        [] op.kind \in {"serialize", "deserialize"} -> Value(1)

-----------------------------------------------------------------------------
NoPackets == [offered |-> 0, transferred |-> 0, withdrawn |-> 0]

\* The compiler is given a file.
StartWith(source) ==
  /\ file = source
  /\ verdict = "unread"
  /\ at = "" /\ pending = FALSE /\ account = NoPackets
  /\ packed = <<>> /\ fields = <<>>

VerifyFile ==
  /\ verdict = "unread"
  /\ verdict' = IF /\ VerifyScope(file.scope)
                   /\ VerifyProgram(file.scope, file.program)
                   /\ VerifyProtocol(file.scope, file.protocol)
                   /\ VerifyInterface(file.scope, file.interface, file.protocol)
                THEN "accepted" ELSE "rejected"
  /\ at' = IF verdict' = "accepted"
           THEN CHOOSE s \in InitialStates(file.protocol) : TRUE ELSE at
  /\ UNCHANGED <<file, pending, account, packed, fields>>

Withdraws(protocol, t) == Action(protocol, t) \in {"cancel", "reject"}

\* A protocol step.  Guards are opaque, so any transition of the current
\* state may be the one its event selects.  A transition marked transfer
\* transfers the packet, whatever else its event does with it.
TakeTransition(t) ==
  /\ verdict = "accepted"
  /\ t \in Outgoing(file.protocol, at)
  /\ LET offers == Action(file.protocol, t) = "offer"
         withdraws == Withdraws(file.protocol, t)
     IN  /\ offers => account.offered < MaxOffers
         /\ account' = [account EXCEPT !.offered = @ + (IF offers THEN 1 ELSE 0),
                                       !.transferred = @ + (IF t.transfer THEN 1 ELSE 0),
                                       !.withdrawn = @ + (IF withdraws THEN 1 ELSE 0)]
         /\ pending' = CASE t.transfer \/ withdraws -> FALSE
                         [] t.retain -> TRUE
                         [] OTHER -> pending
  /\ at' = t.target
  /\ UNCHANGED <<file, verdict, packed, fields>>

\* The next operation of the record program, in a file that lowers.
RunOperation ==
  /\ verdict = "accepted"
  /\ \A n \in DOMAIN file.scope :
       file.scope[n].kind = "packet" => HasNativeType(file.scope[n])
  /\ Len(packed) < Len(file.program)
  /\ LET op == file.program[Len(packed) + 1]
     IN  /\ packed' = Append(packed, ExecutePacked(op))
         /\ fields' = Append(fields, ExecuteFields(op))
  /\ UNCHANGED <<file, verdict, at, pending, account>>

Next ==
  \/ VerifyFile
  \/ \E t \in file.protocol.transitions : TakeTransition(t)
  \/ RunOperation

-----------------------------------------------------------------------------
(***************************************************************************)
(* No accepted protocol loses or duplicates a packet: at every point of    *)
(* every run the packets offered are the ones transferred or withdrawn,    *)
(* plus the one that is pending.  The ownership analysis of                *)
(* ProtocolOp::verify is what has to guarantee it, whatever the guards     *)
(* select.  One kind of protocol is excepted: docs/specs/acir-core-v0.2.md *)
(* :525-528 has a packet either transferred or cancelled or rejected, but  *)
(* the flags of a cancel or reject transition are not checked              *)
(* (ACIROps.cpp:798-821), and one marked transfer does both.               *)
(***************************************************************************)
PacketsAccounted ==
  \/ \E t \in file.protocol.transitions : Withdraws(file.protocol, t) /\ t.transfer
  \/ account.offered = account.transferred + account.withdrawn + (IF pending THEN 1 ELSE 0)

(***************************************************************************)
(* An accepted protocol never ends with a pending offer: its run is not in *)
(* a terminal state and has a transition to take.  That one of them ever   *)
(* resolves the offer is not required: the verifier asks for some          *)
(* transition only (ACIROps.cpp:966), which may retry for ever or do       *)
(* nothing to the offer.                                                   *)
(***************************************************************************)
PendingRunsOn ==
  (verdict = "accepted" /\ pending) =>
    /\ Outgoing(file.protocol, at) # {}
    /\ \A s \in file.protocol.states : s.name = at => ~s.terminal

(***************************************************************************)
(* Packet bytes carry records faithfully: after any accepted sequence of   *)
(* create, with, get, serialize and deserialize, each packet's fields read *)
(* from its bytes in the declared encoding are the fields the operations   *)
(* gave it, and each scalar is the one a record would have held.  Derived  *)
(* layout, byte order and type checks all have to agree for it.  It holds  *)
(* up to the first record.create of a big-endian packet: its helper takes  *)
(* the byte order of the first field's type (ACIRToACSim.cpp:2181-2183)    *)
(* and writes every field little-endian, where docs/acir-packet-runtime.md *)
(* :10 has "the declared little- or big-endian encoding".                  *)
(***************************************************************************)
PacketsFaithful ==
  \/ \E k \in DOMAIN packed :
       LET op == file.program[k]
       IN  op.kind = "create" /\ DeclarationOf(op.type).big # HelperBigEndian(file.program, op)
  \/ \A k \in DOMAIN packed :
       LET op == file.program[k]
       IN  CASE op.type.leaf.kind = "packet" -> Unpack(op.type, packed[k]) = fields[k]
             [] op.type.leaf.kind = "byte" ->
                  Unpack(file.program[op.values[1]].type, packed[k]) = fields[k]
             [] OTHER -> packed[k] = fields[k]

(***************************************************************************)
(* Values of an accepted scope are finite: no declaration contains itself  *)
(* through any chain of fields that is not broken by a bounded list.       *)
(***************************************************************************)
RECURSIVE ContainedIn(_, _, _)
ContainedIn(scope, names, n) ==
  IF n = 0 THEN names
  ELSE ContainedIn(scope, UNION {FieldReferences(scope, m) : m \in names}, n - 1)

ValuesFinite ==
  verdict = "accepted" =>
    \A name \in DOMAIN file.scope :
      ContainedIn(file.scope, {name}, Cardinality(DOMAIN file.scope)) = {}
=============================================================================
