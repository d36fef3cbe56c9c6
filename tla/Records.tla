------------------------------ MODULE Records ------------------------------
(***************************************************************************)
(* Named data types of ACIR and the operations on records                  *)
(* (lib/Dialect/ACIR/ACIROps.cpp, type_scope to packet.deserialize).       *)
(*                                                                         *)
(* A type is a leaf under unary constructors, outermost first:             *)
(* list<optional<@S>> is [wrap |-> <<"list","optional">>, leaf |-> ...].   *)
(* A scope maps names to declarations [kind, fields, layout, width].       *)
(***************************************************************************)
EXTENDS Integers, FiniteSets, SequencesExt

NamedKinds == {"struct", "packet", "transaction", "enum", "union"}
RecordKinds == {"struct", "packet", "transaction"}
ValueLeaves == {"int", "float", "index"} \cup NamedKinds

Leaf(kind, name) == [kind |-> kind, name |-> name]
TypeOf(wrap, kind, name) == [wrap |-> wrap, leaf |-> Leaf(kind, name)]

IsNamed(type) == type.leaf.kind \in NamedKinds

ContainsList(type) == "list" \in ToSet(type.wrap)

IsNormativeValueType(type) == type.leaf.kind \in ValueLeaves

\* A flow, endpoint, resource reference, channel or token: never inside
\* another type.
TopologyLeaves == {"flow", "endpoint", "resource_ref", "channel", "token"}
FindNestedTopologyLeaf(type) == type.wrap # <<>> /\ type.leaf.kind \in TopologyLeaves

\* A name resolves when it is qualified and names a declaration of its kind.
Lookup(scope, leaf) ==
  IF leaf.name \in DOMAIN scope THEN {scope[leaf.name]} ELSE {}

VerifyNamedTypes(scope, type) ==
  IsNamed(type) => \E d \in Lookup(scope, type.leaf) : d.kind = type.leaf.kind

FieldNames(declaration) == [i \in DOMAIN declaration.fields |-> declaration.fields[i].name]

\* verifyFields: unique names, value types that resolve, and a bound exactly
\* on fields that contain a list.
VerifyFields(scope, declaration) ==
  /\ Cardinality(ToSet(FieldNames(declaration))) = Len(declaration.fields)
  /\ \A i \in DOMAIN declaration.fields :
       LET field == declaration.fields[i]
       IN  /\ IsNormativeValueType(field.type)
           /\ VerifyNamedTypes(scope, field.type)
           /\ ContainsList(field.type) = (field.max > 0)

\* The declarations a value of this type contains directly; a list breaks
\* the containment.
DirectValueReferences(type) ==
  IF IsNamed(type) /\ ~ContainsList(type) THEN {type.leaf.name} ELSE {}

FieldReferences(scope, name) ==
  UNION {DirectValueReferences(scope[name].fields[i].type) : i \in DOMAIN scope[name].fields}
    \cap DOMAIN scope

\* The depth-first visit of verifyNoRecursion; active is the current path.
RECURSIVE Visit(_, _, _)
Visit(scope, name, active) ==
  /\ name \notin active
  /\ \A next \in FieldReferences(scope, name) : Visit(scope, next, active \cup {name})

\* Mutant: only a declaration that names itself is recursive.
VerifyNoRecursionDirect(scope, name) == name \notin FieldReferences(scope, name)

VerifyNoRecursion(scope, name) == Visit(scope, name, {})

FindField(declaration, name) ==
  SelectInSeq(FieldNames(declaration), LAMBDA n : n = name)

FieldType(declaration, name) == declaration.fields[FindField(declaration, name)].type

VerifyDeclarationLayout(declaration) == declaration.layout

VerifyDeclaration(scope, name) ==
  LET d == scope[name]
      recordLike == VerifyFields(scope, d) /\ VerifyNoRecursion(scope, name)
  IN  CASE d.kind = "transaction" -> recordLike
        [] d.kind \in {"struct", "packet"} -> recordLike /\ VerifyDeclarationLayout(d)
        [] d.kind = "enum" -> /\ Cardinality(ToSet(d.enumerants)) = Len(d.enumerants)
                              /\ VerifyDeclarationLayout(d)
        [] d.kind = "union" ->
             /\ recordLike
             /\ FindField(d, d.discriminator) # 0
             /\ LET t == FieldType(d, d.discriminator)
                IN  t.wrap = <<>> /\ t.leaf.kind \in {"int", "enum"}
             /\ VerifyDeclarationLayout(d)

VerifyScope(scope) == \A name \in DOMAIN scope : VerifyDeclaration(scope, name)

(***************************************************************************)
(* Record operations.  ops[k] defines the value k; operands are earlier    *)
(* values, and type is the declared type of the result.                    *)
(***************************************************************************)
\* recordDecl: the declaration of a record-like type, if it resolves.
RecordDecl(scope, type) ==
  IF type.wrap = <<>> /\ type.leaf.kind \in RecordKinds
  THEN {d \in Lookup(scope, type.leaf) : d.kind = type.leaf.kind}
  ELSE {}

\* The packet's layout entry gives the width of its byte vector.
SerializationWidth(scope, name) ==
  IF name \in DOMAIN scope /\ scope[name].kind = "packet" /\ scope[name].layout
  THEN scope[name].width ELSE 0

Bytes(width) == [wrap |-> <<"vector">>, leaf |-> Leaf("byte", ""), length |-> width]
IsBytes(type) == type.wrap = <<"vector">> /\ type.leaf.kind = "byte"

VerifyRecordCreate(scope, op, types) ==
  \E d \in RecordDecl(scope, op.type) :
    /\ op.names = FieldNames(d)
    /\ Len(op.values) = Len(d.fields)
    /\ \A i \in DOMAIN op.values : types[op.values[i]] = d.fields[i].type

VerifyRecordGet(scope, op, types) ==
  \E d \in RecordDecl(scope, types[op.values[1]]) :
    FindField(d, op.field) # 0 /\ FieldType(d, op.field) = op.type

VerifyRecordWith(scope, op, types) ==
  /\ types[op.values[1]] = op.type
  /\ \E d \in RecordDecl(scope, op.type) :
       FindField(d, op.field) # 0 /\ FieldType(d, op.field) = types[op.values[2]]

VerifyPacketSerialize(scope, op, types) ==
  LET type == types[op.values[1]]
  IN  /\ type.wrap = <<>> /\ type.leaf = Leaf("packet", op.packet)
      /\ SerializationWidth(scope, op.packet) > 0
      /\ IsBytes(op.type) /\ op.type.length = SerializationWidth(scope, op.packet)

VerifyPacketDeserialize(scope, op, types) ==
  LET bytes == types[op.values[1]]
  IN  /\ op.type.wrap = <<>> /\ op.type.leaf = Leaf("packet", op.packet)
      /\ SerializationWidth(scope, op.packet) > 0
      /\ IsBytes(bytes) /\ bytes.length = SerializationWidth(scope, op.packet)

VerifyOperation(scope, op, types) ==
  CASE op.kind = "constant"    -> TRUE
    [] op.kind = "create"      -> VerifyRecordCreate(scope, op, types)
    [] op.kind = "get"         -> VerifyRecordGet(scope, op, types)
    [] op.kind = "with"        -> VerifyRecordWith(scope, op, types)
    [] op.kind = "serialize"   -> VerifyPacketSerialize(scope, op, types)
    [] op.kind = "deserialize" -> VerifyPacketDeserialize(scope, op, types)

VerifyProgram(scope, program) ==
  LET types == [k \in DOMAIN program |-> program[k].type]
  IN  \A k \in DOMAIN program : VerifyOperation(scope, program[k], types)
=============================================================================
