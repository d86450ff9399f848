------------------------------ MODULE OwnedTree ------------------------------
(***************************************************************************)
(* The owned syntax trees that the SQL generators write code for.  A       *)
(* statement, as the native parser's builder holds it, becomes a tree on   *)
(* the heap along two generated paths:                                     *)
(*   - Parse: the builder-to-owned converters of generate_owned_parser.py; *)
(*   - Parse_Baseline (generate_owned_equivalence.py): the arena that      *)
(*     Native.Converters.Load makes, read through the generated views      *)
(*     (generate_ada.py), and the converters of generate_owned_ast.py.     *)
(* The generated comparator, Equivalent, and the generated visitors read   *)
(* the trees.  The schema is pg_query.proto as SchemaReader reads it.      *)
(*                                                                         *)
(* Simplifications.  What is generated per message is one operator here,   *)
(* with the message as a parameter.  An operation on a tree is one step;   *)
(* it may run out of storage at any of its allocations and appends, never  *)
(* at the copy an assignment makes.  Texts are sequences of character      *)
(* codes, integers fit their fields, and the parse options are the         *)
(* default.  The grammar is external: Statements is what it makes.         *)
(***************************************************************************)
EXTENDS SchemaReader

CONSTANTS
  Majors,        \* the PostgreSQL versions, each with its packages
  Schemas,       \* for each of them, ByName of what reachable_schema keeps,
  Enumerators,   \* the C enumerators and node tags by name,
  Statements,    \* and by name what the native parser makes of a statement
  MaximumDepth,  \* MAXIMUM_DEPTH, and Maximum_Conversion_Depth of the arena
  MaxFuel        \* bound on the allocations before storage runs out

ASSUME TreeAssumption == MaximumDepth \in Nat /\ MaxFuel \in Nat

VARIABLES
  major, \* the version whose packages are used
  own,   \* the tree AST.Parse writes to
  base,  \* the tree Parse_Baseline writes to
  last   \* the outcome of the last operation

vars == <<major, own, base, last>>

-----------------------------------------------------------------------------
(* The schema.                                                             *)

\* A definition of its own, so that TLC evaluates the schemas once.
SchemaOf == Schemas

FieldsOf(name)  == SchemaOf[major].fields[name]
IsMessage(type) == type \in DOMAIN SchemaOf[major].fields
IsEnum(type)    == type \in DOMAIN SchemaOf[major].values
NodeVariants    == { fld.type : fld \in ToSet(FieldsOf("Node")) }
SourceEnums     == Enumerators[major]

\* The values of an enum that the C sources have, as <<literal, number>>.
Mapped(enum) == SelectSeq(SchemaOf[major].values[enum],
                          LAMBDA value : value[1] \in DOMAIN SourceEnums)

\* Dynamic_Value
NullValue       == [ kind |-> "null" ]
Number(n)       == [ kind |-> "int", n |-> n ]
Flag(b)         == [ kind |-> "bool", b |-> b ]
TextValue(t)    == [ kind |-> "text", t |-> t ]
ListValue(e)    == [ kind |-> "list", e |-> e ]
Object(type, f) == [ kind |-> "object", type |-> type, f |-> f ]

Items(root) == IF root.kind = "null" THEN <<>> ELSE root.e

\* The variant of Node for a value.
Variant(item) ==
  CASE item.kind = "list" -> "List"
    [] item.kind = "object" -> item.type
    [] OTHER -> None

\* Build.Field.  A path is the sequence of the names between its dots.
Member(item, path) == IF path \in DOMAIN item.f THEN item.f[path] ELSE NullValue

-----------------------------------------------------------------------------
(* The heap.  A pointer is the cell it designates and the record in it.    *)
(* Fuel is how many allocations still succeed.                             *)

Unlimited == -1

Spend(heap) == [ heap EXCEPT !.fuel = IF @ = Unlimited THEN @ ELSE @ - 1 ]

Done(value, heap) == [ ok |-> TRUE, v |-> value, heap |-> heap ]
Raise(heap)       == [ ok |-> FALSE, v |-> <<>>, heap |-> heap ]

Record(name, f) == [ msg |-> name, f |-> f ]

\* What an allocation is for: the message, or the payload of a Node.
Kind(record) ==
  IF record.msg # "Node" THEN record.msg
  ELSE IF record.f = <<>> THEN "No_Node" ELSE record.f[1].msg

\* Allocate a record, with no exception handler around it.  While a tree is
\* built nothing is freed, so a cell is named by its turn.
New(record, heap) ==
  LET cell == Cardinality(heap.live) + 1
  IN  IF heap.fuel = 0 THEN Raise([ heap EXCEPT !.failed = Kind(record) ])
      ELSE Done([ cell |-> cell, to |-> record ],
                [ Spend(heap) EXCEPT !.live = @ \union {cell} ])

Free(cell, heap) ==
  [ heap EXCEPT !.live = @ \ {cell}, !.twice = @ \/ cell \notin heap.live ]

\* The pointers in the fields of a record, in the order of the fields.
RECURSIVE Pointers(_)
Pointers(record) ==
  IF record.msg = "Node"
  THEN IF record.f = <<>> THEN <<>> ELSE Pointers(record.f[1])
  ELSE FlattenSeq([ i \in DOMAIN record.f |->
         IF IsMessage(FieldsOf(record.msg)[i].type) THEN record.f[i] ELSE <<>> ])

RECURSIVE Release(_, _)
Release(pointer, heap) ==
  Free(pointer.cell,
       FoldLeft(LAMBDA h, p : Release(p, h), heap, Pointers(pointer.to)))

ReleaseAll(pointers, heap) ==
  FoldLeft(LAMBDA h, p : Release(p, h), heap, pointers)

\* FAULTY: what the released records own themselves is not released.
ReleaseTop(record, heap) ==
  FoldLeft(LAMBDA h, p : Free(p.cell, h), heap, Pointers(record))

Release_Contents(record, heap) == ReleaseAll(Pointers(record), heap)

\* Allocate a record in a handler that releases what it would have held.
NewOrRelease(record, heap) ==
  IF heap.fuel # 0 THEN New(record, heap)
  ELSE Raise(Release_Contents(record, New(record, heap).heap))

\* Allocate a converted record, as it is or as the payload of a Node.
Boxed(record) ==
  IF record.ok THEN NewOrRelease(record.v, record.heap) ELSE record

InNode(record) == IF record.ok THEN [ record EXCEPT !.v = Record("Node", <<@>>) ]
                  ELSE record

\* The same with no handler around the allocation.
Unguarded(record) == IF record.ok THEN New(record.v, record.heap) ELSE record

\* One more element of a vector, if none has failed: when its append does, an
\* owned element is released at once.
Extended(made, child, owned) ==
  CASE ~made.ok -> made
    [] made.ok /\ ~child.ok -> [ made EXCEPT !.ok = FALSE, !.heap = child.heap ]
    [] made.ok /\ child.ok /\ child.heap.fuel = 0 ->
         [ made EXCEPT !.ok = FALSE,
             !.heap = IF owned THEN Release(child.v, child.heap) ELSE child.heap ]
    [] OTHER -> Done(Append(made.v, child.v), Spend(child.heap))

\* The elements that were converted: when one failed, those before it are released.
Vector(made, owned) ==
  IF made.ok THEN made
  ELSE Raise(IF owned THEN ReleaseAll(made.v, made.heap) ELSE made.heap)

ConvertAll(items, Convert(_, _), owned, heap) ==
  Vector(FoldLeft(LAMBDA m, item : Extended(m, Convert(item, m.heap), owned),
                  Done(<<>>, heap), items), owned)

Filled(made, value) ==
  CASE ~made.ok -> made
    [] made.ok /\ ~value.ok -> [ made EXCEPT !.ok = FALSE, !.heap = value.heap ]
    [] OTHER -> Done(Append(made.v, value.v), value.heap)

\* A record, filled field by field: when one failed, the fields before it are
\* released.
Completed(name, made) ==
  IF made.ok THEN Done(Record(name, made.v), made.heap)
  ELSE Raise(Release_Contents(Record(name, made.v), made.heap))

FillFields(name, Convert(_, _), heap) ==
  Completed(name, FoldLeft(LAMBDA m, fld : Filled(m, Convert(fld, m.heap)),
                           Done(<<>>, heap), FieldsOf(name)))

\* A converted value as an optional component, present or absent.
Present(value) == IF value.ok THEN [ value EXCEPT !.v = <<@>> ] ELSE value
Absent(heap)   == Done(<<>>, heap)

-----------------------------------------------------------------------------
(* From the builder to the owned records.                                  *)

\* FAULTY: a Boolean field does not take the integer that C assigns to it.
StrictKinds(type) ==
  CASE type = "bool" -> {"bool"}
    [] type \in Texts -> {"text", "int"}
    [] type \in Floats -> {}
    [] OTHER -> {"int"}

AcceptedKinds(type) ==
  CASE type = "bool" -> {"bool", "int"}
    [] type \in Texts -> {"text", "int"}
    [] type \in Floats -> {}
    [] OTHER -> {"int"}

native_enum(enum, number) ==
  SelectInSeq(Mapped(enum), LAMBDA value : SourceEnums[value[1]] = number)

native_enum_is_default(enum, number) ==
  \E value \in ToSet(Mapped(enum)) : SourceEnums[value[1]] = number /\ value[2] = 0

scalar_conversion(type, item, heap) ==
  CASE item.kind \notin AcceptedKinds(type) -> Raise(heap)
    [] IsEnum(type) /\ item.kind = "int" ->
         IF native_enum(type, item.n) = 0 THEN Raise(heap)
         ELSE Done(Mapped(type)[native_enum(type, item.n)][1], heap)
    [] type = "bool" /\ item.kind = "bool" -> Done(item.b, heap)
    [] type = "bool" /\ item.kind = "int" -> Done(item.n # 0, heap)
    [] type \in Texts /\ item.kind = "text" -> Done(item.t, heap)
    [] type \in Texts /\ item.kind = "int" ->
         IF item.n \in 0 .. 255 THEN Done(<<item.n>>, heap) ELSE Raise(heap)
    [] type \in Unsigned /\ item.kind = "int" ->
         IF item.n < 0 THEN Raise(heap) ELSE Done(item.n, heap)
    [] OTHER -> Done(item.n, heap)

\* "raise" where the test itself needs a value of another kind.
present_expression(type, item) ==
  LET Answer(present) == IF present THEN "present" ELSE "absent"
      number == AcceptedKinds(type) = {"int"} /\ item.kind = "int"
  IN  CASE IsMessage(type) \/ type \in Floats -> "present"
        [] type \in Texts /\ item.kind \notin AcceptedKinds(type) -> "absent"
        [] type \in Texts /\ item.kind = "text" -> Answer(item.t # <<>>)
        [] type = "bool" /\ item.kind = "bool" -> Answer(item.b)
        [] type \in {"bool"} \union Texts /\ item.kind = "int" -> Answer(item.n # 0)
        [] IsEnum(type) /\ number -> Answer(~native_enum_is_default(type, item.n))
        [] type \in Signed \union Unsigned /\ number ->
             IF type \in Unsigned /\ item.n < 0 THEN "raise" ELSE Answer(item.n # 0)
        [] OTHER -> "raise"

Fallback == [ String |-> "sval", Float |-> "fval", BitString |-> "bsval" ]

\* FAULTY: the fields of an embedded CREATE TABLE are not looked up under base.
source_without_base(name, fld, item, prefix) ==
  IF name = "List" THEN item ELSE Member(item, <<fld.name>>)

source_expression(name, fld, item, prefix) ==
  LET value == Member(item, (IF name = "CreateStmt" THEN prefix ELSE <<>>)
                              \o <<fld.name>>)
  IN  CASE name = "List" -> item
        [] fld.name = "str" /\ name \in DOMAIN Fallback /\ value.kind = "null" ->
             Member(item, <<Fallback[name]>>)
        [] OTHER -> value

\* An optional component, from its source, whether that is present, and its
\* converted value.
Optional(source, present, value, heap) ==
  CASE source.kind = "null" -> Absent(heap)
    [] source.kind # "null" /\ present = "absent" -> Absent(heap)
    [] source.kind # "null" /\ present = "raise" -> Raise(heap)
    [] OTHER -> Present(value)

\* A message that the A_Const union holds by value: its first field only.
FirstOnly(name, value) ==
  LET rest == [ i \in 1 .. Len(FieldsOf(name)) - 1 |-> <<>> ]
  IN  IF value.ok THEN [ value EXCEPT !.v = Record(name, <<@>> \o rest) ] ELSE value

InlineRecord(name, scalar, heap) ==
  LET type == FieldsOf(name)[1].type
  IN  FirstOnly(name, Optional(scalar, present_expression(type, scalar),
                               scalar_conversion(type, scalar, heap), heap))

Convert_Native_Inline(name, scalar, heap) ==
  Unguarded(InlineRecord(name, scalar, heap))

\* The variants of Node whose tag Convert_Native_Inline_Node knows.
InlineVariants(tag) ==
  { name \in NodeVariants :
      /\ "T_" \o name \in DOMAIN SourceEnums /\ SourceEnums["T_" \o name] = tag
      /\ FieldsOf(name) # <<>> =>
           ~FieldsOf(name)[1].repeated /\ ~IsMessage(FieldsOf(name)[1].type) }

Convert_Native_Inline_Node(item, heap) ==
  LET tag  == Member(item, <<"val", "type">>)
      name == CHOOSE n \in InlineVariants(tag.n) : TRUE
  IN  IF tag.kind # "int" THEN Raise(heap)
      ELSE IF InlineVariants(tag.n) = {} THEN Raise(heap)
      ELSE Unguarded(InNode(
             IF FieldsOf(name) = <<>> THEN Done(Record(name, <<>>), heap)
             ELSE InlineRecord(name,
                    Member(item, <<"val", "val", FieldsOf(name)[1].name>>), heap)))

InlineField(fld, item, heap) ==
  LET path == <<"val", fld.name>>
      inner == FieldsOf(fld.type)[1].name
  IN  IF fld.type = "Node"
      THEN IF Member(item, <<"val", "type">>).kind = "null" THEN Absent(heap)
           ELSE Present(Convert_Native_Inline_Node(item, heap))
      ELSE IF FieldsOf(fld.type) = <<>> THEN Absent(heap)
      ELSE IF Member(item, path \o <<"type">>).kind = "null" THEN Absent(heap)
      ELSE Present(Convert_Native_Inline(
             fld.type, Member(item, path \o <<inner>>), heap))

RECURSIVE native_value(_, _, _, _), native_record(_, _, _, _, _),
          native_access(_, _, _, _, _), Convert_Native_Node(_, _, _)

native_value(type, item, depth, heap) ==
  CASE type = "Node" -> Convert_Native_Node(item, depth + 1, heap)
    [] type # "Node" /\ IsMessage(type) ->
         native_access(type, item, <<>>, depth + 1, heap)
    [] OTHER -> scalar_conversion(type, item, heap)

native_sequence(fld, items, depth, heap) ==
  CASE depth > MaximumDepth -> Raise(heap)
    [] depth <= MaximumDepth /\ items.kind = "null" -> Done(<<>>, heap)
    [] depth <= MaximumDepth /\ items.kind = "list" ->
         ConvertAll(items.e, LAMBDA item, h : native_value(fld.type, item, depth, h),
                    IsMessage(fld.type), heap)
    [] OTHER -> Raise(heap)

\* An enum that is not set is the enumerator of number zero.
OrZero(type, stored) ==
  IF IsEnum(type) /\ stored.kind = "null" THEN Number(0) ELSE stored

native_optional(name, fld, item, prefix, depth, heap) ==
  LET source == OrZero(fld.type, source_expression(name, fld, item, prefix))
  IN  Optional(source, present_expression(fld.type, source),
               native_value(fld.type, source, depth, heap), heap)

native_field(name, fld, item, prefix, depth, heap) ==
  CASE name = "CreateForeignTableStmt" /\ fld.type = "CreateStmt" ->
         Present(native_access(fld.type, item, <<"base">>, depth + 1, heap))
    [] name = "A_Const" /\ ~fld.repeated /\ IsMessage(fld.type) ->
         InlineField(fld, item, heap)
    [] fld.repeated ->
         native_sequence(fld, source_expression(name, fld, item, prefix),
                         depth + 1, heap)
    [] OTHER -> native_optional(name, fld, item, prefix, depth, heap)

native_record(name, item, prefix, depth, heap) ==
  LET wrong == /\ name # "List" /\ prefix = <<>>
               /\ item.kind = "object" => item.type # name
  IN  IF depth > MaximumDepth \/ wrong THEN Raise(heap)
      ELSE FillFields(name,
             LAMBDA fld, h : native_field(name, fld, item, prefix, depth, h), heap)

native_access(name, item, prefix, depth, heap) ==
  Boxed(native_record(name, item, prefix, depth, heap))

\* The Node around a record; the branch for a list has no handler around its
\* allocation.
NodeAround(item, record) ==
  IF item.kind = "list" THEN Unguarded(InNode(record)) ELSE Boxed(InNode(record))

Convert_Native_Node(item, depth, heap) ==
  CASE depth > MaximumDepth -> Raise(heap)
    [] depth <= MaximumDepth /\ item.kind = "null" -> New(Record("Node", <<>>), heap)
    [] depth <= MaximumDepth /\ item.kind # "null" /\ Variant(item) \notin NodeVariants ->
         Raise(heap)
    [] OTHER ->
         NodeAround(item, native_record(Variant(item), item, <<>>, depth + 1, heap))

\* The RawStmt around a node that an alternate parse mode returns directly.
Wrapped(raw, node) ==
  LET rest == [ i \in 1 .. Len(FieldsOf("RawStmt")) - 1 |-> <<>> ]
  IN  IF ~node.ok THEN Raise(Release(raw, node.heap))
      ELSE Done([ raw EXCEPT !.to = Record("RawStmt", <<<<node.v>>>> \o rest) ],
                node.heap)

Convert_Native_Raw_Stmt(item, heap) ==
  LET raw == New(Record("RawStmt", <<>>), heap)
  IN  IF item.kind = "object" /\ item.type = "RawStmt"
      THEN native_access("RawStmt", item, <<>>, 1, heap)
      ELSE IF ~raw.ok THEN raw
      ELSE Wrapped(raw.v, Convert_Native_Node(item, 1, raw.heap))

InResult(stmts) ==
  IF stmts.ok
  THEN Done(Record("ParseResult", << <<"version">>, stmts.v >>), stmts.heap)
  ELSE stmts

Convert_Native_Root(root, heap) ==
  InResult(ConvertAll(Items(root), Convert_Native_Raw_Stmt, TRUE, heap))

-----------------------------------------------------------------------------
(* The arena that Load makes.  Its storage is its own; a member that is    *)
(* not set is left out of its object.                                      *)

Unset     == [ kind |-> "unset" ]
Broken    == [ kind |-> "broken" ]
Stored(v) == [ kind |-> "scalar", v |-> v ]

Array(elements) ==
  IF \E i \in DOMAIN elements : elements[i].kind = "broken" THEN Broken
  ELSE [ kind |-> "array", e |-> elements ]

Members(m) ==
  IF \E name \in DOMAIN m : m[name].kind = "broken" THEN Broken
  ELSE [ kind |-> "object",
         m |-> [ name \in { n \in DOMAIN m : m[n].kind # "unset" } |-> m[name] ] ]

Convert_Scalar(type, item) ==
  CASE type = "bool" /\ item.kind = "bool" -> Stored(item.b)
    [] type = "bool" /\ item.kind = "int" -> Stored(item.n # 0)
    [] type \in Signed /\ item.kind = "int" -> Stored(item.n)
    [] type \in Unsigned /\ item.kind = "int" /\ item.n >= 0 -> Stored(item.n)
    [] type \in Texts /\ item.kind = "int" /\ item.n \in 0 .. 255 -> Stored(<<item.n>>)
    [] type \in Texts /\ item.kind = "text" -> Stored(item.t)
    [] IsEnum(type) /\ item.kind = "int" /\ native_enum(type, item.n) # 0 ->
         Stored(Mapped(type)[native_enum(type, item.n)][1])
    [] OTHER -> Broken

Is_Default(type, item) ==
  CASE item.kind = "bool" -> type = "bool" /\ ~item.b
    [] item.kind = "text" -> type \in Texts /\ item.t = <<>>
    [] item.kind = "int" /\ type \in Scalars \ Floats -> item.n = 0
    [] item.kind = "int" /\ IsEnum(type) ->
         LET first == native_enum(type, item.n)
         IN  first # 0 /\ Mapped(type)[first][2] = 0
    [] OTHER -> FALSE

Convert_Inline_Message(name, scalar, depth) ==
  LET inner == FieldsOf(name)[1]
  IN  CASE depth > MaximumDepth -> Broken
        [] depth <= MaximumDepth /\
           (FieldsOf(name) = <<>> \/ scalar.kind = "null") -> Members(<<>>)
        [] OTHER -> Members(inner.name :>
             IF Is_Default(inner.type, scalar) THEN Unset
             ELSE Convert_Scalar(inner.type, scalar))

\* The variants of Node that carry a tag, in the schema's Node_Tag column.
Tagged(tag) ==
  { name \in NodeVariants :
      "T_" \o name \in DOMAIN SourceEnums /\ SourceEnums["T_" \o name] = tag }

Convert_Inline_Node(item, depth) ==
  LET tag  == Member(item, <<"val", "type">>)
      name == CHOOSE n \in Tagged(tag.n) : TRUE
      scalar == IF FieldsOf(name) = <<>> THEN NullValue
                ELSE Member(item, <<"val", "val", FieldsOf(name)[1].name>>)
  IN  CASE tag.kind # "int" -> Unset
        [] tag.kind = "int" /\ Tagged(tag.n) = {} -> Broken
        [] OTHER -> Members(name :> Convert_Inline_Message(name, scalar, depth + 1))

Inline(fld, item, depth) ==
  LET path == <<"val", fld.name>>
  IN  IF fld.type = "Node" THEN Convert_Inline_Node(item, depth)
      ELSE IF FieldsOf(fld.type) = <<>> \/ Member(item, path \o <<"type">>).kind = "null"
      THEN Unset
      ELSE Convert_Inline_Message(fld.type,
             Member(item, path \o <<FieldsOf(fld.type)[1].name>>), depth)

Source_Field(name, item, fld, prefix) ==
  LET value == Member(item, prefix \o <<fld.name>>)
  IN  IF value.kind = "null" /\ prefix = <<>> /\ fld.name = "str" /\ name \in DOMAIN Fallback
      THEN Member(item, <<Fallback[name]>>) ELSE value

RECURSIVE Convert_Message(_, _, _, _), Load_Node(_, _)

Load_Value(type, item, depth) ==
  CASE type = "Node" -> Load_Node(item, depth)
    [] type # "Node" /\ IsMessage(type) -> Convert_Message(type, item, depth, <<>>)
    [] OTHER -> Convert_Scalar(type, item)

Load_Stored(name, fld, item, stored, depth, prefix) ==
  LET absent == stored.kind = "null"
      source == OrZero(fld.type, stored)
  IN  CASE name = "CreateForeignTableStmt" /\ fld.name = "base" /\ absent ->
             Convert_Message(fld.type, item, depth + 1, prefix \o <<"base">>)
        [] name = "A_Const" /\ ~fld.repeated /\ IsMessage(fld.type) /\ absent ->
             Inline(fld, item, depth + 1)
        [] fld.repeated ->
             IF absent \/ stored = ListValue(<<>>) THEN Unset
             ELSE IF stored.kind # "list" THEN Broken
             ELSE Array([ i \in DOMAIN stored.e |->
                          Load_Value(fld.type, stored.e[i], depth + 1) ])
        [] OTHER ->
             IF source.kind = "null" \/ Is_Default(fld.type, source) THEN Unset
             ELSE Load_Value(fld.type, source, depth + 1)

Load_Field(name, fld, item, depth, prefix) ==
  Load_Stored(name, fld, item,
              IF name = "List" /\ item.kind = "list" THEN item
              ELSE Source_Field(name, item, fld, prefix), depth, prefix)

Convert_Message(name, item, depth, prefix) ==
  LET wrong == /\ name # "List" /\ prefix = <<>>
               /\ item.kind = "object" => item.type # name
  IN  IF depth > MaximumDepth \/ wrong THEN Broken
      ELSE Members([ n \in { fld.name : fld \in ToSet(FieldsOf(name)) } |->
                     Load_Field(name, At(FieldsOf(name), n), item, depth, prefix) ])

Load_Node(item, depth) ==
  CASE depth > MaximumDepth -> Broken
    [] depth <= MaximumDepth /\ item.kind = "null" -> Members(<<>>)
    [] depth <= MaximumDepth /\ item.kind # "null" /\ Variant(item) \notin NodeVariants -> Broken
    [] OTHER ->
         Members(Variant(item) :> Convert_Message(Variant(item), item, depth + 1, <<>>))

Load_Statement(item) ==
  IF item.kind = "object" /\ item.type = "RawStmt"
  THEN Convert_Message("RawStmt", item, 1, <<>>)
  ELSE Members("stmt" :> Load_Node(item, 1))

Load(root) ==
  Members([ version |-> Stored("version"),
            stmts |-> IF Items(root) = <<>> THEN Unset
                      ELSE Array([ i \in DOMAIN Items(root) |->
                                   Load_Statement(Items(root)[i]) ]) ])

-----------------------------------------------------------------------------
(* From the arena to the owned records.                                    *)

RECURSIVE Convert_Record(_, _, _), Convert_Node(_, _)

Convert_Access(name, object, heap) ==
  Boxed(Convert_Record(name, object, heap))

value_conversion(type, value, heap) ==
  CASE type = "Node" -> Convert_Node(value, heap)
    [] type # "Node" /\ IsMessage(type) -> Convert_Access(type, value, heap)
    [] OTHER -> Done(value.v, heap)

\* The generated view of an object has a field when the object does.
View(fld, object, heap) ==
  LET has == fld.name \in DOMAIN object.m
      elements == IF has THEN object.m[fld.name].e ELSE <<>>
  IN  CASE fld.repeated ->
             ConvertAll(elements, LAMBDA item, h : value_conversion(fld.type, item, h),
                        IsMessage(fld.type), heap)
        [] ~fld.repeated /\ has ->
             Present(value_conversion(fld.type, object.m[fld.name], heap))
        [] OTHER -> Absent(heap)

Convert_Record(name, object, heap) ==
  FillFields(name, LAMBDA fld, h : View(fld, object, h), heap)

Convert_Node(object, heap) ==
  LET name == CHOOSE n \in DOMAIN object.m : TRUE
  IN  IF object.m = <<>> THEN New(Record("Node", <<>>), heap)
      ELSE Boxed(InNode(Convert_Record(name, object.m[name], heap)))

Convert_Parse_Result(arena, heap) == Convert_Record("ParseResult", arena, heap)

-----------------------------------------------------------------------------
(* The comparator: "equal", "different", or "raise" for too deep a tree.   *)

\* The first verdict that is not "equal"; what follows is not looked at.
Decide(verdicts) ==
  FoldLeft(LAMBDA first, v : IF first = "equal" THEN v ELSE first, "equal", verdicts)

Same(condition) == IF condition THEN "equal" ELSE "different"

RECURSIVE value_comparison(_, _, _, _), Equivalent_Record(_, _, _),
          Equivalent_Node(_, _, _)

\* FAULTY: only as many elements are compared as the left vector has.
Equivalent_Prefix(fld, left, right, depth) ==
  Decide([ i \in DOMAIN left |->
             IF i > Len(right) THEN "different"
             ELSE value_comparison(fld.type, left[i], right[i], depth + 1) ])

\* A field's elements: an optional component has none or one.
Equivalent_Field(fld, left, right, depth) ==
  IF Len(left) # Len(right) THEN "different"
  ELSE Decide([ i \in DOMAIN left |->
                  value_comparison(fld.type, left[i], right[i], depth + 1) ])

value_comparison(type, left, right, depth) ==
  CASE type = "Node" -> Equivalent_Node(left.to, right.to, depth)
    [] type # "Node" /\ IsMessage(type) -> Equivalent_Record(left.to, right.to, depth)
    [] OTHER -> Same(left = right)

Equivalent_Record(left, right, depth) ==
  IF depth > MaximumDepth THEN "raise"
  ELSE Decide([ i \in DOMAIN FieldsOf(left.msg) |->
                  Equivalent_Field(FieldsOf(left.msg)[i], left.f[i], right.f[i], depth) ])

Equivalent_Node(left, right, depth) ==
  CASE depth > MaximumDepth -> "raise"
    [] depth <= MaximumDepth /\ Kind(left) # Kind(right) -> "different"
    [] depth <= MaximumDepth /\ Kind(left) = Kind(right) /\ left.f = <<>> -> "equal"
    [] OTHER -> Equivalent_Record(left.f[1], right.f[1], depth + 1)

Equivalent(left, right) ==
  IF left.valid # right.valid \/ left.source # right.source
     \/ left.message # right.message
  THEN "different" ELSE Equivalent_Record(left.root, right.root, 0)

-----------------------------------------------------------------------------
(* The visitors.  A visitor answers its plan.at-th Enter with plan.answer  *)
(* and every other one with "continue".                                    *)

Children(record) ==
  IF record.msg = "Node" THEN record.f
  ELSE LET pointers == Pointers(record)
       IN  [ i \in DOMAIN pointers |-> pointers[i].to ]

RECURSIVE Walk(_, _, _)

Entered(item, state) ==
  [ state EXCEPT !.enters = @ + 1, !.calls = Append(@, <<"enter", Kind(item)>>) ]

Left(item, state) ==
  IF state.stopped THEN state
  ELSE [ state EXCEPT !.calls = Append(@, <<"leave", Kind(item)>>) ]

Control(plan, state) == IF state.enters = plan.at THEN plan.answer ELSE "continue"

\* FAULTY: what is skipped is not left.
Walk_Without_Leave(item, plan, entered) ==
  CASE Control(plan, entered) = "stop" -> [ entered EXCEPT !.stopped = TRUE ]
    [] Control(plan, entered) = "skip" -> entered
    [] OTHER -> Left(item, FoldLeft(LAMBDA s, child : Walk(child, plan, s),
                                    entered, Children(item)))

Walk_Inside(item, plan, entered) ==
  CASE Control(plan, entered) = "stop" -> [ entered EXCEPT !.stopped = TRUE ]
    [] Control(plan, entered) = "skip" -> Left(item, entered)
    [] OTHER -> Left(item, FoldLeft(LAMBDA s, child : Walk(child, plan, s),
                                    entered, Children(item)))

Walk(item, plan, state) ==
  IF state.stopped THEN state ELSE Walk_Inside(item, plan, Entered(item, state))

Traverse(tree, plan) ==
  Walk(tree.root, plan, [ stopped |-> FALSE, enters |-> 0, calls |-> <<>> ]).calls

-----------------------------------------------------------------------------
(* The owners of the trees.                                                *)

NoRoot == Record("ParseResult", << <<>>, <<>> >>)

NoTree == [ valid |-> FALSE, source |-> None, message |-> FALSE, root |-> NoRoot ]

RECURSIVE CellsOf(_)
CellsOf(record) ==
  UNION { {p.cell} \union CellsOf(p.to) : p \in ToSet(Pointers(record)) }

\* The ledger of the allocator when an operation on a tree begins.
Ledger(tree, fuel) ==
  [ live |-> CellsOf(tree.root), fuel |-> fuel, failed |-> None, twice |-> FALSE ]

Clear(tree, heap) == Done(NoTree, Release_Contents(tree.root, heap))

\* What has been converted into a cleared tree; any exception clears it again.
Fill(statement, root) ==
  IF root.ok
  THEN Done([ NoTree EXCEPT !.valid = TRUE, !.source = statement, !.root = root.v ], root.heap)
  ELSE [ Clear(NoTree, root.heap) EXCEPT !.ok = FALSE ]

\* A statement that is refused leaves its text and a diagnostic.
Refuse(tree, statement, heap) ==
  Done([ NoTree EXCEPT !.source = statement, !.message = TRUE ], Clear(tree, heap).heap)

Made(statement) == Statements[major][statement]

Accepted(statement) == Made(statement).kind \in {"null", "list"}

Parsed(tree, statement, heap) ==
  IF Accepted(statement)
  THEN Fill(statement, Convert_Native_Root(Made(statement), Clear(tree, heap).heap))
  ELSE Refuse(tree, statement, heap)

\* Load raises before the tree is cleared.
Owned(tree, statement, arena, heap) ==
  IF arena = Broken THEN [ Done(tree, heap) EXCEPT !.ok = FALSE ]
  ELSE Fill(statement, Convert_Parse_Result(arena, Clear(tree, heap).heap))

Materialized(tree, statement, heap) ==
  IF Accepted(statement)
  THEN Owned(tree, statement, Load(Made(statement)), heap)
  ELSE Refuse(tree, statement, heap)

\* What there is to know of an operation: a statement refused though storage
\* sufficed, the allocation that failed if records were lost, a double release.
Outcome(statement, fuel, done) ==
  LET lost == done.heap.live # CellsOf(done.v.root)
  IN  [ refused |-> IF fuel = Unlimited /\ ~done.ok THEN statement ELSE None,
        lost    |-> IF lost THEN <<done.heap.failed>> ELSE <<>>,
        twice   |-> done.heap.twice ]

NoOutcome == [ refused |-> None, lost |-> <<>>, twice |-> FALSE ]

\* Storage runs out only while the other tree is empty, a bound: an operation
\* neither reads nor writes it.
Parse(statement, fuel) ==
  \E done \in { Parsed(own, statement, Ledger(own, fuel)) } :
    /\ fuel # Unlimited => base = NoTree
    /\ own' = done.v
    /\ last' = Outcome(statement, fuel, done)
    /\ UNCHANGED <<major, base>>

Parse_Baseline(statement, fuel) ==
  \E done \in { Materialized(base, statement, Ledger(base, fuel)) } :
    /\ fuel # Unlimited => own = NoTree
    /\ base' = done.v
    /\ last' = Outcome(statement, fuel, done)
    /\ UNCHANGED <<major, own>>

\* Clear and Finalize.
Clear_Tree ==
  LET done == Clear(own, Ledger(own, Unlimited))
  IN  /\ own' = done.v
      /\ last' = Outcome(None, Unlimited, done)
      /\ UNCHANGED <<major, base>>

Init ==
  major \in Majors /\ own = NoTree /\ base = NoTree /\ last = NoOutcome

Next ==
  \/ \E s \in DOMAIN Statements[major], fuel \in {Unlimited} \union 0 .. MaxFuel :
       Parse(s, fuel) \/ Parse_Baseline(s, fuel)
  \/ Clear_Tree

Spec == Init /\ [][Next]_vars

-----------------------------------------------------------------------------
(* Properties.                                                             *)

\* A tree as a value: the records without the cells they are in.
RECURSIVE Erase(_)
Erase(record) ==
  [ record EXCEPT !.f = [ i \in DOMAIN @ |->
      IF record.msg = "Node" THEN Erase(@[i])
      ELSE [ k \in DOMAIN @[i] |->
             IF IsMessage(FieldsOf(record.msg)[i].type) THEN Erase(@[i][k].to)
             ELSE @[i][k] ] ] ]

\* The levels of objects and lists in what the parser makes.
RECURSIVE Nesting(_)
Nesting(item) ==
  LET Deepest(items) == FoldLeft(LAMBDA n, m : IF m > n THEN m ELSE n, 0, items)
  IN  CASE item.kind = "list" ->
             1 + Deepest([ i \in DOMAIN item.e |-> Nesting(item.e[i]) ])
        [] item.kind = "object" ->
             LET names == SetToSeq(DOMAIN item.f)
             IN  1 + Deepest([ i \in DOMAIN names |-> Nesting(item.f[names[i]]) ])
        [] OTHER -> 0

\* Two levels of depth for a list or an object, two for the A_Const union or
\* the base of a foreign table: a statement that stays clear of the limit.
Shallow(statement) ==
  Accepted(statement) => 2 * Nesting(Made(statement)) + 2 <= MaximumDepth

\* An exception at any allocation or append gives back every record that was
\* made, once (the handlers of the generated converters, Release and Clear);
\* only a List that finds no storage for its Node is lost with its elements.
StorageIsReturned ==
  /\ ~last.twice
  /\ last.lost \in {<<>>, <<"List">>}

\* "An Owned_Syntax_Tree ... owns the complete graph and releases it on Clear,
\* replacement, or finalization" (sql/README.md).
NothingIsLost == last.lost = <<>>

\* The two paths make the same tree of a statement that both accept, whatever
\* failed before: what differs between the A_Const of version 14 and of the
\* later ones, the flattened CreateStmt, defaults, nil elements and alternate
\* parse modes included.
AcceptedTreesAgree ==
  own.valid /\ base.valid /\ own.source = base.source =>
    Erase(own.root) = Erase(base.root)

\* Short of the depth limit neither path refuses a statement the grammar
\* accepts, and its trees can be compared.
ShallowStatementsAreAccepted ==
  /\ last.refused # None => ~Shallow(last.refused)
  /\ \A tree \in {own, base} : tree.valid /\ Shallow(tree.source) =>
       Equivalent(tree, tree) = "equal"

Agrees(verdict, equal) == verdict # "raise" => (verdict = "equal") = equal

Decided(graphs) ==
  LET trees == /\ own.valid = base.valid /\ own.source = base.source
               /\ own.message = base.message /\ graphs
  IN  /\ Agrees(Equivalent(own, base), trees)
      /\ Agrees(Equivalent(base, own), trees)
      /\ Agrees(Equivalent_Record(own.root, base.root, 0), graphs)
      /\ Agrees(Equivalent_Record(base.root, own.root, 0), graphs)

\* The comparator answers what equality of the trees would, in either order: of
\* the trees with their texts, and of the graphs of any two statements.
ComparatorDecides == Decided(Erase(own.root) = Erase(base.root))

Enters(calls) == SelectSeq(calls, LAMBDA c : c[1] = "enter")

\* Where the Leave is that belongs to the Enter at position i.
Closing(calls, i) ==
  CHOOSE j \in i + 1 .. Len(calls) :
    LET inside == SubSeq(calls, i, j)
    IN  /\ 2 * Len(Enters(inside)) = Len(inside)
        /\ \A k \in i .. j - 1 : 2 * Len(Enters(SubSeq(calls, i, k))) > k - i + 1

\* The calls of a traversal that was not stopped are nested, and that of one
\* which answered its k-th Enter with "stop" or "skip" is a part of them.
Nested(calls) ==
  LET enters == SelectSeq([ i \in DOMAIN calls |-> i ],
                          LAMBDA i : calls[i][1] = "enter")
  IN  /\ Cardinality(CellsOf(own.root)) < Len(enters)
      /\ Len(calls) = 2 * Len(enters)
      /\ \A k \in DOMAIN enters :
           LET i == enters[k]
               j == Closing(calls, i)
           IN  /\ calls[j] = <<"leave", calls[i][2]>>
               /\ Traverse(own, [ at |-> k, answer |-> "stop" ]) = SubSeq(calls, 1, i)
               /\ Traverse(own, [ at |-> k, answer |-> "skip" ])
                    = SubSeq(calls, 1, i) \o SubSeq(calls, j, Len(calls))

\* A traversal enters and leaves every record of the tree; Stop_Traversal ends
\* it there and then, and Skip_Children takes out what lies between that Enter
\* and its Leave, nothing else.
TraversalIsNested == Nested(Traverse(own, [ at |-> 0, answer |-> "continue" ]))
=============================================================================
