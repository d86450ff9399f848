---------------------------- MODULE SchemaReader ----------------------------
(***************************************************************************)
(* How the SQL generators read pg_query.proto: parse_proto, a line-by-line *)
(* reader that follows brace depth, and reachable_schema, the part of the  *)
(* schema the generated packages are made from                             *)
(* (src/sql/tools/generate_ada.py), with the check of schema_parts that    *)
(* Node represents every message (src/sql/tools/generate_owned_ast.py).    *)
(*                                                                         *)
(* A line is what the two regular expressions tell of it: its kind, the    *)
(* names in it and its braces.  A field's name stands for its json_name.   *)
(***************************************************************************)
EXTENDS Integers, Sequences, FiniteSets, SequencesExt

None == ""

Texts    == { "string", "bytes" }
Signed   == { "int32", "sint32", "sfixed32", "int64", "sint64", "sfixed64" }
Unsigned == { "uint32", "fixed32", "uint64", "fixed64" }
Floats   == { "float", "double" }
Scalars  == { "bool" } \union Texts \union Signed \union Unsigned \union Floats

Line(kind, name, open, close) ==
  [ kind |-> kind, name |-> name, type |-> None, repeated |-> FALSE,
    number |-> 0, open |-> open, close |-> close ]

FieldLine(type, name, repeated) ==
  [ Line("field", name, 0, 0) EXCEPT !.type = type, !.repeated = repeated ]

ValueLine(name, number) == [ Line("value", name, 0, 0) EXCEPT !.number = number ]

-----------------------------------------------------------------------------
(* Dictionaries that keep the order in which their keys were inserted.     *)

Position(dict, name) == SelectInSeq(dict, LAMBDA item : item.name = name)

Has(dict, name) == Position(dict, name) # 0

At(dict, name) == dict[Position(dict, name)]

Put(dict, item) ==
  IF Has(dict, item.name)
  THEN ReplaceAt(dict, Position(dict, item.name), item)
  ELSE Append(dict, item)

-----------------------------------------------------------------------------
(* parse_proto *)

InitialReader ==
  [ messages |-> <<>>, enums |-> <<>>, message |-> None, enum |-> None,
    depth |-> 0, pendingKind |-> None, pendingName |-> None,
    oneof |-> None, oneofDepth |-> 0 ]

\* The declaration of a message or an enum whose brace is on this line.
Open(reader, kind, name, line) ==
  LET opened == [ reader EXCEPT !.depth = line.open - line.close,
                                !.pendingKind = None, !.pendingName = None ]
  IN  IF kind = "message"
      THEN [ opened EXCEPT !.message = name,
                           !.messages = Put(@, [ name |-> name, fields |-> <<>> ]) ]
      ELSE [ opened EXCEPT !.enum = name,
                           !.enums = Put(@, [ name |-> name, values |-> <<>> ]) ]

ReadOutside(reader, line) ==
  LET declares == line.kind \in {"message", "enum"}
  IN  CASE declares /\ line.open > 0 -> Open(reader, line.kind, line.name, line)
        [] declares /\ line.open = 0 ->
             [ reader EXCEPT !.pendingKind = line.kind, !.pendingName = line.name ]
        [] ~declares /\ reader.pendingKind # None /\ line.open > 0 ->
             Open(reader, reader.pendingKind, reader.pendingName, line)
        [] OTHER -> reader

AddField(reader, line) ==
  LET message == At(reader.messages, reader.message)
      field   == [ type |-> line.type, name |-> line.name,
                   repeated |-> line.repeated, oneof |-> reader.oneof ]
  IN  [ reader EXCEPT !.messages =
          Put(@, [ message EXCEPT !.fields = Append(@, field) ]) ]

AddValue(reader, line) ==
  LET enum == At(reader.enums, reader.enum)
  IN  [ reader EXCEPT !.enums =
          Put(@, [ enum EXCEPT !.values = Append(@, <<line.name, line.number>>) ]) ]

ReadDeclaration(reader, line) ==
  CASE reader.message # None /\ line.kind = "oneof" /\ line.open > 0 ->
         [ reader EXCEPT !.oneof = line.name,
                         !.oneofDepth = reader.depth + line.open - line.close ]
    [] reader.message # None /\ line.kind = "field" -> AddField(reader, line)
    [] reader.message = None /\ reader.enum # None /\ reader.depth = 1
         /\ line.kind = "value" -> AddValue(reader, line)
    [] OTHER -> reader

LeaveOneof(reader) ==
  IF reader.oneof # None /\ reader.depth < reader.oneofDepth
  THEN [ reader EXCEPT !.oneof = None, !.oneofDepth = 0 ]
  ELSE reader

LeaveDeclaration(reader) ==
  IF reader.depth = 0
  THEN [ reader EXCEPT !.message = None, !.enum = None ]
  ELSE reader

ReadInside(reader, line) ==
  LET read == ReadDeclaration(reader, line)
  IN  LeaveDeclaration(LeaveOneof(
        [ read EXCEPT !.depth = @ + line.open - line.close ]))

parse_proto(lines) ==
  LET Read(reader, line) == IF reader.depth = 0
                            THEN ReadOutside(reader, line)
                            ELSE ReadInside(reader, line)
      read == FoldLeft(Read, InitialReader, lines)
  IN  [ messages |-> read.messages, enums |-> read.enums ]

-----------------------------------------------------------------------------
(* reachable_schema *)

TypesOf(message) == [ i \in DOMAIN message.fields |-> message.fields[i].type ]

RECURSIVE Reach(_, _, _, _)
Reach(schema, pending, messages, enums) ==
  IF pending = <<>> THEN [ messages |-> messages, enums |-> enums ]
  ELSE LET name == Head(pending)
           types == TypesOf(At(schema.messages, name))
       IN  IF name \in messages \/ ~Has(schema.messages, name)
           THEN Reach(schema, Tail(pending), messages, enums)
           ELSE Reach(schema,
                      Tail(pending) \o
                        SelectSeq(types, LAMBDA t : Has(schema.messages, t)),
                      messages \union {name},
                      enums \union { t \in ToSet(types) :
                        Has(schema.enums, t) /\ ~Has(schema.messages, t) })

\* The types that make it raise: the first of them ends the program.
UnknownTypes(schema, messages) ==
  { t \in UNION { ToSet(TypesOf(At(schema.messages, m))) : m \in messages } :
      ~Has(schema.messages, t) /\ ~Has(schema.enums, t) /\ t \notin Scalars }

reachable_schema(schema) ==
  LET reached == Reach(schema, <<"ParseResult", "Node">>, {}, {})
  IN  [ ok |-> UnknownTypes(schema, reached.messages) = {},
        messages |-> SelectSeq(schema.messages,
                               LAMBDA m : m.name \in reached.messages),
        enums |-> SelectSeq(schema.enums, LAMBDA e : e.name \in reached.enums) ]

\* The fields of the messages and the values of the enums, looked up by name.
ByName(schema) ==
  LET Names(dict) == { item.name : item \in ToSet(dict) }
  IN  [ fields |-> [ name \in Names(schema.messages) |-> At(schema.messages, name).fields ],
        values |-> [ name \in Names(schema.enums) |-> At(schema.enums, name).values ] ]

-----------------------------------------------------------------------------
(* schema_parts *)

SpecialMessages == { "ParseResult", "Node" }

Unexpected(messages) ==
  { m.name : m \in ToSet(messages) } \ (SpecialMessages \union { "RawStmt" }
    \union ToSet(TypesOf(At(messages, "Node"))))

\* The messages that other records refer to through an access type.
access_targets(messages) ==
  UNION { ToSet(TypesOf(m)) : m \in { n \in ToSet(messages) : n.name # "Node" } }
    \intersect ({ m.name : m \in ToSet(messages) } \ {"Node"})
=============================================================================
