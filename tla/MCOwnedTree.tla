----------------------------- MODULE MCOwnedTree -----------------------------
(* The owned trees over a few messages of pg_query.proto: version 14, whose *)
(* A_Const holds a Node, and version 16, whose A_Const holds a oneof.       *)
EXTENDS OwnedTree

Message(name, fields) == [ name |-> name, fields |-> fields ]
Component(type, name, repeated) ==
  [ type |-> type, name |-> name, repeated |-> repeated, oneof |-> None ]
One(type, name)  == Component(type, name, FALSE)
Many(type, name) == Component(type, name, TRUE)

Variants(names) ==
  Message("Node", [ i \in DOMAIN names |-> One(names[i], names[i]) ])

Common ==
  << Message("ParseResult", <<One("int32", "version"), Many("RawStmt", "stmts")>>),
     Message("Integer", <<One("int32", "ival")>>),
     Message("List", <<Many("Node", "items")>>),
     Message("RangeVar", <<One("string", "relname"), One("bool", "inh"),
                           One("string", "relpersistence")>>),
     Message("RawStmt", <<One("Node", "stmt"), One("int32", "stmt_len")>>),
     Message("SelectStmt", <<Many("Node", "distinctClause"), Many("Node", "valuesLists"),
       One("SetOperation", "op"), One("bool", "all"), One("SelectStmt", "larg"),
       One("SelectStmt", "rarg")>>),
     Message("TypeCast", <<One("Node", "arg"), One("int32", "location")>>),
     Message("CreateStmt", <<One("RangeVar", "relation"), Many("Node", "tableElts"),
       One("bool", "if_not_exists")>>),
     Message("CreateForeignTableStmt", <<One("CreateStmt", "base"),
       One("string", "servername")>>),
     Message("SummaryResult", <<One("Table", "tables")>>) >>

Shared == << "RangeVar", "RawStmt", "SelectStmt", "TypeCast", "CreateStmt",
             "CreateForeignTableStmt", "Integer", "String", "List", "A_Const" >>

SetOperation ==
  [ name |-> "SetOperation",
    values |-> << <<"SET_OPERATION_UNDEFINED", 0>>, <<"SETOP_NONE", 1>>,
                  <<"SETOP_UNION", 2>> >> ]

MCSchema(m) == reachable_schema(
  [ enums |-> <<SetOperation>>,
    messages |-> Common \o
      IF m = 14
      THEN << Variants(Append(Shared, "Null")), Message("Null", <<>>),
              Message("String", <<One("string", "str")>>),
              Message("A_Const", <<One("Node", "val"), One("int32", "location")>>) >>
      ELSE << Variants(Shared), Message("String", <<One("string", "sval")>>),
              Message("A_Const", <<One("Integer", "ival"), One("String", "sval"),
                                   One("bool", "isnull"), One("int32", "location")>>) >> ])

MCSchemas == 14 :> ByName(MCSchema(14)) @@ 16 :> ByName(MCSchema(16))

MCEnumerators == [ m \in {14, 16} |->
  [ SETOP_NONE |-> 0, SETOP_UNION |-> 1, T_List |-> 1, T_Integer |-> 2,
    T_String |-> 3, T_A_Const |-> 4, T_SelectStmt |-> 5 ]
  @@ IF m = 14 THEN [ T_Null |-> 6 ] ELSE <<>> ]

-----------------------------------------------------------------------------
(* What the semantic actions make of statements.                           *)

Fields(pairs) == [ path \in { p[1] : p \in ToSet(pairs) } |->
                   (CHOOSE p \in ToSet(pairs) : p[1] = path)[2] ]
Make(type, pairs) == Object(type, Fields(pairs))
At1(name, v) == << <<name>>, v >>

A == TextValue(<<97>>)

IntConst(m, n) == Make("A_Const",
  IF m = 14 THEN << << <<"val", "type">>, Number(2) >>,
                    << <<"val", "val", "ival">>, Number(n) >> >>
  ELSE << << <<"val", "ival", "type">>, Number(2) >>,
          << <<"val", "ival", "ival">>, Number(n) >>, At1("location", Number(7)) >>)

TextConst(m) == Make("A_Const",
  IF m = 14 THEN << << <<"val", "type">>, Number(3) >>, << <<"val", "val", "str">>, A >> >>
  ELSE << << <<"val", "sval", "type">>, Number(3) >>, << <<"val", "sval", "sval">>, A >> >>)

NullConst(m) == Make("A_Const",
  IF m = 14 THEN << << <<"val", "type">>, Number(6) >> >>
  ELSE << At1("isnull", Flag(TRUE)) >>)

Values(rows)    == Make("SelectStmt", << At1("valuesLists", ListValue(rows)) >>)
Union(l, r)     == Make("SelectStmt", << At1("op", Number(1)), At1("all", Flag(TRUE)),
                                         At1("larg", l), At1("rarg", r) >>)
Distinct        == Make("SelectStmt", << At1("distinctClause", ListValue(<<NullValue>>)) >>)
Cast(item)      == Make("TypeCast", << At1("arg", item) >>)
Raw(item)       == Make("RawStmt", << At1("stmt", item), At1("stmt_len", Number(0)) >>)
Row(items)      == ListValue(items)

RECURSIVE Casts(_, _), Rows(_, _)
Casts(n, item) == IF n = 0 THEN item ELSE Cast(Casts(n - 1, item))
Rows(n, item)  == IF n = 0 THEN item ELSE Row(<<Rows(n - 1, item)>>)

Foreign == Make("CreateForeignTableStmt", <<
  << <<"base", "relation">>,
     Make("RangeVar", << At1("relname", A), At1("inh", Number(1)),
                         At1("relpersistence", Number(112)) >>) >>,
  << <<"base", "tableElts">>, ListValue(<<>>) >>, At1("servername", A) >>)

MCStatements == [ m \in {14, 16} |->
  [ empty    |-> NullValue,
    error    |-> [ kind |-> "error" ],
    values   |-> ListValue(<<Raw(Values(<<Row(<<IntConst(m, 0), TextConst(m)>>)>>))>>),
    union    |-> ListValue(<<Raw(Union(Values(<<>>), Distinct)),
                             Raw(NullValue)>>),
    foreign  |-> ListValue(<<Raw(Foreign)>>),
    mode     |-> ListValue(<<Cast(NullConst(m)), Make("Integer", <<>>)>>),
    string   |-> ListValue(<<Make("String", <<At1("sval", A)>>)>>),
    casts    |-> ListValue(<<Raw(Casts(3, IntConst(m, 5)))>>),
    deeper   |-> ListValue(<<Raw(Casts(4, TextConst(m)))>>),
    rows     |-> ListValue(<<Raw(Values(<<Rows(2, Make("Integer", <<>>))>>))>>),
    deepest  |-> ListValue(<<Raw(Casts(5, NullValue))>>) ] ]
=============================================================================
