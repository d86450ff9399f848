------------------------- MODULE MCCompiledActions -------------------------
(***************************************************************************)
(* Two versions of a small grammar in the forms of gram.y: constants with  *)
(* embedded fields, negated in place; qualified names, by a switch in the  *)
(* action (14) or in a function (18); column qualifications split by a     *)
(* foreach with continue and a null-pointer test; a crossing arrow.        *)
(***************************************************************************)
EXTENDS CompiledActions

Named_(kind, name)  == [ Node(kind, <<>>) EXCEPT !.name = name ]
Ref(name)           == Named_("DeclRefExpr", name)
TagRef(name)        == [ Ref(name) EXCEPT !.op = "tag" ]
Lit(n)              == [ Node("IntegerLiteral", <<>>) EXCEPT !.value = n ]
Str(text)           == Named_("StringLiteral", text)
Subscript(stack_, i) == [ Named_("ArraySubscriptExpr", stack_) EXCEPT !.value = i ]
Paren(node)         == Node("ParenExpr", <<node>>)
Dot(node, name)     == [ Node("MemberExpr", <<node>>) EXCEPT !.name = name ]
Arrow(node, name)   == [ Dot(node, name) EXCEPT !.arrow = TRUE ]
Val(i)              == Paren(Dot(Subscript("yyvsp", i), "node"))
Loc(i)              == Paren(Subscript("yylsp", i))
YYVal               == Paren(Dot(Ref("yyval"), "node"))
Cast(node)          == Node("CStyleCastExpr", <<node>>)
PointerCast(node)   == [ Cast(node) EXCEPT !.arrow = TRUE ]
CallOf(name, args)  == Node("CallExpr", <<Node("ImplicitCastExpr", <<Ref(name)>>)>> \o args)
Op(op, left, right) == [ Node("BinaryOperator", <<left, right>>) EXCEPT !.op = op ]
Prefix(op, node)    == [ Node("UnaryOperator", <<node>>) EXCEPT !.op = op ]
SetTo(left, right)  == Op("=", left, right)
Block(statements)   == Node("CompoundStmt", statements)
If(test, yes)       == Node("IfStmt", <<test, yes>>)
IfElse(test, y, n)  == Node("IfStmt", <<test, y, n>>)
Var(name, init)     == Node("DeclStmt", <<[ Node("VarDecl", init) EXCEPT !.name = name ]>>)
MakeNode(type)      == [ Named_("StmtExpr", type) EXCEPT !.text = "makeNode" ]
Return(node)        == Node("ReturnStmt", <<node>>)
Foreach_(cell, list, body) ==
  [ Node("ForStmt", <<list, body>>) EXCEPT !.text = "foreach", !.name = cell ]
IsA(node, type)     == Op("==", Arrow(Paren(Cast(node)), "type"), TagRef(type))
Lfirst(node)        == Cast(Dot(node, "ptr_value"))
Linitial(list)      == Arrow(CallOf("list_nth_cell", <<list, Lit(0)>>), "ptr_value")
Nth(list, n)        == Arrow(CallOf("list_nth_cell", <<list, Lit(n)>>), "ptr_value")
StrVal(node)        == Arrow(Paren(Cast(node)), "sval")
EReport(message, at) ==
  Node("DoStmt", <<CallOf("errmsg", <<Str(message)>>)>>
                   \o [ i \in DOMAIN at |-> CallOf("parser_errposition", <<at[i]>>) ])
Function(name, params, body) ==
  [ Node("FunctionDecl", [ i \in DOMAIN params |-> Named_("ParmVarDecl", params[i]) ]
                           \o <<body>>) EXCEPT !.name = name ]
Constant(n)         == [ Node("ConstantExpr", <<Lit(n)>>) EXCEPT !.value = n ]
Case(value, body)   == Node("CaseStmt", <<Constant(value), body>>)
Default(body)       == Node("DefaultStmt", <<body>>)
Break               == Node("BreakStmt", <<>>)

-----------------------------------------------------------------------------
\* The parts of a RangeVar, in the cases of the switch over a name's length.
Relation(target, catalog_, schema, relation) ==
  Block(<<SetTo(Arrow(target, "catalogname"), catalog_),
          SetTo(Arrow(target, "schemaname"), schema),
          SetTo(Arrow(target, "relname"), relation)>>)

Improper(at) == EReport("improper qualified name (too many dotted names)", <<at>>)

NameSwitch(list, cases) ==
  [ Node("SwitchStmt", <<CallOf("list_length", <<list>>), Block(cases)>>)
      EXCEPT !.text = "list_length" ]

Qualified(name, list, target, at) == NameSwitch(list, <<
  Case(1, Relation(target, Ref("NULL"), name, StrVal(Linitial(list)))), Break,
  Case(2, Relation(target, name, StrVal(Linitial(list)), StrVal(Nth(list, 1)))), Break,
  Default(Improper(at)), Break>>)

AnyName == Function("makeRangeVarFromAnyName", <<"names", "position", "yyscanner">>, Block(<<
  Var("r", <<MakeNode("RangeVar")>>),
  NameSwitch(Ref("names"), <<
    Case(1, Relation(Ref("r"), Ref("NULL"), Ref("NULL"), StrVal(Linitial(Ref("names"))))), Break,
    Case(2, Relation(Ref("r"), Ref("NULL"), StrVal(Linitial(Ref("names"))),
                     StrVal(Nth(Ref("names"), 1)))), Break,
    Case(3, Relation(Ref("r"), StrVal(Linitial(Ref("names"))), StrVal(Nth(Ref("names"), 1)),
                     StrVal(Nth(Ref("names"), 2)))), Break,
    Default(Improper(Ref("position"))), Break>>),
  SetTo(Arrow(Ref("r"), "location"), Ref("position")),
  Return(Ref("r"))>>))

SplitColQualList ==
  Function("SplitColQualList", <<"qualList", "constraintList", "collClause", "yyscanner">>, Block(<<
    Var("cell", <<>>),
    Foreach_("cell", Paren(Ref("qualList")), Block(<<
      Var("n", <<Lfirst(Ref("cell"))>>),
      If(IsA(Ref("n"), "Constraint"), Block(<<
        SetTo(Prefix("*", Ref("constraintList")),
              CallOf("lappend", <<Prefix("*", Ref("constraintList")), Ref("n")>>)),
        Node("ContinueStmt", <<>>)>>)),
      IfElse(IsA(Ref("n"), "CollateClause"), Block(<<
          Var("c", <<Cast(Ref("n"))>>),
          If(Prefix("*", Ref("collClause")),
             EReport("multiple COLLATE clauses not allowed", <<Arrow(Ref("c"), "location")>>)),
          SetTo(Prefix("*", Ref("collClause")), Ref("c"))>>),
        [ Node("DoStmt", <<>>) EXCEPT !.text = "elog" ])>>))>>))

\* Collects what an argument contributes; the list is a member of a local.
CountConstraints == Function("countConstraints", <<"column", "limit">>, Block(<<
  Var("lc", <<>>), Var("other", <<>>), Var("i", <<Lit(0)>>),
  Foreach_("lc", Arrow(Ref("column"), "constraints"), Block(<<
    Var("d", <<Lfirst(Ref("lc"))>>),
    If(Op("&&", Op("==", Arrow(Ref("d"), "contype"), Ref("CONSTR_CHECK")),
                Op(">", Ref("limit"), Ref("i"))),
       Prefix("++", Ref("i"))),
    Foreach_("other", Arrow(Ref("column"), "constraints"),
      If(Op("&&", Op("==", Lfirst(Ref("other")), Ref("d")),
                  Op("!=", Arrow(Ref("d"), "contype"), Ref("CONSTR_CHECK"))),
         Node("ContinueStmt", <<>>)))>>)),
  Return(Ref("i"))>>))

Col == Ref("n")

\* The actions by what they make; both versions share most of them.
Action(kind) ==
  CASE kind = "name"    -> Block(<<SetTo(YYVal, CallOf("list_make1_impl", <<Lit(0),
                             CallOf("makeString", <<Val(1)>>)>>))>>)
    [] kind = "names"   -> Block(<<SetTo(YYVal, CallOf("lappend", <<Val(1),
                             CallOf("makeString", <<Val(2)>>)>>))>>)
    [] kind = "in_action" -> Block(<<SetTo(YYVal, MakeNode("RangeVar")),
                             Qualified(Val(1), Val(2), YYVal, Loc(1)),
                             SetTo(Arrow(YYVal, "location"), Loc(1))>>)
    [] kind = "in_function" -> Block(<<SetTo(YYVal, CallOf("makeRangeVarFromAnyName",
                             <<Val(1), Loc(1), Ref("yyscanner")>>))>>)
    [] kind = "number"  -> Block(<<Var("n", <<MakeNode("A_Const")>>),
                             SetTo(Dot(Dot(Arrow(Col, "val"), "ival"), "ival"), Val(1)),
                             SetTo(Arrow(Col, "location"), Loc(1)),
                             SetTo(YYVal, Cast(Col))>>)
    [] kind = "minus"   -> Block(<<SetTo(YYVal, CallOf("doNegate", <<Val(2), Loc(1)>>))>>)
    [] kind = "check"   -> Block(<<Var("n", <<MakeNode("Constraint")>>),
                             SetTo(Arrow(Col, "contype"), Ref("CONSTR_CHECK")),
                             SetTo(Arrow(Col, "raw_expr"), Val(2)),
                             SetTo(YYVal, Cast(Col))>>)
    [] kind = "collate" -> Block(<<Var("n", <<MakeNode("CollateClause")>>),
                             SetTo(Arrow(Col, "collname"), Val(1)),
                             SetTo(Arrow(Col, "location"), Loc(1)),
                             SetTo(YYVal, Cast(Col))>>)
    [] kind = "quals"   -> Block(<<SetTo(YYVal, CallOf("lappend", <<Val(1), Val(2)>>))>>)
    [] kind = "empty"   -> Block(<<SetTo(YYVal, Ref("NIL"))>>)
    [] kind = "column"  -> Block(<<Var("n", <<MakeNode("ColumnDef")>>),
                             CallOf("SplitColQualList", <<Val(2),
                               Prefix("&", Arrow(Col, "constraints")),
                               Prefix("&", Arrow(Col, "collClause")), Ref("yyscanner")>>),
                             SetTo(Arrow(Col, "inhcount"),
                                   CallOf("countConstraints", <<Col, Lit(9)>>)),
                             SetTo(YYVal, Cast(Col))>>)
    [] kind = "statement" -> Block(<<Var("n", <<MakeNode("CreateStmt")>>),
                             SetTo(Dot(Arrow(Col, "base"), "relation"), Val(1)),
                             SetTo(Arrow(Dot(Arrow(Col, "base"), "relation"), "inh"),
                                   Op(">", Loc(2), Lit(0))),
                             SetTo(Arrow(Col, "column"),
                                   Node("ConditionalOperator", <<Op("!=", Val(2), Ref("NULL")),
                                     Val(2), PointerCast(Lit(0))>>)),
                             SetTo(Paren(Ref("yyloc")), Loc(2)),
                             SetTo(Arrow(CallOf("pg_yyget_extra", <<>>), "parsetree"), Cast(Col)),
                             SetTo(YYVal, Cast(Col))>>)
    [] kind = "refuse"  -> Block(<<If(Op("||", Op("==", Val(1), Ref("NULL")),
                                                Op(">", Loc(1), Lit(0))),
                             EReport("not here", <<Loc(2)>>))>>)
    [] kind = "loops"   -> Block(<<Var("c", <<>>),
                             Foreach_("c", Val(1), Block(<<
                               If(IsA(Lfirst(Ref("c")), "List"), Node("ContinueStmt", <<>>)),
                               SetTo(Paren(Ref("yyloc")), Op("-", Ref("yyloc"), Lit(1)))>>))>>)
    [] kind = "untranslated" -> Block(<<Node("WhileStmt",
                             <<Op(">", Ref("yyloc"), Lit(9)), Block(<<>>)>>)>>)

\* [rule in 14, rule in 18 (0: not there), left, right, action].
Grammar == <<
  <<2, 3, "names", <<"id">>, "name">>,
  <<3, 2, "names", <<"names", "id">>, "names">>,
  <<4, 0, "relation", <<"id", "names">>, "in_action">>,
  <<0, 4, "relation", <<"names">>, "in_function">>,
  <<5, 6, "expr", <<"num">>, "number">>,
  <<6, 7, "expr", <<"-", "expr">>, "minus">>,
  <<7, 0, "order", <<"names", "check">>, "loops">>,
  <<8, 9, "qual", <<"check", "expr">>, "check">>,
  <<9, 8, "qual", <<"collate">>, "collate">>,
  <<10, 11, "quals", <<"quals", "qual">>, "quals">>,
  <<11, 10, "quals", <<>>, "empty">>,
  <<12, 13, "columnDef", <<"table", "quals">>, "column">>,
  <<13, 14, "stmt", <<"relation", "columnDef">>, "statement">>,
  <<14, 12, "stmt", <<"relation", "-">>, "refuse">>,
  <<15, 15, "order", <<"names", "-">>, "loops">> >>

RuleOf(row, m) == IF m = 14 THEN row[1] ELSE row[2]

RulesOf(m) == { [ rule |-> RuleOf(row, m), left |-> row[3], right |-> row[4],
                  after |-> {"table"} ] :
                  row \in { r \in ToSet(Grammar) : RuleOf(r, m) # 0 } }

MCRules == (14 :> RulesOf(14)) @@ (18 :> RulesOf(18))

SwitchOf(m, rows) ==
  Node("SwitchStmt", <<Ref("yyn"), Block(FlattenSeq([ i \in DOMAIN rows |->
    IF RuleOf(rows[i], m) = 0 THEN <<>>
    ELSE <<Case(RuleOf(rows[i], m), Action(rows[i][5])), Break>> ]))>>)

EnumsOf(m) ==
  Node("EnumDecl", <<Named_("EnumConstantDecl", "CONSTR_NULL")>>
    \o (IF m = 14 THEN <<>> ELSE <<Named_("EnumConstantDecl", "CONSTR_NOTNULL")>>)
    \o <<Named_("EnumConstantDecl", "CONSTR_CHECK"),
         [ Node("EnumConstantDecl", <<Lit(9)>>) EXCEPT !.name = "ROLESPEC_CSTRING" ]>>)

SourceOf(m, rows) ==
  [ major |-> m, enums |-> EnumsOf(m), switch |-> SwitchOf(m, rows),
    functions |-> <<SplitColQualList, AnyName>>, makefuncs |-> <<CountConstraints>> ]

MCSources == (14 :> SourceOf(14, Grammar)) @@ (18 :> SourceOf(18, Grammar))

\* The same with an action that the compiler does not translate.
BrokenGrammar == Append(Grammar, <<16, 16, "order", <<"table">>, "untranslated">>)

BrokenSources == (14 :> SourceOf(14, BrokenGrammar)) @@ (18 :> SourceOf(18, BrokenGrammar))

MCTokens ==
  { [ symbol |-> "id", value |-> Text("x") ], [ symbol |-> "num", value |-> IntOf(2) ],
    [ symbol |-> "-", value |-> Null ], [ symbol |-> "check", value |-> Null ],
    [ symbol |-> "collate", value |-> Text("c") ], [ symbol |-> "table", value |-> Null ] }

MCIdentifier(how, i) ==
  CASE how = "ascending" -> i
    [] how = "scattered" -> ((i * 7) % 41) + 3
    [] how = "shared" -> IF i = 2 THEN 1 ELSE i
    [] how = "reserved" -> i - 1
=============================================================================
