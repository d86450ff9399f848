--------------------------- MODULE GrammarActions ---------------------------
(***************************************************************************)
(* What PostgreSQL's own grammar actions do: the C that the semantic       *)
(* action compiler translates, executed on the machine of the builder.     *)
(* External code: its statements as the language defines them, on the same *)
(* nodes that the compiler reads.  Locals are a function by name.  A null  *)
(* pointer that is followed ends the machine with flow "undefined", about  *)
(* which nothing is promised; a null and a zero are the same value.        *)
(***************************************************************************)
EXTENDS SemanticBuilder

Tag(type) == [ kind |-> "tag", t |-> type ]

Undefined(m) == [ m EXCEPT !.flow = "undefined" ]

\* An embedded structure or a field: the object and the path in it.
AtField(i, path) == [ at |-> "field", i |-> i, path |-> path, name |-> None ]
AtName(name)     == [ at |-> "name", i |-> 0, path |-> <<>>, name |-> name ]
AtValue(i)       == [ at |-> "value", i |-> i, path |-> <<>>, name |-> None ]

Zero(value) == value.kind = "null" \/ (value.kind \in {"int", "bool"} /\ value.n = 0)

Same(left, right) == (Zero(left) /\ Zero(right)) \/ left = right

NodeTag(m, value) ==
  IF value.kind = "list" THEN Tag("List") ELSE Tag(Object_Type(m, value))

RECURSIVE Meaning(_, _, _), Run(_, _, _)

\* The place that an lvalue denotes, in v, after its evaluation.
RECURSIVE Place(_, _, _)
Place(m, node, source) ==
  LET what  == Strip(node)
      inner == Strip(what.inner[1])
      union == inner.kind = "ArraySubscriptExpr" \/ inner.name = "yyval"
  IN  CASE what.kind = "DeclRefExpr" -> Yield(m, AtName(what.name))
        [] what.kind = "ArraySubscriptExpr" -> Yield(m, AtValue(what.value))
        [] what.kind = "UnaryOperator" ->
             Then(Meaning(m, what.inner[1], source), LAMBDA n :
               IF n.v.kind = "reference" THEN Yield(n, AtField(n.v.i, n.v.path))
               ELSE Undefined(n))
        [] what.kind = "MemberExpr" /\ what.name = "parsetree" ->
             Yield(m, AtName("parsetree"))
        [] what.kind = "MemberExpr" /\ what.name # "parsetree" /\ ~what.arrow ->
             Then(Place(m, inner, source), LAMBDA n :
               IF union THEN n ELSE Yield(n, [ n.v EXCEPT !.path = Append(@, what.name) ]))
        [] what.kind = "MemberExpr" /\ what.name # "parsetree" /\ what.arrow ->
             Then(Meaning(m, inner, source), LAMBDA n :
               IF n.v.kind = "object" THEN Yield(n, AtField(n.v.i, <<what.name>>))
               ELSE Undefined(n))

Load(m, place) ==
  CASE place.at = "field" -> Field_Of(m, Object(place.i), place.path)
    [] place.at = "value" -> m.values[place.i]
    [] place.name = "yyval" -> m.result
    [] place.name = "yyloc" -> IntOf(m.location)
    [] place.name = "parsetree" -> m.parse
    [] OTHER -> m.locals[place.name]

Store(m, place, value) ==
  CASE place.at = "field" -> Set_Field(m, Object(place.i), place.path, value)
    [] place.name = "yyval" -> [ m EXCEPT !.result = value ]
    [] place.name = "yyloc" -> [ m EXCEPT !.location = Integer_Of(value) ]
    [] place.name = "parsetree" -> [ m EXCEPT !.parse = value ]
    [] OTHER -> [ m EXCEPT !.locals = (place.name :> value) @@ @ ]

MeaningAll(m, nodes, source) ==
  FoldLeft(LAMBDA n, node : Collected(n, Meaning(n, node, source)), Yield(m, <<>>), nodes)

\* A function of the parser, or one of PostgreSQL's library.
Called(m, name, args, source) ==
  LET functions == SelectSeq(source.functions \o source.makefuncs, LAMBDA f : f.name = name)
      f == functions[1]
      bound == [ x \in { f.inner[i].name : i \in 1 .. Len(f.inner) - 1 } |->
                 args[CHOOSE i \in 1 .. Len(f.inner) - 1 : f.inner[i].name = x] ]
  IN  IF functions = <<>> \/ name \in HANDWRITTEN_HELPERS THEN Library(m, name, args)
      ELSE Returned(m, Run([ m EXCEPT !.locals = bound, !.inside = TRUE ],
                           Last(f.inner), source))

Logical(m, node, source) ==
  Then(Meaning(m, node.inner[1], source), LAMBDA left :
    IF Zero(left.v) = (node.op = "&&") THEN Yield(left, Flag(node.op = "||"))
    ELSE Then(Meaning(left, node.inner[2], source), LAMBDA right :
           Yield(right, Flag(~Zero(right.v)))))

Compared(op, left, right) ==
  CASE op = "==" -> Flag(Same(left, right))
    [] op = "!=" -> Flag(~Same(left, right))
    [] OTHER -> Arithmetic(op, Integer_Of(left), Integer_Of(right))

Named(m, node, source) ==
  CASE node.op = "tag" -> Yield(m, Tag(node.name))
    [] node.name \in {"NIL", "NULL", "yyscanner"} -> Yield(m, Null)
    [] node.op # "tag" /\ node.name \in DOMAIN enum_values(source.enums) ->
         Yield(m, IntOf(enum_values(source.enums)[node.name]))
    [] OTHER -> Yield(m, Load(m, AtName(node.name)))

Member(m, node, source) ==
  CASE node.name \in CellSelectors ->
         Then(Meaning(m, node.inner[1], source), LAMBDA n : Cell_Element(n, n.v))
    [] node.name = "type" /\ node.arrow ->
         Then(Meaning(m, node.inner[1], source), LAMBDA n :
           IF n.v.kind \in {"object", "list"} THEN Yield(n, NodeTag(n, n.v))
           ELSE Undefined(n))
    [] OTHER -> Then(Place(m, node, source), LAMBDA n : Yield(n, Load(n, n.v)))

\* "&", "++" and "--" are about the operand's place, the others about its value.
OfPlace(m, op) ==
  CASE op = "&"  -> Yield(m, Field_Reference(m.v.i, m.v.path))
    [] op = "++" -> Store(m, m.v, IntOf(Integer_Of(Load(m, m.v)) + 1))
    [] op = "--" -> Store(m, m.v, IntOf(Integer_Of(Load(m, m.v)) - 1))

OfValue(m, op) ==
  CASE op = "*" -> Dereference(m, m.v)
    [] op = "!" -> Yield(m, Flag(Zero(m.v)))
    [] op = "-" -> Yield(m, IntOf(-Integer_Of(m.v)))

BinaryMeaning(m, node, source) ==
  CASE node.op \in {"&&", "||"} -> Logical(m, node, source)
    [] node.op = "=" ->
         Then(Place(m, node.inner[1], source), LAMBDA place :
           Then(Meaning(place, node.inner[2], source), LAMBDA n :
             Store(n, place.v, n.v)))
    [] OTHER -> Then(MeaningAll(m, node.inner, source), LAMBDA n :
                  Yield(n, Compared(node.op, n.v[1], n.v[2])))

ExpressionMeaning(m, node, source) ==
  CASE node.text = "makeNode" -> New_Object(m, node.name)
    [] node.text # "makeNode" /\ node.kind \in PASSTHROUGH \union {"CStyleCastExpr"} ->
         Meaning(m, node.inner[1], source)
    [] node.kind \in {"IntegerLiteral", "CharacterLiteral"} -> Yield(m, IntOf(node.value))
    [] node.kind = "StringLiteral" -> Yield(m, Text(node.name))
    [] node.kind = "DeclRefExpr" -> Named(m, node, source)
    [] node.kind = "ArraySubscriptExpr" ->
         Yield(m, IF node.name = "yyvsp" THEN m.values[node.value]
                  ELSE IntOf(m.places[node.value]))
    [] node.kind = "MemberExpr" -> Member(m, node, source)
    [] node.kind = "CallExpr" ->
         Then(MeaningAll(m, Tail(node.inner), source), LAMBDA n :
           Called(n, referenced_name(node.inner[1]), n.v, source))
    [] node.kind = "BinaryOperator" -> BinaryMeaning(m, node, source)
    [] node.kind = "ConditionalOperator" ->
         Then(Meaning(m, node.inner[1], source), LAMBDA n :
           Meaning(n, node.inner[IF Zero(n.v) THEN 3 ELSE 2], source))
    [] node.kind = "UnaryOperator" /\ node.op \in {"&", "++", "--"} ->
         Then(Place(m, node.inner[1], source), LAMBDA n : OfPlace(n, node.op))
    [] node.kind = "UnaryOperator" /\ node.op \notin {"&", "++", "--"} ->
         Then(Meaning(m, node.inner[1], source), LAMBDA n : OfValue(n, node.op))

Meaning(m, node, source) ==
  IF m.flow = "run" THEN ExpressionMeaning(m, node, source) ELSE m

-----------------------------------------------------------------------------
(* Statements; flow "break" and "continue" are those statements.           *)

\* ereport(ERROR, ...): the oracles up to PostgreSQL 17 do not keep the
\* position that a function of the grammar reports (read off the compiler).
Reported(m, node, source) ==
  LET Calls(name) == SelectSeq(walk(node), LAMBDA n :
                       n.kind = "CallExpr" /\ referenced_name(n.inner[1]) = name)
      message == Calls("errmsg")[1].inner[2]
      at == Calls("parser_errposition")
      kept == at # <<>> /\ (source.major >= 18 \/ ~m.inside)
  IN  Fail(m, "raised", Meaning(m, message, source).v.t,
           IF kept THEN Integer_Of(Meaning(m, at[1].inner[2], source).v) ELSE -1)

Iterated(m, node, source) ==
  LET Round(n, i, k) == Run([ n EXCEPT !.locals = (node.name :> Cell(i, k)) @@ @ ],
                            node.inner[2], source)
      Rounds(list) == FoldLeft(LAMBDA n, k : IF n.flow = "run"
                                 THEN Caught("continue", Round(n, list.v.i, k)) ELSE n,
                               list, [ k \in 1 .. Len(Items(list, list.v)) |-> k ])
  IN  Caught("break", Then(Meaning(m, node.inner[1], source), Rounds))

\* The statements of a switch from the given one on.
Following(cases, from) ==
  Node("CompoundStmt", [ i \in 1 .. Len(cases) - from + 1 |->
    IF cases[from + i - 1].kind \in {"CaseStmt", "DefaultStmt"}
    THEN Last(cases[from + i - 1].inner) ELSE cases[from + i - 1] ])

\* A switch, from the case of the value or the default on.
Switched(m, node, source) ==
  LET cases == node.inner[2].inner
      Case(on) == SelectInSeq(cases, LAMBDA c : c.kind = "CaseStmt"
                    /\ Same(Meaning(on, c.inner[1], source).v, on.v))
      default  == SelectInSeq(cases, LAMBDA c : c.kind = "DefaultStmt")
      From(on, hit) == IF hit = 0 THEN on
                       ELSE Caught("break", Run(on, Following(cases, hit), source))
  IN  Then(Meaning(m, node.inner[1], source), LAMBDA on :
        From(on, IF Case(on) # 0 THEN Case(on) ELSE default))

Declared(m, node, source) ==
  LET Initial(n, declaration) == IF declaration.inner = <<>> THEN Yield(n, Null)
                                 ELSE Meaning(n, Last(declaration.inner), source)
      Set(n, name) == Store(n, AtName(name), n.v)
  IN  FoldLeft(LAMBDA n, declaration : Set(Initial(n, declaration), declaration.name),
               m, node.inner)

\* The branch of an if statement, once its test has a value.
Branch(m, inner, source) ==
  CASE ~Zero(m.v) -> Run(m, inner[2], source)
    [] Zero(m.v) /\ Len(inner) = 3 -> Run(m, inner[3], source)
    [] OTHER -> m

StatementMeaning(m, node, source) ==
  LET inner == node.inner
      Jump(flow) == [ m EXCEPT !.flow = flow ]
  IN  CASE node.kind = "CompoundStmt" ->
             FoldLeft(LAMBDA n, part : Run(n, part, source), m, inner)
        [] node.kind = "NullStmt" -> m
        [] node.kind = "BreakStmt" -> Jump("break")
        [] node.kind = "ContinueStmt" -> Jump("continue")
        [] node.kind = "DeclStmt" -> Declared(m, node, source)
        [] node.kind = "DoStmt" -> Reported(m, node, source)
        [] node.kind = "ForStmt" -> Iterated(m, node, source)
        [] node.kind = "SwitchStmt" -> Switched(m, node, source)
        [] node.kind = "IfStmt" ->
             Then(Meaning(m, inner[1], source), LAMBDA n : Branch(n, inner, source))
        [] node.kind = "ReturnStmt" ->
             IF inner = <<>> THEN [ Yield(m, Null) EXCEPT !.flow = "return" ]
             ELSE Then(Meaning(m, inner[1], source), LAMBDA n :
                    [ n EXCEPT !.flow = "return" ])
        [] node.kind = "CompoundAssignOperator" ->
             Then(Place(m, inner[1], source), LAMBDA place :
               Then(MeaningAll(place, inner, source), LAMBDA n :
                 Store(n, place.v, Compared(node.op, n.v[1], n.v[2]))))
        [] node.kind = "WhileStmt" ->
             Then(Meaning(m, inner[1], source), LAMBDA n :
               IF Zero(n.v) THEN n ELSE Run(Run(n, inner[2], source), node, source))
        [] OTHER -> Meaning(m, node, source)

Run(m, node, source) ==
  IF m.flow = "run" THEN StatementMeaning(m, node, source) ELSE m
=============================================================================
