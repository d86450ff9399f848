-------------------------- MODULE SemanticBuilder --------------------------
(***************************************************************************)
(* The flat semantic builder of the native parser and the semantics of the *)
(* generated reductions: Native.Builders, Native.Semantics and the Invoke  *)
(* of Native.Actions_V14 .. V18.                                           *)
(*                                                                         *)
(* A machine m is what a reduction reads and changes: the builder's        *)
(* objects and lists, the values and the locations of the right-hand side, *)
(* Result, Location, Parse_Result, the locals, the value just computed and *)
(* how control goes on (flow: "run", "goto", "return" or an error).  Only  *)
(* GrammarActions uses inside: whether a function of the grammar runs.     *)
(***************************************************************************)
EXTENDS ActionCompiler

Null       == [ kind |-> "null" ]
IntOf(n)     == [ kind |-> "int", n |-> n ]
Flag(b)    == [ kind |-> "bool", n |-> IF b THEN 1 ELSE 0 ]
Text(t)    == [ kind |-> "text", t |-> t ]
Object(i)  == [ kind |-> "object", i |-> i ]
List(i)    == [ kind |-> "list", i |-> i ]
Cell(i, k) == [ kind |-> "cell", i |-> i, k |-> k ]

Field_Reference(i, path) == [ kind |-> "reference", i |-> i, path |-> path ]

Machine(objects, lists, parse) ==
  [ objects |-> objects, lists |-> lists, parse |-> parse, values |-> <<>>,
    places |-> <<>>, result |-> Null, location |-> -1, locals |-> <<>>,
    inside |-> FALSE, v |-> Null, flow |-> "run", label |-> 0, message |-> None,
    at |-> -1 ]

Yield(m, value) == [ m EXCEPT !.v = value ]

\* An exception: kind of error, message, and where Error_Location points.
Fail(m, flow, message, at) ==
  [ m EXCEPT !.flow = flow, !.message = message, !.at = at ]

Constraint_Error(m) == Fail(m, "constraint", None, -1)

-----------------------------------------------------------------------------
(* Builders                                                                *)

New_Object(m, type) ==
  [ m EXCEPT !.objects = Append(@, [ type |-> type, members |-> <<>> ]),
             !.v = Object(Len(m.objects) + 1) ]

Object_Type(m, value) == m.objects[value.i].type

\* Fields of the version's Value nodes that the builder keeps elsewhere.
Field_Of(m, value, path) ==
  LET members == m.objects[value.i].members
      Other == CASE Object_Type(m, value) = "Integer" /\ path = <<"val", "ival">> -> <<"ival">>
                 [] Object_Type(m, value) = "String" /\ path = <<"val", "str">> -> <<"sval">>
                 [] OTHER -> path
  IN  CASE value.kind # "object" -> Null
        [] value.kind = "object" /\ path \in DOMAIN members -> members[path]
        [] value.kind = "object" /\ path \notin DOMAIN members ->
             CASE Object_Type(m, value) = "A_Const" /\ path = <<"val", "node">> -> value
               [] Other # path /\ Other \in DOMAIN members -> members[Other]
               [] OTHER -> Null

Set_Field(m, target, path, value) ==
  IF target.kind # "object" THEN Constraint_Error(m)
  ELSE [ m EXCEPT !.objects[target.i].members = (path :> value) @@ @ ]

List_Of(m, items) ==
  [ m EXCEPT !.lists = Append(@, items), !.v = List(Len(m.lists) + 1) ]

\* Append changes the list itself: an earlier reader of it sees the item.
Appended(m, list, items) ==
  CASE list.kind = "null" -> List_Of(m, items)
    [] list.kind = "list" -> [ m EXCEPT !.lists[list.i] = @ \o items, !.v = list ]
    [] OTHER -> Constraint_Error(m)

Items(m, list) == IF list.kind = "list" THEN m.lists[list.i] ELSE <<>>

\* The cell of a list, or a list index out of range.
Cell_Element(m, cell) ==
  IF cell.kind = "cell" /\ cell.k \in DOMAIN m.lists[cell.i]
  THEN Yield(m, m.lists[cell.i][cell.k]) ELSE Constraint_Error(m)

Dereference(m, value) ==
  CASE value.kind = "reference" -> Yield(m, Field_Of(m, Object(value.i), value.path))
    [] value.kind = "cell" -> Cell_Element(m, value)
    [] OTHER -> Yield(m, value)

-----------------------------------------------------------------------------
(* Semantics                                                               *)

Truth(value) ==
  CASE value.kind = "null" -> FALSE
    [] value.kind \in {"bool", "int"} -> value.n # 0
    [] OTHER -> TRUE

Integer_Of(value) == IF value.kind = "null" THEN 0 ELSE value.n

\* Values of two kinds are equal only as a null on the left and a zero.
Equal(left, right) ==
  IF left.kind # right.kind THEN left.kind = "null" /\ ~Truth(right)
  ELSE left = right /\ left.kind # "reference"

Arithmetic(op, l, r) ==
  CASE op = "+" -> IntOf(l + r)
    [] op = "-" -> IntOf(l - r)
    [] op = "<" -> Flag(l < r)
    [] op = ">" -> Flag(l > r)

SemanticsBinary(m, op, left, right) ==
  CASE op = "==" -> Yield(m, Flag(Equal(left, right)))
    [] op = "!=" -> Yield(m, Flag(~Equal(left, right)))
    [] op = "&&" -> Yield(m, Flag(Truth(left) /\ Truth(right)))
    [] op = "||" -> Yield(m, Flag(Truth(left) \/ Truth(right)))
    [] OTHER -> IF {left.kind, right.kind} \subseteq {"null", "int", "bool"}
                THEN Yield(m, Arithmetic(op, Integer_Of(left), Integer_Of(right)))
                ELSE Constraint_Error(m)

SemanticsUnary(m, op, value) ==
  CASE op = "!" -> Yield(m, Flag(~Truth(value)))
    [] op = "-" -> IF value.kind \in {"null", "int", "bool"}
                   THEN Yield(m, IntOf(-Integer_Of(value))) ELSE Constraint_Error(m)

Node_Is(m, value, type) ==
  \/ value.kind = "object" /\ Object_Type(m, value) = type
  \/ value.kind = "list" /\ type = "List"

Scalar(m, type, field, value) ==
  LET made == New_Object(m, type)
  IN  Yield(Set_Field(made, made.v, <<field>>, value), made.v)

\* A constant is negated in place; of anything else a negation is made.
doNegate(m, item, location) ==
  LET number == Field_Of(m, item, <<"val", "ival", "ival">>)
      name   == Scalar(m, "String", "sval", Text("-"))
      names  == List_Of(name, <<name.v>>)
      made   == New_Object(names, "A_Expr")
      Parts(n) == Set_Field(Set_Field(Set_Field(n, made.v, <<"name">>, names.v),
                    made.v, <<"rexpr">>, item), made.v, <<"location">>, location)
  IN  IF item.kind = "object" /\ Object_Type(m, item) = "A_Const" /\ number.kind = "int"
      THEN Yield(Set_Field(Set_Field(m, item, <<"location">>, location),
                           item, <<"val", "ival", "ival">>, IntOf(-number.n)), item)
      ELSE Yield(Parts(made), made.v)

\* Semantics.Invoke: the functions that are not generated.
Library(m, name, args) ==
  CASE name \in {"castNode", "pstrdup"} -> Yield(m, args[1])
    [] name = "lappend" -> Appended(m, args[1], <<args[2]>>)
    [] name = "list_concat" -> IF args[2].kind = "null" /\ args[1].kind # "null"
                               THEN Yield(m, args[1])
                               ELSE Appended(m, args[1], Items(m, args[2]))
    [] name = "list_make1_impl" -> List_Of(m, <<Last(args)>>)
    [] name = "list_length" -> Yield(m, IntOf(Len(Items(m, args[1]))))
    [] name = "list_nth_cell" -> IF args[1].kind = "list"
                                 THEN Yield(m, Cell(args[1].i, args[2].n + 1))
                                 ELSE Constraint_Error(m)
    [] name = "makeString" -> Scalar(m, "String", "sval", args[1])
    [] name = "makeInteger" -> Scalar(m, "Integer", "ival", args[1])
    [] name = "doNegate" -> doNegate(m, args[1], args[2])
    [] OTHER -> Fail(m, "program", None, -1)

-----------------------------------------------------------------------------
(* The generated Ada.  helpers: the bodies of the version's helpers.       *)

\* What follows, unless control has left.
Then(m, Next(_)) == IF m.flow = "run" THEN Next(m) ELSE m

\* Control that left this way stays here.
Caught(flow, done) == IF done.flow = flow THEN [ done EXCEPT !.flow = "run" ] ELSE done

Collected(m, one) == Yield(one, Append(m.v, one.v))

\* The caller's machine after a function, which returns its value or nothing.
Returned(m, done) ==
  LET value == IF done.flow = "return" THEN done.v ELSE Null
  IN  Caught("return", [ done EXCEPT !.locals = m.locals, !.inside = m.inside, !.v = value ])

RECURSIVE Evaluate(_, _, _), Execute(_, _, _)

\* The machine after the expressions in order, with their values in v.
EvaluateAll(m, items, helpers) ==
  FoldLeft(LAMBDA n, item : Collected(n, Evaluate(n, item, helpers)), Yield(m, <<>>), items)

\* A generated helper has locals of its own.
Call(m, body, args, helpers) ==
  LET slots == [ i \in 1 .. body.slots |-> IF i <= Len(args) THEN args[i] ELSE Null ]
  IN  Returned(m, Execute([ m EXCEPT !.locals = slots ], body.code, helpers))

Invoked(m, name, args, helpers) ==
  LET bodies == SelectSeq(helpers, LAMBDA h : h[1] = name)
  IN  IF bodies = <<>> THEN Library(m, name, args)
      ELSE Call(m, bodies[1][2], args, helpers)

\* Operations on the value of one operand.
OfOperand(m, item) ==
  CASE item.op = "field" -> Yield(m, Field_Of(m, m.v, item.path))
    [] item.op = "cell_element" -> Cell_Element(m, m.v)
    [] item.op = "reference" -> Yield(m, Field_Reference(m.v.i, item.path))
    [] item.op = "dereference" -> Dereference(m, m.v)
    [] item.op = "also_counted" -> m
    [] item.op = "node_is" -> Yield(m, Flag(Node_Is(m, m.v, item.tag)))
    [] item.op = "unary" -> SemanticsUnary(m, item.o, m.v)

\* Store a value in a member of the object that the target denotes.
Assignment(m, item, helpers) ==
  Then(Evaluate(m, item.target.target, helpers), LAMBDA owner :
    Then(Evaluate(owner, item.e, helpers), LAMBDA n :
      Set_Field(n, owner.v, item.target.path, n.v)))

Expression(m, item, helpers) ==
  CASE item.op = "no_value" -> Yield(m, Null)
    [] item.op = "number" -> Yield(m, IntOf(item.n))
    [] item.op = "text" -> Yield(m, Text(item.t))
    [] item.op = "values" -> Yield(m, m.values[item.i])
    [] item.op = "locals" -> Yield(m, m.locals[item.i])
    [] item.op = "result" -> Yield(m, m.result)
    [] item.op = "location" -> Yield(m, IntOf(m.location))
    [] item.op = "location_of" -> Yield(m, IntOf(m.places[item.i]))
    [] item.op = "parse_result" -> Yield(m, m.parse)
    [] item.op = "new" -> New_Object(m, item.type)
    [] item.op = "binary" -> Then(EvaluateAll(m, <<item.l, item.r>>, helpers), LAMBDA n :
                               SemanticsBinary(n, item.o, n.v[1], n.v[2]))
    [] item.op = "invoke" -> Then(EvaluateAll(m, item.args, helpers), LAMBDA n :
                               Invoked(n, item.name, n.v, helpers))
    [] item.op = "assignment" -> Assignment(m, item, helpers)
    [] item.op = "if" -> Then(Evaluate(m, item.c, helpers), LAMBDA n :
                           Evaluate(n, IF Truth(n.v) THEN item.a ELSE item.b, helpers))
    [] OTHER -> Then(Evaluate(m, item.e, helpers), LAMBDA n : OfOperand(n, item))

Evaluate(m, item, helpers) == IF m.flow = "run" THEN Expression(m, item, helpers) ELSE m

\* What a qualified name fills in, by the number of its parts.
Filled_In(m, target, first, parts) ==
  LET From(k) == IF Len(parts) < k THEN Null ELSE parts[Len(parts) - k + 1]
      Put(n, name, value) == Set_Field(n, target, <<name>>, value)
  IN  IF Len(parts) \in first + 1 .. 3
      THEN Put(Put(Put(m, "catalogname", From(3)), "schemaname", From(2)),
               "relname", From(1))
      ELSE Fail(m, "failed", "improper qualified name", -1)

Qualify(m, item, helpers) ==
  LET names == Items(m, Evaluate(m, item.names, helpers).v)
  IN  Filled_In(m, Evaluate(m, item.target, helpers).v, Len(item.first),
        EvaluateAll(m, item.first, helpers).v
          \o [ i \in DOMAIN names |-> Field_Of(m, names[i], <<"sval">>) ])

Assign(m, item, value) ==
  CASE item.op = "set_local" -> [ m EXCEPT !.locals[item.target] = value ]
    [] item.op = "set_result" -> [ m EXCEPT !.result = value ]
    [] item.op = "set_location" -> [ m EXCEPT !.location = Integer_Of(value) ]
    [] item.op = "set_parse" -> [ m EXCEPT !.parse = value ]
    [] item.op = "return" -> [ Yield(m, value) EXCEPT !.flow = "return" ]
    [] item.op = "goto" -> [ m EXCEPT !.flow = "goto", !.label = item.target ]
    [] OTHER -> m

\* A loop over the cells of a list: a goto of its label ends the round.
Loop(m, item, helpers) ==
  LET Round(n, k) == Execute([ n EXCEPT !.locals[item.slot] = Cell(m.v.i, k) ],
                             item.body, helpers)
      Next(done) == IF done.flow = "goto" /\ done.label = item.label
                    THEN Caught("goto", done) ELSE done
  IN  FoldLeft(LAMBDA n, k : IF n.flow = "run" THEN Next(Round(n, k)) ELSE n,
               m, [ k \in 1 .. Len(Items(m, m.v)) |-> k ])

Perform(m, item, helpers) ==
  CASE item.op = "nothing" -> m
    [] item.op = "qualify" -> Qualify(m, item, helpers)
    [] item.op = "loop" ->
         Then(Evaluate(m, item.list, helpers), LAMBDA n : Loop(n, item, helpers))
    [] item.op = "choose" ->
         Then(Evaluate(m, item.e, helpers), LAMBDA n :
           Execute(n, IF Truth(n.v) THEN item.yes ELSE item.no, helpers))
    [] item.op = "set_field" -> Assignment(m, item, helpers)
    [] item.op = "assign" ->
         Then(Evaluate(m, item.target, helpers), LAMBDA at :
           Then(Evaluate(at, item.e, helpers), LAMBDA n :
             Set_Field(n, Object(at.v.i), at.v.path, n.v)))
    [] item.op = "raise" ->
         Then(Evaluate(m, item.e, helpers), LAMBDA n :
           Fail(n, "raised", n.v.t,
                IF item.at = <<>> THEN -1
                ELSE Integer_Of(Evaluate(m, item.at[1], helpers).v)))
    [] item.op = "fail" ->
         Then(Evaluate(m, item.e, helpers), LAMBDA n : Fail(n, "failed", n.v.t, -1))
    [] OTHER -> Then(Evaluate(m, item.e, helpers), LAMBDA n : Assign(n, item, n.v))

Execute(m, code, helpers) ==
  FoldLeft(LAMBDA n, item : IF n.flow = "run" THEN Perform(n, item, helpers) ELSE n, m, code)
=============================================================================
