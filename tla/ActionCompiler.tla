--------------------------- MODULE ActionCompiler ---------------------------
(***************************************************************************)
(* generate_native_actions.py: the compiler from the semantic actions of   *)
(* PostgreSQL's grammar, as clang's syntax tree of the generated parser,   *)
(* to Ada statements over the dynamic builder.                             *)
(*                                                                         *)
(* A node is [kind, name, value, arrow, op, text, inner]: what the compiler*)
(* asks of a clang node.  text is what it recognizes in the source text of *)
(* a macro or a switch ("makeNode", "foreach", "elog", "list_length"); the *)
(* pointer type of a cast is arrow = TRUE; op is an operator, that of a    *)
(* compound assignment without its "=", or "tag" for a NodeTag.  Emitted   *)
(* Ada is a tree too; counted is the construct that the compiler counted   *)
(* as unsupported when it emitted the value.                               *)
(***************************************************************************)
EXTENDS Integers, Sequences, FiniteSets, SequencesExt

None == ""

Node(kind, inner) ==
  [ kind |-> kind, name |-> None, value |-> 0, arrow |-> FALSE, op |-> None,
    text |-> None, inner |-> inner ]

\* Pairs with different first members, ascending.
InOrder(pairs) ==
  FoldSet(LAMBDA pair, sorted :
            SelectSeq(sorted, LAMBDA other : other[1] < pair[1]) \o <<pair>>
              \o SelectSeq(sorted, LAMBDA other : other[1] > pair[1]), <<>>, pairs)

PASSTHROUGH == { "ImplicitCastExpr", "ParenExpr", "ConstantExpr" }

HANDWRITTEN_HELPERS == { "doNegate" }

CellSelectors == { "ptr_value", "int_value", "oid_value" }

children(node) == node.inner

RECURSIVE walk(_)
walk(node) == <<node>> \o FlattenSeq([ i \in DOMAIN node.inner |-> walk(node.inner[i]) ])

Nodes(node) == ToSet(walk(node))

RECURSIVE Strip(_)
Strip(node) ==
  IF node.kind \in PASSTHROUGH /\ node.inner # <<>> THEN Strip(node.inner[1]) ELSE node

\* The first name that a declaration gives below the node.
referenced_name(node) ==
  LET named == SelectSeq(walk(node), LAMBDA n : n.kind = "DeclRefExpr")
  IN  IF named = <<>> THEN None ELSE named[1].name

\* The names of the functions that are called below the node.
called_functions(node) ==
  { referenced_name(n.inner[1]) : n \in { c \in Nodes(node) : c.kind = "CallExpr" } }

-----------------------------------------------------------------------------
(* The Emitter.  Its state is [enums, locals, names, labels, loops,        *)
(* helper]: slots by identifier and by name, the labels of the loops       *)
(* around, the loop counter and in_generated_helper.  The locals of an     *)
(* action have distinct names, which stand for their identifiers.          *)

NoValue       == [ op |-> "no_value", counted |-> None ]
Counted(what) == [ op |-> "no_value", counted |-> what ]
Num(n)        == [ op |-> "number", n |-> n ]
Values(i)     == [ op |-> "values", i |-> i ]
Locals(slot)  == [ op |-> "locals", i |-> slot ]
Result        == [ op |-> "result" ]
Invoke(name, args)  == [ op |-> "invoke", name |-> name, args |-> args ]
Field(target, path) == [ op |-> "field", e |-> target, path |-> path ]
Unary(o, e)         == [ op |-> "unary", o |-> o, e |-> e ]
Binary(o, l, r)     == [ op |-> "binary", o |-> o, l |-> l, r |-> r ]

\* A stack subscript, yyvsp[(n)-(m)] or yylsp[(n)-(m)].
StackReference(node) ==
  CASE node.name = "yyvsp" -> Values(node.value)
    [] node.name = "yylsp" -> [ op |-> "location_of", i |-> node.value ]
    [] OTHER -> NoValue

rhs_reference(node) ==
  LET below == Strip(node.inner[1])
      lists == \E n \in Nodes(node) : n.name \in {"list_head", "list_nth_cell"}
  IN  CASE node.kind = "ArraySubscriptExpr" -> StackReference(node)
        [] node.kind = "MemberExpr" /\ ~lists /\ below.kind = "ArraySubscriptExpr" ->
             StackReference(below)
        [] OTHER -> NoValue

\* The members of a chain, outermost last, and what they are selected from.
RECURSIVE Chain(_)
Chain(node) ==
  IF node.kind # "MemberExpr" THEN [ from |-> node, members |-> <<>> ]
  ELSE LET rest == Chain(Strip(node.inner[1]))
       IN  [ rest EXCEPT !.members = Append(@, <<node.name, node.arrow>>) ]

RECURSIVE expression(_, _)

\* FAULTY: an arrow inside a chain does not go through the pointer it follows.
member_target_inline(e, node) ==
  LET chain == Chain(node)
      union == referenced_name(chain.from) = "yyval" \/ rhs_reference(chain.from) # NoValue
      members == IF union THEN Tail(chain.members) ELSE chain.members
      Select(made, member) == [ made EXCEPT !.path = Append(@, member[1]) ]
  IN  FoldLeft(Select, [ target |-> expression(e, chain.from), path |-> <<>> ], members)

\* The object and the flattened path that a chain of members denotes.
member_target(e, node) ==
  LET chain == Chain(node)
      union == referenced_name(chain.from) = "yyval" \/ rhs_reference(chain.from) # NoValue
      members == IF union THEN Tail(chain.members) ELSE chain.members
      Select(made, member) ==
        IF member[2] /\ made.path # <<>>
        THEN [ target |-> Field(made.target, made.path), path |-> <<member[1]>> ]
        ELSE [ made EXCEPT !.path = Append(@, member[1]) ]
  IN  FoldLeft(Select, [ target |-> expression(e, chain.from), path |-> <<>> ], members)

\* The source's name of a NodeTag below IsA(), and what is inspected.
node_tag_name(node) ==
  LET tags == { n \in Nodes(node) : n.kind = "DeclRefExpr" /\ n.op = "tag" }
  IN  IF tags = {} THEN None ELSE (CHOOSE n \in tags : TRUE).name

node_type_operand(e, node) ==
  LET member == Strip(node)
  IN  IF member.kind = "MemberExpr" /\ member.name = "type"
      THEN expression(e, member.inner[1]) ELSE NoValue

DeclRef(e, node) ==
  CASE node.name \in DOMAIN e.locals -> Locals(e.locals[node.name])
    [] node.name \notin DOMAIN e.locals /\ node.name \in DOMAIN e.enums ->
         Num(e.enums[node.name])
    [] node.name = "yyval" -> Result
    [] node.name = "yyloc" -> [ op |-> "location" ]
    [] node.name \in {"NIL", "NULL", "yyscanner"} -> NoValue
    [] OTHER -> Counted("reference")

Comparison(e, node) ==
  LET left  == node.inner[1]
      right == node.inner[2]
      Test(operand, tag) ==
        LET is == [ op |-> "node_is", e |-> operand, tag |-> tag ]
        IN  IF node.op = "==" THEN is ELSE Unary("!", is)
  IN  CASE node_type_operand(e, left) # NoValue /\ node_tag_name(right) # None ->
             Test(node_type_operand(e, left), node_tag_name(right))
        [] node_type_operand(e, right) # NoValue /\ node_tag_name(left) # None ->
             Test(node_type_operand(e, right), node_tag_name(left))
        [] OTHER -> Binary(node.op, expression(e, left), expression(e, right))

MemberValue(e, node) ==
  LET place == member_target(e, node)
  IN  CASE node.name \in CellSelectors ->
             [ op |-> "cell_element", e |-> expression(e, node.inner[1]) ]
        [] node.name = "parsetree" -> [ op |-> "parse_result" ]
        [] OTHER -> IF place.path = <<>> THEN place.target
                    ELSE Field(place.target, place.path)

UnaryValue(e, node) ==
  LET operand == node.inner[1]
      place == member_target(e, operand)
  IN  CASE node.op = "&" /\ operand.kind = "MemberExpr" ->
             [ op |-> "reference", e |-> place.target, path |-> place.path ]
        [] node.op = "*" -> [ op |-> "dereference", e |-> expression(e, operand) ]
        [] OTHER -> Unary(node.op, expression(e, operand))

\* A cast: a zero that becomes a pointer is a null pointer.
CastValue(e, node) ==
  LET value == expression(e, node.inner[1])
  IN  IF value = Num(0) /\ node.arrow THEN NoValue ELSE value

expression(e, node) ==
  LET parts == [ i \in DOMAIN node.inner |-> expression(e, node.inner[i]) ]
      cell  == node.kind = "MemberExpr" /\ node.name \in CellSelectors
      stack == IF cell THEN NoValue ELSE rhs_reference(node)
  IN  CASE node.text = "makeNode" -> [ op |-> "new", type |-> node.name ]
        [] node.text # "makeNode" /\ stack # NoValue -> stack
        [] node.kind \in PASSTHROUGH -> parts[1]
        [] node.kind \in {"IntegerLiteral", "CharacterLiteral"} -> Num(node.value)
        [] node.kind = "StringLiteral" -> [ op |-> "text", t |-> node.name ]
        [] node.kind = "DeclRefExpr" -> DeclRef(e, node)
        [] node.kind = "CStyleCastExpr" -> CastValue(e, node)
        [] node.kind = "MemberExpr" /\ stack = NoValue -> MemberValue(e, node)
        [] node.kind = "CallExpr" -> Invoke(referenced_name(node.inner[1]), Tail(parts))
        [] node.kind = "BinaryOperator" /\ node.op = "=" ->
             LET place == member_target(e, node.inner[1])
             IN  IF node.inner[1].kind = "MemberExpr"
                 THEN [ op |-> "assignment", target |-> place, e |-> parts[2] ]
                 ELSE [ op |-> "also_counted", e |-> parts[2] ]
        [] node.kind = "BinaryOperator" /\ node.op \in {"==", "!="} -> Comparison(e, node)
        [] node.kind = "BinaryOperator" /\ node.op \notin {"==", "!=", "="} ->
             Binary(node.op, parts[1], parts[2])
        [] node.kind = "ConditionalOperator" ->
             [ op |-> "if", c |-> parts[1], a |-> parts[2], b |-> parts[3] ]
        [] node.kind = "UnaryOperator" -> UnaryValue(e, node)
        [] node.kind \in {"InitListExpr", "StmtExpr"} ->
             IF parts = <<>> THEN NoValue ELSE Last(parts)
        [] node.kind = "UnaryExprOrTypeTraitExpr" -> Num(0)
        [] OTHER -> Counted(node.kind)

-----------------------------------------------------------------------------
(* Statements.  Emit is the emitter after a statement and what it emitted. *)

Emit(e, code) == [ e |-> e, code |-> code ]

Do(op, target, value) == [ op |-> op, target |-> target, e |-> value ]
Unsupported(what)     == [ op |-> "nothing", e |-> Counted(what) ]

lvalue(e, node, value) ==
  LET place == Strip(node)
      member == member_target(e, place)
  IN  CASE place.kind = "DeclRefExpr" /\ place.name \in DOMAIN e.locals ->
             <<Do("set_local", e.locals[place.name], value)>>
        [] place.kind = "DeclRefExpr" /\ place.name = "yyval" -> <<Do("set_result", 0, value)>>
        [] place.kind = "DeclRefExpr" /\ place.name = "yyloc" -> <<Do("set_location", 0, value)>>
        [] place.kind = "MemberExpr" ->
             IF member.target = Result /\ member.path = <<>>
             THEN <<Do("set_result", 0, value)>>
             ELSE IF place.name = "parsetree" THEN <<Do("set_parse", 0, value)>>
             ELSE <<Do("set_field", member, value)>>
        [] place.kind = "UnaryOperator" /\ place.op = "*" ->
             <<Do("assign", expression(e, place.inner[1]), value)>>
        [] OTHER -> <<Unsupported("lvalue")>>

\* The list of a foreach, read from the text of the macro.
RECURSIVE PathParts(_)
PathParts(node) ==
  LET below == Strip(node)
  IN  IF below.kind = "MemberExpr" THEN Append(PathParts(below.inner[1]), below.name)
      ELSE <<below.name>>

foreach_list(e, node) ==
  LET stack == { n \in Nodes(node) : n.kind = "ArraySubscriptExpr" /\ n.name = "yyvsp" }
      parts == PathParts(node)
  IN  CASE stack # {} -> Values((CHOOSE n \in stack : TRUE).value)
        [] stack = {} /\ parts[1] \in DOMAIN e.names ->
             IF Len(parts) = 1 THEN Locals(e.names[parts[1]])
             ELSE Field(Locals(e.names[parts[1]]), Tail(parts))
        [] OTHER -> NoValue

\* ereport(): the message, and the position where the C oracle keeps it.
DoStmt(e, node, major) ==
  LET Calls(names) == SelectSeq(walk(node), LAMBDA n :
                        n.kind = "CallExpr" /\ referenced_name(n.inner[1]) \in names)
      Arguments(calls) == [ i \in DOMAIN calls |-> expression(e, calls[i].inner[2]) ]
      messages  == Calls({"errmsg"})
      positions == IF e.helper /\ major < 18 THEN <<>>
                   ELSE Calls({"parser_errposition", "scanner_errposition"})
  IN  CASE messages # <<>> ->
             <<[ op |-> "raise", e |-> Arguments(messages)[1], at |-> Arguments(positions) ]>>
        [] messages = <<>> /\ node.text = "elog" ->
             <<[ op |-> "fail", e |-> [ op |-> "text", t |-> "internal" ] ]>>
        [] OTHER -> <<Unsupported("do-statement")>>

\* A new local, or the one the identifier has, and its name.
Declare(e, name) ==
  LET slot == IF name \in DOMAIN e.locals THEN e.locals[name]
              ELSE Cardinality(DOMAIN e.locals) + 1
  IN  [ e EXCEPT !.locals = (name :> slot) @@ @, !.names = (name :> slot) @@ @ ]

\* The switch over list_length() in the actions that make a RangeVar of a
\* qualified name: lowered by hand, [names, name, target] by where it stands.
QualifiedName(e, node) ==
  LET namelist == \E n \in Nodes(node) : n.name = "namelist"
  IN  CASE ~e.helper ->
             <<[ op |-> "qualify", names |-> Values(2), first |-> <<Values(1)>>,
                 target |-> Result ]>>
        [] e.helper /\ namelist ->
             <<[ op |-> "qualify", names |-> Locals(2), first |-> <<Locals(1)>>,
                 target |-> Locals(5) ]>>
        [] OTHER -> <<[ op |-> "qualify", names |-> Locals(1), first |-> <<>>,
                        target |-> Locals(4) ]>>

\* The switch over a RoleSpec that wants a plain role name.
RoleName(e, node) ==
  <<[ op |-> "choose",
      e |-> Binary("==", expression(e, node.inner[1]), Num(e.enums["ROLESPEC_CSTRING"])),
      yes |-> <<Do("set_result", 0, Field(Values(1), <<"rolename">>))>>,
      no |-> <<[ op |-> "fail", e |-> [ op |-> "text", t |-> "reserved role name" ] ]>> ]>>

RECURSIVE statement(_, _, _)

Emitted(done, more) == Emit(more.e, Append(done.code, more.code))

\* The statements in order, with the code of each.
EmitAll(e, parts, major) ==
  FoldLeft(LAMBDA done, part : Emitted(done, statement(done.e, part, major)),
           Emit(e, <<>>), parts)

DeclStmt(e, node) ==
  LET Extend(done, declaration) ==
        LET declared == Declare(done.e, declaration.name)
            init == declaration.inner
        IN  Emit(declared,
                 IF init = <<>> THEN done.code
                 ELSE Append(done.code, Do("set_local", declared.locals[declaration.name],
                                           expression(declared, Last(init)))))
  IN  FoldLeft(Extend, Emit(e, <<>>), node.inner)

IsForeach(node) == node.kind = "ForStmt" /\ node.text = "foreach"

\* A loop: its list, the cell's slot, and a label at the end of its body.
Foreach(e, node, body) ==
  LET list == foreach_list(e, node.inner[1])
  IN  CASE node.name \notin DOMAIN e.names -> Emit(e, <<Unsupported("foreach-cell")>>)
        [] node.name \in DOMAIN e.names /\ list = NoValue ->
             Emit(e, <<Unsupported("foreach-list")>>)
        [] OTHER -> Emit([ body.e EXCEPT !.labels = e.labels ],
             <<[ op |-> "loop", list |-> list, slot |-> e.names[node.name],
                 body |-> body.code[1], label |-> e.loops + 1 ]>>)

IfStmt(e, node, branches) ==
  Emit(branches.e, <<[ op |-> "choose", e |-> expression(e, node.inner[1]),
                       yes |-> branches.code[1],
                       no |-> IF Len(branches.code) = 1 THEN <<>> ELSE branches.code[2] ]>>)

\* The statements within a statement, and the emitter when the first begins.
Within(node) ==
  CASE node.kind \in {"CompoundStmt", "ParenExpr"} -> node.inner
    [] node.kind = "IfStmt" -> Tail(node.inner)
    [] IsForeach(node) -> <<node.inner[2]>>
    [] OTHER -> <<>>

Entering(e, node) ==
  IF IsForeach(node)
  THEN [ e EXCEPT !.loops = @ + 1, !.labels = Append(@, e.loops + 1) ]
  ELSE e

\* What an assignment, a compound assignment or a step stores.
Assigned(e, node) ==
  LET Value(i) == expression(e, node.inner[i])
      op == CASE node.op = "++" -> "+" [] node.op = "--" -> "-" [] OTHER -> node.op
  IN  CASE node.kind = "BinaryOperator" -> Value(2)
        [] node.kind = "CompoundAssignOperator" -> Binary(op, Value(1), Value(2))
        [] node.kind = "UnaryOperator" -> Binary(op, Value(1), Num(1))

Assigns(node) ==
  \/ node.kind = "BinaryOperator" /\ node.op = "="
  \/ node.kind = "CompoundAssignOperator"
  \/ node.kind = "UnaryOperator" /\ node.op \in {"++", "--"}

\* A statement, from what was emitted for the statements within it.
Completed(e, node, done, major) ==
  CASE node.kind \in {"CompoundStmt", "ParenExpr"} -> Emit(done.e, FlattenSeq(done.code))
    [] node.kind \in {"NullStmt", "BreakStmt"} -> Emit(e, <<>>)
    [] node.kind = "DeclStmt" -> DeclStmt(e, node)
    [] Assigns(node) -> Emit(e, lvalue(e, node.inner[1], Assigned(e, node)))
    [] node.kind = "IfStmt" -> IfStmt(e, node, done)
    [] node.kind = "CallExpr" -> Emit(e, <<Do("ignore", 0, expression(e, node))>>)
    [] node.kind = "DoStmt" -> Emit(e, DoStmt(e, node, major))
    [] node.kind = "ContinueStmt" ->
         Emit(e, IF e.labels = <<>> THEN <<Unsupported("continue-outside-loop")>>
                 ELSE <<Do("goto", Last(e.labels), NoValue)>>)
    [] node.kind = "ReturnStmt" ->
         Emit(e, <<Do("return", 0, IF node.inner = <<>> THEN NoValue
                                   ELSE expression(e, node.inner[1]))>>)
    [] IsForeach(node) -> Foreach(e, node, done)
    [] node.kind = "SwitchStmt" /\ node.text = "list_length" -> Emit(e, QualifiedName(e, node))
    [] node.kind = "SwitchStmt" /\ node.text = "ROLESPEC_CSTRING" -> Emit(e, RoleName(e, node))
    [] OTHER -> Emit(e, <<Unsupported(node.kind)>>)

statement(e, node, major) ==
  Completed(e, node, EmitAll(Entering(e, node), Within(node), major), major)

-----------------------------------------------------------------------------
(* What of the parser's syntax tree is compiled.                           *)

\* An enumerator with a literal has its value, one without the next one.
enum_values(declaration) ==
  LET Extend(made, constant) ==
        LET value == IF constant.inner = <<>> THEN made.last + 1
                     ELSE constant.inner[1].value
        IN  [ last |-> value, values |-> (constant.name :> value) @@ made.values ]
  IN  FoldLeft(Extend, [ last |-> -1, values |-> <<>> ], declaration.inner).values

RECURSIVE CasesIn(_)
CasesIn(node) ==
  LET Below(n) == UNION { CasesIn(n.inner[i]) : i \in DOMAIN n.inner }
      body == node.inner[2]
  IN  CASE node.kind = "SwitchStmt" -> {}
        [] node.kind = "CaseStmt" ->
             IF Len(node.inner) < 2 THEN {}
             ELSE IF body.kind = "CaseStmt" THEN {}
             ELSE {<<node.inner[1].value, body>>} \union Below(body)
        [] OTHER -> Below(node)

reduction_cases(switch) ==
  InOrder(UNION { CasesIn(switch.inner[i]) : i \in DOMAIN switch.inner })

\* The definitions called from some code, directly or not.
RECURSIVE Selected(_, _, _)
Selected(definitions, pending, selected) ==
  LET found == { d \in ToSet(definitions) : d.name \in pending \ selected }
  IN  IF found = {} THEN selected
      ELSE Selected(definitions,
                    UNION { called_functions(Last(d.inner)) : d \in found },
                    selected \union { d.name : d \in found })

selected_definitions(definitions, initial) ==
  LET selected == Selected(definitions, initial, {})
  IN  SelectSeq(definitions, LAMBDA d : d.name \in selected)

local_helper_functions(definitions, switch) ==
  selected_definitions(SelectSeq(definitions, LAMBDA d : d.name # "base_yyparse"),
                       called_functions(switch))

-----------------------------------------------------------------------------
(* compile_version: the bodies of a version's actions and helpers.         *)

RECURSIVE CodeCounts(_)
CodeCounts(item) ==
  LET Deep(names) == UNION { CodeCounts(item[f]) : f \in DOMAIN item \intersect names }
      Listed(names) == UNION { UNION { CodeCounts(item[f][i]) : i \in DOMAIN item[f] } :
                               f \in DOMAIN item \intersect names }
  IN  (CASE item.op = "no_value" -> {item.counted} \ {None}
         [] item.op = "also_counted" -> {"assignment-expression"}
         [] OTHER -> {})
        \union Deep({"e", "l", "r", "a", "b", "c"})
        \union Listed({"args", "at", "yes", "no", "body"})
        \union (IF item.op \in {"set_field", "assignment"}
                THEN CodeCounts(item.target.target) ELSE {})

CountsIn(code) == UNION { CodeCounts(code[i]) : i \in DOMAIN code }

RECURSIVE LabelsOf(_)
LabelsOf(code) == FlattenSeq([ i \in DOMAIN code |->
  CASE code[i].op = "goto" -> <<code[i].target>>
    [] code[i].op = "choose" -> LabelsOf(code[i].yes) \o LabelsOf(code[i].no)
    [] code[i].op = "loop" -> Append(LabelsOf(code[i].body), code[i].label)
    [] OTHER -> <<>> ])

RECURSIVE Relabel(_, _)
Relabel(code, Names) ==
  LET Renamed(line) ==
        CASE line.op = "goto" -> [ line EXCEPT !.target = Names[@] ]
          [] line.op = "choose" ->
               [ line EXCEPT !.yes = Relabel(@, Names), !.no = Relabel(@, Names) ]
          [] line.op = "loop" ->
               [ line EXCEPT !.label = Names[@], !.body = Relabel(@, Names) ]
          [] OTHER -> line
  IN  FoldLeft(LAMBDA made, line : Append(made, Renamed(line)), <<>>, code)

\* FAULTY: the labels keep the numbers that the whole version's emitter gave them.
labels_as_emitted(code) == code

\* Labels numbered in the order in which a body's text names them.
canonicalize_labels(code) ==
  LET labels == LabelsOf(code)
      First(l) == SelectInSeq(labels, LAMBDA k : k = l)
      firsts == { First(l) : l \in ToSet(labels) }
  IN  Relabel(code, [ l \in ToSet(labels) |->
                      Cardinality({ i \in firsts : i <= First(l) }) ])

BodyOf(done) == [ slots |-> Cardinality(DOMAIN done.e.locals),
                  code |-> canonicalize_labels(done.code) ]

Emitter(source, loops) ==
  [ enums |-> enum_values(source.enums), locals |-> <<>>, names |-> <<>>, labels |-> <<>>,
    loops |-> loops, helper |-> FALSE ]

\* What has a body: a rule, or a function with its parameters.
CaseItem(rule, node) == [ entry |-> rule, params |-> <<>>, node |-> node, helper |-> FALSE ]

HelperItem(definition) ==
  [ entry |-> definition.name, node |-> Last(definition.inner), helper |-> TRUE,
    params |-> [ k \in 1 .. Len(definition.inner) - 1 |-> definition.inner[k].name ] ]

\* Emitter.case and Emitter.helper begin with no locals but the parameters.
Fresh(e, item) ==
  FoldLeft(Declare, [ e EXCEPT !.locals = <<>>, !.names = <<>>, !.helper = item.helper ],
           item.params)

\* The emitter has numbered the loops of what it compiled before.
After(e, items) ==
  LET Loops(node) == SelectSeq(walk(node), IsForeach)
  IN  FoldLeft(LAMBDA f, item : [ f EXCEPT !.loops = @ + Len(Loops(item.node)) ], e, items)

\* One emitter for all of them: its loop counter outlives a body.
Compile(emitter, items, major) ==
  LET Done(e, item) == BodyOf(statement(Fresh(e, item), item.node, major))
      Before(made)  == After(emitter, SubSeq(items, 1, Len(made)))
  IN  FoldLeft(LAMBDA made, item : Append(made, <<item.entry, Done(Before(made), item)>>),
               <<>>, items)

Helpers(definitions) ==
  LET generated == SelectSeq(definitions, LAMBDA d : d.name \notin HANDWRITTEN_HELPERS)
  IN  [ i \in DOMAIN generated |-> HelperItem(generated[i]) ]

\* The parser's emitter compiles its functions after its actions; the functions
\* of makefuncs.c that they call have an emitter of their own.  The counters of
\* both are added up before anything is emitted.
compile_version(major, source) ==
  LET cases == reduction_cases(source.switch)
      local == local_helper_functions(source.functions, source.switch)
      external == selected_definitions(source.makefuncs,
        called_functions(source.switch) \union
          UNION { called_functions(Last(d.inner)) : d \in ToSet(local) })
      Model(mine, theirs) ==
        [ major |-> major, unsupported |-> {}, cases |-> SubSeq(mine, 1, Len(cases)),
          helpers |-> SubSeq(mine, Len(cases) + 1, Len(mine)) \o theirs ]
  IN  Model(Compile(Emitter(source, 0), [ i \in DOMAIN cases |-> CaseItem(cases[i][1], cases[i][2]) ]
                                          \o Helpers(local), major),
            Compile(Emitter(source, 1000), Helpers(external), major))

BodiesOf(entries) == { entry[2] : entry \in ToSet(entries) }

\* What the Emitter counted by the end.
Untranslated(model) ==
  UNION { CountsIn(body.code) : body \in BodiesOf(model.cases) \union BodiesOf(model.helpers) }

-----------------------------------------------------------------------------
(* The catalogs.  id[body] is the first bytes of the body's SHA-256.       *)

\* catalog_bodies does not raise: no identifier is reserved or shared.
Catalogued(id) ==
  \A body \in DOMAIN id : id[body] # 0 /\ \A other \in DOMAIN id :
    id[other] = id[body] => other = body

RECURSIVE weight(_)
weight(code) ==
  FoldLeft(LAMBDA n, line :
    n + 1 + CASE line.op = "choose" -> weight(line.yes) + weight(line.no)
              [] line.op = "loop" -> weight(line.body)
              [] OTHER -> 0, 0, code)

Lines(entries) == FoldLeft(LAMBDA n, entry : n + weight(entry[2].code), 0, entries)

Distance(a, b) == IF a < b THEN b - a ELSE a - b

\* How many of the remaining entries the next chunk takes, of left chunks.
RECURSIVE Take(_, _, _)
Take(entries, taken, left) ==
  LET all   == Lines(entries)
      lines == Lines(SubSeq(entries, 1, taken))
      more  == Lines(SubSeq(entries, 1, taken + 1))
  IN  IF Len(entries) - taken <= left - 1
           \/ (taken > 0 /\ Distance(lines * left, all) <= Distance(more * left, all))
      THEN taken ELSE Take(entries, taken + 1, left)

RECURSIVE Split(_, _)
Split(entries, left) ==
  LET taken == Take(entries, 0, left)
  IN  IF left = 1 THEN <<entries>>
      ELSE <<SubSeq(entries, 1, taken)>>
             \o Split(SubSeq(entries, taken + 1, Len(entries)), left - 1)

line_balanced_chunks(entries, count) ==
  Split(entries, IF count < Len(entries) THEN count ELSE Len(entries))

\* The chunks of a catalog, in the order of the identifiers.
generate_action_catalog(id, count) ==
  line_balanced_chunks(InOrder({ <<id[body], body>> : body \in DOMAIN id }), count)

\* FAULTY: a chunk begins after its first identifier.
LowerPastFirst(chunks, k) == chunks[k][1][1] + (IF k = 1 THEN 0 ELSE 1)

\* The range of identifiers that the catalog passes on to a chunk.
Lower(chunks, k) == IF k = 1 THEN chunks[1][1][1] ELSE Last(chunks[k - 1])[1] + 1
Upper(chunks, k) == Last(chunks[k])[1]

\* What Reduce or Execute of the catalog executes: <<>> for "null".
Dispatched(chunks, id) ==
  LET in == { k \in DOMAIN chunks : id \in Lower(chunks, k) .. Upper(chunks, k) }
      entries == SelectSeq(chunks[CHOOSE k \in in : TRUE], LAMBDA entry : entry[1] = id)
  IN  IF in = {} THEN <<>> ELSE [ i \in DOMAIN entries |-> entries[i][2] ]
=============================================================================
