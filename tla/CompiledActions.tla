--------------------------- MODULE CompiledActions ---------------------------
(***************************************************************************)
(* The semantic action compiler at work: the actions of every version are  *)
(* compiled and catalogued, and a bottom-up parser of one version reduces  *)
(* by executing the compiled body that the catalog dispatches to.  Beside  *)
(* it the same reductions run as PostgreSQL's own C actions.  What the two *)
(* have built, and why they refused, is compared at every step.            *)
(*                                                                         *)
(* Rules[major] are the version's rules [rule, left, right, after] as the  *)
(* parser tables number them; any shift and any reduction of the top of    *)
(* the stack may come next, so that every rule meets every value it can be *)
(* given.  An empty rule is reduced behind a symbol of its set after.      *)
(***************************************************************************)
EXTENDS GrammarActions

CONSTANTS
  Majors,             \* the versions that are generated together
  Sources,            \* of a version: major, enums, switch, functions, makefuncs
  Rules,              \* of a version: its rules
  Tokens,             \* [symbol, value] that the scanner may deliver
  Numberings,         \* how the hash may number the bodies
  Identifier(_, _),   \* the hash of the i-th body under a numbering
  ChunkCount,         \* chunks per catalog
  MaxTokens           \* bound: tokens that are shifted

ASSUME MajorsAreListed == Majors \subseteq 14 .. 18 /\ Majors # {}
ASSUME ChunksAreCounted == ChunkCount \in Nat \ {0} /\ MaxTokens \in Nat

VARIABLES
  major,      \* the version that parses
  numbering,  \* what the hash turns out to be
  phase,      \* "sources", "generated", "refused": the generator's outcome
  models,     \* the compiled versions
  packages,   \* what is generated of them
  stack,      \* symbols on the parser's stack
  native,     \* the generated Ada's machine, its values and locations
  meant,      \* that of the C actions
  tokens      \* tokens so far; the last one is Last_Location

vars == <<major, numbering, phase, models, packages, stack, native, meant, tokens>>

-----------------------------------------------------------------------------
Listed(bodies) == FoldSet(LAMBDA body, made : Append(made, body), <<>>, bodies)

\* body_identifier of every body: the numbers that the hash gives them.
body_identifier(how, bodies) ==
  LET listed == Listed(bodies)
  IN  [ body \in bodies |->
        Identifier(how, CHOOSE i \in DOMAIN listed : listed[i] = body) ]

\* The cases, or the helpers, of all versions.
catalog_bodies(made, kind) == UNION { BodiesOf(made[m][kind]) : m \in DOMAIN made }

\* The tables of a version: what its rules and its helpers' names are dispatched to.
Tables(model, id) ==
  LET Table(kind) == [ i \in DOMAIN model[kind] |->
                       <<model[kind][i][1], id[kind][model[kind][i][2]]>> ]
  IN  [ cases |-> Table("cases"), helpers |-> Table("helpers") ]

\* The packages of the versions, the catalog of actions and that of helpers.
Packages(made, id) ==
  [ versions |-> [ m \in DOMAIN made |-> Tables(made[m], id) ],
    cases |-> generate_action_catalog(id.cases, ChunkCount),
    helpers |-> generate_action_catalog(id.helpers, ChunkCount) ]

Side == [ objects |-> <<>>, lists |-> <<>>, parse |-> Null, values |-> <<>>,
          places |-> <<>>, refused |-> FALSE, undefined |-> FALSE,
          message |-> None, at |-> -1 ]

Init ==
  /\ major \in Majors
  /\ numbering \in Numberings
  /\ phase = "sources"
  /\ models = <<>>
  /\ packages = <<>>
  /\ stack = <<>>
  /\ native = Side
  /\ meant = Side
  /\ tokens = 0

\* All versions are compiled first; then both catalogs are made or neither.
Generate ==
  /\ phase = "sources"
  /\ models' = [ m \in Majors |-> compile_version(m, Sources[m]) ]
  /\ \E id \in {[ kind \in {"cases", "helpers"} |->
                  body_identifier(numbering, catalog_bodies(models', kind)) ]} :
       IF /\ \A m \in Majors : models'[m].unsupported = {}
          /\ \A kind \in DOMAIN id : Catalogued(id[kind])
       THEN phase' = "generated" /\ packages' = Packages(models', id)
       ELSE phase' = "refused" /\ packages' = packages
  /\ UNCHANGED <<major, numbering, stack, native, meant, tokens>>

Running == phase = "generated" /\ ~native.refused /\ ~meant.refused /\ ~meant.undefined

Shift(token) ==
  LET Push(side) == [ side EXCEPT !.values = Append(@, token.value),
                                  !.places = Append(@, tokens + 1) ]
  IN  /\ Running
      /\ tokens < MaxTokens
      /\ tokens' = tokens + 1
      /\ stack' = Append(stack, token.symbol)
      /\ native' = Push(native)
      /\ meant' = Push(meant)
      /\ UNCHANGED <<major, numbering, phase, models, packages>>

\* What the table of a version and the catalog behind it execute for an entry.
Cataloged(kind, version, entry) ==
  LET found == SelectSeq(packages.versions[version][kind], LAMBDA row : row[1] = entry)
  IN  IF found = <<>> THEN <<>> ELSE Dispatched(packages[kind], found[1][2])

Invocable ==
  LET names == packages.versions[major].helpers
  IN  [ i \in DOMAIN names |->
        <<names[i][1], Cataloged("helpers", major, names[i][1])[1]>> ]

\* Actions (Rule) and Reduce of the version's generated action package.
NativeAction(m, rule) ==
  LET found == Cataloged("cases", major, rule)
  IN  IF found = <<>> THEN m
      ELSE Execute([ m EXCEPT !.locals = [ i \in 1 .. found[1].slots |-> Null ] ],
                   found[1].code, Invocable)

\* The generated parser's own switch over the rule.
MeantAction(m, rule) ==
  Run(m, [ Sources[major].switch EXCEPT !.inner[1] =
             [ Node("IntegerLiteral", <<>>) EXCEPT !.value = rule ] ], Sources[major])

\* The place of what a rule makes: since version 18 that of the first symbol
\* that has one, before it that of the first symbol; -1 if there is none.
YYLLOC_DEFAULT(version, places) ==
  LET placed == IF version < 18 THEN places ELSE SelectSeq(places, LAMBDA p : p >= 0)
  IN  IF placed = <<>> THEN -1 ELSE placed[1]

\* What an action is given of one side: the values and places of the right-hand
\* side, the first value as the default result, and the default place.
Given(side, count, version) ==
  LET base   == Len(side.values) - count
      places == SubSeq(side.places, base + 1, Len(side.places))
  IN  [ Machine(side.objects, side.lists, side.parse) EXCEPT
          !.values = SubSeq(side.values, base + 1, Len(side.values)),
          !.places = places,
          !.result = IF count = 0 THEN Null ELSE side.values[base + 1],
          !.location = YYLLOC_DEFAULT(version, places) ]

\* And what it leaves there when it is done.
Reduced(side, count, done) ==
  LET base == Len(side.values) - count
  IN  IF done.flow \in {"run", "return"}
      THEN [ side EXCEPT !.objects = done.objects, !.lists = done.lists, !.parse = done.parse,
               !.values = Append(SubSeq(@, 1, base), done.result),
               !.places = Append(SubSeq(@, 1, base), done.location) ]
      ELSE [ side EXCEPT !.refused = done.flow # "undefined",
               !.undefined = done.flow = "undefined", !.message = done.message,
               !.at = CASE done.flow = "raised" -> done.at [] OTHER -> tokens ]

\* The engine has one runtime for all versions, and places as version 18 does.
Reduce(rule) ==
  LET count == Len(rule.right)
      rest  == Len(stack) - count
  IN  /\ Running
      /\ rest >= 0
      /\ SubSeq(stack, rest + 1, Len(stack)) = rule.right
      /\ count = 0 => stack # <<>> /\ Last(stack) \in rule.after
      /\ stack' = Append(SubSeq(stack, 1, rest), rule.left)
      /\ native' = Reduced(native, count, NativeAction(Given(native, count, 18), rule.rule))
      /\ meant' = Reduced(meant, count, MeantAction(Given(meant, count, major), rule.rule))
      /\ UNCHANGED <<major, numbering, phase, models, packages, tokens>>

Next ==
  \/ Generate
  \/ \E token \in Tokens : Shift(token)
  \/ \E rule \in Rules[major] : Reduce(rule)

Spec == Init /\ [][Next]_vars

-----------------------------------------------------------------------------
(* Properties                                                              *)

\* The value unfolded: types, fields that are not zero, and items.
RECURSIVE Unfolded(_, _)
Unfolded(side, value) ==
  LET made == side.objects[value.i]
      set  == { path \in DOMAIN made.members : ~Zero(made.members[path]) }
  IN  CASE Zero(value) -> <<"zero">>
        [] value.kind = "object" ->
             <<"object", made.type, { <<path, Unfolded(side, made.members[path])>> : path \in set }>>
        [] value.kind = "list" ->
             <<"list", [ i \in DOMAIN side.lists[value.i] |->
                         Unfolded(side, side.lists[value.i][i]) ]>>
        [] value.kind = "text" -> <<"text", value.t>>
        [] OTHER -> <<"number", value.n>>

Built(side) ==
  [ values |-> [ i \in DOMAIN side.values |-> Unfolded(side, side.values[i]) ],
    parse |-> Unfolded(side, side.parse), refused |-> side.refused ]

\* Every construct of the sources has a translation.
Translated == \A m \in DOMAIN models : Untranslated(models[m]) = {}

\* The compiled reductions build the trees that PostgreSQL's actions build, refuse
\* what they refuse (Emitter, line 137), and know every place that PostgreSQL knows.
ReductionsAgree == ~meant.undefined =>
  /\ Built(native) = Built(meant)
  /\ \A i \in DOMAIN meant.places :
       meant.places[i] >= 0 => native.places[i] = meant.places[i]

\* "It preserves ... cursor positions" (sql/README.md:320-322): nor do they know
\* a place that PostgreSQL does not.  Not so before version 18.
PlacesAgree == ~meant.refused => native.places = meant.places

\* A refusal has the message and the position of PostgreSQL's, as the
\* differential tests compare them (sql/README.md:320-322).
DiagnosticsAgree ==
  native.refused /\ meant.refused => native.message = meant.message /\ native.at = meant.at

\* Nothing is parsed yet; what is generated does not change after that.
JustMade == phase # "sources" /\ tokens = 0

\* What is generated dispatches every reduction of every version to its own
\* body, and to nothing else; identifiers that would not are refused
\* (catalog_bodies, generate_action_catalog, line 1126).
DispatchIsExact == JustMade =>
  /\ phase = "generated" =>
       \A m \in Majors, kind \in {"cases", "helpers"} :
         \A entry \in ToSet(models[m][kind]) : Cataloged(kind, m, entry[1]) = <<entry[2]>>
  /\ phase = "refused" =>
       \E kind \in {"cases", "helpers"} :
         LET numbers == 1 .. Cardinality(catalog_bodies(models, kind))
         IN  \E i, j \in numbers :
               \/ Identifier(numbering, i) = 0
               \/ i # j /\ Identifier(numbering, i) = Identifier(numbering, j)

\* Equal actions of two versions, whose enumerators have equal values there, have
\* equal bodies.
OneBodyEach ==
  \A m, n \in Majors : \A a \in ToSet(reduction_cases(Sources[m].switch)),
                          b \in ToSet(reduction_cases(Sources[n].switch)) :
    LET old  == enum_values(Sources[m].enums)
        new  == enum_values(Sources[n].enums)
        used == { node.name : node \in Nodes(a[2]) } \intersect (DOMAIN old \union DOMAIN new)
        stable == used \subseteq DOMAIN old \intersect DOMAIN new
                    /\ \A name \in used : old[name] = new[name]
    IN  a[2] = b[2] /\ stable =>
      \A c \in ToSet(models[m].cases), d \in ToSet(models[n].cases) :
        c[1] = a[1] /\ d[1] = b[1] => c[2] = d[2]

\* An action that two versions have in common is one body of the catalog,
\* wherever the loops before it left the label counter (line 1050), unless an
\* enumerator that it names has another value.
SharedActionsAreOneBody == phase = "generated" /\ JustMade => OneBodyEach

\* "Its audit rejects unsupported C constructs" (sql/README.md:353).
UnsupportedIsRefused == phase = "generated" => Translated
=============================================================================
