--------------------------- MODULE GeneratedFiles ---------------------------
(* The files that the SQL tools read and write: the sources and catalogs    *)
(* imported for each major, the Ada units generated from them, and the      *)
(* lists of sources the projects build.  A maintainer imports, regenerates, *)
(* checks and repairs; a tool stops at an error or is interrupted between   *)
(* two files or within one.  A unit's spec and body are one path.           *)
EXTENDS Integers, FiniteSets, Sequences, SequencesExt, Functions

CONSTANTS
  MajorsInOrder,   \* the PostgreSQL majors, as the tools list them
  Releases,        \* the releases a source tree or an archive may be of
  Marked(_, _),    \* Marked(m, r): snprintf.c of that release has the marker
  ChunkCount,      \* the chunks of the shared action catalog
  Leftovers,       \* units of earlier generators that a work tree may hold
  MaxImports, MaxInterrupts                                       \* bounds

VARIABLES
  inputs,          \* [major -> imported file -> the release it is of]
  files,           \* [generated path -> contents]
  tool,            \* the running tool, or Idle
  script,          \* the invocations that follow it
  status,          \* how the session ended, or what it is doing
  repaired,        \* the invocations repeated without --check, in order
  imports, interrupts

vars == <<inputs, files, tool, script, status, repaired, imports, interrupts>>

Majors == ToSet(MajorsInOrder)

\* Every tool lists the majors: 14 and later, never 0 or 1.
ASSUME MajorsAssumption == MajorsInOrder \in Seq(Nat \ {0, 1}) /\ MajorsInOrder # <<>>
ASSUME ChunksAssumption == ChunkCount \in Nat

\* The earlier units are of the kinds that the tools look for.
ASSUME LeftoversAssumption ==
  \A p \in Leftovers :
    \/ p[1] \in {"actions_chunk", "action_catalog_chunk"}
    \/ \E m \in Majors : p = <<"parse_subunit", m>>

None == "none"
Idle == [ name |-> None ]
Torn == <<"torn">>       \* the contents of a file whose writing was interrupted
Old == <<"old">>         \* and of one that no generator makes
NotRecorded == "not-recorded"

-----------------------------------------------------------------------------
(* The tools: what they read and what they write.                          *)

Inputs ==
  [ generate_ada               |-> {"pg_query.proto"},
    generate_owned_ast         |-> {"pg_query.proto"},
    generate_owned_visitors    |-> {"pg_query.proto"},
    generate_owned_parser      |-> {"pg_query.proto", "src/postgres"},
    generate_owned_equivalence |-> {"pg_query.proto"},
    generate_types             |-> {"pg_type.dat"},
    generate_native_parser     |-> {"src/postgres", "native_source"},
    generate_native_schema     |-> {"pg_query.proto", "pg_query.h", "src/postgres"},
    generate_native_actions    |-> {"src/postgres"},
    generate_build_layout      |-> {} ]

Units ==
  [ generate_ada               |-> <<"views", "decoder">>,
    generate_owned_ast         |-> <<"ast", "ast_ownership", "ast_materialization">>,
    generate_owned_visitors    |-> <<"visitors">>,
    generate_owned_parser      |-> <<"ast_parser">>,
    generate_owned_equivalence |-> <<"testing">>,
    generate_types             |-> <<"types">>,
    generate_native_parser     |-> <<"generated", "version">>,
    generate_native_schema     |-> <<"schema">>,
    generate_native_actions    |-> <<"actions", "actions_support">>,
    generate_build_layout      |-> <<"backend">> ]

PerMajor == DOMAIN Units \ {"generate_native_actions", "generate_build_layout"}

Of(units, majors) ==
  FlattenSeq([ i \in DOMAIN majors |-> [ k \in DOMAIN units |-> <<units[k], majors[i]>> ] ])

Chunks == [ k \in 1 .. ChunkCount |-> <<"action_catalog_chunk", k>> ]

\* A list for each major, for the umbrella and for the core.
Core == 0
Umbrella == 1

classify_source(path) ==
  CASE path[1] = "all_versions" -> Umbrella
    [] path[1] \in {"action_catalog", "action_catalog_chunk"} -> Core
    [] OTHER -> path[2]

Lists == Of(<<"sources">>, <<Core, Umbrella>> \o MajorsInOrder)

\* What an invocation writes, in its order.
Outputs(call) ==
  CASE call.name = "generate_native_actions" ->
         <<<<"action_catalog", 0>>>> \o Chunks \o Of(Units[call.name], MajorsInOrder)
    [] call.name = "generate_build_layout" ->
         Of(Units[call.name], MajorsInOrder) \o <<<<"all_versions", 0>>>> \o Lists
    [] OTHER -> Of(Units[call.name], <<call.major>>)

\* The Ada sources of sql/src: the decoder and the comparator are in the tests.
InSource(path) == path[1] \notin {"decoder", "testing", "sources"}

source_lists(group) == { p \in DOMAIN files : InSource(p) /\ classify_source(p) = group }

Read(call) ==
  { <<m, f>> : m \in IF call.name \in PerMajor THEN {call.major} ELSE Majors,
               f \in Inputs[call.name] }

Readable(call) == \A r \in Read(call) : r[2] \in DOMAIN inputs[r[1]]

\* What a tool makes of a path from what is imported now; a file of sources
\* lists the directory as it is when the tool comes to it.
Expected(call, path) ==
  IF path[1] = "sources" THEN <<"lists", source_lists(path[2])>>
  ELSE <<call.name, { <<r[1], r[2], inputs[r[1]][r[2]]>> : r \in Read(call) }>>

\* FAULTY: the chunks of the shared catalog are forgotten.
StaleOfTheVersions(call) ==
  { p \in DOMAIN files \ ToSet(Outputs(call)) :
      \/ call.name = "generate_native_actions" /\ p[1] = "actions_chunk"
      \/ call.name = "generate_owned_parser" /\ p = <<"parse_subunit", call.major>> }

\* The paths of units that no generator writes any more and a tool removes.
stale_generated_paths(call) ==
  { p \in DOMAIN files \ ToSet(Outputs(call)) :
      \/ call.name = "generate_native_actions"
           /\ p[1] \in {"actions_chunk", "action_catalog_chunk"}
      \/ call.name = "generate_owned_parser" /\ p = <<"parse_subunit", call.major>> }

Changed(call, path) == path \notin DOMAIN files \/ files[path] # Expected(call, path)

Fresh(call) ==
  stale_generated_paths(call) = {} /\ \A p \in ToSet(Outputs(call)) : ~Changed(call, p)

-----------------------------------------------------------------------------
(* The invocations of the scripts and of the README.                       *)

Call(name, m, check) == [ name |-> name, major |-> m, check |-> check ]

ForMajors(names, check) ==
  FlattenSeq([ i \in DOMAIN MajorsInOrder |->
    [ k \in DOMAIN names |-> Call(names[k], MajorsInOrder[i], check) ] ])

Checks ==
  ForMajors(<<"generate_ada", "generate_owned_ast", "generate_owned_visitors",
              "generate_owned_parser", "generate_owned_equivalence", "generate_types",
              "generate_native_parser", "generate_native_schema">>, TRUE)
    \o <<Call("generate_build_layout", 0, TRUE), Call("generate_native_actions", 0, TRUE)>>

Documented(whole) ==
  ForMajors(<<"generate_ada", "generate_types", "generate_owned_ast",
              "generate_owned_visitors", "generate_owned_parser",
              "generate_owned_equivalence", "generate_native_parser">>, FALSE)
    \o (IF whole THEN <<Call("generate_native_actions", 0, FALSE)>>
        ELSE ForMajors(<<"generate_native_actions">>, FALSE))
    \o ForMajors(<<"generate_native_schema">>, FALSE)
    \o <<Call("generate_build_layout", 0, FALSE)>>

Now(what) == [ is |-> what ]

Resting == tool = Idle /\ script = <<>>

\* The maintainer runs the whole check, or regenerates: as the README says,
\* or with --all for the actions.
StartCheck ==
  /\ Resting
  /\ script' = Checks /\ status' = Now("checking")
  /\ UNCHANGED <<inputs, files, tool, repaired, imports, interrupts>>

StartRegeneration(whole) ==
  /\ Resting
  /\ script' = Documented(whole) /\ status' = Now("regenerating")
  /\ UNCHANGED <<inputs, files, tool, repaired, imports, interrupts>>

\* The tool whose check failed is run without --check, then all is checked.
Repair ==
  /\ Resting /\ status.is = "stale"
  /\ script' = <<[ status.call EXCEPT !.check = FALSE ]>> \o Checks
  /\ status' = Now("checking") /\ repaired' = Append(repaired, status.call)
  /\ UNCHANGED <<inputs, files, tool, imports, interrupts>>

\* set -e: an invocation that fails ends the script.
Fail(how) == tool' = Idle /\ script' = <<>> /\ status' = how

\* main refuses --major without --check for the actions.
Misused(call) == call.name = "generate_native_actions" /\ call.major # 0 /\ ~call.check

Pass ==
  /\ script' = Tail(script) /\ tool' = Idle
  /\ status' = IF Len(script) > 1 THEN status
               ELSE Now(IF status.is = "checking" THEN "checked" ELSE "regenerated")

\* A tool reads its inputs and, with --check, compares.
Invoke ==
  /\ tool = Idle /\ script # <<>>
  /\ LET call == Head(script)
     IN  CASE Misused(call) -> Fail(Now("usage"))
           [] ~Misused(call) /\ ~Readable(call) -> Fail(Now("unreadable"))
           [] ~Misused(call) /\ Readable(call) /\ call.check ->
                IF Fresh(call) THEN Pass ELSE Fail([ is |-> "stale", call |-> call ])
           [] OTHER -> /\ tool' = [ name |-> "generator", call |-> call,
                                    drop |-> stale_generated_paths(call),
                                    todo |-> Outputs(call) ]
                       /\ UNCHANGED <<script, status>>
  /\ UNCHANGED <<inputs, files, repaired, imports, interrupts>>

Generating == tool.name = "generator"

\* apply_or_check removes the stale units first, generate_owned_parser last.
DropFirst == tool.call.name # "generate_owned_parser" \/ tool.todo = <<>>

\* FAULTY: a stale file is left where it is.
UnlinkNothing(path) == files' = files

Unlink(path) == files' = Restrict(files, DOMAIN files \ {path})

Drop ==
  /\ Generating /\ DropFirst /\ tool.drop # {}
  /\ \E p \in tool.drop : Unlink(p) /\ tool' = [ tool EXCEPT !.drop = @ \ {p} ]
  /\ UNCHANGED <<inputs, script, status, repaired, imports, interrupts>>

Put(held, path, contents) ==
  [ p \in DOMAIN held \union {path} |-> IF p = path THEN contents ELSE held[p] ]

\* write_if_changed
Write ==
  /\ Generating /\ tool.todo # <<>> /\ (DropFirst => tool.drop = {})
  /\ LET path == Head(tool.todo)
         made == Expected(tool.call, path)
     IN  files' = IF Changed(tool.call, path) THEN Put(files, path, made) ELSE files
  /\ tool' = [ tool EXCEPT !.todo = Tail(@) ]
  /\ UNCHANGED <<inputs, script, status, repaired, imports, interrupts>>

Finish ==
  /\ Generating /\ tool.todo = <<>> /\ tool.drop = {}
  /\ Pass
  /\ UNCHANGED <<inputs, files, repaired, imports, interrupts>>

-----------------------------------------------------------------------------
(* The importers.                                                          *)

CatalogFiles == {"pg_type.dat", "catalog/UPSTREAM.toml"}

\* The steps of import_version and of import_catalog after the removal: the
\* files they make ("src" stands for the license, the emitters and the protobuf
\* runtime, "pg_query.h" for the wrapper too), and the checks and the pruning
\* between them.
UpstreamSteps(major, postgres) ==
  <<"src", "src/postgres", "plpgsql">>
    \o (IF major <= 16 THEN <<"marker">> ELSE <<>>)
    \o <<"pg_query.proto">>
    \o (IF postgres = None THEN <<>> ELSE <<"configure", "native_source">>)
    \o <<"prune", "pg_query.h", "UPSTREAM.toml">>

CatalogSteps == <<"pg_type.dat", "catalog/UPSTREAM.toml">>

Changing == imports < MaxImports /\ Resting /\ imports' = imports + 1 /\ repaired' = <<>>

\* FAULTY: the new release is copied over what is there.
VendoredNothing(m) == {}

\* What there is of an import before.
Vendored(m) == DOMAIN inputs[m] \ CatalogFiles

\* parse_makefile and the hashes of the import before; then the removal.
\* archives: whether both archives are given, to record their digests.
ImportUpstream(m, of, release, postgres, archives) ==
  /\ Changing
  /\ IF of # m THEN status' = Now("refused") /\ tool' = tool
     ELSE
       /\ status' = Now("importing")
       /\ LET toml == IF "UPSTREAM.toml" \in DOMAIN inputs[m] THEN inputs[m]["UPSTREAM.toml"]
                      ELSE [ hash |-> NotRecorded, postgres |-> NotRecorded ]
          IN  tool' = [ name |-> "import_upstream", major |-> m, release |-> release,
                        postgres |-> postgres,
                        record |-> [ release |-> release,
                                     hash |-> IF archives THEN release ELSE toml.hash,
                                     postgres |-> IF archives THEN release ELSE toml.postgres ],
                        drop |-> Vendored(m),
                        todo |-> UpstreamSteps(m, postgres) ]
  /\ UNCHANGED <<inputs, files, script, interrupts>>

\* The digest is compared before anything is removed.
ImportCatalog(m, of, release, verified) ==
  /\ Changing
  /\ IF of # m \/ ~verified THEN status' = Now("refused") /\ tool' = tool
     ELSE
       /\ status' = Now("importing")
       /\ tool' = [ name |-> "import_catalog", major |-> m, release |-> release,
                    postgres |-> None,
                    record |-> [ release |-> release, hash |-> release,
                                 postgres |-> release ],
                    drop |-> DOMAIN inputs[m] \intersect CatalogFiles,
                    todo |-> CatalogSteps ]
  /\ UNCHANGED <<inputs, files, script, interrupts>>

Importing == tool.name \in {"import_upstream", "import_catalog"}

\* shutil.rmtree, in the order of the directory.
RemoveTree ==
  /\ Importing /\ tool.drop # {}
  /\ \E f \in tool.drop :
       /\ inputs' = [ inputs EXCEPT ![tool.major] = Restrict(@, DOMAIN @ \ {f}) ]
       /\ tool' = [ tool EXCEPT !.drop = @ \ {f} ]
  /\ UNCHANGED <<files, script, status, repaired, imports, interrupts>>

\* The ValueErrors that come after the removal.
Raises(step) ==
  \/ step = "marker" /\ ~Marked(tool.major, tool.release)
  \/ step = "configure" /\ tool.postgres # tool.release

Imported(held, step) ==
  CASE step \in {"marker", "configure"} -> held
    [] step = "prune" -> Restrict(held, DOMAIN held \ {"plpgsql"})
    [] step \in {"UPSTREAM.toml", "catalog/UPSTREAM.toml"} -> Put(held, step, tool.record)
    [] OTHER -> Put(held, step, tool.release)

Copy ==
  /\ Importing /\ tool.drop = {} /\ tool.todo # <<>>
  /\ LET step == Head(tool.todo)
     IN  IF Raises(step) THEN Fail(Now("refused")) /\ UNCHANGED inputs
         ELSE /\ inputs' = [ inputs EXCEPT ![tool.major] = Imported(@, step) ]
              /\ tool' = [ tool EXCEPT !.todo = Tail(@) ]
              /\ UNCHANGED <<script, status>>
  /\ UNCHANGED <<files, repaired, imports, interrupts>>

Imports ==
  /\ Importing /\ tool.drop = {} /\ tool.todo = <<>>
  /\ tool' = Idle /\ status' = Now("imported")
  /\ UNCHANGED <<inputs, files, script, repaired, imports, interrupts>>

\* The tool is stopped: between two files, or while it writes one.
Interrupt ==
  /\ tool # Idle /\ interrupts < MaxInterrupts
  /\ Fail(Now("interrupted")) /\ interrupts' = interrupts + 1 /\ repaired' = <<>>
  /\ \/ files' = files
     \/ /\ Generating /\ tool.todo # <<>> /\ (DropFirst => tool.drop = {})
        /\ Changed(tool.call, Head(tool.todo))
        /\ files' = Put(files, Head(tool.todo), Torn)
  /\ UNCHANGED <<inputs, imports>>

-----------------------------------------------------------------------------
(* A work tree as it is checked in, with what earlier generators may have   *)
(* left in it.                                                             *)

VendorFiles == ToSet(UpstreamSteps(17, "any")) \ {"configure", "prune", "plpgsql"}

CheckedIn(r) ==
  [ f \in VendorFiles \union CatalogFiles |->
      IF f \in {"UPSTREAM.toml", "catalog/UPSTREAM.toml"}
      THEN [ release |-> r, hash |-> r, postgres |-> r ] ELSE r ]

CallOf(path) ==
  IF path[1] \in {"action_catalog", "action_catalog_chunk"}
  THEN Call("generate_native_actions", 0, FALSE)
  ELSE IF path[1] \in {"all_versions", "sources"} THEN Call("generate_build_layout", 0, FALSE)
  ELSE LET name == CHOOSE n \in DOMAIN Units : path[1] \in ToSet(Units[n])
       IN  Call(name, IF name \in PerMajor THEN path[2] ELSE 0, FALSE)

AllCalls == ToSet(Checks)

Paths == UNION { ToSet(Outputs(call)) : call \in AllCalls }

Init ==
  /\ \E r \in Releases : inputs = [ m \in Majors |-> CheckedIn(r) ]
  /\ \E left \in SUBSET Leftovers :
       files = [ p \in Paths \union left |->
         CASE p \in left -> Old
           [] p[1] = "sources" ->
                <<"lists", { q \in Paths : InSource(q) /\ classify_source(q) = p[2] }>>
           [] OTHER -> Expected(CallOf(p), p) ]
  /\ tool = Idle /\ script = <<>> /\ status = Now("checked_in") /\ repaired = <<>>
  /\ imports = 0 /\ interrupts = 0

Next ==
  \/ StartCheck \/ Repair
  \/ \E whole \in BOOLEAN : StartRegeneration(whole)
  \/ Invoke \/ Drop \/ Write \/ Finish
  \/ \E m, of \in Majors, r \in Releases, p \in Releases \union {None},
        a \in BOOLEAN : ImportUpstream(m, of, r, p, a)
  \/ \E m, of \in Majors, r \in Releases, v \in BOOLEAN : ImportCatalog(m, of, r, v)
  \/ RemoveTree \/ Copy \/ Imports
  \/ Interrupt

Spec == Init /\ [][Next]_vars

-----------------------------------------------------------------------------
(* Properties.                                                             *)

\* Every generated file is what its generator makes of what is imported now,
\* every source is listed in its group, and no other generated file is left.
Current ==
  /\ DOMAIN files = Paths
  /\ \A call \in AllCalls : \A p \in ToSet(Outputs(call)) : files[p] = Expected(call, p)

\* A whole check that passes, and a regeneration that ends, leave nothing
\* stale: whatever was imported, interrupted or left over before, and although
\* the lists of sources are checked before the actions are, and the check of
\* one major passes without the files of another.
CheckedIsCurrent == status.is \in {"checked", "regenerated"} => Current

\* Running the tool whose check failed, again and again, ends: no tool has to be
\* repeated, except that the lists of sources may have to follow the actions.
RepairsConverge ==
  /\ \A i, j \in DOMAIN repaired :
       i < j /\ repaired[i] = repaired[j] => repaired[i].name = "generate_build_layout"
  /\ \A i, j, k \in DOMAIN repaired :
       i < j /\ j < k => ~(repaired[i] = repaired[j] /\ repaired[j] = repaired[k])

\* As long as UPSTREAM.toml is there it is true of everything imported beside it,
\* however the last import ended.
ProvenanceIsTrue ==
  \A m \in Majors :
    /\ "UPSTREAM.toml" \in DOMAIN inputs[m] =>
         \A f \in DOMAIN inputs[m] \ (CatalogFiles \union {"UPSTREAM.toml"}) :
           inputs[m][f] = inputs[m]["UPSTREAM.toml"].release
    /\ {"pg_type.dat", "catalog/UPSTREAM.toml"} \subseteq DOMAIN inputs[m] =>
         inputs[m]["pg_type.dat"] = inputs[m]["catalog/UPSTREAM.toml"].release

\* The archive hashes that UPSTREAM.toml records are those of the release that
\* was imported.
HashesAreOfTheRelease ==
  \A m \in Majors : "UPSTREAM.toml" \in DOMAIN inputs[m] =>
    LET toml == inputs[m]["UPSTREAM.toml"]
    IN  {toml.hash, toml.postgres} \subseteq {toml.release, NotRecorded}
=============================================================================
