# TLA+ models of Flyology Postgres

Flyology Postgres is an Ada 2022 library for both ends of the PostgreSQL
protocol, version 3: a client, a concurrent server framework, and streaming
replication. Its SQL part generates, with Python tools, an Ada parser and owned
syntax trees from PostgreSQL's grammar. This directory models the parts of
`src/src/` whose correctness depends on order, concurrency or failure, and the
tools of `src/sql/tools/` together with what the Ada they write does; checks them
with TLC; and proves most of the safety properties with TLAPS.

Paths below are relative to `src/src/` for the library, where
`flyology-postgres-` is left out of file names, and to `src/sql/tools/` for the
tools; `sql/` means `src/sql/`.

Contents: [inventory](#inventory), [modules](#modules), [runs](#runs),
[fairness](#fairness), [disagreements found](#disagreements-found),
[proofs](#proofs), [not modelled](#what-is-not-modelled), [plan](#plan).

## Inventory

| component | source | state it keeps | operations | what is hard |
|---|---|---|---|---|
| client session | `client.adb` | the private part of `Session`: operation state, row description, portal flags, COPY flags and origin, pipeline mode, count of Syncs, open batch | typed sends and receives, raw `Send_Command` and `Receive_Message`, scoped variants | a response is applied to a state that later sends have moved; Syncs swallowed by COPY; either side may end COPY |
| client startup | `client.adb`, `scram.adb` | negotiation stage, SCRAM phase | `Startup`, `Startup_TLS` | failure at each stage must leave a terminal state |
| server | `server.adb` | registry of credentials and tokens, one-shot holder of the structured server | `Serve`, `Serve_TLS`, `Request_Shutdown`; per connection `Run_Session` | one worker requests a token that lives on another's stack; shutdown beside start |
| server session | `server_sessions.adb` | buffers, cancellation tokens | reads of commands and COPY data, responses | timeouts within a message |
| managed primary | `replication-managed_primary.adb` | nothing across commands but the stores | `Handle` of replication commands | each command is many store operations; sessions interleave between them, and each exchange may fail |
| slot, WAL and timeline stores | `replication-persistence.ads`, `-memory.adb` | slot catalog with leases, WAL range, timeline | create, drop, acquire, advance, invalidate, release; append, read, retain; promote | fencing by leases, retention floor |
| prepared consumer | `replication-prepared_consumer.adb` | the durable store of prepared transactions | prepare, commit, acknowledge, roll back | the process may end between any two effects; the source replays |
| logical producer, decoder | `replication-logical-producer.adb`, `-logical.adb` | transaction being written, streamed transactions | `Emit`, `Decode` | order of messages within streamed transactions |
| base backups | `replication-base_backups.adb` | archive sequencing | receive and send a backup | many COPY results in one command |
| schema reader | `generate_ada.py` | messages and enums, ordered; brace depth | `parse_proto`, `reachable_schema` | oneofs, one-line bodies, types never declared |
| owned tree generators | `generate_owned_ast.py`, `generate_owned_parser.py`, `generate_owned_equivalence.py`, `generate_owned_visitors.py`, `generate_native_schema.py` | a tree on the heap, owned by its root | `Parse`, `Parse_Baseline`, `Clear`, `Equivalent`, `Traverse` | an exception at any allocation; two paths to one tree; fields that versions place differently |
| semantic-action compiler | `generate_native_actions.py` | per version: compiled cases and helpers; shared catalogs | compile, catalog, audit; the compiled body of each reduction | C evaluated by Ada on values; identifiers and ranges; what is not translated |
| generators and importers | all `main`s, `import_upstream.py`, `import_catalog.py`, `sql/tests/scripts/test.sh` | the work tree: imported sources, generated units, lists of sources | import, regenerate, check, repair | stopping between two files; stale units; what is recorded of an import |
| parser tables, type catalog | `generate_native_parser.py`, `generate_types.py` | none | text to data | not modelled |
| codec, framing, transports | `protocol.adb`, `wire.adb`, `framing.adb`, `transports-*.adb` | buffers, deadlines | encode, decode, read, write | bounds; deadlines |

How they interact. A client or server *session* calls its *transport* through
*framing*. The *server* runs each connection in a worker of a structured server
and hands commands to the application's `Handle`; workers share the registry
(`protected`, so a call is atomic). A *managed primary* is called from such a
`Handle`; its sessions share only the stores, whose operations are atomic by
contract. A *prepared consumer* is called by an application that receives a
logical stream and acknowledges it.

The SQL part is a pipeline. The importers copy a PostgreSQL release and its
catalog into `sql/backends` and `sql/catalog`; the generators read those files only,
through `parse_proto` or Clang's syntax tree, and write Ada units. At run time the
generated scanner and LALR tables drive the compiled actions over a *builder*;
its result becomes an owned tree directly, and in the tests a second time through
an arena and a view, which the generated comparator holds against the first.

What makes each correct, and which property says so, is in the module comments;
`PROJECT.json` lists the hazards at their lines with the properties that would
catch them.

## Modules

`ClientSession` is the operation state of one client session. `session` is the
private record of `client.ads:600-617`, field by field (Described_Columns and
its flag are one field, `desc`); `raised` is how the last operation ended. Each
typed send is an action (`Send_Command`'s effect included); each receive
operation is an operator of the message's kind and shape, with a disjunct per
kind, used by whoever composes the client with a peer. `Next` lets **any**
message arrive at any time. A guard that raises `Program_Error` before anything
has changed is a disabled action; a `Protocol_Error`, which the peer provokes,
is recorded in `raised`.

`PipelineWire` extends it with two bounded FIFO wires and a PostgreSQL backend.
The backend is not in the repository: it is modelled from what the client's code
and comments rely on, and marked external. It serves in order, may fail any
extended command, discards up to the next Sync after a failure, and swallows
Syncs while it reads COPY data. Its responses that no receive operation reacts
to are left out. What an application or a backend may do beyond the plainest use
is granted per run by `Liberties`: `"pipeline"`; `"receive_raw"` (mixing
`Receive_Message` with typed receives); `"follow_copy"` (writing behind an
Execute that will turn out to be COPY IN); `"sync_twice"`; `"copy_fails_early"`
(a COPY IN that fails before the Sync behind it is met, or its response read);
`"read_after_close"`. The last three and `"follow_copy"` are needed for hazards
whose outcome is not a matter of the client's state alone; they are listed as
hazards or shown by a violation run.

`SlotStore` holds what a managed primary keeps in the application's stores: the
slot catalog and the WAL's bounds, after `persistence-memory.adb`. An operation
is a pair: what it requires, and what it then does. `SlotLeases` is the abstract
view: a slot has a holder and a position; the holder alone moves it, forward;
nobody else removes it.

`ManagedPrimary` extends `SlotStore` by sessions. `session[s]` is the program
counter and the locals of `Stream_Physical`, `Stream_Logical`, the create and
drop branches of `Handle`, and `Apply_Retention`. Every store operation is a step
of its own; every exchange with the standby may fail instead (`BreakOff`) at the
point where it stands. Two simplifications keep it small: locals that are not
read again are reset (`CompleteCopy`), and a chunk of WAL is a number of
positions. Liberties: `"append"` (the application writes WAL meanwhile), `"create
anywhere"` (a slot is created beside other commands) and `"lie"` (standbys
report positions they were not sent).

`SessionServer` is `server.adb`. `worker[w]` is the program counter and locals of
`Run_Session`; `worker[w].signalled` is the token of its current command, which
the registry's entries name by its worker. `entries` is `Registry.Entries`;
`phase`, `stop`, `stopSeen`, `inner` are `Inner_Holder`, the local of
`Serve_Internal` and the structured server. That library is external: a backlog
from which a free worker accepts, a drain that may be forced.

`PreparedConsumer` is the coordinator, its store, a source that replays what is
not acknowledged, and a target. The source and the application are external: the
application acknowledges after its call has returned, commits at once, and calls
`Acknowledge_Commit` next, as the package's comments ask. `Crash` may come
between any two effects. A load and the store operation it decides are one step,
since nobody else uses the store; that only one consumer does is assumed.

`SchemaReader` is `parse_proto`, a line-by-line reader that follows brace depth,
and `reachable_schema`, whose unknown types raise. A line is what the two
regular expressions tell of it.

`OwnedTree` extends it with what is generated from a schema. What the tools write
once per message is one operator here, with the message as a parameter:
`native_record` and its companions (builder to owned tree, `Parse`), `Load_*`, `View`
and `Convert_*` (builder to arena to owned tree, `Parse_Baseline`), `Release`,
`Equivalent`, `Walk`. A converter takes and returns a `heap`: the live cells, and
`fuel`, the allocations and appends that will still succeed, so that an operation
meets `Storage_Error` at each of them in turn. An operation on a tree is one step.

`ActionCompiler` is `generate_native_actions.py` from a syntax tree to the
catalogs: `expression`, `statement`, `lvalue` and their parts case by case, helpers,
`canonicalize_labels`, `catalog_bodies`, `line_balanced_chunks` and the ranges that
dispatch. Its Ada is a tree too, which keeps names, order and control and drops
layout. `SemanticBuilder` executes that tree: `Builders`, `Semantics` and
`Invoke`, on a machine of objects, lists, right-hand values, locals and flow.
`GrammarActions` executes the C instead (external: the language). `CompiledActions`
composes the two: a bottom-up parser reduces with both, and what they have built is
compared after every step. `models` is what the compiler has made of the versions,
`packages` their tables and the two catalogs; both are made by `Generate`. Any reduction that fits the top of the stack may be
taken; the LALR tables would allow fewer.

`GeneratedFiles` is the work tree. `inputs` and `files` are what is imported and
generated; `tool` is the running tool with what it has still to remove and write;
`script` is the rest of the invocations of `test.sh`, or of sql/README.md's
"Reproducible generation". The contents of a generated file are the releases of what
it was made from, so that a file is stale exactly when they differ.

`MC*` modules add symmetry sets, or the instances: `MCOwnedTree` a cut of
`pg_query.proto` in two versions and eleven statements, `MCCompiledActions` a small
grammar in the forms of `gram.y` in two versions. Definitions marked `FAULTY` are variants
of the definition they precede; the mutants of `PROJECT.json`
put one in its place to show that each property can fail.

Counters are bounded by constants: `MaxPending`, the wire lengths `ToServer` and
`ToClient`, `MaxLSN`, `MaxLease` (in the guards that start a stream), `MaxBacklog`,
`MaxStream`, `MaxCrashes`, `MaxFuel`, `MaxTokens`, `MaxImports`, `MaxInterrupts`.
Leases are 64-bit numbers and LSNs 64-bit positions; neither comes near its width, so
both are naturals. Body identifiers are 64-bit prefixes of hashes: a run gives each
body a number, with numberings that scatter, collide, and use the reserved 0.

## Runs

| run | instance | what holds |
|---|---|---|
| `client_session` | 2 row shapes, 3 Syncs | types; COPY flags agree with the state in every order of events; pipeline mode excludes COPY; Ready carries nothing over; a COPY that expects ReadyForQuery has a Sync to retire; the origin says where the session is |
| `wire` | 1 row shape, 2 Syncs out, 2 commands and 4 responses in flight, queries and portals of all kinds, pipelining, raw receives mixed in, fair | `Pending_Syncs` is the number of ReadyForQuery still to come; Ready means that nothing is in flight; no receive raises against a correct backend; a later batch is undisturbed by an earlier one's responses; every Sync is retired |
| `primary_leases` | 2 sessions, 1 slot, 3 leases, lying standbys, slots created beside other commands, fair | leases are exclusive, are released, fence every change; slots only advance, to sent positions; refines `SlotLeases`; a command ends or waits for its standby |
| `primary_retention` | 2 sessions, 2 slots | no slot's WAL is trimmed |
| `server` | 3 workers, 2 sessions, 1 process and 2 secrets, fair | registrations exact, tokens live, a cancellation reaches the command it is aimed at and none else, a cancel request is taken up though all sessions are busy, a shutdown is never lost |
| `consumer` | 2 gids, 3 transactions, 5 events, 2 crashes, fair | only committed transactions are applied; nothing acknowledged is lost; no marked one is applied again; refusals cost nothing; every committed transaction is applied unless the consumer is refused |
| `owned_tree` | 2 versions, 11 statements, depth limit 10, failure at each of the first 15 allocations or none | every record is given back once, whatever fails; both paths make the same tree; neither refuses a statement that is well below the limit; the comparator decides equality; a traversal is nested and Skip and Stop cut exactly what they should |
| `compiled_actions` | 2 versions of a grammar of 15 rules, 3 numberings, 3 chunks, 4 tokens | the compiled reductions build PostgreSQL's trees and refuse what it refuses; every reduction is dispatched to its own body, or the catalog is refused; an action that versions share is one body |
| `generated_files` | 2 majors, 2 releases, 1 import, 1 interruption, leftovers of earlier generators | what a whole check passes, or a regeneration has finished, is current; repairing what the check reports runs no tool twice, but for the lists of sources, and those not three times; an `UPSTREAM.toml` that is there is true of the files beside it |
| `create_race`, `unsupported`, `diagnostics` | as `primary_retention`, `compiled_actions` | nothing: each ends with a counterexample ([disagreements found](#disagreements-found)) |

Why the bounds are enough. The client's hazards need a batch behind a batch, so
two outstanding Syncs, with commands and four responses in flight (a COPY OUT is
four messages; three Syncs where no wire is modelled) contain every overlap of
an old response with a new command: what is sent as soon as the backend has made
room for it is sent while the earlier responses are unread. Without its liveness
property the run also passes with three commands in flight. Leases and slots
interact pairwise: two sessions, and a third acquisition for a stale owner, a new
owner and its successor (`MaxLease` 3; retention needs an acquisition more for its
second slot). A slot starts at position 1 of 0..2, which
makes reports behind, at and beyond it. A cancel request needs one worker to carry
it, one aimed at, and one it must not hit; its liveness needs a worker beside those
that the sessions keep busy. Two crashes and a gid used again by a second transaction
contain a crash within the replay of a crash, and a stale marker or payload met by
the gid's next user.

The statements of `owned_tree` are the shapes that the converters treat apart: a
flattened base record, the A_Const of both layouts, nil elements, alternate parse modes,
enums, an empty and a refused text, and casts below, at and beyond the depth limit; a
failure comes at each of the first fifteen allocations of every one of them. Four
tokens build each form of the grammar, and the actions that interact (a column with its
qualifications, a name with its parts) need no more. Two numberings that the hash will hardly produce are there for the
refusals. A generator's files are independent but for the lists of sources and the
shared catalog, so two majors, one change and one interruption show every order; a
second import begins by removing what the first has left.

`RowsFit` is false of the code (below), so `NoDesynchronisation` sets that one
outcome aside. `SlotsAreRetained` is false where slots are created beside other
commands (below), so `primary_retention` leaves that liberty out and checks
everything else. `StorageIsReturned` sets aside one lost List, and `ReductionsAgree`
places that PostgreSQL does not know (both below).

Deadlock is not checked where the system ends: in `consumer`, a source of bounded
length and a process that has been refused; in the runs of `CompiledActions`, an input
of `MaxTokens` tokens and a parser that has refused. Elsewhere deadlock is checked; a
closed client session stutters explicitly.

## Fairness

* `FairWireSpec`: the backend goes on, and an application that is owed answers
  reads. The first is what a connection is for; without the second nothing is
  promised, as the client only acts when called.
* `FairSpec` of `ManagedPrimary`: a session outside `Await_Feedback` goes on. Each
  exchange has `Operation_Timeout`, so a step or its failure comes. Nothing is
  assumed of a standby in `Await_Feedback`, whose timeout restarts with every
  message (`replication-managed_primary.adb:95-110`): `CommandsEnd` allows for
  waiting there.
* `FairSpec` of `SessionServer`: workers go on, except that an application's
  `Handle` need not return, nor a client send its next command, unless cancelled
  or the drain is forced; a free worker accepts; `Drain_Timeout` ends (the liveness
  property is that of a server with a finite one).
* `FairSpec` of `PreparedConsumer`: the application handles what it receives.
* None for the SQL part: its tools and parsers are sequential, and what they reach is a
  matter of safety.

All of it is weak fairness: no step waits for a condition that comes and goes,
except acceptance by a free worker, which is fair as a whole and not per worker.

## Disagreements found

Each of these is shown by a run that TLC ends with a counterexample.

* `create_race` (`replication-managed_primary.adb:371`): the position of a new slot
  may be trimmed before the slot is stored, although `replication-persistence.ads:36`
  calls it the oldest position retained.
* `unsupported` (`generate_native_actions.py:1105`): the count of constructs that the
  compiler does not translate is summed before any action has been emitted (1108-1116).
  The refusal at 1678-1685 therefore never comes for a construct that the emitters
  meet, although lines 3-8 and sql/README.md:351-353 say that such actions are rejected.
* `diagnostics` (`generate_native_actions.py:716`): for a switch over `list_length` the
  compiler emits a case of its own that raises "improper qualified name" without a
  position; PostgreSQL reports "improper qualified name (too many dotted names)" at the
  name. sql/README.md:320-322 counts diagnostics and cursor positions among what the
  comparison preserves.

These are shown by a property of a module that no run checks, since it fails; to see
the counterexample, add it to the cfg named.

* `client.adb:995`: a description stays in force for the next portal of a batch, so
  rows of an undescribed portal may be refused, which `client.ads:406-410` says are
  accepted. `RowsFit`, in `Wire.cfg` with a second shape in `Columns` and `PortalWorks`.
* `client.adb:627`: `Receive_Message` revives a session closed by the refusal of COPY,
  which `client.ads:376-379` calls terminal. `ClosedForGood`, in `Wire.cfg` with the
  liberty `"read_after_close"`.
* `replication-managed_primary.adb:178`: the last chunk may go beyond `End_LSN`; the
  standby that reports it is refused as having claimed too much (180).
  `HonestFeedbackAccepted`, in `PrimaryRetention.cfg`, whose standbys do not lie, with
  `MaxLSN` 3 and `Chunk` 2.
* `generate_owned_parser.py:594-598`: the branch of `Convert_Native_Node` for a List
  has no handler around its allocation, so a List whose Node finds no storage is lost
  with its elements; sql/README.md:65-66 says the tree owns and releases the complete
  graph. `NothingIsLost`, in `OwnedTree.cfg`.
* `sql/src/flyology-postgres-sql-native-lalr.adb:49`: the one runtime places what a
  rule makes at its first symbol that has a place, as PostgreSQL 18 does. Up to 17,
  `YYLLOC_DEFAULT` of the vendored parsers takes the first symbol's place, which is none
  if that symbol is empty. Where an action reports the place of such a symbol
  (`ConstraintAttributeSpec` in `gram.y`) the Ada has a cursor position and PostgreSQL
  has none. `PlacesAgree`, in `CompiledActions.cfg`.
* `import_upstream.py:233-250`: without `--archive` the hash recorded before is carried
  over to whatever release is imported, though sql/README.md:443-444 says both archive
  hashes are recorded. `HashesAreOfTheRelease`, in `GeneratedFiles.cfg`.
* sql/README.md:415-421 runs `generate_native_actions.py --major 18 ...` to regenerate,
  which `main` refuses without `--check` (1667-1668): `StartRegeneration(FALSE)` ends in
  "usage".

Four more were met while modelling:

* `client.adb:60`: Execute, another command, Sync, and the Execute turns out to be
  COPY IN. The backend fails the COPY at the other command and answers the Sync,
  which the client has written off, although `client.ads:396` counts every Sync
  whose ReadyForQuery has not arrived. `PendingIsToCome` fails in `wire` once the
  liberty `"follow_copy"` is granted.
* `replication-managed_primary.adb:134`: `End_LSN` read before the slot is acquired
  may lie behind the slot; advancing then fails as a lost lease (188), though the
  lease is held.
* `replication-prepared_consumer.adb:96`: after a process ended between the removal
  of a rolled back transaction and its acknowledgement, the replay of the rollback
  is refused for ever. `RefusedIsSettled` allows for it.
* `server.adb:225`: `Serve` is one-shot, documented as "only once at a time"
  (`server.ads:93`). `Serve_TLS` is documented to raise `Constraint_Error` for
  `TLS_Disabled` (`server.ads:115`) and raises `Program_Error` (`server.adb:705`).

## Proofs

`ClientSessionProofs` proves the six invariants of `client_session` for every set
of row shapes and every `MaxPending`, from the named assumptions of
`ClientSession` only (`NoDescription` is no shape; `MaxPending` is positive).
As the peer is arbitrary there, the theorems hold against every backend.

The inductive invariant is `SessionInv`, the conjunction of the six: none of them
is inductive alone. `CopyFlagsAgree` needs `OriginFits` (a COPY event may only
arrive where an origin is set), `ReadyIsClean` needs `CopySyncIsPending` (a
ReadyForQuery that ends a COPY must find its Sync counted), and
`PipelineExcludesCopy` needs `Alone` (a simple query does not start in pipeline
mode). The proof has a lemma per helper (`ResetCopy`, `EnterCopy`,
`CompleteSynchronization`, `AfterCopy`, ...) that says what each field becomes,
a lemma per action, one for each receive operation with a case per kind of
message, and `SessionInvariant` that puts them together. Two lemmas do most of
the work: a session outside COPY whose remaining fields are in order satisfies
all six, and a Ready one that is clean does.

`PipelineWireProofs` proves the three invariants of `wire` and its action property
`LaterBatchUndisturbed` for any shapes, any works of portals and queries and any bounds.
The theorems assume `Disciplined`: of the liberties, the application takes none but
`"pipeline"` and `"receive_raw"`, as in `Wire.cfg`. That is not a convenience: TLC refutes
`PendingIsToCome` as soon as `"follow_copy"`, `"sync_twice"` or `"copy_fails_early"` is granted
there, and `ReadyMeansQuiet` with `"read_after_close"`.

The invariant, `WireInv`, has to say what may be in flight between any state of the session and
any mode of the backend. It does so by phases of an exchange (`Leads`: which response may come
in which phase, and where it leads): the responses in flight are a walk (`Walk`) from the phase
the session has read up to (`ClientIn`) to the phase the backend has answered up to
(`ServerIn`), and the commands in flight fit that (`CommandsFit`). This is `Flow`. Reading a
response cuts the walk's first step off, an answer extends it; `ReadyMeansQuiet` and
`NoDesynchronisation` follow, since a phase admits only what the session accepts there. The
count needs more. `EndsInOrder` and `CopyInIsOrdered` keep the two directions of a COPY from
overtaking one another, so that the Syncs the backend will swallow are those the client has
written off; `NothingFollows` says that nothing but Syncs lies behind an Execute that turns out
to be COPY IN (what `"follow_copy"` gives up); `Counted` and `BatchInv` count, in the state with
a COPY IN response on its way by an inequality only; and `EndsBySync` says that what is in flight
ends with a Sync or a ReadyForQuery unless a batch is open, without which the count could be
right and a Ready session still have responses to read. The proof has a lemma per action of
the client and of the backend, each leaning on lemmas about what growing a wire, or reading from
it, does to walks, to counts and to order; the receive operations are split by the kind of
response. `LaterBatchSafe` needs the same invariant and one lemma per receive operation.

`WireImplementsSession` needs no discipline but typed reads: whatever else the application or
the backend does, every step of `PipelineWire` is one of `ClientSession` or leaves the session
alone, so the session's six invariants hold on the wire too (`SessionSafeOnWire`). It assumes
that there is a shape (`Columns # {}`), since a message of `ClientSession` always carries one,
and rests on the types of what is in flight (`WireTyped`). `Receive_Message` is not among the
operations of `ClientSession`'s `Next`; with it, the invariants are those of `WireInv`.

`ManagedPrimaryProofs` proves, for any sessions, slots, WAL length and liberties, that
the state is typed, that a session in a COPY holds the lease it works under
(`LeaseIsHeld`), that slots only advance (`SlotsAdvance`), that the primary implements
`SlotLeases`, and, where slots are not created beside other commands (the liberty
`"create anywhere"`, the precondition that `create_race` shows to be needed), that no
slot's WAL is trimmed (`SlotsAreRetained`). The inductive invariant is `PrimaryInv`, which is
`Base` (types, and what each program counter implies of the locals) and `LeaseInv`: an active
slot has a holder, whose lease is the stored one, and no two sessions remember the same lease,
even one that has been released. What an action does to leases and positions is said once, as
a `CatalogStep` (a lease is taken, given back, or untouched while positions stay, are added,
removed or advanced), with a lemma per action; invariance and the refinement then speak of
those steps only, `SlotsAdvance` of one lemma on who moves positions. Retention needs more (`RetentionInv`): the
floor that a session is about to apply lies at or below every position, because positions only
grow and no slot is created meanwhile.

`SessionServerProofs` proves that the state is typed, that registrations are exact, that
tokens are live and that a cancellation reaches the command it is aimed at
(`CancelIsAimed`), for any number of workers, sessions, processes and secrets. The
inductive invariant is `ServerInv`: types, `TokenIsLive`, and `RegistryInv`, by which entries
and the workers between their registration and their release match one to one by
their credentials.

`PreparedConsumerProofs` proves types, `OnlyCommittedApplied`, `NothingForgotten`,
`RefusedIsSettled` and the action property `AppliesOnce` for any gids, transactions, stream
length and number of crashes. What an earlier process left in the store may belong to an event
that the present one has not received again. The
invariant (`ConsumerInv`) says how far ahead that can be: a commit is acknowledged before
anything behind it is received, so whoever applied a transaction had everything before its
commit acknowledged or discarded (`TargetInv`). `StreamInv` orders the events of a gid,
`ControlInv` places the coordinator in the stream, `ProgressInv` says what this process
has carried out, `StoreInv` what a marker means.

`GeneratedFilesProofs` proves `ProvenanceIsTrue` for any list of majors, any releases and any number
of imports and interruptions. The invariant (`ImportInv`) follows an import: its removals come
first and `UPSTREAM.toml` is written last, so that while the file is there, everything beside
it is of the release it names.

`GenerationProofs` proves `CheckedIsCurrent` and `RepairsConverge` for any list of majors, any
releases, any number of chunks, left-over units, imports and interruptions. The first half is
about data: what each invocation writes and what each script runs is a concatenation
(`FlattenSeq`), and from the lemmas on those follow that no path has two makers (`OneMaker`),
that no left-over unit survives the tool that looks for it (`LeftoversAreStale`), that the lists of
sources are what their tool writes last, and that this tool comes after all others but, in a
check, the one for the actions.
The second half is the invariant `CurrentInv`. A check that goes on has found everything fresh that is no
longer on its script (`ChecksGoOn`); a regeneration that will reach its end, and is not
refused on the way, has made fresh whatever it no longer has to run (`RegenerationGoesOn`); the
running tool has passed only outputs that are what it makes (`Running`). Writing a file makes no
other tool's output stale (`GeneratingKeeps`), except the lists of sources, which is why
those have to come last. `RepairInv` adds that what was repaired stays fresh, and that a second
repair of the lists means that the actions are done.

`NaturalTheorems` holds the one fact about numbers that these need: a set of naturals that is
not empty has a least element.

Constants that stand for "no session", "no transaction" and the like are outside the
data (`StoreAssumption`, `PrimaryAssumption`, `ServerAssumption`, `ConsumerAssumption`);
the majors are a list, not empty, of numbers that are neither 0 nor 1, which the shared lists go
by (`MajorsAssumption`), and what may be left over is of the kinds that the tools remove
(`LeftoversAssumption`). Beyond that the assumptions only give the constants their types.

Only model-checked:

* Every liveness property (`SyncIsRetired`, among others): liveness under fairness is beyond
  the prover.
* `OwnedTree`, `ActionCompiler` and the modules over it walk trees by `RECURSIVE`
  operators, so they carry no theorems, and TLC checks them on bounded inputs. (The one recursion
  in a module with theorems, `FlattenSeq`, is a function, and `FlattenIs` gets by with the least
  index at which it could go wrong.)

## What is not modelled

* Startup, TLS negotiation, SCRAM, and the scoped (completion set) operations of
  the client. Scoped operations capture `Sync_Pending` at their start, and the
  scoped `Execute_Portal` does not repeat what `Send_Command` does to the batch;
  both are listed as hazards.
* Failed writes and receives that time out within a message.
* Raw `Send_Command`, whose guards are weaker than those of the typed operations.
* The decoder, the producer, base backups, the codec and the transports; the
  timeline store; the examples.
* Of the SQL part: the tables that `generate_native_parser.py` copies from Bison's and
  Flex's output, and the type catalog of `generate_types.py`, both text to data without
  a state; the wording and layout of what is generated; an exception from the copy an
  assignment makes; the arena's storage; the switch of `makeFloatConst` (765-776) and all
  hand-written helpers but `doNegate`; the LALR automaton itself, which only narrows the
  order of reductions that `CompiledActions` allows; PostgreSQL's grammar.

## Plan

1. Failed writes and the scoped operations of the client; startup as a module of
   its own (`ClientStartup`), with its failure paths.
2. `LogicalProducer`: the transaction states of `Emit`, composed with the decoder's
   streamed-transaction state, as an abstract "each transaction is whole" and its
   implementation.
3. `BaseBackup`: the sequence of COPY results of a backup on both ends, on top of
   `ClientSession` (`BetweenCopyResults`).
4. `ServerSession`: COPY and cancellation on the server's side, composed with
   `SessionServer`'s tokens.
5. Proofs: how far `ReadyMeansQuiet` and `NoDesynchronisation` survive each single liberty; and
   the modules above as they come, each with its invariant.
