---------------------------- MODULE SessionServer ----------------------------
(***************************************************************************)
(* The concurrent server (src/src/flyology-postgres-server.adb): workers   *)
(* that each run one connection (Run_Session), the registry that routes a  *)
(* CancelRequest to the command of another worker, and the one-shot life   *)
(* of Serve beside Request_Shutdown.  Calls of the two protected objects   *)
(* are atomic; between two of them other workers run.                      *)
(*                                                                         *)
(* Simplifications.  TLS negotiation, authentication and version checks    *)
(* are one step that succeeds or gives the connection up.  The structured  *)
(* server, external, is a FIFO backlog from which a free worker accepts.   *)
(* An operation's cancellation token is named by the worker on whose stack *)
(* it lives: worker.signalled is the token of its current command.         *)
(***************************************************************************)
EXTENDS Naturals, Sequences, FiniteSets, SequencesExt

CONSTANTS
  Workers,      \* the connection handlers the structured server may run
  Capacity,     \* Server.Capacity, the sessions that can be registered
  ProcessIds,   \* process numbers of credentials
  Secrets,      \* their secret keys
  Nothing,      \* no credentials, no token, no request
  MaxBacklog    \* bound on the connections waiting to be accepted

Credentials == ProcessIds \X Secrets

Routes == [ key : Credentials, token : Workers \union {Nothing} ]

ASSUME ServerAssumption ==
  /\ IsFiniteSet(Workers) /\ Cardinality(Workers) = Capacity + 1
  /\ Capacity \in Nat \ {0} /\ MaxBacklog \in Nat
  /\ Nothing \notin Workers \union Routes

VARIABLES
  worker,   \* by worker, the local variables of Run_Session
  entries,  \* Registry.Entries
  backlog,  \* requests of connections not yet accepted
  phase,    \* of Serve
  stop,     \* Stop_Requested, of Inner_Holder
  stopSeen, \* Stop_Already_Requested, which Install returned
  inner     \* the structured server: "runs", "drains" or is "forced" to end

serveVars == <<phase, stop, stopSeen, inner>>
vars == <<worker, entries, backlog, serveVars>>

Requests ==
  [ kind : {"startup", "cancel", "silent"}, key : Credentials \union {Nothing} ]

\* What a connection asks first; a silent one never asks.
Initials ==
  { [kind |-> kind, key |-> Nothing] : kind \in {"startup", "silent"} }
    \union { [kind |-> "cancel", key |-> key] : key \in Credentials }

Counters ==
  { "free", "initial", "register", "startup", "read", "begin", "handle",
    "end", "remove" }

FreeWorker ==
  [ pc |-> "free", request |-> Nothing, key |-> Nothing,
    signalled |-> FALSE, next |-> "read" ]

Init ==
  /\ worker = [w \in Workers |-> FreeWorker]
  /\ entries = [i \in 1..Capacity |-> Nothing]
  /\ backlog = <<>>
  /\ phase = "new" /\ stop = FALSE /\ stopSeen = FALSE
  /\ inner = "runs"

-----------------------------------------------------------------------------
(* The registry *)

SlotsOf(key) ==
  { i \in DOMAIN entries : entries[i] # Nothing /\ entries[i].key = key }

Lowest(slots) == CHOOSE i \in slots : \A j \in slots : i <= j

FreeSlots == { i \in DOMAIN entries : entries[i] = Nothing }

\* FAULTY: credentials in use are handed out again.
CollidesNever(key) == FALSE /\ SlotsOf(key) # {}

Collides(key) == SlotsOf(key) # {}

SetToken(key, token) ==
  IF SlotsOf(key) = {} THEN UNCHANGED entries
  ELSE entries' = [entries EXCEPT ![Lowest(SlotsOf(key))].token = token]

\* FAULTY: the token stays behind when its operation has ended.
ClearTokenLate(key) == UNCHANGED entries

\* End_Operation.
ClearToken(key) == SetToken(key, Nothing)

RemoveRoute(key) ==
  IF SlotsOf(key) = {} THEN UNCHANGED entries
  ELSE entries' = [entries EXCEPT ![Lowest(SlotsOf(key))] = Nothing]

\* FAULTY: the secret is not compared.
MatchesProcess(route, key) == route.key[1] = key[1]

Matches(route, key) == route.key = key

\* Route requests the token of the last entry that matches.
Target(key) ==
  LET matching == { i \in DOMAIN entries : entries[i] # Nothing
                                             /\ Matches(entries[i], key) }
  IN  IF matching = {} THEN Nothing
      ELSE entries[CHOOSE i \in matching : \A j \in matching : j <= i].token

-----------------------------------------------------------------------------
(* A worker *)

At(w, pc) == worker[w].pc = pc
Goto(w, pc) == worker' = [worker EXCEPT ![w].pc = pc]
Leaves(w) == worker' = [worker EXCEPT ![w] = FreeWorker]

Busy == { w \in Workers : ~At(w, "free") }

\* FAULTY: no worker is kept for cancellation.
WorkersForSessions == Capacity

WorkerCapacity == Capacity + 1

Accept(w) ==
  /\ phase = "serving" /\ inner = "runs"
  /\ At(w, "free") /\ Cardinality(Busy) < WorkerCapacity
  /\ backlog # <<>>
  /\ worker' = [worker EXCEPT
       ![w] = [FreeWorker EXCEPT !.pc = "initial", !.request = Head(backlog)]]
  /\ backlog' = Tail(backlog)
  /\ UNCHANGED <<entries, serveVars>>

RouteCancel(w) ==
  /\ At(w, "initial") /\ worker[w].request.kind = "cancel"
  /\ LET target == Target(worker[w].request.key)
         left == [worker EXCEPT ![w] = FreeWorker]
     IN  worker' = IF target = Nothing THEN left
                   ELSE [left EXCEPT ![target].signalled = TRUE]
  /\ UNCHANGED <<entries, backlog, serveVars>>

Admit(w) ==
  /\ At(w, "initial") /\ worker[w].request.kind = "startup"
  /\ worker' = [worker EXCEPT
       ![w] = [@ EXCEPT !.pc = "register", !.request = Nothing]]
  /\ UNCHANGED <<entries, backlog, serveVars>>

\* Timeout, disconnect, refused request or failed authentication.
GiveUp(w) ==
  /\ At(w, "initial")
  /\ Leaves(w)
  /\ UNCHANGED <<entries, backlog, serveVars>>

\* FAULTY: process number zero, which means no credentials, is not rejected.
GenerateAny == Credentials \union {Nothing}

Generate == Credentials

\* Generate and Try_Register; a collision generates again, until the credentials
\* are new: then a full registry refuses them.
Register(w) ==
  /\ At(w, "register")
  /\ \/ FreeSlots = {} /\ Leaves(w) /\ UNCHANGED entries
     \/ FreeSlots # {} /\ \E key \in Generate :
          /\ ~Collides(key)
          /\ entries' = [entries EXCEPT ![Lowest(FreeSlots)] =
                            [key |-> key, token |-> Nothing]]
          /\ worker' = [worker EXCEPT
               ![w] = [@ EXCEPT !.pc = "startup", !.key = key]]
  /\ UNCHANGED <<backlog, serveVars>>

\* Send_Startup_Complete, which tells the client its credentials.
CompleteStartup(w) ==
  /\ At(w, "startup")
  /\ Goto(w, "read") \/ Goto(w, "remove")
  /\ UNCHANGED <<entries, backlog, serveVars>>

\* Each command has a token of its own; a forced drain makes the read fail.
ReadCommand(w) ==
  /\ At(w, "read") /\ inner # "forced"
  /\ worker' = [worker EXCEPT
       ![w] = [@ EXCEPT !.pc = "begin", !.signalled = FALSE]]
  /\ UNCHANGED <<entries, backlog, serveVars>>

ReadFails(w) ==
  /\ At(w, "read")
  /\ Goto(w, "remove")
  /\ UNCHANGED <<entries, backlog, serveVars>>

BeginOperation(w) ==
  /\ At(w, "begin")
  /\ SetToken(worker[w].key, w)
  /\ Goto(w, IF SlotsOf(worker[w].key) = {} THEN "remove" ELSE "handle")
  /\ UNCHANGED <<backlog, serveVars>>

\* The application's Handle returns, or raises; Terminate ends the session.
HandleEnds(w) ==
  /\ At(w, "handle")
  /\ \E next \in {"read", "remove"} :
       worker' = [worker EXCEPT ![w] = [@ EXCEPT !.pc = "end", !.next = next]]
  /\ UNCHANGED <<entries, backlog, serveVars>>

\* Clear_Operation_Cancellation and End_Operation, on both paths.
EndOperation(w) ==
  /\ At(w, "end")
  /\ ClearToken(worker[w].key)
  /\ Goto(w, worker[w].next)
  /\ UNCHANGED <<backlog, serveVars>>

Unregister(w) ==
  /\ At(w, "remove")
  /\ RemoveRoute(worker[w].key)
  /\ Leaves(w)
  /\ UNCHANGED <<backlog, serveVars>>

WorkerStep(w) ==
  \/ RouteCancel(w) \/ Admit(w) \/ GiveUp(w) \/ Register(w)
  \/ CompleteStartup(w) \/ ReadCommand(w) \/ ReadFails(w)
  \/ BeginOperation(w) \/ HandleEnds(w) \/ EndOperation(w) \/ Unregister(w)

-----------------------------------------------------------------------------
(* Clients, Serve and Request_Shutdown *)

OpenConnection ==
  /\ Len(backlog) < MaxBacklog
  /\ \E request \in Initials :
       /\ ~Contains(backlog, request)
       /\ backlog' = Append(backlog, request)
  /\ UNCHANGED <<worker, entries, serveVars>>

\* Serve and Install; a second call finds Serve_Started and raises.
Serve ==
  /\ phase = "new"
  /\ phase' = "installed" /\ stopSeen' = stop
  /\ UNCHANGED <<worker, entries, backlog, stop, inner>>

\* Provide_SCRAM_Mock_Secret has no secret: Serve clears the holder and raises.
ServeFails ==
  /\ phase = "installed" /\ phase' = "returned"
  /\ UNCHANGED <<worker, entries, backlog, stop, stopSeen, inner>>

\* FAULTY: a stop requested before Install is forgotten.
RunForgetting ==
  /\ phase = "installed" /\ phase' = "serving"
  /\ UNCHANGED <<worker, entries, backlog, stop, stopSeen, inner>>

\* Structured.Serve.
Run ==
  /\ phase = "installed" /\ phase' = "serving"
  /\ inner' = IF stopSeen THEN "drains" ELSE inner
  /\ UNCHANGED <<worker, entries, backlog, stop, stopSeen>>

\* Request_Stop, from any task; Current is set between Install and Clear.
RequestShutdown ==
  /\ stop' = TRUE
  /\ inner' = IF phase \in {"installed", "serving"} /\ inner = "runs"
              THEN "drains" ELSE inner
  /\ UNCHANGED <<worker, entries, backlog, phase, stopSeen>>

\* Drain_Timeout ends: every worker's Cancellation is requested.
ForceDrain ==
  /\ phase = "serving" /\ inner = "drains"
  /\ inner' = "forced"
  /\ UNCHANGED <<worker, entries, backlog, phase, stop, stopSeen>>

ServeReturns ==
  /\ phase = "serving" /\ inner # "runs" /\ Busy = {}
  /\ phase' = "returned"
  /\ UNCHANGED <<worker, entries, backlog, stop, stopSeen, inner>>

ServerStep ==
  Run \/ ServeFails \/ ForceDrain \/ ServeReturns \/ \E w \in Workers : Accept(w)

Next ==
  \/ \E w \in Workers : WorkerStep(w)
  \/ ServerStep \/ Serve \/ RequestShutdown \/ OpenConnection

Spec == Init /\ [][Next]_vars

\* What a worker does is bounded by its timeouts, except waiting for a command
\* and the application's Handle, which end when they are cancelled.
MustEnd(w) ==
  /\ At(w, "handle") => worker[w].signalled \/ inner = "forced"
  /\ At(w, "read") => inner = "forced"
  /\ WorkerStep(w)

FairSpec ==
  /\ Spec
  /\ \A w \in Workers : WF_vars(MustEnd(w))
  /\ WF_vars(\E w \in Workers : Accept(w))
  /\ WF_vars(Run \/ ServeFails) /\ WF_vars(ForceDrain) /\ WF_vars(ServeReturns)

-----------------------------------------------------------------------------
(* Properties *)

Operating == {"handle", "end"}
Registered == {"startup", "read", "begin", "remove"} \union Operating

TypeOK ==
  /\ worker \in [Workers ->
       [ pc : Counters, request : Initials \union {Nothing},
         key : Credentials \union {Nothing}, signalled : BOOLEAN,
         next : {"read", "remove"} ]]
  /\ entries \in [1..Capacity -> Routes \union {Nothing}]
  /\ backlog \in Seq(Initials)
  /\ phase \in {"new", "installed", "serving", "returned"}
  /\ inner \in {"runs", "drains", "forced"}
  /\ stop \in BOOLEAN /\ stopSeen \in BOOLEAN

(***************************************************************************)
(* A registered session has its own credentials and exactly one entry, and *)
(* every entry is a session's: the registration never disappears under a   *)
(* session (the Program_Error of Run_Session) and none outlives it.        *)
(***************************************************************************)
RegistrationIsExact ==
  /\ \A w \in Workers : worker[w].pc \in Registered
       => Cardinality(SlotsOf(worker[w].key)) = 1
  /\ \A i \in DOMAIN entries : entries[i] # Nothing =>
       Cardinality({ w \in Workers : /\ worker[w].pc \in Registered
                                     /\ worker[w].key = entries[i].key }) = 1

(***************************************************************************)
(* The registry holds no token of a command that has ended: a token lives  *)
(* on its worker's stack, and is in the worker's own entry just while the  *)
(* command runs.                                                           *)
(***************************************************************************)
TokenIsLive ==
  \A i \in DOMAIN entries :
    entries[i] # Nothing /\ entries[i].token # Nothing =>
      /\ worker[entries[i].token].pc \in Operating
      /\ worker[entries[i].token].key = entries[i].key

(***************************************************************************)
(* A token is requested only by a cancel request that carries all of its   *)
(* session's credentials, and only while a command of it runs.             *)
(***************************************************************************)
AimsAt(c, w) ==
  /\ At(c, "initial") /\ At(c, "free")'
  /\ worker[c].request.key = worker[w].key

CancelIsAimed ==
  [][ \A w \in Workers : ~worker[w].signalled /\ worker'[w].signalled =>
        worker[w].pc \in Operating /\ \E c \in Workers : AimsAt(c, w) ]_vars

(***************************************************************************)
(* Worker_Capacity keeps a worker for cancellation: though every session   *)
(* there is room for may be in a command that never ends by itself, a      *)
(* cancel request that waits is taken up, until the server stops.          *)
(***************************************************************************)
Waiting(key) == Contains(backlog, [kind |-> "cancel", key |-> key])

CancelIsTaken ==
  \A key \in Credentials :
    phase = "serving" /\ Waiting(key) ~> ~Waiting(key) \/ inner # "runs"

(***************************************************************************)
(* Request_Shutdown is never lost, be it called before Serve, while Serve  *)
(* prepares, or while it runs: Serve returns.                              *)
(***************************************************************************)
StopIsObeyed == stop /\ phase # "new" ~> phase = "returned"
=============================================================================
