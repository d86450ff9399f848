----------------------------- MODULE PipelineWire -----------------------------
(***************************************************************************)
(* A client session, a PostgreSQL backend and the two FIFO byte streams    *)
(* between them.  ClientSession says what the client does; the backend is  *)
(* external and modelled by what the client's code and comments rely on:   *)
(* it serves commands in order, discards everything after a failed         *)
(* extended command up to the Sync, answers each Sync by one               *)
(* ReadyForQuery, and swallows the Syncs it meets while it reads writable  *)
(* COPY data.                                                              *)
(*                                                                         *)
(* Simplifications.  Only messages that some receive operation reacts to   *)
(* are put on the way back, so Parse, Bind and Close are answered by an    *)
(* error or not at all.  Portals and queries are what they do, and a batch *)
(* may describe and execute different ones.  The wires are bounded; a full *)
(* one blocks its writer.                                                  *)
(***************************************************************************)
EXTENDS ClientSession, Sequences, FiniteSets

CONSTANTS
  PortalWorks, \* what the portals of a run do: some of AllWorks
  QueryWorks,  \* what its simple queries do: some of AllWorks
  Liberties,  \* what the run's application or backend may do: some of AllLiberties
  ToServer,   \* bound on the commands in flight
  ToClient    \* bound on the responses in flight

CopyWorks == {"copy_in", "copy_out", "copy_both"}
AllWorks == Columns \union {"no_rows"} \union CopyWorks

AllLiberties ==
  { "pipeline",         \* the application enters pipeline mode
    "receive_raw",      \* it mixes Receive_Message with the typed receives
    "follow_copy",      \* it writes commands behind an Execute that is to COPY IN
    "sync_twice",       \* it ends a batch twice, at both ends of a COPY OUT
    "copy_fails_early", \* a COPY IN fails before the backend meets the Sync
                        \* sent behind it, or before its response is read
    "read_after_close"  \* it keeps reading a session that refused a COPY
  }

ASSUME EnvironmentAssumption ==
  /\ PortalWorks \subseteq AllWorks \ {"copy_both"}
  /\ QueryWorks \subseteq AllWorks
  /\ Liberties \subseteq AllLiberties
  /\ ToServer \in Nat \ {0}
  /\ ToClient \in Nat \ (0..3)

VARIABLES
  toServer,   \* commands in flight: records [tag, work]
  toClient,   \* responses in flight: records [kind, shape]
  server      \* what the backend is doing

wireVars == <<toServer, toClient, server>>
vars == <<clientVars, wireVars>>

Modes ==
  { "idle",            \* between commands
    "skipping",        \* an extended command failed: discard up to Sync
    "copy_in",         \* reading the COPY data of an Execute
    "simple_copy_in",  \* reading the COPY data of a Query
    "copy_both",       \* both directions of a replication stream are open
    "copy_both_ended"  \* the backend has sent its CopyDone
  }

WireInit ==
  /\ Init
  /\ toServer = <<>>
  /\ toClient = <<>>
  /\ server = "idle"

-----------------------------------------------------------------------------
(* The client's side *)

\* The message is in the stream when the send operation returns.
Write(tag, work) ==
  /\ Len(toServer) < ToServer
  /\ toServer' = Append(toServer, [tag |-> tag, work |-> work])

\* A COPY IN is requested whose response the client has not read yet.
CopyInOnItsWay ==
  \/ \E i \in DOMAIN toServer : toServer[i].tag = "Execute"
                                  /\ toServer[i].work = "copy_in"
  \/ \E i \in DOMAIN toClient : toClient[i].kind = "CopyInResponse"

MayFollow == CopyInOnItsWay => "follow_copy" \in Liberties

WriteParse ==
  /\ MayFollow /\ SendParse /\ Write("Parse", "no_rows")
  /\ UNCHANGED <<toClient, server>>

WriteBind ==
  /\ MayFollow /\ BindPortal /\ Write("Bind", "no_rows")
  /\ UNCHANGED <<toClient, server>>

WriteDescribe ==
  \E work \in PortalWorks :
    /\ MayFollow /\ SendParse /\ Write("Describe", work)
    /\ UNCHANGED <<toClient, server>>

WriteExecute ==
  \E work \in PortalWorks :
    /\ MayFollow
    /\ ExecutePortal \/ ResumePortal
    /\ Write("Execute", work)
    /\ UNCHANGED <<toClient, server>>

\* The backend is told to send what it has; it does so anyway here.
WriteFlush == Flush /\ UNCHANGED wireVars

\* One Sync a batch: during COPY a second one would be legal too.
WriteSync ==
  /\ session.pipelined \/ session.pending = 0 \/ "sync_twice" \in Liberties
  /\ Synchronize /\ Write("Sync", "no_rows")
  /\ UNCHANGED <<toClient, server>>

WriteQuery ==
  \E work \in QueryWorks :
    /\ SendQuery /\ Write("Query", work)
    /\ UNCHANGED <<toClient, server>>

WriteCopyData ==
  /\ SendCopyData /\ Write("CopyData", "no_rows")
  /\ UNCHANGED <<toClient, server>>

WriteCopyEnd ==
  \E tag \in {"CopyDone", "CopyFail"} :
    /\ EndCopyData /\ Write(tag, "no_rows")
    /\ UNCHANGED <<toClient, server>>

\* The connection is given up with whatever is in flight on it.
WriteTerminate ==
  /\ Terminate
  /\ toServer' = <<>> /\ toClient' = <<>>
  /\ UNCHANGED server

ChangeMode ==
  /\ "pipeline" \in Liberties
  /\ EnterPipelineMode \/ ExitPipelineMode
  /\ UNCHANGED wireVars

\* A COPY is read by Receive_Copy_Event up to its CommandComplete; what
\* follows it in the batch by Receive_Extended_Event, the ReadyForQuery by
\* either.
CopyIsOver ==
  session.origin = "Extended_Copy" /\ session.state = "Awaiting_Ready" /\ BothClosed

ReadTyped ==
  /\ toClient # <<>>
  /\ LET m == Head(toClient) IN
       \/ ReceiveQueryEvent(m.kind, m.shape)
       \/ /\ session.origin = "No_Copy" \/ CopyIsOver
          /\ ReceiveExtendedEvent(m.kind, m.shape)
       \/ /\ CopyIsOver => m.kind = "ReadyForQuery"
          /\ ReceiveCopyEvent(m.kind, m.shape)
  /\ toClient' = Tail(toClient)
  /\ UNCHANGED <<toServer, server>>

ReadRaw ==
  /\ toClient # <<>>
  /\ IF session.state = "Closed" THEN "read_after_close" \in Liberties
                                 ELSE "receive_raw" \in Liberties
  /\ ReceiveMessage(Head(toClient).kind)
  /\ toClient' = Tail(toClient)
  /\ UNCHANGED <<toServer, server>>

Client ==
  \/ WriteParse \/ WriteBind \/ WriteDescribe \/ WriteExecute \/ WriteFlush
  \/ WriteSync \/ WriteQuery \/ WriteCopyData \/ WriteCopyEnd
  \/ WriteTerminate \/ ChangeMode \/ ReadTyped \/ ReadRaw

-----------------------------------------------------------------------------
(* The backend's side *)

Command == Head(toServer)

\* The answers to the command at the head of the wire, in one write.
Answer(kinds) ==
  /\ Len(toClient) + Len(kinds) <= ToClient
  /\ toClient' = toClient \o
       [ i \in DOMAIN kinds |->
           [kind |-> kinds[i], shape |-> Command.work] ]

ServeOne(mode) ==
  /\ toServer' = Tail(toServer)
  /\ server' = mode
  /\ UNCHANGED clientVars

Receives(tags) == toServer # <<>> /\ Command.tag \in tags

CopyTags == {"CopyData", "CopyDone", "CopyFail"}
BatchTags == {"Parse", "Bind", "Describe", "Execute"}

\* Any extended command can fail.
ServeFailure ==
  /\ server = "idle" /\ Receives(BatchTags)
  /\ Answer(<<"Error">>)
  /\ ServeOne("skipping")

ServeDefinition ==
  /\ server = "idle" /\ Receives({"Parse", "Bind"})
  /\ ServeOne("idle") /\ UNCHANGED toClient

ServeDescribe ==
  /\ server = "idle" /\ Receives({"Describe"})
  /\ Answer(<<IF Command.work \in Columns THEN "RowDescription" ELSE "NoData">>)
  /\ ServeOne("idle")

\* A portal with rows may stop at the row limit or fail after some rows.
ServeExecute ==
  /\ server = "idle" /\ Receives({"Execute"})
  /\ \/ /\ Command.work \in Columns
        /\ \/ /\ \/ Answer(<<"DataRow", "CommandComplete">>)
                 \/ Answer(<<"DataRow", "PortalSuspended">>)
              /\ ServeOne("idle")
           \/ Answer(<<"DataRow", "Error">>) /\ ServeOne("skipping")
     \/ /\ Command.work = "no_rows"
        /\ Answer(<<"CommandComplete">>) \/ Answer(<<"EmptyQuery">>)
        /\ ServeOne("idle")
     \/ /\ Command.work = "copy_in"
        /\ Answer(<<"CopyInResponse">>) /\ ServeOne("copy_in")
     \/ /\ Command.work = "copy_out"
        /\ \/ /\ Answer(<<"CopyOutResponse", "CopyData", "CopyDone",
                           "CommandComplete">>)
              /\ ServeOne("idle")
           \/ /\ Answer(<<"CopyOutResponse", "CopyData", "Error">>)
              /\ ServeOne("skipping")

ServeSync ==
  /\ server \in {"idle", "skipping"} /\ Receives({"Sync"})
  /\ Answer(<<"ReadyForQuery">>)
  /\ ServeOne("idle")

\* Behind a failure, up to the Sync; and COPY data nobody asked for any more.
ServeNothing ==
  /\ \/ server = "skipping" /\ ~Receives({"Sync"})
     \/ server = "idle" /\ Receives(CopyTags)
  /\ toServer # <<>>
  /\ ServeOne(server) /\ UNCHANGED toClient

ServeQuery ==
  /\ server = "idle" /\ Receives({"Query"})
  /\ \/ Answer(<<"Error", "ReadyForQuery">>) /\ ServeOne("idle")
     \/ /\ Command.work \in Columns
        /\ Answer(<<"RowDescription", "DataRow", "CommandComplete",
                    "ReadyForQuery">>)
        /\ ServeOne("idle")
     \/ /\ Command.work = "no_rows"
        /\ Answer(<<"CommandComplete", "ReadyForQuery">>)
        /\ ServeOne("idle")
     \/ /\ Command.work = "copy_in"
        /\ Answer(<<"CopyInResponse">>) /\ ServeOne("simple_copy_in")
     \/ /\ Command.work = "copy_both"
        /\ Answer(<<"CopyBothResponse">>) /\ ServeOne("copy_both")
     \/ /\ Command.work = "copy_out"
        /\ \/ Answer(<<"CopyOutResponse", "CopyDone", "CommandComplete",
                       "ReadyForQuery">>)
           \/ Answer(<<"CopyOutResponse", "CopyData", "Error",
                       "ReadyForQuery">>)
        /\ ServeOne("idle")

\* COPY IN data.  The extended form meets, and swallows, a Sync sent too early.
ServeCopyIn ==
  /\ server = "copy_in"
  /\ \/ /\ Receives({"CopyData", "Sync"})
        /\ ServeOne(server) /\ UNCHANGED toClient
     \/ /\ Receives({"CopyDone"})
        /\ Answer(<<"CommandComplete">>) /\ ServeOne("idle")
     \/ /\ Receives(CopyTags \union BatchTags)
        /\ Answer(<<"Error">>) /\ ServeOne("skipping")

ServeSimpleCopyIn ==
  /\ server = "simple_copy_in"
  /\ \/ /\ Receives({"CopyData"})
        /\ ServeOne(server) /\ UNCHANGED toClient
     \/ /\ Receives({"CopyDone"})
        /\ Answer(<<"CommandComplete", "ReadyForQuery">>) /\ ServeOne("idle")
     \/ /\ Receives(CopyTags)
        /\ Answer(<<"Error", "ReadyForQuery">>) /\ ServeOne("idle")

\* One more message of the COPY that is running.
Say(kind, mode) ==
  /\ Len(toClient) < ToClient
  /\ toClient' = Append(toClient, [kind |-> kind, shape |-> "no_rows"])
  /\ server' = mode
  /\ UNCHANGED <<clientVars, toServer>>

\* The next Sync on the wire is one the running COPY IN would swallow.
SyncOvertook ==
  \E i \in DOMAIN toServer :
    /\ toServer[i].tag = "Sync"
    /\ \A j \in 1..(i - 1) : toServer[j].tag \notin {"CopyDone", "CopyFail"}

\* A COPY IN fails by itself: a canceled statement, say.
FailCopyIn ==
  /\ server = "copy_in"
  /\ SyncOvertook \/ CopyInOnItsWay => "copy_fails_early" \in Liberties
  /\ Say("Error", "skipping")

\* COPY BOTH: both sides stream; data may still follow the two CopyDones.
StreamCopyBoth ==
  \/ server = "copy_both" /\ Say("CopyData", server)
  \/ server = "copy_both" /\ Say("CopyDone", "copy_both_ended")

ServeCopyBoth ==
  /\ server \in {"copy_both", "copy_both_ended"}
  /\ \/ /\ Receives({"CopyData"})
        /\ ServeOne(server) /\ UNCHANGED toClient
     \/ /\ Receives({"CopyFail"})
        /\ Answer(<<"Error", "ReadyForQuery">>) /\ ServeOne("idle")
     \/ /\ Receives({"CopyDone"}) /\ server = "copy_both"
        /\ Answer(<<"CopyDone", "CopyData", "CommandComplete",
                    "ReadyForQuery">>)
        /\ ServeOne("idle")
     \/ /\ Receives({"CopyDone"}) /\ server = "copy_both_ended"
        /\ Answer(<<"CommandComplete", "ReadyForQuery">>) /\ ServeOne("idle")

Backend ==
  \/ ServeFailure \/ ServeDefinition \/ ServeDescribe \/ ServeExecute
  \/ ServeSync \/ ServeNothing \/ ServeQuery \/ ServeCopyIn
  \/ ServeSimpleCopyIn \/ FailCopyIn \/ StreamCopyBoth \/ ServeCopyBoth

WireFinished == session.state = "Closed" /\ UNCHANGED vars

WireNext == Client \/ Backend \/ WireFinished

WireSpec == WireInit /\ [][WireNext]_vars

\* The backend goes on, and the application reads while it is owed answers.
ReadWhilePending == session.pending > 0 /\ ReadTyped

FairWireSpec ==
  /\ WireSpec
  /\ WF_vars(Backend)
  /\ WF_vars(ReadWhilePending)

-----------------------------------------------------------------------------
(* Properties *)

SwallowedAt(i) ==
  /\ server = "copy_in"
  /\ \A j \in 1..(i - 1) : toServer[j].tag \notin {"CopyDone", "CopyFail"}

\* The ReadyForQuery messages on their way, and those the Syncs will bring.
ReadiesToCome ==
    Cardinality({ i \in DOMAIN toClient : toClient[i].kind = "ReadyForQuery" })
  + Cardinality({ i \in DOMAIN toServer :
                    toServer[i].tag = "Sync" /\ ~SwallowedAt(i) })

SimpleQueryRuns ==
  session.state = "Simple_Query_Active" \/ session.origin = "Simple_Copy"

(***************************************************************************)
(* Pending_Synchronizations counts the Syncs whose ReadyForQuery has not   *)
(* arrived (client.ads): except while a COPY IN response is on its way,    *)
(* Pending_Syncs is the number of ReadyForQuery messages still to come,    *)
(* over batches, failures, recovery and the Syncs that COPY swallows.      *)
(***************************************************************************)
PendingIsToCome ==
  ~CopyInOnItsWay /\ ~SimpleQueryRuns /\ session.state # "Closed"
    => session.pending = ReadiesToCome

(***************************************************************************)
(* A session that reports Ready is really at rest: nothing is left to read *)
(* and the backend owes nothing, so the next exchange cannot consume an    *)
(* answer of an earlier one.                                               *)
(***************************************************************************)
ReadyMeansQuiet ==
  session.state = "Ready" =>
    /\ toClient = <<>>
    /\ server = "idle"
    /\ \A i \in DOMAIN toServer : toServer[i].tag \in CopyTags

(***************************************************************************)
(* A backend that keeps to the protocol never makes a receive operation    *)
(* raise Protocol_Error, but for the documented refusal of COPY in a       *)
(* pipeline (and for a row description gone stale, see RowsFit).           *)
(***************************************************************************)
NoDesynchronisation ==
  raised \in {"none", "copy_in_pipeline_mode",
             "row_does_not_match_its_description"}

(***************************************************************************)
(* Only the batch being written may be disturbed by what arrives: a        *)
(* response that a ReadyForQuery still to come will follow belongs to an   *)
(* earlier, synchronized batch, and neither suspends the portal of the     *)
(* open one, nor forgets its Bind, nor sends the session into recovery     *)
(* (Apply_Extended_Event on Sync_Pending, Complete_Synchronization).       *)
(***************************************************************************)
Ordering(s) == <<s.bound, s.suspended, s.state = "Recovery_Required">>

LaterBatchUndisturbed ==
  [][ /\ toClient # <<>> /\ toClient' = Tail(toClient)
      /\ session'.state # "Closed" /\ ReadiesToCome > 0
      => Ordering(session') = Ordering(session) ]_vars

(***************************************************************************)
(* No Sync is waited for in vain: outside pipeline mode, while the backend *)
(* serves and the application reads, every written Sync is retired, by its *)
(* ReadyForQuery or by the COPY that swallowed it.                         *)
(***************************************************************************)
SyncIsRetired ==
  session.pending > 0 /\ ~session.pipelined ~> session.pending = 0

(***************************************************************************)
(* client.ads on Receive_Extended_Event: the rows of a portal executed     *)
(* without a Describe are accepted, so a correct backend never sees a row  *)
(* rejected for its shape.                                                 *)
(***************************************************************************)
RowsFit == raised # "row_does_not_match_its_description"

(***************************************************************************)
(* client.ads on Enter_Pipeline_Mode: the refusal of COPY is terminal, the *)
(* session closes and its transport must be discarded.                     *)
(***************************************************************************)
ClosedForGood == [][session.state = "Closed" => session'.state = "Closed"]_vars
=============================================================================
