---------------------------- MODULE ClientSession ----------------------------
(***************************************************************************)
(* The local protocol state of one client session                          *)
(* (src/src/flyology-postgres-client.adb): what each send operation and    *)
(* each received backend message does to the private part of               *)
(* Client.Session.  The peer is left open: Next lets any backend message   *)
(* arrive at any time, so what holds here holds against every server.      *)
(* PipelineWire closes the system with a backend and two FIFO wires.       *)
(*                                                                         *)
(* Simplifications.  A session starts where Startup leaves it (Ready).     *)
(* A message is its kind and, for row messages, its shape (the number of   *)
(* columns).  Writes do not fail.  Notices and parameter statuses are the  *)
(* one kind "Notice"; ParseComplete, BindComplete, CloseComplete,          *)
(* ParameterDescription and unknown responses are "Acknowledgement".       *)
(***************************************************************************)
EXTENDS Naturals

CONSTANTS
  Columns,        \* the shapes a row, or a row description, may have
  NoDescription,  \* no RowDescription is in force
  MaxPending      \* bound on the Syncs a session leaves unanswered

ASSUME ColumnsAssumption == NoDescription \notin Columns
ASSUME MaxPendingAssumption == MaxPending \in Nat \ {0}

VARIABLES
  session,  \* the private fields of Client.Session
  raised    \* how the last operation ended: "none", or the exception it raised

clientVars == <<session, raised>>

-----------------------------------------------------------------------------
(* The session record *)

States ==
  { "Ready", "Simple_Query_Active", "Extended_Query_Active",
    "Copy_In_Active", "Copy_Out_Active", "Copy_Both_Active",
    "Copy_Completion_Active", "Recovery_Required", "Awaiting_Ready", "Closed" }

Origins == { "No_Copy", "Simple_Copy", "Extended_Copy" }

Descriptions == Columns \union {NoDescription}

Sessions ==
  [ state     : States,
    desc      : Descriptions,   \* Has_Row_Description and Described_Columns
    bound     : BOOLEAN,        \* Bound_In_Cycle
    suspended : BOOLEAN,        \* Portal_Is_Suspended
    origin    : Origins,        \* Current_Copy_Origin
    sendOpen  : BOOLEAN,        \* Copy_Send_Open
    recvOpen  : BOOLEAN,        \* Copy_Receive_Open
    bidir     : BOOLEAN,        \* Copy_Bidirectional
    copySync  : BOOLEAN,        \* Copy_Sync_Pending
    pipelined : BOOLEAN,
    pending   : Nat,            \* Pending_Syncs
    batchOpen : BOOLEAN ]

StartedSession ==
  [ state |-> "Ready", desc |-> NoDescription, bound |-> FALSE,
    suspended |-> FALSE, origin |-> "No_Copy", sendOpen |-> FALSE,
    recvOpen |-> FALSE, bidir |-> FALSE, copySync |-> FALSE,
    pipelined |-> FALSE, pending |-> 0, batchOpen |-> FALSE ]

CopyResponses == { "CopyInResponse", "CopyOutResponse", "CopyBothResponse" }
WritableCopy == { "CopyInResponse", "CopyBothResponse" }

BackendKinds ==
  CopyResponses \union
  { "RowDescription", "DataRow", "CommandComplete", "EmptyQuery", "NoData",
    "PortalSuspended", "Error", "ReadyForQuery", "CopyData", "CopyDone",
    "Notice", "Acknowledgement" }

Silent == {"Notice", "Acknowledgement"}

HasShape(kind) == kind \in {"RowDescription", "DataRow"}

\* How an operation ends: normally, or by Protocol_Error for one of these.
Outcomes ==
  { "none", "copy_completed_with_a_direction_open",
    "copy_data_before_a_copy_response", "copy_in_pipeline_mode",
    "data_on_a_copy_stream_that_is_not_readable",
    "description_before_the_result_ended", "ready_before_the_copys_sync",
    "ready_without_a_preceding_sync", "row_does_not_match_its_description",
    "unexpected_copy_response", "unexpected_end_of_copy",
    "unexpected_message_during_copy", "unexpected_row_description" }

ResetCopy(s) ==
  [s EXCEPT !.origin = "No_Copy", !.sendOpen = FALSE, !.recvOpen = FALSE,
            !.bidir = FALSE, !.copySync = FALSE]

\* FAULTY: a swallowed Sync is not retired.
EnterCopyWithoutRetiring(s, response, origin, syncPending) ==
  LET writable == response \in WritableCopy
  IN  [s EXCEPT
        !.origin   = origin,
        !.copySync = syncPending /\ ~writable,
        !.sendOpen = writable,
        !.recvOpen = response # "CopyInResponse",
        !.bidir    = response = "CopyBothResponse",
        !.state    = CASE response = "CopyInResponse"   -> "Copy_In_Active"
                       [] response = "CopyOutResponse"  -> "Copy_Out_Active"
                       [] response = "CopyBothResponse" -> "Copy_Both_Active"]

\* FAULTY: a retired Sync is still expected.
EnterCopyStillExpecting(s, response, origin, syncPending) ==
  LET entered == EnterCopyWithoutRetiring(s, response, origin, syncPending)
  IN  IF origin = "Extended_Copy" /\ entered.sendOpen /\ syncPending
      THEN [entered EXCEPT !.pending = @ - 1, !.copySync = TRUE] ELSE entered

\* A Sync that overtook the response is swallowed by writable COPY: retire it.
EnterCopy(s, response, origin, syncPending) ==
  LET writable == response \in WritableCopy
      swallowed == origin = "Extended_Copy" /\ syncPending /\ writable
  IN  [s EXCEPT
        !.pending  = IF swallowed THEN @ - 1 ELSE @,
        !.origin   = origin,
        !.copySync = syncPending /\ ~writable,
        !.sendOpen = writable,
        !.recvOpen = response # "CopyInResponse",
        !.bidir    = response = "CopyBothResponse",
        !.state    = CASE response = "CopyInResponse"   -> "Copy_In_Active"
                       [] response = "CopyOutResponse"  -> "Copy_Out_Active"
                       [] response = "CopyBothResponse" -> "Copy_Both_Active"]

\* Terminate, and the refusal of COPY in pipeline mode.
ClosedSession == [StartedSession EXCEPT !.state = "Closed"]

\* FAULTY: an unexpected ReadyForQuery is counted as well.
CompleteUncounted(s) ==
  [ResetCopy(s) EXCEPT
     !.pending = @ - 1, !.batchOpen = FALSE, !.desc = NoDescription,
     !.bound = FALSE, !.suspended = FALSE,
     !.state = IF s.pending > 1 THEN "Awaiting_Ready" ELSE "Ready"]

\* FAULTY: the bound portal outlives its batch.
CompleteKeepingPortal(s) ==
  [ResetCopy(s) EXCEPT
     !.pending = IF @ > 0 THEN @ - 1 ELSE 0,
     !.batchOpen = @ /\ s.pending > 0, !.desc = NoDescription,
     !.state = IF s.batchOpen /\ s.pending > 0 THEN @
               ELSE IF s.pending > 1 THEN "Awaiting_Ready" ELSE "Ready"]

\* FAULTY: the open batch ends with the synchronized one.
CompleteClosingBatch(s) ==
  [ResetCopy(s) EXCEPT
     !.pending = IF @ > 0 THEN @ - 1 ELSE 0, !.batchOpen = FALSE,
     !.desc = NoDescription, !.bound = FALSE, !.suspended = FALSE,
     !.state = IF s.pending > 1 THEN "Awaiting_Ready" ELSE "Ready"]

\* FAULTY: one ReadyForQuery ends every batch.
CompleteTooEarly(s) == [CompleteClosingBatch(s) EXCEPT !.state = "Ready"]

\* Retire the oldest Sync. An open later batch keeps its own ordering state.
CompleteSynchronization(s) ==
  LET left   == IF s.pending > 0 THEN s.pending - 1 ELSE 0
      open   == s.batchOpen /\ s.pending > 0
      retired == [ResetCopy(s) EXCEPT !.pending = left, !.batchOpen = open,
                                      !.desc = NoDescription]
  IN  IF open
      THEN retired
      ELSE [retired EXCEPT
              !.bound = FALSE, !.suspended = FALSE,
              !.state = IF left > 0 THEN "Awaiting_Ready" ELSE "Ready"]

-----------------------------------------------------------------------------
(* Sending *)

Becomes(s) == session' = s /\ raised' = "none"
Raises(what) == session' = session /\ raised' = what

Init == session = StartedSession /\ raised = "none"

\* Require_Extended_Send.
MayExtend ==
  \/ session.state \in {"Ready", "Extended_Query_Active"}
  \/ session.pipelined /\ session.state = "Awaiting_Ready"

\* What Send_Command does for Parse, Bind, Describe, Execute and Close.
InOpenBatch(s) ==
  [s EXCEPT !.batchOpen = TRUE,
            !.bound     = @ /\ s.batchOpen,
            !.suspended = @ /\ s.batchOpen,
            !.state     = IF @ \in {"Ready", "Awaiting_Ready"}
                          THEN "Extended_Query_Active" ELSE @]

\* Prepare_Statement, Describe_Statement, Describe_Portal, Close_*.
SendParse == MayExtend /\ Becomes(InOpenBatch(session))

BindPortal ==
  /\ MayExtend
  /\ Becomes([InOpenBatch(session) EXCEPT !.bound = TRUE, !.suspended = FALSE])

ExecutePortal ==
  /\ MayExtend
  /\ session.bound /\ ~session.suspended
  /\ Becomes(InOpenBatch(session))

ResumePortal ==
  /\ session.state = "Extended_Query_Active"
  /\ session.suspended
  /\ Becomes(InOpenBatch([session EXCEPT !.suspended = FALSE]))

Flush ==
  /\ MayExtend
  /\ Becomes([session EXCEPT !.state = IF @ = "Ready"
                                       THEN "Extended_Query_Active" ELSE @])

\* Synchronize's own guards, and the bound.
MaySynchronize ==
  /\ \/ session.state \in {"Ready", "Extended_Query_Active", "Copy_Out_Active",
                             "Copy_Completion_Active", "Recovery_Required"}
     \/ session.pipelined /\ session.state = "Awaiting_Ready"
  /\ session.state \in {"Copy_Out_Active", "Copy_Completion_Active"}
        => session.origin = "Extended_Copy"
  /\ session.pending < MaxPending

\* FAULTY: Syncs are a flag and not a count.
SynchronizeAsFlag ==
  /\ MaySynchronize
  /\ Becomes([session EXCEPT
                 !.pending = 1, !.state = "Awaiting_Ready",
                 !.batchOpen = FALSE, !.bound = FALSE, !.suspended = FALSE,
                 !.copySync = @ \/ session.origin = "Extended_Copy"])

\* What Send_Command does for Sync.
Synchronize ==
  /\ MaySynchronize
  /\ Becomes([session EXCEPT
                 !.pending = @ + 1, !.state = "Awaiting_Ready",
                 !.batchOpen = FALSE, !.bound = FALSE, !.suspended = FALSE,
                 !.copySync = @ \/ session.origin = "Extended_Copy"])

SendQuery ==
  /\ ~session.pipelined
  /\ session.state = "Ready"
  /\ Becomes([session EXCEPT !.state = "Simple_Query_Active",
                             !.desc = NoDescription])

CanSendCopy ==
  /\ session.state \in {"Copy_In_Active", "Copy_Both_Active"}
  /\ session.sendOpen

SendCopyData == CanSendCopy /\ Becomes(session)

\* FAULTY: a COPY BOTH whose backend still sends is completing.
EndCopyDataOneWay ==
  /\ CanSendCopy
  /\ Becomes([session EXCEPT !.sendOpen = FALSE,
                             !.state = "Copy_Completion_Active"])

\* FAULTY: ending one direction ends both.
EndCopyDataBothWays ==
  /\ CanSendCopy
  /\ Becomes([session EXCEPT !.sendOpen = FALSE, !.recvOpen = FALSE,
                             !.state = "Copy_Completion_Active"])

\* Finish_Copy and Abort_Copy.
EndCopyData ==
  /\ CanSendCopy
  /\ Becomes([session EXCEPT
                 !.sendOpen = FALSE,
                 !.state = IF @ = "Copy_Both_Active" /\ session.recvOpen
                           THEN @ ELSE "Copy_Completion_Active"])

Terminate == session.state # "Closed" /\ Becomes(ClosedSession)

\* FAULTY: the state is not checked.
EnterPipelineModeAnyTime ==
  /\ ~session.pipelined
  /\ session.state # "Closed"
  /\ Becomes([session EXCEPT !.pipelined = TRUE])

EnterPipelineMode ==
  /\ ~session.pipelined
  /\ session.state = "Ready"
  /\ Becomes([session EXCEPT !.pipelined = TRUE])

ExitPipelineMode ==
  /\ session.pipelined
  /\ session.pending = 0
  /\ session.state = "Ready"
  /\ Becomes([session EXCEPT !.pipelined = FALSE])

-----------------------------------------------------------------------------
(* Receiving: one operation per receive entry point, a disjunct per kind *)

Described(shape) == [session EXCEPT !.desc = shape]
Undescribed == Described(NoDescription)

\* Receive_Query_Event and Apply_Query_Event.
ReceiveQueryEvent(kind, shape) ==
  /\ session.state = "Simple_Query_Active"
  /\ \/ /\ kind = "RowDescription"
        /\ IF session.desc = NoDescription
           THEN Becomes(Described(shape))
           ELSE Raises("description_before_the_result_ended")
     \/ /\ kind = "DataRow"
        /\ IF session.desc = shape THEN Becomes(session)
           ELSE Raises("row_does_not_match_its_description")
     \/ /\ kind \in {"CommandComplete", "EmptyQuery", "Error"}
        /\ Becomes(Undescribed)
     \/ /\ kind = "ReadyForQuery"
        /\ Becomes([Undescribed EXCEPT !.state = "Ready"])
     \/ /\ kind \in CopyResponses
        /\ Becomes(EnterCopy(session, kind, "Simple_Copy", FALSE))
     \/ /\ kind \in {"CopyData", "CopyDone"}
        /\ Raises("copy_data_before_a_copy_response")
     \/ /\ kind \in {"NoData", "PortalSuspended"} \union Silent
        /\ Becomes(session)

\* Receive_Extended_Event and Apply_Extended_Event.
ReceiveExtendedEvent(kind, shape) ==
  /\ session.state \in {"Extended_Query_Active", "Awaiting_Ready"}
  /\ LET syncPending == session.pending > 0 IN
     \/ /\ kind = "RowDescription"
        /\ Becomes(Described(shape))
     \/ /\ kind = "DataRow"
        /\ IF session.desc \in {NoDescription, shape} THEN Becomes(session)
           ELSE Raises("row_does_not_match_its_description")
     \/ /\ kind \in {"CommandComplete", "EmptyQuery"}
        /\ Becomes([Undescribed EXCEPT !.suspended = @ /\ syncPending])
     \/ kind = "NoData" /\ Becomes(Undescribed)
     \/ /\ kind = "PortalSuspended"
        /\ Becomes([session EXCEPT !.suspended = @ \/ ~syncPending])
     \/ /\ kind = "Error"
        /\ Becomes(IF syncPending THEN Undescribed
                   ELSE [Undescribed EXCEPT !.state = "Recovery_Required",
                                            !.bound = FALSE,
                                            !.suspended = FALSE])
     \/ /\ kind = "ReadyForQuery"
        /\ IF syncPending THEN Becomes(CompleteSynchronization(session))
           ELSE Raises("ready_without_a_preceding_sync")
     \/ /\ kind \in CopyResponses
        /\ IF session.pipelined
           THEN /\ session' = ClosedSession
                /\ raised' = "copy_in_pipeline_mode"
           ELSE Becomes(EnterCopy(session, kind, "Extended_Copy", syncPending))
     \/ /\ kind \in {"CopyData", "CopyDone"}
        /\ Raises("copy_data_before_a_copy_response")
     \/ kind \in Silent /\ Becomes(session)

CopyStreams == { "Copy_In_Active", "Copy_Out_Active", "Copy_Both_Active" }
BothClosed == ~session.sendOpen /\ ~session.recvOpen

\* FAULTY: the COPY of a simple query is not reset.
AfterCopyKeepingFlags(failed) ==
  IF session.origin = "Simple_Copy"
  THEN [session EXCEPT !.state = "Simple_Query_Active"]
  ELSE IF session.copySync
       THEN [session EXCEPT !.state = "Awaiting_Ready"]
       ELSE ResetCopy([session EXCEPT !.state = failed])

\* COPY ended, by CommandComplete or by an error that leads to `failed`.
AfterCopy(failed) ==
  IF session.origin = "Simple_Copy"
  THEN ResetCopy([session EXCEPT !.state = "Simple_Query_Active"])
  ELSE IF session.copySync
       THEN [session EXCEPT !.state = "Awaiting_Ready"]
       ELSE ResetCopy([session EXCEPT !.state = failed])

\* The backend stream ended; with both directions closed COPY is completing.
AfterCopyDone ==
  [session EXCEPT !.recvOpen = FALSE,
                  !.state = IF session.sendOpen THEN @
                            ELSE "Copy_Completion_Active"]

\* PostgreSQL 14 BASE_BACKUP follows one COPY OUT result by the next, and
\* the last one by a row description.
BetweenCopyResults ==
  /\ session.origin = "Simple_Copy"
  /\ session.state = "Copy_Completion_Active"
  /\ BothClosed

\* Receive_Copy_Event.
ReceiveCopyEvent(kind, shape) ==
  /\ session.origin # "No_Copy"
  /\ session.state \in CopyStreams \union {"Copy_Completion_Active",
                                           "Awaiting_Ready"}
  /\ \/ /\ kind = "CopyData"
        /\ IF \/ session.recvOpen
              \/ /\ session.bidir /\ ~session.sendOpen
                 /\ session.state = "Copy_Completion_Active"
           THEN Becomes(session)
           ELSE Raises("data_on_a_copy_stream_that_is_not_readable")
     \/ /\ kind = "CopyDone"
        /\ IF session.recvOpen THEN Becomes(AfterCopyDone)
           ELSE Raises("unexpected_end_of_copy")
     \/ /\ kind = "CommandComplete"
        /\ IF BothClosed THEN Becomes(AfterCopy("Extended_Query_Active"))
           ELSE Raises("copy_completed_with_a_direction_open")
     \/ /\ kind = "Error"
        /\ LET closed == [session EXCEPT !.sendOpen = FALSE, !.recvOpen = FALSE]
           IN  Becomes(
                 IF session.origin = "Simple_Copy"
                 THEN [closed EXCEPT !.state = "Copy_Completion_Active"]
                 ELSE IF session.copySync
                      THEN [closed EXCEPT !.state = "Awaiting_Ready"]
                      ELSE ResetCopy([closed EXCEPT
                                        !.state = "Recovery_Required"]))
     \/ /\ kind = "ReadyForQuery"
        /\ IF session.origin = "Extended_Copy" /\ ~session.copySync
           THEN Raises("ready_before_the_copys_sync")
           ELSE Becomes(CompleteSynchronization(
                          [session EXCEPT !.batchOpen = FALSE]))
     \/ /\ kind = "CopyOutResponse"
        /\ IF BetweenCopyResults
           THEN Becomes(EnterCopy(session, kind, "Simple_Copy", FALSE))
           ELSE Raises("unexpected_copy_response")
     \/ /\ kind = "RowDescription"
        /\ IF BetweenCopyResults
           THEN Becomes(ResetCopy([session EXCEPT
                                     !.state = "Simple_Query_Active",
                                     !.desc  = shape]))
           ELSE Raises("unexpected_row_description")
     \/ kind = "Notice" /\ Becomes(session)
     \/ /\ kind \in WritableCopy \union {"DataRow", "EmptyQuery", "NoData",
                                          "PortalSuspended",
                                          "Acknowledgement"}
        /\ Raises("unexpected_message_during_copy")

\* Receive_Message: the raw path, which raises for no sequence and, unlike
\* every other receive operation, looks at no state first, Closed included.
ReceiveMessage(kind) ==
     \/ /\ kind \in CopyResponses
        /\ CASE session.state = "Simple_Query_Active" ->
                  Becomes(EnterCopy(session, kind, "Simple_Copy", FALSE))
             [] session.state \in {"Extended_Query_Active", "Awaiting_Ready"} ->
                  IF session.pipelined
                  THEN /\ session' = ClosedSession
                       /\ raised' = "copy_in_pipeline_mode"
                  ELSE Becomes(EnterCopy(session, kind, "Extended_Copy",
                                         session.pending > 0))
             [] OTHER -> Becomes(session)
     \/ /\ kind = "CopyDone"
        /\ Becomes(IF session.origin # "No_Copy" /\ session.recvOpen
                   THEN AfterCopyDone ELSE session)
     \/ /\ kind = "CommandComplete"
        /\ Becomes(IF session.origin = "No_Copy" THEN session
                   ELSE AfterCopy("Extended_Query_Active"))
     \/ /\ kind = "Error"
        /\ Becomes(
             CASE session.origin = "Simple_Copy" ->
                    [session EXCEPT !.sendOpen = FALSE, !.recvOpen = FALSE,
                                    !.state = "Copy_Completion_Active"]
               [] session.origin = "Extended_Copy" ->
                    AfterCopy("Recovery_Required")
               [] session.origin = "No_Copy"
                    /\ session.state = "Extended_Query_Active"
                    /\ session.pending = 0 ->
                    [session EXCEPT !.state = "Recovery_Required"]
               [] OTHER -> session)
     \/ /\ kind = "ReadyForQuery"
        /\ Becomes(CompleteSynchronization(session))
     \/ /\ kind \in BackendKinds \ (CopyResponses \union
               {"CopyDone", "CommandComplete", "Error", "ReadyForQuery"})
        /\ Becomes(session)

-----------------------------------------------------------------------------
(* The typed interface against any backend *)

Send ==
  \/ SendParse \/ BindPortal \/ ExecutePortal \/ ResumePortal
  \/ Flush \/ Synchronize \/ SendQuery
  \/ SendCopyData \/ EndCopyData \/ Terminate
  \/ EnterPipelineMode \/ ExitPipelineMode

Receive(kind, shape) ==
  \/ ReceiveQueryEvent(kind, shape)
  \/ ReceiveExtendedEvent(kind, shape)
  \/ ReceiveCopyEvent(kind, shape)

\* A closed session does nothing more.
Finished == session.state = "Closed" /\ UNCHANGED clientVars

Next ==
  \/ Send
  \/ \E kind \in BackendKinds, shape \in Columns : Receive(kind, shape)
  \/ Finished

Spec == Init /\ [][Next]_clientVars

-----------------------------------------------------------------------------
(* Properties *)

TypeOK ==
  /\ session \in Sessions
  /\ raised \in Outcomes

(***************************************************************************)
(* The COPY flags and the state never disagree, so a COPY operation the    *)
(* state announces is one the COPY receive and send operations accept: a   *)
(* stream state always has an origin and an open direction, and the        *)
(* completing state has both directions closed, whatever order the two     *)
(* sides close them in.                                                    *)
(***************************************************************************)
CopyFlagsAgree ==
  /\ session.state \in CopyStreams \union {"Copy_Completion_Active"}
       => session.origin # "No_Copy"
  /\ session.state = "Copy_In_Active" => session.sendOpen /\ ~session.recvOpen
  /\ session.state = "Copy_Out_Active" => session.recvOpen /\ ~session.sendOpen
  /\ session.state = "Copy_Both_Active" => session.sendOpen \/ session.recvOpen
  /\ session.state = "Copy_Completion_Active" => BothClosed
  /\ session.sendOpen
       => session.state \in {"Copy_In_Active", "Copy_Both_Active"}

(***************************************************************************)
(* COPY never runs in a pipelined session, nor does a simple query: the    *)
(* COPY flags track a single Sync (Require_No_Pipelined_Copy).             *)
(***************************************************************************)
PipelineExcludesCopy ==
  session.pipelined =>
    /\ session.origin = "No_Copy"
    /\ session.state \in {"Ready", "Extended_Query_Active", "Awaiting_Ready",
                          "Recovery_Required"}

(***************************************************************************)
(* A session that reports Ready carries nothing over from an earlier       *)
(* exchange: no unanswered Sync, no open batch, no portal state, no COPY   *)
(* and no row description that a later result could be checked against.    *)
(***************************************************************************)
ReadyIsClean ==
  session.state = "Ready" =>
    /\ session.pending = 0 /\ ~session.batchOpen
    /\ ~session.bound /\ ~session.suspended
    /\ session.origin = "No_Copy" /\ session.desc = NoDescription

(***************************************************************************)
(* A COPY that expects its ReadyForQuery still has a Sync to retire, so    *)
(* that Receive_Copy_Event can never end it on a ReadyForQuery that        *)
(* answers nothing; and only an extended COPY expects one.                 *)
(***************************************************************************)
CopySyncIsPending ==
  session.copySync => session.origin = "Extended_Copy" /\ session.pending > 0

(***************************************************************************)
(* Current_Copy_Origin says where the session is: without a COPY all its   *)
(* flags are down; a COPY of a simple query lives in the stream and        *)
(* completion states and, like the query itself, has the session to        *)
(* itself; and a COPY of a portal that has left them is one that waits     *)
(* for the ReadyForQuery of its own Sync.                                  *)
(***************************************************************************)
Alone ==
  /\ session.pending = 0
  /\ ~session.batchOpen /\ ~session.pipelined
  /\ ~session.bound /\ ~session.suspended /\ ~session.copySync

CopyStates == CopyStreams \union {"Copy_Completion_Active"}

OriginFits ==
  /\ session.origin = "No_Copy"
       => BothClosed /\ ~session.bidir /\ ~session.copySync
  /\ session.origin = "Simple_Copy" => session.state \in CopyStates
  /\ session.origin = "Extended_Copy" =>
       \/ session.state \in CopyStates
       \/ session.state = "Awaiting_Ready" /\ session.copySync
  /\ session.state = "Simple_Query_Active" \/ session.origin = "Simple_Copy"
       => Alone
=============================================================================
