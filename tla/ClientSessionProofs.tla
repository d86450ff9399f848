------------------------- MODULE ClientSessionProofs -------------------------
(***************************************************************************)
(* The invariants of ClientSession, proved for every set of row shapes and *)
(* every number of unanswered Syncs.  None of them is inductive alone; the *)
(* conjunction SessionInv is, and every step is proved to preserve it.     *)
(***************************************************************************)
EXTENDS ClientSession, TLAPS

SessionInv ==
  /\ TypeOK
  /\ CopyFlagsAgree
  /\ PipelineExcludesCopy
  /\ ReadyIsClean
  /\ CopySyncIsPending
  /\ OriginFits

-----------------------------------------------------------------------------
(* What the operations on session records return *)

\* t differs from s in nothing a COPY leaves alone, but perhaps its state.
SameBatch(s, t) ==
  /\ t.desc = s.desc /\ t.bound = s.bound /\ t.suspended = s.suspended
  /\ t.pipelined = s.pipelined /\ t.batchOpen = s.batchOpen

NoCopy(t) ==
  /\ t.origin = "No_Copy"
  /\ ~t.sendOpen /\ ~t.recvOpen /\ ~t.bidir /\ ~t.copySync

LEMMA ResetCopyIs ==
  ASSUME NEW s \in Sessions
  PROVE  /\ ResetCopy(s) \in Sessions
         /\ NoCopy(ResetCopy(s))
         /\ SameBatch(s, ResetCopy(s))
         /\ ResetCopy(s).state = s.state
         /\ ResetCopy(s).pending = s.pending
  BY DEF ResetCopy, Sessions, Origins, NoCopy, SameBatch

LEMMA InOpenBatchIs ==
  ASSUME NEW s \in Sessions
  PROVE  LET t == InOpenBatch(s) IN
         /\ t \in Sessions
         /\ t.state = IF s.state \in {"Ready", "Awaiting_Ready"}
                      THEN "Extended_Query_Active" ELSE s.state
         /\ t.desc = s.desc /\ t.pipelined = s.pipelined
         /\ t.pending = s.pending /\ t.origin = s.origin
         /\ t.sendOpen = s.sendOpen /\ t.recvOpen = s.recvOpen
         /\ t.bidir = s.bidir /\ t.copySync = s.copySync
  BY ZenonT(60) DEF InOpenBatch, Sessions, States

LEMMA ClosedSessionIs ==
  /\ ClosedSession \in Sessions
  /\ NoCopy(ClosedSession)
  /\ ClosedSession.state = "Closed" /\ ~ClosedSession.pipelined
  <1>1. StartedSession \in Sessions
    BY DEF StartedSession, Sessions, States, Descriptions, Origins
  <1>2. NoCopy(StartedSession) /\ ~StartedSession.pipelined
    BY DEF StartedSession, NoCopy
  <1> QED
    BY <1>1, <1>2 DEF ClosedSession, Sessions, States, NoCopy

LEMMA EnterCopyIs ==
  ASSUME NEW s \in Sessions, NEW response \in CopyResponses,
         NEW origin \in Origins, NEW syncPending \in BOOLEAN,
         syncPending => s.pending > 0
  PROVE  LET t == EnterCopy(s, response, origin, syncPending)
             writable == response \in WritableCopy
         IN
         /\ t \in Sessions
         /\ SameBatch(s, t)
         /\ t.origin = origin
         /\ t.copySync = (syncPending /\ ~writable)
         /\ t.sendOpen = writable
         /\ t.recvOpen = (response # "CopyInResponse")
         /\ t.pending = IF origin = "Extended_Copy" /\ syncPending /\ writable
                        THEN s.pending - 1 ELSE s.pending
         /\ response = "CopyInResponse" => t.state = "Copy_In_Active"
         /\ response = "CopyOutResponse" => t.state = "Copy_Out_Active"
         /\ response = "CopyBothResponse" => t.state = "Copy_Both_Active"
  <1> DEFINE t == EnterCopy(s, response, origin, syncPending)
             writable == response \in WritableCopy
             left == IF origin = "Extended_Copy" /\ syncPending /\ writable
                     THEN s.pending - 1 ELSE s.pending
             expects == syncPending /\ ~writable
             readable == response # "CopyInResponse"
             both == response = "CopyBothResponse"
             state == CASE response = "CopyInResponse"   -> "Copy_In_Active"
                        [] response = "CopyOutResponse"  -> "Copy_Out_Active"
                        [] response = "CopyBothResponse" -> "Copy_Both_Active"
  <1>1. t = [s EXCEPT !.pending = left, !.origin = origin,
                      !.copySync = expects, !.sendOpen = writable,
                      !.recvOpen = readable, !.bidir = both, !.state = state]
    BY Zenon DEF EnterCopy
  <1>2. left \in Nat
    BY DEF Sessions
  <1>3. /\ response = "CopyInResponse" => state = "Copy_In_Active"
        /\ response = "CopyOutResponse" => state = "Copy_Out_Active"
        /\ response = "CopyBothResponse" => state = "Copy_Both_Active"
    OBVIOUS
  <1>4. state \in States
    BY DEF States, CopyResponses
  <1>5. /\ writable \in BOOLEAN /\ expects \in BOOLEAN
        /\ readable \in BOOLEAN /\ both \in BOOLEAN
    OBVIOUS
  <1>6. /\ t \in Sessions
        /\ SameBatch(s, t)
        /\ t.origin = origin /\ t.copySync = expects /\ t.sendOpen = writable
        /\ t.recvOpen = readable /\ t.pending = left /\ t.state = state
    <2> HIDE DEF t, left, state, writable, expects, readable, both
    <2>1. t \in Sessions
      <3> DEFINE u == [s EXCEPT !.pending = left, !.origin = origin,
                                !.copySync = expects, !.sendOpen = writable]
      <3>1. u \in Sessions
        BY <1>2, <1>5 DEF Sessions
      <3>2. t = [u EXCEPT !.recvOpen = readable, !.bidir = both,
                          !.state = state]
        BY <1>1, Zenon
      <3> HIDE DEF u
      <3> QED
        BY <3>1, <3>2, <1>4, <1>5 DEF Sessions
    <2>2. SameBatch(s, t)
      BY <1>1 DEF Sessions, SameBatch
    <2>3. /\ t.origin = origin /\ t.copySync = expects /\ t.sendOpen = writable
          /\ t.recvOpen = readable /\ t.pending = left /\ t.state = state
      BY <1>1 DEF Sessions
    <2> QED
      BY <2>1, <2>2, <2>3
  <1> QED
    BY <1>3, <1>6

LEMMA CompleteSynchronizationIs ==
  ASSUME NEW s \in Sessions
  PROVE  LET t == CompleteSynchronization(s)
             open == s.batchOpen /\ s.pending > 0
         IN
         /\ t \in Sessions
         /\ NoCopy(t)
         /\ t.desc = NoDescription
         /\ t.pipelined = s.pipelined
         /\ t.pending = IF s.pending > 0 THEN s.pending - 1 ELSE 0
         /\ t.batchOpen = open
         /\ open => /\ t.state = s.state
                    /\ t.bound = s.bound /\ t.suspended = s.suspended
         /\ ~open => /\ ~t.bound /\ ~t.suspended
                     /\ t.state = IF t.pending > 0
                                  THEN "Awaiting_Ready" ELSE "Ready"
  <1> DEFINE t == CompleteSynchronization(s)
             open == s.batchOpen /\ s.pending > 0
             left == IF s.pending > 0 THEN s.pending - 1 ELSE 0
             r == ResetCopy(s)
             retired == [r EXCEPT !.pending = left, !.batchOpen = open,
                                  !.desc = NoDescription]
             after == IF left > 0 THEN "Awaiting_Ready" ELSE "Ready"
  <1>1. t = IF open THEN retired
            ELSE [retired EXCEPT !.bound = FALSE, !.suspended = FALSE,
                                 !.state = after]
    BY Zenon DEF CompleteSynchronization
  <1>2. left \in Nat /\ open \in BOOLEAN /\ after \in States
    BY DEF Sessions, States
  <1>3. r \in Sessions /\ NoCopy(r) /\ SameBatch(s, r) /\ r.state = s.state
    BY ResetCopyIs
  <1>4. /\ retired \in Sessions /\ NoCopy(retired)
        /\ retired.desc = NoDescription /\ retired.pipelined = s.pipelined
        /\ retired.pending = left /\ retired.batchOpen = open
        /\ retired.state = s.state
        /\ retired.bound = s.bound /\ retired.suspended = s.suspended
    <2> HIDE DEF open, left, r
    <2>1. retired \in Sessions
      BY <1>2, <1>3 DEF Sessions, Descriptions
    <2>2. NoCopy(retired) /\ retired.pipelined = s.pipelined
      BY <1>3 DEF Sessions, NoCopy, SameBatch
    <2>3. /\ retired.desc = NoDescription /\ retired.pending = left
          /\ retired.batchOpen = open /\ retired.state = s.state
          /\ retired.bound = s.bound /\ retired.suspended = s.suspended
      BY <1>3 DEF Sessions, SameBatch
    <2> QED
      BY <2>1, <2>2, <2>3
  <1> HIDE DEF retired, after, t
  <1>5. CASE open
    <2>1. t = retired
      BY <1>1, <1>5
    <2> QED
      BY <2>1, <1>4, <1>5 DEF t
  <1>6. CASE ~open
    <2>1. t = [retired EXCEPT !.bound = FALSE, !.suspended = FALSE,
                              !.state = after]
      BY <1>1, <1>6
    <2> HIDE DEF left, open
    <2>2. t \in Sessions
      BY <2>1, <1>2, <1>4 DEF Sessions
    <2>3. /\ NoCopy(t) /\ t.desc = NoDescription /\ t.pipelined = s.pipelined
      BY <2>1, <1>4 DEF Sessions, NoCopy
    <2>4. /\ t.pending = left /\ t.batchOpen = open
          /\ ~t.bound /\ ~t.suspended /\ t.state = after
      BY <2>1, <1>4 DEF Sessions
    <2> QED
      BY <2>2, <2>3, <2>4, <1>6 DEF t, after, left, open
  <1> QED
    BY <1>5, <1>6

-----------------------------------------------------------------------------
(* The send operations preserve the invariant *)

\* Every conjunct in one list, for the steps that leave the session alone.
LEMMA SameSession ==
  ASSUME SessionInv, session' = session, raised' \in Outcomes
  PROVE  SessionInv'
  BY DEF SessionInv, TypeOK, CopyFlagsAgree, PipelineExcludesCopy,
         ReadyIsClean, CopySyncIsPending, OriginFits, Alone, BothClosed

\* A step that ends outside COPY: no flag is left that a conjunct is about.
LEMMA OutsideCopy ==
  ASSUME session' \in Sessions, raised' \in Outcomes, NoCopy(session'),
         session'.state \in {"Ready", "Simple_Query_Active", "Closed",
                             "Extended_Query_Active", "Recovery_Required",
                             "Awaiting_Ready"},
         session'.pipelined
           => session'.state \notin {"Simple_Query_Active", "Closed"},
         ReadyIsClean',
         session'.state = "Simple_Query_Active" => Alone'
  PROVE  SessionInv'
  <1>1. TypeOK'
    BY DEF TypeOK
  <1>2. CopyFlagsAgree'
    BY DEF CopyFlagsAgree, CopyStreams, NoCopy
  <1>3. PipelineExcludesCopy'
    BY DEF PipelineExcludesCopy, NoCopy
  <1>4. CopySyncIsPending'
    BY DEF CopySyncIsPending, NoCopy
  <1>5. OriginFits'
    BY DEF OriginFits, NoCopy, BothClosed
  <1> QED
    BY <1>1, <1>2, <1>3, <1>4, <1>5 DEF SessionInv

\* A step that ends inside COPY, or behind a COPY that waits for its Sync.
LEMMA InsideCopy ==
  ASSUME session' \in Sessions, raised' \in Outcomes,
         session'.origin \in {"Simple_Copy", "Extended_Copy"},
         ~session'.pipelined,
         \/ session'.state \in CopyStates
         \/ session'.state = "Awaiting_Ready" /\ session'.copySync,
         CopyFlagsAgree', CopySyncIsPending',
         session'.origin = "Simple_Copy" => Alone'
  PROVE  SessionInv'
  <1>1. TypeOK' /\ PipelineExcludesCopy'
    BY DEF TypeOK, PipelineExcludesCopy
  <1>2. ReadyIsClean'
    BY DEF ReadyIsClean, CopyStates, CopyStreams
  <1>3. OriginFits'
    BY DEF OriginFits, CopySyncIsPending, CopyStates, CopyStreams
  <1> QED
    BY <1>1, <1>2, <1>3 DEF SessionInv

\* The commands that find the session in a batch, or open one.
LEMMA BatchStep ==
  ASSUME SessionInv, MayExtend, raised' = "none",
         session' \in Sessions,
         session'.state = "Extended_Query_Active",
         session'.pipelined = session.pipelined,
         session'.origin = session.origin,
         session'.sendOpen = session.sendOpen,
         session'.recvOpen = session.recvOpen,
         session'.bidir = session.bidir,
         session'.copySync = session.copySync
  PROVE  SessionInv'
  <1>1. session.origin = "No_Copy"
    BY DEF SessionInv, MayExtend, TypeOK, Sessions, Origins, OriginFits,
           PipelineExcludesCopy, ReadyIsClean, CopyStates, CopyStreams
  <1>2. NoCopy(session')
    BY <1>1 DEF SessionInv, OriginFits, NoCopy, BothClosed
  <1>3. ReadyIsClean' /\ raised' \in Outcomes
    BY DEF ReadyIsClean, Outcomes
  <1> QED
    BY <1>2, <1>3, OutsideCopy

LEMMA SendParseStep ==
  ASSUME SessionInv, SendParse PROVE SessionInv'
  BY InOpenBatchIs, BatchStep DEF SendParse, MayExtend, Becomes, SessionInv, TypeOK

LEMMA BindPortalStep ==
  ASSUME SessionInv, BindPortal PROVE SessionInv'
  <1> DEFINE t == InOpenBatch(session)
  <1>1. /\ t \in Sessions /\ MayExtend /\ raised' = "none"
        /\ session' = [t EXCEPT !.bound = TRUE, !.suspended = FALSE]
    BY InOpenBatchIs DEF BindPortal, Becomes, SessionInv, TypeOK
  <1>2. /\ t.state = "Extended_Query_Active"
        /\ t.pipelined = session.pipelined /\ t.origin = session.origin
        /\ t.sendOpen = session.sendOpen /\ t.recvOpen = session.recvOpen
        /\ t.bidir = session.bidir /\ t.copySync = session.copySync
    BY InOpenBatchIs, <1>1 DEF MayExtend, SessionInv, TypeOK
  <1> HIDE DEF t
  <1>3. session' \in Sessions
    BY <1>1 DEF Sessions
  <1>4. /\ session'.state = t.state /\ session'.pipelined = t.pipelined
        /\ session'.origin = t.origin /\ session'.sendOpen = t.sendOpen
        /\ session'.recvOpen = t.recvOpen /\ session'.bidir = t.bidir
        /\ session'.copySync = t.copySync
    BY <1>1 DEF Sessions
  <1> QED
    BY <1>1, <1>2, <1>3, <1>4, BatchStep

LEMMA ExecutePortalStep ==
  ASSUME SessionInv, ExecutePortal PROVE SessionInv'
  BY InOpenBatchIs, BatchStep
     DEF ExecutePortal, MayExtend, Becomes, SessionInv, TypeOK

LEMMA ResumePortalStep ==
  ASSUME SessionInv, ResumePortal PROVE SessionInv'
  <1> DEFINE s == [session EXCEPT !.suspended = FALSE]
  <1>1. /\ session.state = "Extended_Query_Active" /\ session \in Sessions
        /\ session' = InOpenBatch(s) /\ raised' = "none"
    BY DEF ResumePortal, Becomes, SessionInv, TypeOK
  <1>2. /\ s \in Sessions
        /\ s.state = session.state /\ s.pipelined = session.pipelined
        /\ s.origin = session.origin /\ s.sendOpen = session.sendOpen
        /\ s.recvOpen = session.recvOpen /\ s.bidir = session.bidir
        /\ s.copySync = session.copySync
    BY <1>1 DEF Sessions
  <1> HIDE DEF s
  <1> QED
    BY <1>1, <1>2, InOpenBatchIs, BatchStep DEF MayExtend

LEMMA FlushStep ==
  ASSUME SessionInv, Flush PROVE SessionInv'
  <1>1. CASE session.state = "Ready"
    <2>1. session' = [session EXCEPT !.state = "Extended_Query_Active"]
      BY <1>1 DEF Flush, Becomes, SessionInv, TypeOK, Sessions
    <2> QED
      BY <1>1, <2>1, BatchStep
         DEF Flush, Becomes, SessionInv, TypeOK, Sessions, States
  <1>2. CASE session.state # "Ready"
    <2>1. session' = session
      BY <1>2 DEF Flush, Becomes, SessionInv, TypeOK, Sessions
    <2>2. raised' \in Outcomes
      BY DEF Flush, Becomes, Outcomes
    <2> QED
      BY <2>1, <2>2, SameSession
  <1> QED
    BY <1>1, <1>2

LEMMA SynchronizeStep ==
  ASSUME SessionInv, Synchronize PROVE SessionInv'
  <1> DEFINE expects == session.copySync \/ session.origin = "Extended_Copy"
  <1>1. /\ session \in Sessions /\ raised' \in Outcomes
        /\ session' = [session EXCEPT
             !.pending = @ + 1, !.state = "Awaiting_Ready",
             !.batchOpen = FALSE, !.bound = FALSE, !.suspended = FALSE,
             !.copySync = expects]
    BY DEF Synchronize, MaySynchronize, Becomes, SessionInv, TypeOK, Outcomes
  <1>2. expects \in BOOLEAN /\ session.pending + 1 \in Nat
    BY <1>1 DEF Sessions
  <1> HIDE DEF expects
  <1>3. session' \in Sessions
    BY <1>1, <1>2 DEF Sessions, States
  <1>4. /\ session'.state = "Awaiting_Ready"
        /\ session'.origin = session.origin /\ session'.copySync = expects
        /\ session'.bidir = session.bidir
        /\ session'.sendOpen = session.sendOpen
        /\ session'.recvOpen = session.recvOpen
        /\ session'.pending = session.pending + 1
        /\ session'.pipelined = session.pipelined
    BY <1>1 DEF Sessions
  <1>5. ~session.sendOpen /\ session.origin # "Simple_Copy"
    BY DEF Synchronize, MaySynchronize, SessionInv, CopyFlagsAgree, PipelineExcludesCopy,
           OriginFits, CopyStates, CopyStreams
  <1>6. CASE session.origin = "No_Copy"
    <2>1. NoCopy(session')
      BY <1>4, <1>6 DEF NoCopy, SessionInv, OriginFits, BothClosed, expects
    <2>2. ReadyIsClean'
      BY <1>4 DEF ReadyIsClean
    <2> QED
      BY <1>1, <1>3, <1>4, <2>1, <2>2, OutsideCopy
  <1>7. CASE session.origin = "Extended_Copy"
    <2>1. session'.copySync /\ ~session'.pipelined
      BY <1>4, <1>7 DEF expects, SessionInv, PipelineExcludesCopy
    <2>2. CopyFlagsAgree'
      BY <1>4, <1>5 DEF CopyFlagsAgree, CopyStreams
    <2>3. CopySyncIsPending'
      BY <1>1, <1>4, <1>7 DEF CopySyncIsPending, Sessions
    <2> QED
      BY <1>1, <1>3, <1>4, <1>7, <2>1, <2>2, <2>3, InsideCopy
  <1> QED
    BY <1>1, <1>5, <1>6, <1>7 DEF Sessions, Origins

LEMMA SendQueryStep ==
  ASSUME SessionInv, SendQuery PROVE SessionInv'
  <1>1. /\ session \in Sessions /\ raised' \in Outcomes
        /\ session.state = "Ready" /\ ~session.pipelined
        /\ session' = [session EXCEPT !.state = "Simple_Query_Active",
                                      !.desc = NoDescription]
    BY DEF SendQuery, Becomes, SessionInv, TypeOK, Outcomes
  <1>2. session' \in Sessions
    BY <1>1 DEF Sessions, States, Descriptions
  <1>3. /\ session'.state = "Simple_Query_Active"
        /\ session'.origin = session.origin /\ session'.copySync = session.copySync
        /\ session'.bidir = session.bidir
        /\ session'.sendOpen = session.sendOpen
        /\ session'.recvOpen = session.recvOpen
        /\ session'.pending = session.pending
        /\ session'.pipelined = session.pipelined
        /\ session'.batchOpen = session.batchOpen
        /\ session'.bound = session.bound
        /\ session'.suspended = session.suspended
    BY <1>1 DEF Sessions
  <1>4. NoCopy(session') /\ Alone'
    BY <1>1, <1>3
       DEF NoCopy, Alone, SessionInv, ReadyIsClean, OriginFits, BothClosed
  <1>5. ReadyIsClean'
    BY <1>3 DEF ReadyIsClean
  <1> QED
    BY <1>1, <1>2, <1>3, <1>4, <1>5, OutsideCopy

LEMMA SendCopyDataStep ==
  ASSUME SessionInv, SendCopyData PROVE SessionInv'
  <1>1. session' = session /\ raised' \in Outcomes
    BY DEF SendCopyData, Becomes, Outcomes
  <1> QED
    BY <1>1, SameSession

LEMMA EndCopyDataStep ==
  ASSUME SessionInv, EndCopyData PROVE SessionInv'
  <1> DEFINE state == IF session.state = "Copy_Both_Active" /\ session.recvOpen
                      THEN session.state ELSE "Copy_Completion_Active"
  <1>1. /\ session \in Sessions /\ raised' \in Outcomes /\ CanSendCopy
        /\ session' = [session EXCEPT !.sendOpen = FALSE, !.state = state]
    BY DEF EndCopyData, Becomes, SessionInv, TypeOK, Outcomes
  <1>2. state \in CopyStates /\ state \in States
    BY DEF States, CopyStates, CopyStreams
  <1> HIDE DEF state
  <1>3. session' \in Sessions
    BY <1>1, <1>2 DEF Sessions
  <1>4. /\ session'.state = state /\ ~session'.sendOpen
        /\ session'.recvOpen = session.recvOpen
        /\ session'.origin = session.origin
        /\ session'.copySync = session.copySync
        /\ session'.pending = session.pending
        /\ session'.pipelined = session.pipelined
        /\ session'.batchOpen = session.batchOpen
        /\ session'.bound = session.bound
        /\ session'.suspended = session.suspended
    BY <1>1 DEF Sessions
  <1>5. session.origin \in {"Simple_Copy", "Extended_Copy"}
    BY <1>1 DEF CanSendCopy, SessionInv, CopyFlagsAgree, CopyStreams,
                Sessions, Origins
  <1>6. CopyFlagsAgree'
    BY <1>1, <1>4, <1>5
       DEF CopyFlagsAgree, CanSendCopy, SessionInv, CopyStreams, BothClosed,
           state
  <1>7. ~session'.pipelined /\ CopySyncIsPending'
    BY <1>4, <1>5 DEF SessionInv, PipelineExcludesCopy, CopySyncIsPending
  <1>8. session'.origin = "Simple_Copy" => Alone'
    BY <1>4 DEF SessionInv, OriginFits, Alone
  <1> QED
    BY <1>1, <1>2, <1>3, <1>4, <1>5, <1>6, <1>7, <1>8, InsideCopy

LEMMA TerminateStep ==
  ASSUME SessionInv, session' = ClosedSession, raised' \in Outcomes
  PROVE  SessionInv'
  <1>1. ReadyIsClean'
    BY ClosedSessionIs DEF ReadyIsClean
  <1> QED
    BY <1>1, ClosedSessionIs, OutsideCopy

LEMMA PipelineModeStep ==
  ASSUME SessionInv, EnterPipelineMode \/ ExitPipelineMode
  PROVE  SessionInv'
  <1>1. PICK on \in BOOLEAN : session' = [session EXCEPT !.pipelined = on]
    BY DEF EnterPipelineMode, ExitPipelineMode, Becomes
  <1>2. session \in Sessions /\ session.state = "Ready" /\ raised' \in Outcomes
    BY DEF EnterPipelineMode, ExitPipelineMode, Becomes, SessionInv, TypeOK,
           Outcomes
  <1>3. /\ session' \in Sessions
        /\ session'.state = "Ready" /\ session'.origin = session.origin
        /\ session'.copySync = session.copySync
        /\ session'.bidir = session.bidir
        /\ session'.sendOpen = session.sendOpen
        /\ session'.recvOpen = session.recvOpen
        /\ session'.pending = session.pending
        /\ session'.batchOpen = session.batchOpen
        /\ session'.bound = session.bound
        /\ session'.suspended = session.suspended
        /\ session'.desc = session.desc
    BY <1>1, <1>2 DEF Sessions
  <1>4. NoCopy(session') /\ ReadyIsClean'
    BY <1>2, <1>3 DEF NoCopy, ReadyIsClean, SessionInv, OriginFits, BothClosed
  <1> QED
    BY <1>2, <1>3, <1>4, OutsideCopy

-----------------------------------------------------------------------------
(* The receive operations preserve the invariant *)

\* In a query cycle: what arrives touches the description and portal state.
LEMMA OrderingStep ==
  ASSUME SessionInv, session' \in Sessions, raised' \in Outcomes,
         session.state \in {"Extended_Query_Active", "Awaiting_Ready"},
         session'.state = session.state,
         session'.pipelined = session.pipelined,
         session'.pending = session.pending,
         session'.origin = session.origin,
         session'.sendOpen = session.sendOpen,
         session'.recvOpen = session.recvOpen,
         session'.bidir = session.bidir,
         session'.copySync = session.copySync
  PROVE  SessionInv'
  <1>1. TypeOK' /\ ReadyIsClean'
    BY DEF TypeOK, ReadyIsClean
  <1>2. CopyFlagsAgree'
    BY DEF SessionInv, CopyFlagsAgree, CopyStreams
  <1>3. PipelineExcludesCopy' /\ CopySyncIsPending'
    BY DEF SessionInv, PipelineExcludesCopy, CopySyncIsPending
  <1>4. session'.origin # "Simple_Copy"
    BY DEF SessionInv, OriginFits, CopyStates, CopyStreams
  <1>5. OriginFits'
    BY <1>4 DEF SessionInv, OriginFits, CopyStates, CopyStreams, BothClosed
  <1> QED
    BY <1>1, <1>2, <1>3, <1>5 DEF SessionInv

LEMMA DescribedIs ==
  ASSUME session \in Sessions, NEW shape \in Descriptions
  PROVE  LET t == Described(shape) IN
         /\ t \in Sessions
         /\ t.desc = shape
         /\ t.state = session.state /\ t.pipelined = session.pipelined
         /\ t.pending = session.pending /\ t.batchOpen = session.batchOpen
         /\ t.bound = session.bound /\ t.suspended = session.suspended
         /\ t.origin = session.origin /\ t.sendOpen = session.sendOpen
         /\ t.recvOpen = session.recvOpen /\ t.bidir = session.bidir
         /\ t.copySync = session.copySync
  BY DEF Described, Sessions

LEMMA UndescribedIs ==
  /\ NoDescription \in Descriptions
  /\ Undescribed = Described(NoDescription)
  BY DEF Undescribed, Descriptions

\* The response that opens a COPY of a simple query.
LEMMA EnterSimpleCopyStep ==
  ASSUME session \in Sessions, Alone, raised' \in Outcomes,
         NEW kind \in CopyResponses, NEW sync \in BOOLEAN, ~sync,
         session' = EnterCopy(session, kind, "Simple_Copy", sync)
  PROVE  SessionInv'
  <1>1. "Simple_Copy" \in Origins
    BY DEF Origins
  <1>2. /\ session' \in Sessions /\ SameBatch(session, session')
        /\ session'.origin = "Simple_Copy" /\ ~session'.copySync
        /\ session'.sendOpen = (kind \in WritableCopy)
        /\ session'.recvOpen = (kind # "CopyInResponse")
        /\ session'.pending = session.pending
        /\ kind = "CopyInResponse" => session'.state = "Copy_In_Active"
        /\ kind = "CopyOutResponse" => session'.state = "Copy_Out_Active"
        /\ kind = "CopyBothResponse" => session'.state = "Copy_Both_Active"
    BY <1>1, EnterCopyIs
  <1>3. Alone'
    BY <1>2 DEF Alone, SameBatch
  <1>4. CopyFlagsAgree' /\ CopySyncIsPending'
    BY <1>2 DEF CopyFlagsAgree, CopyResponses, WritableCopy,
                CopySyncIsPending, CopyStreams
  <1>5. session'.state \in CopyStates /\ ~session'.pipelined
    BY <1>2, <1>3 DEF CopyResponses, CopyStates, CopyStreams, Alone
  <1> QED
    BY <1>2, <1>3, <1>4, <1>5, InsideCopy

LEMMA ReceiveQueryEventStep ==
  ASSUME SessionInv, NEW kind \in BackendKinds,
         NEW shape, HasShape(kind) => shape \in Columns,
         ReceiveQueryEvent(kind, shape)
  PROVE  SessionInv'
  <1>1. /\ session \in Sessions /\ session.state = "Simple_Query_Active"
        /\ raised' \in Outcomes
    BY DEF ReceiveQueryEvent, Becomes, Raises, SessionInv, TypeOK, Outcomes
  <1>2. Alone /\ session.origin = "No_Copy" /\ NoCopy(session)
    BY <1>1 DEF SessionInv, OriginFits, NoCopy, BothClosed, CopyStates,
                CopyStreams, Sessions, Origins
  <1>3. ASSUME NEW d \in Descriptions, session' = Described(d)
        PROVE  SessionInv'
    <2>1. NoCopy(session') /\ Alone' /\ ReadyIsClean'
      BY <1>1, <1>2, <1>3, DescribedIs DEF NoCopy, Alone, ReadyIsClean
    <2> QED
      BY <1>1, <1>2, <1>3, <2>1, DescribedIs, OutsideCopy DEF Alone
  <1>4. ASSUME session' = [Undescribed EXCEPT !.state = "Ready"]
        PROVE  SessionInv'
    <2> DEFINE s == Undescribed
    <2>1. /\ s \in Sessions /\ s.desc = NoDescription
          /\ s.pending = session.pending /\ s.batchOpen = session.batchOpen
          /\ s.bound = session.bound /\ s.suspended = session.suspended
          /\ s.origin = session.origin /\ s.sendOpen = session.sendOpen
          /\ s.recvOpen = session.recvOpen /\ s.bidir = session.bidir
          /\ s.copySync = session.copySync
      BY <1>1, DescribedIs, UndescribedIs
    <2>2. session' = [s EXCEPT !.state = "Ready"]
      BY <1>4
    <2> HIDE DEF s
    <2>3. /\ session' \in Sessions /\ session'.state = "Ready"
          /\ NoCopy(session')
      BY <2>1, <2>2, <1>2 DEF Sessions, States, NoCopy
    <2>4. ReadyIsClean'
      BY <2>1, <2>2, <1>2 DEF Sessions, ReadyIsClean, Alone
    <2> QED
      BY <1>1, <2>3, <2>4, OutsideCopy
  <1>5. ASSUME kind \in CopyResponses, NEW sync \in BOOLEAN, ~sync,
               session' = EnterCopy(session, kind, "Simple_Copy", sync)
        PROVE  SessionInv'
    BY <1>1, <1>2, <1>5, EnterSimpleCopyStep
  <1>6. \/ session' = session
        \/ \E d \in Descriptions : session' = Described(d)
        \/ session' = [Undescribed EXCEPT !.state = "Ready"]
        \/ /\ kind \in CopyResponses
           /\ \E sync \in BOOLEAN :
                ~sync /\ session' = EnterCopy(session, kind, "Simple_Copy", sync)
    BY UndescribedIs DEF ReceiveQueryEvent, Becomes, Raises, Descriptions, HasShape
  <1> QED
    BY <1>1, <1>3, <1>4, <1>5, <1>6, SameSession

\* The response that opens a COPY behind an extended command.
LEMMA EnterExtendedCopyStep ==
  ASSUME SessionInv, NEW kind \in CopyResponses, NEW sync \in BOOLEAN,
         sync => session.pending > 0, ~session.pipelined,
         session' = EnterCopy(session, kind, "Extended_Copy", sync),
         raised' \in Outcomes
  PROVE  SessionInv'
  <1>1. session \in Sessions /\ "Extended_Copy" \in Origins
    BY DEF SessionInv, TypeOK, Origins
  <1>2. /\ session' \in Sessions /\ SameBatch(session, session')
        /\ session'.origin = "Extended_Copy"
        /\ session'.copySync = (sync /\ ~(kind \in WritableCopy))
        /\ session'.sendOpen = (kind \in WritableCopy)
        /\ session'.recvOpen = (kind # "CopyInResponse")
        /\ ~(kind \in WritableCopy) => session'.pending = session.pending
        /\ kind = "CopyInResponse" => session'.state = "Copy_In_Active"
        /\ kind = "CopyOutResponse" => session'.state = "Copy_Out_Active"
        /\ kind = "CopyBothResponse" => session'.state = "Copy_Both_Active"
    BY <1>1, EnterCopyIs
  <1>3. CopyFlagsAgree' /\ CopySyncIsPending'
    BY <1>2 DEF CopyFlagsAgree, CopySyncIsPending, CopyResponses,
                WritableCopy, CopyStreams
  <1>4. session'.state \in CopyStates /\ ~session'.pipelined
    BY <1>2 DEF CopyResponses, CopyStates, CopyStreams, SameBatch
  <1> QED
    BY <1>2, <1>3, <1>4, InsideCopy

\* A ReadyForQuery; s is the session, or the session with its batch closed.
LEMMA CompleteSynchronizationStep ==
  ASSUME SessionInv, NEW s \in Sessions, raised' \in Outcomes,
         session' = CompleteSynchronization(s),
         s.pipelined = session.pipelined, s.state = session.state,
         session.pipelined => session.state # "Closed",
         s.batchOpen => session.state \in {"Extended_Query_Active",
                                           "Awaiting_Ready"}
  PROVE  SessionInv'
  <1>1. /\ session' \in Sessions /\ NoCopy(session')
        /\ session'.desc = NoDescription
        /\ session'.batchOpen
             => session'.state \in {"Extended_Query_Active", "Awaiting_Ready"}
        /\ ~session'.batchOpen =>
             /\ ~session'.bound /\ ~session'.suspended
             /\ session'.state = IF session'.pending > 0
                                 THEN "Awaiting_Ready" ELSE "Ready"
    BY CompleteSynchronizationIs
  <1>2. ReadyIsClean'
    BY <1>1 DEF ReadyIsClean, NoCopy, Sessions
  <1> QED
    BY <1>1, <1>2, OutsideCopy

LEMMA ReceiveExtendedEventStep ==
  ASSUME SessionInv, NEW kind \in BackendKinds,
         NEW shape, HasShape(kind) => shape \in Columns,
         ReceiveExtendedEvent(kind, shape)
  PROVE  SessionInv'
  <1> DEFINE sync == session.pending > 0
  <1>1. /\ session \in Sessions
        /\ session.state \in {"Extended_Query_Active", "Awaiting_Ready"}
        /\ raised' \in Outcomes
    BY DEF ReceiveExtendedEvent, Becomes, Raises, SessionInv, TypeOK, Outcomes
  <1>2. sync \in BOOLEAN /\ NoDescription \in Descriptions
    BY DEF Descriptions
  <1>3. ASSUME NEW d \in Descriptions, session' = Described(d)
        PROVE  SessionInv'
    BY <1>1, <1>3, DescribedIs, OrderingStep
  <1>4. ASSUME NEW s \in {session, Undescribed}, NEW b \in BOOLEAN,
               session' = [s EXCEPT !.suspended = b]
        PROVE  SessionInv'
    <2>1. /\ s \in Sessions
          /\ s.state = session.state /\ s.pipelined = session.pipelined
          /\ s.pending = session.pending
          /\ s.origin = session.origin /\ s.sendOpen = session.sendOpen
          /\ s.recvOpen = session.recvOpen /\ s.bidir = session.bidir
          /\ s.copySync = session.copySync
      BY <1>1, DescribedIs, UndescribedIs
    <2>2. /\ session' \in Sessions
          /\ session'.state = s.state /\ session'.pipelined = s.pipelined
          /\ session'.pending = s.pending
          /\ session'.origin = s.origin /\ session'.sendOpen = s.sendOpen
          /\ session'.recvOpen = s.recvOpen /\ session'.bidir = s.bidir
          /\ session'.copySync = s.copySync
      BY <1>4, <2>1 DEF Sessions
    <2> QED
      BY <1>1, <2>1, <2>2, OrderingStep
  <1>5. ASSUME ~sync,
               session' = [Undescribed EXCEPT !.state = "Recovery_Required",
                                              !.bound = FALSE,
                                              !.suspended = FALSE]
        PROVE  SessionInv'
    <2> DEFINE s == Undescribed
    <2>1. NoCopy(session)
      BY <1>1, <1>5
         DEF NoCopy, SessionInv, OriginFits, CopySyncIsPending, BothClosed,
             CopyStates, CopyStreams, Sessions, Origins
    <2>2. s \in Sessions /\ NoCopy(s)
      BY <1>1, <2>1, DescribedIs, UndescribedIs DEF NoCopy
    <2>3. session' = [s EXCEPT !.state = "Recovery_Required",
                               !.bound = FALSE, !.suspended = FALSE]
      BY <1>5
    <2> HIDE DEF s
    <2>4. /\ session' \in Sessions /\ NoCopy(session')
          /\ session'.state = "Recovery_Required"
      BY <2>2, <2>3 DEF Sessions, States, NoCopy
    <2>5. ReadyIsClean'
      BY <2>4 DEF ReadyIsClean
    <2> QED
      BY <1>1, <2>4, <2>5, OutsideCopy
  <1>6. CASE session' = CompleteSynchronization(session)
    BY <1>1, <1>6, CompleteSynchronizationStep
  <1>7. CASE session' = ClosedSession
    BY <1>1, <1>7, TerminateStep
  <1>8. CASE /\ kind \in CopyResponses /\ ~session.pipelined
             /\ session' = EnterCopy(session, kind, "Extended_Copy", sync)
    BY <1>1, <1>2, <1>8, EnterExtendedCopyStep
  <1> DEFINE Outcome ==
        \/ session' = session
        \/ \E d \in Descriptions : session' = Described(d)
        \/ \E s \in {session, Undescribed}, b \in BOOLEAN :
             session' = [s EXCEPT !.suspended = b]
        \/ /\ ~sync
           /\ session' = [Undescribed EXCEPT !.state = "Recovery_Required",
                                             !.bound = FALSE,
                                             !.suspended = FALSE]
        \/ session' = CompleteSynchronization(session)
        \/ session' = ClosedSession
        \/ /\ kind \in CopyResponses /\ ~session.pipelined
           /\ session' = EnterCopy(session, kind, "Extended_Copy", sync)
  <1>9. Outcome
    <2>1. HasShape(kind) => shape \in Descriptions
      BY DEF Descriptions
    <2>2. CASE kind \in {"CommandComplete", "EmptyQuery"}
      <3>1. session' = [Undescribed EXCEPT !.suspended = @ /\ sync]
        BY <2>2 DEF ReceiveExtendedEvent, Becomes, CopyResponses, Silent
      <3>2. (Undescribed.suspended /\ sync) \in BOOLEAN
        OBVIOUS
      <3> QED
        BY <3>1, <3>2
    <2>3. CASE kind = "PortalSuspended"
      <3>1. session' = [session EXCEPT !.suspended = @ \/ ~sync]
        BY <2>3 DEF ReceiveExtendedEvent, Becomes, CopyResponses, Silent
      <3>2. (session.suspended \/ ~sync) \in BOOLEAN
        OBVIOUS
      <3> QED
        BY <3>1, <3>2
    <2>4. CASE kind \notin {"CommandComplete", "EmptyQuery", "PortalSuspended"}
      BY <2>1, <2>4, <1>2, UndescribedIs
         DEF ReceiveExtendedEvent, Becomes, Raises, HasShape
    <2> QED
      BY <2>2, <2>3, <2>4
  <1> QED
    BY <1>1, <1>3, <1>4, <1>5, <1>6, <1>7, <1>8, <1>9, SameSession

\* COPY is over and no Sync of its own is waited for.
LEMMA ResetCopyStep ==
  ASSUME NEW s \in Sessions, raised' \in Outcomes, session' = ResetCopy(s),
         s.state \in {"Simple_Query_Active", "Extended_Query_Active",
                      "Recovery_Required"},
         ~s.pipelined,
         s.state = "Simple_Query_Active" =>
           /\ s.pending = 0 /\ ~s.batchOpen /\ ~s.bound /\ ~s.suspended
  PROVE  SessionInv'
  <1>1. /\ session' \in Sessions /\ NoCopy(session')
        /\ session'.state = s.state /\ session'.pending = s.pending
        /\ SameBatch(s, session')
    BY ResetCopyIs
  <1>2. ReadyIsClean'
    BY <1>1 DEF ReadyIsClean
  <1>3. ~session'.pipelined /\ (session'.state = "Simple_Query_Active" => Alone')
    BY <1>1 DEF Alone, NoCopy, SameBatch
  <1> QED
    BY <1>1, <1>2, <1>3, OutsideCopy

\* A stream closes, or COPY waits for its Sync; the flags only go down.
LEMMA CopyGoesOn ==
  ASSUME SessionInv, session.origin \in {"Simple_Copy", "Extended_Copy"},
         raised' \in Outcomes, NEW sendOpen \in BOOLEAN,
         NEW recvOpen \in BOOLEAN, NEW state \in States,
         session' = [session EXCEPT !.sendOpen = sendOpen,
                                    !.recvOpen = recvOpen, !.state = state],
         \/ state = "Copy_Completion_Active" /\ ~sendOpen /\ ~recvOpen
         \/ state = "Copy_In_Active" /\ sendOpen /\ ~recvOpen
         \/ state = "Copy_Both_Active" /\ (sendOpen \/ recvOpen)
         \/ state = "Awaiting_Ready" /\ ~sendOpen /\ session.copySync
  PROVE  SessionInv'
  <1>1. session \in Sessions
    BY DEF SessionInv, TypeOK
  <1>2. session' \in Sessions
    BY <1>1 DEF Sessions
  <1>3. /\ session'.state = state /\ session'.origin = session.origin
        /\ session'.sendOpen = sendOpen /\ session'.recvOpen = recvOpen
        /\ session'.copySync = session.copySync
        /\ session'.pending = session.pending
        /\ session'.pipelined = session.pipelined
        /\ session'.batchOpen = session.batchOpen
        /\ session'.bound = session.bound
        /\ session'.suspended = session.suspended
    BY <1>1 DEF Sessions
  <1>4. CopyFlagsAgree'
    BY <1>3 DEF CopyFlagsAgree, CopyStreams, BothClosed
  <1>5. CopySyncIsPending' /\ ~session'.pipelined
    BY <1>3 DEF SessionInv, CopySyncIsPending, PipelineExcludesCopy
  <1>6. session'.origin = "Simple_Copy" => Alone'
    BY <1>3 DEF SessionInv, OriginFits, Alone
  <1>7. \/ session'.state \in CopyStates
        \/ session'.state = "Awaiting_Ready" /\ session'.copySync
    BY <1>3 DEF CopyStates, CopyStreams
  <1> QED
    BY <1>2, <1>3, <1>4, <1>5, <1>6, <1>7, InsideCopy

LEMMA ReceiveCopyEventStep ==
  ASSUME SessionInv, NEW kind \in BackendKinds,
         NEW shape, HasShape(kind) => shape \in Columns,
         ReceiveCopyEvent(kind, shape)
  PROVE  SessionInv'
  <1>1. /\ session \in Sessions /\ raised' \in Outcomes
        /\ session.origin \in {"Simple_Copy", "Extended_Copy"}
        /\ ~session.pipelined
    BY DEF ReceiveCopyEvent, Becomes, Raises, SessionInv, TypeOK, Outcomes,
           Sessions, Origins, PipelineExcludesCopy
  <1>2. session.origin = "Simple_Copy" => Alone
    BY DEF SessionInv, OriginFits
  <1>3. CASE session' = session
    BY <1>1, <1>3, SameSession
  <1>4. CASE kind = "CopyDone" /\ session.recvOpen /\ session' = AfterCopyDone
    <2>1. CASE session.sendOpen
      <3>1. session.state = "Copy_Both_Active"
        BY <1>4, <2>1 DEF SessionInv, CopyFlagsAgree
      <3>2. session' = [session EXCEPT !.sendOpen = TRUE, !.recvOpen = FALSE,
                                       !.state = "Copy_Both_Active"]
        BY <1>1, <1>4, <2>1, <3>1 DEF AfterCopyDone, Sessions
      <3> QED
        BY <1>1, <3>2, CopyGoesOn DEF States
    <2>2. CASE ~session.sendOpen
      <3>1. session' = [session EXCEPT !.sendOpen = FALSE, !.recvOpen = FALSE,
                                       !.state = "Copy_Completion_Active"]
        BY <1>1, <1>4, <2>2 DEF AfterCopyDone, Sessions
      <3> QED
        BY <1>1, <3>1, CopyGoesOn DEF States
    <2> QED
      BY <2>1, <2>2
  <1>5. CASE kind = "CommandComplete" /\ BothClosed
               /\ session' = AfterCopy("Extended_Query_Active")
    <2>1. CASE session.origin = "Simple_Copy"
      <3> DEFINE s == [session EXCEPT !.state = "Simple_Query_Active"]
      <3>1. session' = ResetCopy(s)
        BY <1>5, <2>1 DEF AfterCopy
      <3>2. /\ s \in Sessions /\ s.state = "Simple_Query_Active"
            /\ s.pending = session.pending /\ s.batchOpen = session.batchOpen
            /\ s.bound = session.bound /\ s.suspended = session.suspended
            /\ s.pipelined = session.pipelined
        BY <1>1 DEF Sessions, States
      <3> HIDE DEF s
      <3> QED
        BY <1>1, <1>2, <2>1, <3>1, <3>2, ResetCopyStep DEF Alone
    <2>2. CASE session.origin # "Simple_Copy" /\ session.copySync
      <3>1. session' = [session EXCEPT !.sendOpen = FALSE, !.recvOpen = FALSE,
                                       !.state = "Awaiting_Ready"]
        BY <1>1, <1>5, <2>2 DEF AfterCopy, BothClosed, Sessions
      <3> QED
        BY <1>1, <2>2, <3>1, CopyGoesOn DEF States
    <2>3. CASE session.origin # "Simple_Copy" /\ ~session.copySync
      <3> DEFINE s == [session EXCEPT !.state = "Extended_Query_Active"]
      <3>1. session' = ResetCopy(s)
        BY <1>5, <2>3 DEF AfterCopy
      <3>2. /\ s \in Sessions /\ s.state = "Extended_Query_Active"
            /\ s.pipelined = session.pipelined
        BY <1>1 DEF Sessions, States
      <3> HIDE DEF s
      <3> QED
        BY <1>1, <3>1, <3>2, ResetCopyStep
    <2> QED
      BY <2>1, <2>2, <2>3
  <1>6. CASE kind = "Error"
    <2> DEFINE closed == [session EXCEPT !.sendOpen = FALSE, !.recvOpen = FALSE]
    <2>1. CASE session.origin = "Simple_Copy"
      <3>1. session' = [closed EXCEPT !.state = "Copy_Completion_Active"]
        BY <1>6, <2>1 DEF ReceiveCopyEvent, Becomes, WritableCopy
      <3> QED
        BY <1>1, <3>1, CopyGoesOn DEF States
    <2>2. CASE session.origin # "Simple_Copy" /\ session.copySync
      <3>1. session' = [closed EXCEPT !.state = "Awaiting_Ready"]
        BY <1>6, <2>2 DEF ReceiveCopyEvent, Becomes, WritableCopy
      <3> QED
        BY <1>1, <2>2, <3>1, CopyGoesOn DEF States
    <2>3. CASE session.origin # "Simple_Copy" /\ ~session.copySync
      <3> DEFINE s == [closed EXCEPT !.state = "Recovery_Required"]
      <3>1. session' = ResetCopy(s)
        BY <1>6, <2>3 DEF ReceiveCopyEvent, Becomes, WritableCopy
      <3>2. closed \in Sessions /\ closed.pipelined = session.pipelined
        BY <1>1 DEF Sessions
      <3>3. /\ s \in Sessions /\ s.state = "Recovery_Required"
            /\ s.pipelined = session.pipelined
        <4> HIDE DEF closed
        <4> QED
          BY <3>2 DEF Sessions, States
      <3> HIDE DEF s
      <3> QED
        BY <1>1, <3>1, <3>3, ResetCopyStep
    <2> QED
      BY <2>1, <2>2, <2>3
  <1>7. CASE session' = CompleteSynchronization(
                          [session EXCEPT !.batchOpen = FALSE])
    <2> DEFINE s == [session EXCEPT !.batchOpen = FALSE]
    <2>1. /\ s \in Sessions /\ s.pipelined = session.pipelined
          /\ s.state = session.state /\ ~s.batchOpen
      BY <1>1 DEF Sessions
    <2>2. session' = CompleteSynchronization(s)
      BY <1>7
    <2> HIDE DEF s
    <2> QED
      BY <1>1, <2>1, <2>2, CompleteSynchronizationStep
  <1>8. ASSUME BetweenCopyResults, kind \in CopyResponses,
               NEW sync \in BOOLEAN, ~sync,
               session' = EnterCopy(session, kind, "Simple_Copy", sync)
        PROVE  SessionInv'
    BY <1>1, <1>2, <1>8, EnterSimpleCopyStep DEF BetweenCopyResults
  <1>9. CASE /\ BetweenCopyResults /\ HasShape(kind)
             /\ session' = ResetCopy([session EXCEPT
                             !.state = "Simple_Query_Active", !.desc = shape])
    <2> DEFINE s == [session EXCEPT !.state = "Simple_Query_Active",
                                    !.desc = shape]
    <2>1. /\ s \in Sessions /\ s.state = "Simple_Query_Active"
          /\ s.pending = session.pending /\ s.batchOpen = session.batchOpen
          /\ s.bound = session.bound /\ s.suspended = session.suspended
          /\ s.pipelined = session.pipelined
      BY <1>1, <1>9 DEF Sessions, States, Descriptions
    <2>2. session' = ResetCopy(s)
      BY <1>9
    <2> HIDE DEF s
    <2> QED
      BY <1>1, <1>2, <1>9, <2>1, <2>2, ResetCopyStep
         DEF Alone, BetweenCopyResults
  <1>10. \/ session' = session
         \/ kind = "CopyDone" /\ session.recvOpen /\ session' = AfterCopyDone
         \/ /\ kind = "CommandComplete" /\ BothClosed
            /\ session' = AfterCopy("Extended_Query_Active")
         \/ kind = "Error"
         \/ session' = CompleteSynchronization(
                         [session EXCEPT !.batchOpen = FALSE])
         \/ /\ BetweenCopyResults /\ kind \in CopyResponses
            /\ \E sync \in BOOLEAN : /\ ~sync
                 /\ session' = EnterCopy(session, kind, "Simple_Copy", sync)
         \/ /\ BetweenCopyResults /\ HasShape(kind)
            /\ session' = ResetCopy([session EXCEPT
                             !.state = "Simple_Query_Active", !.desc = shape])
    BY DEF ReceiveCopyEvent, Becomes, Raises, CopyResponses, HasShape
  <1> QED
    BY <1>3, <1>4, <1>5, <1>6, <1>7, <1>8, <1>9, <1>10

-----------------------------------------------------------------------------
(* The theorems *)

LEMMA InitEstablishes == Init => SessionInv
  <1> SUFFICES ASSUME Init PROVE SessionInv
    OBVIOUS
  <1>1. session \in Sessions /\ raised \in Outcomes
    BY DEF Init, StartedSession, Sessions, States, Descriptions, Origins,
           Outcomes
  <1>2. /\ session.state = "Ready" /\ session.origin = "No_Copy"
        /\ session.desc = NoDescription /\ session.pending = 0
        /\ ~session.sendOpen /\ ~session.recvOpen /\ ~session.bidir
        /\ ~session.copySync /\ ~session.pipelined /\ ~session.batchOpen
        /\ ~session.bound /\ ~session.suspended
    BY DEF Init, StartedSession
  <1> QED
    BY <1>1, <1>2
       DEF SessionInv, TypeOK, CopyFlagsAgree, PipelineExcludesCopy,
           ReadyIsClean, CopySyncIsPending, OriginFits, CopyStates,
           CopyStreams, BothClosed

LEMMA NextPreserves == SessionInv /\ [Next]_clientVars => SessionInv'
  <1> SUFFICES ASSUME SessionInv, [Next]_clientVars PROVE SessionInv'
    OBVIOUS
  <1>1. CASE Send
    <2>1. CASE Terminate
      <3>1. session' = ClosedSession /\ raised' \in Outcomes
        BY <2>1 DEF Terminate, Becomes, Outcomes
      <3> QED
        BY <3>1, TerminateStep
    <2> QED
      BY <1>1, <2>1, SendParseStep, BindPortalStep, ExecutePortalStep,
         ResumePortalStep, FlushStep, SynchronizeStep, SendQueryStep,
         SendCopyDataStep, EndCopyDataStep, PipelineModeStep
         DEF Send
  <1>2. ASSUME NEW kind \in BackendKinds,
         NEW shape, HasShape(kind) => shape \in Columns,
               Receive(kind, shape)
        PROVE  SessionInv'
    BY <1>2, ReceiveQueryEventStep, ReceiveExtendedEventStep,
       ReceiveCopyEventStep
       DEF Receive
  <1>3. CASE Finished \/ UNCHANGED clientVars
    BY <1>3, SameSession DEF Finished, clientVars, SessionInv, TypeOK
  <1> QED
    BY <1>1, <1>2, <1>3 DEF Next

(***************************************************************************)
(* Whatever the application calls through the typed interface and whatever *)
(* the peer sends, the five invariants of the session hold together.       *)
(***************************************************************************)
THEOREM SessionInvariant == Spec => []SessionInv
  <1> QED
    BY InitEstablishes, NextPreserves, PTL DEF Spec

\* Every field of Client.Session keeps to its type: Pending_Syncs, a Natural,
\* is never decremented below zero.
THEOREM TypeCorrect == Spec => []TypeOK
  <1>1. SessionInv => TypeOK
    BY DEF SessionInv
  <1> QED
    BY <1>1, SessionInvariant, PTL

\* State and COPY flags agree, for any peer.
THEOREM CopyFlagsCorrect == Spec => []CopyFlagsAgree
  <1>1. SessionInv => CopyFlagsAgree
    BY DEF SessionInv
  <1> QED
    BY <1>1, SessionInvariant, PTL

\* A pipelined session never enters COPY or a simple query, for any peer.
THEOREM PipelineCorrect == Spec => []PipelineExcludesCopy
  <1>1. SessionInv => PipelineExcludesCopy
    BY DEF SessionInv
  <1> QED
    BY <1>1, SessionInvariant, PTL

\* Ready carries nothing over, for any peer.
THEOREM ReadyCorrect == Spec => []ReadyIsClean
  <1>1. SessionInv => ReadyIsClean
    BY DEF SessionInv
  <1> QED
    BY <1>1, SessionInvariant, PTL

\* A COPY that waits for its ReadyForQuery has a Sync to retire, for any peer.
THEOREM CopySyncCorrect == Spec => []CopySyncIsPending
  <1>1. SessionInv => CopySyncIsPending
    BY DEF SessionInv
  <1> QED
    BY <1>1, SessionInvariant, PTL

\* The origin of a COPY says where the session is, for any peer.
THEOREM OriginCorrect == Spec => []OriginFits
  <1>1. SessionInv => OriginFits
    BY DEF SessionInv
  <1> QED
    BY <1>1, SessionInvariant, PTL
=============================================================================
