---------------------------- MODULE ManagedPrimary ----------------------------
(***************************************************************************)
(* The replication sessions of one managed primary                         *)
(* (src/src/flyology-postgres-replication-managed_primary.adb), each run   *)
(* by a worker of the server, over the stores they share.  A session is    *)
(* the local variables of Handle and of the Stream procedures and a        *)
(* program counter; between two store operations, which are atomic, other  *)
(* sessions and the application take their steps.                          *)
(*                                                                         *)
(* Simplifications.  Commands that change nothing (IDENTIFY_SYSTEM, SHOW,  *)
(* TIMELINE_HISTORY), refused options, the encoder and the plugin are left *)
(* out.  Message exchanges with the standby are steps that may fail        *)
(* (BreakOff) for any reason: timeout, disconnect, bad message, CopyFail.  *)
(***************************************************************************)
EXTENDS SlotStore

CONSTANTS
  Sessions,   \* replication sessions
  NoName,     \* START_REPLICATION without a slot
  Chunk,      \* how much WAL one Read returns
  Liberties   \* what the run's surroundings may do: some of AllLiberties

AllLiberties ==
  { "append",           \* the application writes WAL while sessions run
    "create anywhere",  \* CREATE_REPLICATION_SLOT runs beside other commands
    "lie"               \* a standby reports positions it was never sent
  }

ASSUME PrimaryAssumption ==
  /\ NoName \notin Slots \union Sessions
  /\ Chunk \in Nat \ {0}
  /\ Liberties \subseteq AllLiberties

VARIABLE session  \* by session, its program counter and local variables

vars == <<storeVars, session>>

Counters ==
  { "idle",      \* between two commands
    "acquire", "check", "stream", "await", "advance", "complete", "release",
    "create", "drop", "respond",
    "floor",     \* Apply_Retention, about to read the floor
    "retain"     \* Apply_Retention, about to apply it
  }

Failures == {"none", "feedback exceeds streamed WAL", "advancement lost its lease"}

SessionStates ==
  [ pc : Counters,
    name : Slots \union {NoName},  \* Slot_Name
    kind : Kinds,                  \* which Stream procedure runs
    position : LSN,                \* Position
    end : LSN,                     \* End_LSN, of the logical stream its Position
    lease : Leases,                \* Lease, zero when not Has_Lease
    restart : LSN,                 \* Restart_LSN of the acquired State
    confirmed : LSN,               \* Confirmed_LSN of the acquired State
    received : LSN,                \* Received
    flushed : LSN,                 \* Flushed
    feedback : BOOLEAN,            \* Has_Feedback
    done : BOOLEAN,                \* Standby_Done
    wait : BOOLEAN,                \* Replication.Wait (Command)
    floor : LSN,                   \* Floor
    failed : Failures ]            \* the check that ended the last command

IdleSession ==
  [ pc |-> "idle", name |-> NoName, kind |-> "physical", position |-> 0,
    end |-> 0, lease |-> 0, restart |-> 0, confirmed |-> 0, received |-> 0,
    flushed |-> 0, feedback |-> FALSE, done |-> FALSE, wait |-> FALSE,
    floor |-> 0, failed |-> "none" ]

\* The application has stored some physical slots at the start of its WAL.
Init ==
  /\ slots \in [Slots -> {NoSlot, MakeSlot("physical", 1, 0)}]
  /\ nextLease = 1
  /\ first = 1 /\ current = 1
  /\ session = [s \in Sessions |-> IdleSession]

-----------------------------------------------------------------------------
(* Steps of a session *)

At(s, pc) == session[s].pc = pc
Goto(s, pc) == session' = [session EXCEPT ![s].pc = pc]
Ends(s) == session' = [session EXCEPT ![s] = IdleSession]

\* The exception handlers: release what is still leased, then re-raise.
Fails(s, why) ==
  /\ session' = [session EXCEPT ![s] = [IdleSession EXCEPT !.failed = why]]
  /\ IF Owns(session[s].name, session[s].lease)
     THEN Release(session[s].name) ELSE UNCHANGED slots
  /\ UNCHANGED <<nextLease, first, current>>

\* The bound on leases; each session about to acquire needs one.
LeasesLeft ==
  nextLease + Cardinality({ t \in Sessions : At(t, "acquire") }) < MaxLease

\* Stream_Physical reads End_LSN before anything else.
StartPhysical(s) ==
  /\ At(s, "idle") /\ LeasesLeft
  /\ \E name \in Slots \union {NoName}, position \in 1..MaxLSN :
       session' = [session EXCEPT ![s] =
         [IdleSession EXCEPT
            !.pc = IF name = NoName THEN "check" ELSE "acquire",
            !.name = name, !.position = position, !.end = current]]
  /\ UNCHANGED storeVars

\* The start of a logical stream is not checked against the WAL.
StartLogical(s) ==
  /\ At(s, "idle") /\ LeasesLeft
  /\ \E name \in Slots, position \in 0..MaxLSN :
       session' = [session EXCEPT ![s] =
         [IdleSession EXCEPT !.pc = "acquire", !.kind = "logical",
                             !.name = name, !.position = position]]
  /\ UNCHANGED storeVars

AcquireSlot(s) ==
  LET name == session[s].name IN
  /\ At(s, "acquire")
  /\ IF CanAcquire(name, session[s].kind)
     THEN /\ Acquire(name)
          /\ session' = [session EXCEPT ![s] =
               [@ EXCEPT
                  !.pc = IF session[s].kind = "physical"
                         THEN "check" ELSE "stream",
                  !.lease = nextLease,
                  !.restart = slots[name].restart,
                  !.confirmed = slots[name].confirmed,
                  !.position = IF /\ session[s].kind = "logical"
                                  /\ session[s].position < slots[name].confirmed
                               THEN slots[name].confirmed
                               ELSE session[s].position]]
          /\ UNCHANGED <<first, current>>
     ELSE Ends(s) /\ UNCHANGED storeVars

CheckPosition(s) ==
  /\ At(s, "check")
  /\ IF first <= session[s].position /\ session[s].position <= session[s].end
     THEN Goto(s, "stream") /\ UNCHANGED storeVars
     ELSE Fails(s, "none")

\* Read returns what there is, up to the chunk; trimmed WAL is a Store_Error.
SendWAL(s) ==
  /\ At(s, "stream") /\ session[s].kind = "physical"
  /\ session[s].position < session[s].end
  /\ IF session[s].position < first
     THEN Fails(s, "none")
     ELSE /\ session' = [session EXCEPT ![s].position =
               IF @ + Chunk <= current THEN @ + Chunk ELSE current]
          /\ UNCHANGED storeVars

\* The application's logical source has another change.
SendChange(s) ==
  /\ At(s, "stream") /\ session[s].kind = "logical"
  /\ \E end \in (session[s].position + 1)..current :
       session' = [session EXCEPT ![s].position = end]
  /\ UNCHANGED storeVars

\* All of the range is sent, or the logical source has no more; the keepalive
\* asks for feedback.
SendKeepalive(s) ==
  /\ At(s, "stream")
  /\ session[s].kind = "physical" => session[s].position >= session[s].end
  /\ session' = [session EXCEPT ![s] =
       [@ EXCEPT !.pc = "await",
                 !.end = IF session[s].kind = "logical"
                         THEN session[s].position ELSE session[s].end]]
  /\ UNCHANGED storeVars

\* Await_Feedback: any report is remembered, one that reaches the minimum ends it.
StandbyStatus(s) ==
  /\ At(s, "await")
  /\ \E received, flushed \in 0..MaxLSN :
       /\ "lie" \notin Liberties
            => received <= session[s].position /\ flushed <= received
       /\ session' = [session EXCEPT ![s] =
            [@ EXCEPT !.received = received, !.flushed = flushed,
                      !.feedback = TRUE,
                      !.pc = IF flushed >= session[s].end
                             THEN "advance" ELSE "await"]]
  /\ UNCHANGED storeVars

StandbyDone(s) ==
  /\ At(s, "await")
  /\ session' = [session EXCEPT ![s] =
       [@ EXCEPT !.done = TRUE, !.pc = "advance"]]
  /\ UNCHANGED storeVars

\* FAULTY: only the order of the two positions is checked.
ReportableOrder(s) == session[s].flushed <= session[s].received

Reportable(s) ==
  session[s].received <= session[s].end
    /\ session[s].flushed <= session[s].received

\* After an early CopyDone stale feedback is ignored rather than refused.
MustAdvance(s) ==
  /\ session[s].name # NoName
  /\ session[s].feedback
  /\ session[s].done =>
       /\ session[s].flushed >= session[s].restart
       /\ session[s].kind = "logical"
            => session[s].flushed >= session[s].confirmed

Confirmed(s) == IF session[s].kind = "logical" THEN session[s].flushed ELSE 0

AdvanceSlot(s) ==
  LET name == session[s].name IN
  /\ At(s, "advance")
  /\ IF ~Reportable(s)
     THEN Fails(s, "feedback exceeds streamed WAL")
     ELSE IF ~MustAdvance(s)
     THEN Goto(s, "complete") /\ UNCHANGED storeVars
     ELSE IF CanAdvance(name, session[s].lease, session[s].flushed, Confirmed(s))
     THEN /\ Advance(name, session[s].flushed, Confirmed(s))
          /\ Goto(s, "complete")
          /\ UNCHANGED <<nextLease, first, current>>
     ELSE Fails(s, "advancement lost its lease")

\* Complete_Copy, the last exchange: what Await_Feedback returned is not read again.
CompleteCopy(s) ==
  /\ At(s, "complete")
  /\ session' = [session EXCEPT ![s] =
       [IdleSession EXCEPT
          !.pc = IF session[s].name = NoName THEN "floor" ELSE "release",
          !.name = session[s].name, !.kind = session[s].kind,
          !.lease = session[s].lease]]
  /\ UNCHANGED storeVars

\* Only Stream_Logical clears Has_Lease afterwards.
ReleaseSlot(s) ==
  /\ At(s, "release")
  /\ IF Owns(session[s].name, session[s].lease)
     THEN /\ Release(session[s].name)
          /\ session' = [session EXCEPT ![s] =
               [@ EXCEPT !.pc = "floor",
                         !.lease = IF session[s].kind = "logical"
                                   THEN 0 ELSE session[s].lease]]
          /\ UNCHANGED <<nextLease, first, current>>
     ELSE Fails(s, "none")

\* CREATE_REPLICATION_SLOT reads the position first and stores the slot later.
StartCreate(s) ==
  /\ At(s, "idle")
  /\ "create anywhere" \in Liberties \/ \A t \in Sessions : At(t, "idle")
  /\ \E name \in Slots :
       session' = [session EXCEPT ![s] =
         [IdleSession EXCEPT !.pc = "create", !.kind = "logical",
                             !.name = name, !.position = current]]
  /\ UNCHANGED storeVars

CreateSlot(s) ==
  LET name == session[s].name
      position == session[s].position
  IN
  /\ At(s, "create")
  /\ IF ~Stored(name) /\ Room
     THEN /\ Create(name, MakeSlot("logical", position, position))
          /\ Goto(s, "respond")
          /\ UNCHANGED <<nextLease, first, current>>
     ELSE Ends(s) /\ UNCHANGED storeVars

StartDrop(s) ==
  /\ At(s, "idle")
  /\ \E name \in Slots, wait \in BOOLEAN :
       session' = [session EXCEPT ![s] =
         [IdleSession EXCEPT !.pc = "drop", !.name = name, !.wait = wait]]
  /\ UNCHANGED storeVars

\* DROP_REPLICATION_SLOT, with WAIT polling up to its deadline.
DropSlot(s) ==
  /\ At(s, "drop")
  /\ IF CanDrop(session[s].name)
     THEN /\ Drop(session[s].name)
          /\ Goto(s, "respond")
          /\ UNCHANGED <<nextLease, first, current>>
     ELSE /\ ~session[s].wait
          /\ Ends(s) /\ UNCHANGED storeVars

\* FAULTY: the poll has no deadline.
DropWaits(s) == FALSE /\ UNCHANGED vars

DropTimesOut(s) ==
  /\ At(s, "drop") /\ session[s].wait /\ ~CanDrop(session[s].name)
  /\ Ends(s) /\ UNCHANGED storeVars

Respond(s) == At(s, "respond") /\ Goto(s, "floor") /\ UNCHANGED storeVars

\* Apply_Retention, in two steps: the slots and the WAL are two stores.
ReadFloor(s) ==
  /\ At(s, "floor")
  /\ IF OldestRestart > first
     THEN session' = [session EXCEPT ![s] =
            [@ EXCEPT !.floor = OldestRestart, !.pc = "retain"]]
     ELSE Ends(s)
  /\ UNCHANGED storeVars

Retain(s) ==
  /\ At(s, "retain")
  /\ IF session[s].floor <= current
     THEN /\ RetainFrom(session[s].floor)
          /\ Ends(s)
          /\ UNCHANGED <<slots, nextLease, current>>
     ELSE Fails(s, "none")

\* An exchange with the standby fails.
BreakOff(s) ==
  /\ session[s].pc \in {"check", "stream", "await", "complete", "respond"}
  /\ Fails(s, "none")

Step(s) ==
  \/ AcquireSlot(s) \/ CheckPosition(s) \/ SendWAL(s)
  \/ SendKeepalive(s) \/ StandbyStatus(s) \/ StandbyDone(s)
  \/ AdvanceSlot(s) \/ CompleteCopy(s) \/ ReleaseSlot(s)
  \/ CreateSlot(s) \/ DropSlot(s) \/ DropTimesOut(s) \/ Respond(s)
  \/ ReadFloor(s) \/ Retain(s) \/ BreakOff(s) \/ SendChange(s)

Start(s) ==
  /\ "create anywhere" \in Liberties \/ \A t \in Sessions : ~At(t, "create")
  /\ StartPhysical(s) \/ StartLogical(s) \/ StartCreate(s) \/ StartDrop(s)

\* The application invalidates a slot, or writes WAL.
InvalidateSlot(name) ==
  /\ Invalidate(name)
  /\ UNCHANGED <<nextLease, first, current, session>>

Append ==
  /\ "append" \in Liberties \/ \A s \in Sessions : At(s, "idle")
  /\ AppendWAL
  /\ UNCHANGED session

Next ==
  \/ \E s \in Sessions : Start(s) \/ Step(s)
  \/ \E name \in Slots : InvalidateSlot(name)
  \/ Append

Spec == Init /\ [][Next]_vars

-----------------------------------------------------------------------------
(* Properties *)

TypeOK ==
  /\ slots \in [Slots -> SlotStates \union {NoSlot}]
  /\ nextLease \in Nat \ {0} /\ first \in LSN /\ current \in LSN
  /\ session \in [Sessions -> SessionStates]

Leasing == {"check", "stream", "await", "advance", "complete", "release"}

Holds(s, name) ==
  /\ session[s].name = name
  /\ session[s].pc \in Leasing

(***************************************************************************)
(* The lease of a slot is exclusive and is never leaked: an active slot    *)
(* has exactly one session that streams from it, whose lease is the one    *)
(* stored, and a streaming session's slot is stored and active, whatever   *)
(* fails, times out, is dropped or invalidated in between.                 *)
(***************************************************************************)
LeaseIsHeld ==
  \A name \in Slots :
    /\ Stored(name) /\ slots[name].active
         => \E s \in Sessions : Holds(s, name)
    /\ \A s \in Sessions : Holds(s, name) => Owns(name, session[s].lease)
    /\ \A s, t \in Sessions : Holds(s, name) /\ Holds(t, name) => s = t

\* If a step moves a slot that stays stored, it moves it as its holder may.
AdvancesByHolder(name) ==
  Stored(name) /\ slots'[name] # NoSlot
    /\ << slots'[name].restart, slots'[name].confirmed >>
         # << slots[name].restart, slots[name].confirmed >>
  => /\ slots'[name].restart >= slots[name].restart
     /\ slots'[name].confirmed >= slots[name].confirmed
     /\ \E s \in Sessions : /\ Holds(s, name)
                            /\ slots'[name].restart <= session[s].position

(***************************************************************************)
(* A slot never moves back, and only the session that streams from it      *)
(* moves it, to a position it has sent (Advance is fenced by the lease and *)
(* the reported feedback is checked against the end of the stream).        *)
(***************************************************************************)
SlotsAdvance ==
  [][ \A name \in Slots : AdvancesByHolder(name) ]_vars

(***************************************************************************)
(* The primary implements exclusive leases: seen from the slots, sessions  *)
(* take, move, give back and remove them one at a time, although each      *)
(* command is many steps and any of them may fail.                         *)
(***************************************************************************)
Holder(name) ==
  IF \E s \in Sessions : Holds(s, name)
  THEN CHOOSE s \in Sessions : Holds(s, name) ELSE NoName

Exclusive == INSTANCE SlotLeases WITH
  Positions <- 0..MaxLSN, Nobody <- NoName, Absent <- NoSlot,
  holder <- [name \in Slots |-> Holder(name)],
  position <- [name \in Slots |->
                 IF Stored(name) THEN slots[name].restart ELSE NoSlot]

ImplementsLeases == Exclusive!Spec

(***************************************************************************)
(* The oldest WAL position retained for a slot (persistence.ads on         *)
(* Restart_LSN) is retained: Apply_Retention of one session never trims    *)
(* what another session's slot still needs.                                *)
(***************************************************************************)
SlotsAreRetained ==
  \A name \in Retaining : slots[name].restart >= first

(***************************************************************************)
(* Stream_Physical on feedback: what it refuses exceeds the WAL it has     *)
(* streamed; a standby that reports what it was sent is never refused.     *)
(***************************************************************************)
HonestFeedbackAccepted ==
  \A s \in Sessions : session[s].failed # "feedback exceeds streamed WAL"

(***************************************************************************)
(* The workers run: a session outside Await_Feedback goes on, and its      *)
(* exchanges end or time out.  Nothing is assumed of a standby that keeps  *)
(* answering below the minimum, which Await_Feedback has no deadline for.  *)
(***************************************************************************)
Runs(s) == ~At(s, "await") /\ Step(s)

FairSpec == Spec /\ \A s \in Sessions : WF_vars(Runs(s))

(***************************************************************************)
(* A command ends, or waits for its standby in Await_Feedback: no session  *)
(* waits for another for ever, a DROP_REPLICATION_SLOT with WAIT of a slot *)
(* that stays active or does not exist included.                           *)
(***************************************************************************)
CommandsEnd ==
  \A s \in Sessions : ~At(s, "idle") ~> (At(s, "idle") \/ At(s, "await"))
=============================================================================
