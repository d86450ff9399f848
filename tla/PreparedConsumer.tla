--------------------------- MODULE PreparedConsumer ---------------------------
(***************************************************************************)
(* The recovery coordinator for two-phase transactions of one logical slot *)
(* (src/src/flyology-postgres-replication-prepared_consumer.adb) over its  *)
(* durable store, between a source that sends again what is not yet        *)
(* acknowledged and a target that the transactions are applied to.  The    *)
(* process may end between any two of its effects; a replacement starts    *)
(* from the source's acknowledged position and the store.                  *)
(*                                                                         *)
(* Simplifications.  A payload is its transaction, <<gid, xid>>.  A Load   *)
(* and the store operation decided by it are one step: the only consumer   *)
(* of the store ends between them or it does not.  The application is      *)
(* external and does what the package asks: it acknowledges an event once  *)
(* its call has returned, a commit before it takes the next event, and     *)
(* then calls Acknowledge_Commit.                                          *)
(***************************************************************************)
EXTENDS Naturals, Sequences

CONSTANTS
  Gids,           \* identifiers of prepared transactions
  Xids,           \* transaction numbers
  NoTransaction,  \* No_Prepared_Transaction
  MaxStream,      \* bound on the events of the source
  MaxCrashes,     \* bound on the crashes
  Liberties       \* what the source may do: some of AllLiberties

AllLiberties ==
  { "rollback",  \* it rolls prepared transactions back
    "reuse"      \* it prepares a new transaction under an old gid
  }

Stored == [ xid : Xids, phase : {"Prepared", "Target_Applied"} ]

ASSUME ConsumerAssumption ==
  /\ MaxStream \in Nat /\ MaxCrashes \in Nat
  /\ Liberties \subseteq AllLiberties
  /\ NoTransaction \notin Stored

VARIABLES
  stream,     \* the events of the source, a durable sequence
  acked,      \* how many of them it knows to be acknowledged
  store,      \* Prepared_Store: by gid, its transaction number and phase
  target,     \* the transactions applied
  marked,     \* history: those that were marked Target_Applied
  discarded,  \* history: those that were removed by a rollback
  consumer,   \* the process: program counter and local variables
  crashes

sourceVars == <<stream, acked>>
vars == <<sourceVars, store, target, marked, discarded, consumer, crashes>>

Transactions == Gids \X Xids

Events ==
  [ kind : {"prepare", "commit", "rollback"}, gid : Gids, xid : Xids ]

Raised ==
  { "none", "prepared GID is awaiting acknowledgement",
    "commit without prepared state", "rollback without prepared state",
    "rollback of an applied transaction",
    "acknowledgement precedes target application" }

Counters == { "idle", "handle", "mark", "acknowledge", "forget", "failed" }

\* A replacement is sent what follows the acknowledged position.
Restarted(position) ==
  [ pc |-> "idle", received |-> position, raised |-> "none" ]

Init ==
  /\ stream = <<>> /\ acked = 0
  /\ store = [gid \in Gids |-> NoTransaction]
  /\ target = {} /\ marked = {} /\ discarded = {}
  /\ consumer = Restarted(0)
  /\ crashes = 0

-----------------------------------------------------------------------------
(* The source *)

Transaction(event) == <<event.gid, event.xid>>

\* The transactions that have an event of a kind among the first n.
Among(n, kind) ==
  { Transaction(stream[i]) : i \in { j \in 1..n : stream[j].kind = kind } }

EventsOf(kind) == Among(Len(stream), kind)

\* The transactions prepared and not ended by the first n events.
PreparedBy(n) ==
  Among(n, "prepare") \ (Among(n, "commit") \union Among(n, "rollback"))

Emits(kind, transaction) ==
  /\ Len(stream) < MaxStream
  /\ stream' = Append(stream, [ kind |-> kind, gid |-> transaction[1],
                                xid |-> transaction[2] ])
  /\ UNCHANGED <<acked, store, target, marked, discarded, consumer, crashes>>

\* A transaction number is used once, a gid by one transaction at a time.
SourcePrepares ==
  \E t \in Transactions :
    /\ \A used \in EventsOf("prepare") :
         /\ used[2] # t[2]
         /\ used[1] = t[1] => "reuse" \in Liberties
    /\ \A open \in PreparedBy(Len(stream)) : open[1] # t[1]
    /\ Emits("prepare", t)

SourceEnds ==
  \E t \in PreparedBy(Len(stream)) :
    Emits("commit", t) \/ ("rollback" \in Liberties /\ Emits("rollback", t))

-----------------------------------------------------------------------------
(* The consumer *)

At(pc) == consumer.pc = pc
Goto(pc) == consumer' = [consumer EXCEPT !.pc = pc]
Raises(what) ==
  consumer' = [consumer EXCEPT !.pc = "failed", !.raised = what]

\* The event being handled.
Event == stream[consumer.received]
Gid == Event.gid
Handles(kind) == At("handle") /\ Event.kind = kind

Exists == store[Gid] # NoTransaction
InPhase(phase) == Exists /\ store[Gid].phase = phase

Put == store' = [store EXCEPT ![Gid] = [xid |-> Event.xid, phase |-> "Prepared"]]
Remove == store' = [store EXCEPT ![Gid] = NoTransaction]

Receive ==
  /\ At("idle") /\ consumer.received < Len(stream)
  /\ consumer' = [consumer EXCEPT !.pc = "handle", !.received = @ + 1]
  /\ UNCHANGED <<sourceVars, store, target, marked, discarded, crashes>>

\* FAULTY: a replayed Prepare overwrites the applied marker.
PrepareBlindly ==
  /\ Handles("prepare")
  /\ Put /\ Goto("acknowledge")
  /\ UNCHANGED <<sourceVars, target, marked, discarded, crashes>>

\* FAULTY: the transaction is applied as soon as it is prepared.
PrepareEagerly ==
  /\ Handles("prepare")
  /\ Put /\ Goto("acknowledge")
  /\ target' = target \union { Transaction(Event) }
  /\ UNCHANGED <<sourceVars, marked, discarded, crashes>>

Prepare ==
  /\ Handles("prepare")
  /\ \/ /\ ~InPhase("Target_Applied")
        /\ Put /\ Goto("acknowledge")
     \/ /\ InPhase("Target_Applied")
        /\ IF store[Gid].xid = Event.xid THEN Goto("acknowledge")
           ELSE Raises("prepared GID is awaiting acknowledgement")
        /\ UNCHANGED store
  /\ UNCHANGED <<sourceVars, target, marked, discarded, crashes>>

\* FAULTY: the marker is written before the target, and the process may end
\* between the two.
CommitMarkingFirst ==
  /\ Handles("commit") /\ Exists
  /\ store' = [store EXCEPT ![Gid].phase = "Target_Applied"]
  /\ \/ /\ InPhase("Prepared") /\ crashes < MaxCrashes
        /\ consumer' = Restarted(acked) /\ crashes' = crashes + 1
        /\ UNCHANGED target
     \/ /\ target' = IF InPhase("Prepared")
                     THEN target \union { <<Gid, store[Gid].xid>> } ELSE target
        /\ Goto("acknowledge") /\ UNCHANGED crashes
  /\ UNCHANGED <<sourceVars, marked, discarded>>

\* FAULTY: a commit without state is not told from one that is marked.
CommitUnlessMarked ==
  /\ Handles("commit")
  /\ target' = IF Exists THEN target \union { <<Gid, store[Gid].xid>> } ELSE target
  /\ Goto("mark")
  /\ UNCHANGED <<sourceVars, store, marked, discarded, crashes>>

\* Commit up to Apply_Target, which is handed the stored transaction.
Commit ==
  /\ Handles("commit")
  /\ \/ /\ ~Exists
        /\ Raises("commit without prepared state") /\ UNCHANGED target
     \/ /\ InPhase("Prepared")
        /\ target' = target \union { <<Gid, store[Gid].xid>> }
        /\ Goto("mark")
     \/ /\ InPhase("Target_Applied")
        /\ Goto("acknowledge") /\ UNCHANGED target
  /\ UNCHANGED <<sourceVars, store, marked, discarded, crashes>>

\* FAULTY: what is applied is no longer kept for the source's sake.
MarkByRemoving ==
  /\ At("mark")
  /\ Remove /\ Goto("acknowledge")
  /\ UNCHANGED <<sourceVars, target, marked, discarded, crashes>>

\* The rest of Commit.
MarkTargetApplied ==
  /\ At("mark")
  /\ store' = [store EXCEPT ![Gid].phase = "Target_Applied"]
  /\ marked' = marked \union { <<Gid, store[Gid].xid>> }
  /\ Goto("acknowledge")
  /\ UNCHANGED <<sourceVars, target, discarded, crashes>>

\* The application acknowledges, or puts it off unless it was a commit.
Acknowledge ==
  /\ At("acknowledge")
  /\ \/ acked' = consumer.received
        /\ Goto(IF Event.kind = "commit" THEN "forget" ELSE "idle")
     \/ Event.kind # "commit" /\ Goto("idle") /\ UNCHANGED acked
  /\ UNCHANGED <<stream, store, target, marked, discarded, crashes>>

AcknowledgeCommit ==
  /\ At("forget")
  /\ IF InPhase("Target_Applied") THEN Remove /\ Goto("idle")
     ELSE Raises("acknowledgement precedes target application")
          /\ UNCHANGED store
  /\ UNCHANGED <<sourceVars, target, marked, discarded, crashes>>

Rollback ==
  /\ Handles("rollback")
  /\ \/ /\ InPhase("Prepared")
        /\ Remove /\ Goto("acknowledge")
        /\ discarded' = discarded \union { <<Gid, store[Gid].xid>> }
     \/ /\ ~InPhase("Prepared")
        /\ Raises(IF Exists THEN "rollback of an applied transaction"
                  ELSE "rollback without prepared state")
        /\ UNCHANGED <<store, discarded>>
  /\ UNCHANGED <<sourceVars, target, marked, crashes>>

\* The process ends and is replaced.
Crash ==
  /\ crashes < MaxCrashes
  /\ crashes' = crashes + 1
  /\ consumer' = Restarted(acked)
  /\ UNCHANGED <<sourceVars, store, target, marked, discarded>>

ConsumerStep ==
  \/ Receive \/ Prepare \/ Commit \/ MarkTargetApplied \/ Acknowledge
  \/ AcknowledgeCommit \/ Rollback

Next == SourcePrepares \/ SourceEnds \/ ConsumerStep \/ Crash

Spec == Init /\ [][Next]_vars

\* The application handles what it receives.
FairSpec == Spec /\ WF_vars(ConsumerStep)

-----------------------------------------------------------------------------
(* Properties *)

\* The types; a transaction is only marked while it is stored.
TypeOK ==
  /\ stream \in Seq(Events) /\ Len(stream) <= MaxStream
  /\ acked \in 0..Len(stream)
  /\ store \in [Gids -> Stored \union {NoTransaction}]
  /\ target \subseteq Transactions
  /\ marked \subseteq Transactions
  /\ discarded \subseteq Transactions
  /\ consumer \in
       [ pc : Counters, received : acked..Len(stream), raised : Raised ]
  /\ At("mark") => InPhase("Prepared")
  /\ crashes \in 0..MaxCrashes

\* Whatever crashes and replays do, a transaction whose application has been
\* marked is never handed to Apply_Target again (Commit's documentation).
AppliesOnce ==
  [][ Handles("commit") /\ consumer'.pc = "mark"
        => <<Gid, store[Gid].xid>> \notin marked ]_vars

\* Only what the source committed reaches the target: Commit takes the payload
\* from the store by its gid alone and does not compare transaction numbers.
OnlyCommittedApplied == target \subseteq EventsOf("commit")

\* The source forgets what is acknowledged, so what it forgot is recoverable:
\* an acknowledged prepare that has not ended is stored (as is one that ended
\* but whose end is still to be acknowledged, unless that end has been carried
\* out), and an acknowledged commit is in the target.
NothingForgotten ==
  /\ Among(acked, "commit") \subseteq target
  /\ \A t \in PreparedBy(acked) :
       \/ store[t[1]] # NoTransaction /\ store[t[1]].xid = t[2]
       \/ t \in discarded

\* A consumer is refused only what costs no transaction, and never a commit: an
\* event of a transaction that was rolled back before it was replayed, and a new
\* transaction under a gid whose commit is acknowledged but not yet forgotten.
RefusedIsSettled ==
  consumer.raised # "none" =>
    \/ /\ Event.kind # "commit"
       /\ Transaction(Event) \in discarded \ target
    \/ /\ consumer.raised = "prepared GID is awaiting acknowledgement"
       /\ <<Gid, store[Gid].xid>> \in Among(acked, "commit") \intersect target

\* Every committed transaction reaches the target, crashes notwithstanding,
\* unless the consumer has been refused an event that comes before it.
CommittedIsApplied ==
  \A t \in Transactions :
    t \in EventsOf("commit") ~> t \in target \/ consumer.raised # "none"
=============================================================================
