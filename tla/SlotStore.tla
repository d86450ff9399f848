------------------------------- MODULE SlotStore -------------------------------
(***************************************************************************)
(* The replication state a managed primary keeps in application-owned      *)
(* stores: the slot catalog and the retained WAL.  The contracts are those *)
(* of flyology-postgres-replication-persistence.ads, their effects those   *)
(* of the reference implementation, persistence-memory.adb.  Each          *)
(* operation is one atomic step, as the interface demands.                 *)
(*                                                                         *)
(* An LSN is a natural number; a slot's plugin and WAL contents are left   *)
(* out.  A stored slot is a record, an absent one NoSlot.                  *)
(***************************************************************************)
EXTENDS Naturals, FiniteSets

CONSTANTS
  Slots,     \* slot names
  NoSlot,    \* the state of a name that is not stored
  Capacity,  \* the number of slots the store can hold
  MaxLSN,    \* bound on the WAL written
  MaxLease   \* bound on the leases issued

LSN == Nat
Kinds == {"physical", "logical"}

SlotsWith(leases) ==
  [ kind : Kinds, restart : LSN, confirmed : LSN,
    active : BOOLEAN, invalid : BOOLEAN, lease : leases ]

ASSUME StoreAssumption ==
  /\ NoSlot \notin SlotsWith(Nat) \union LSN
  /\ MaxLSN \in Nat \ {0} /\ MaxLease \in Nat /\ Capacity \in Nat

VARIABLES
  slots,     \* Slots, by name
  nextLease, \* Next_Generation
  first,     \* WAL_Base, First_LSN
  current    \* Current_LSN, the end of the WAL

storeVars == <<slots, nextLease, first, current>>

\* The leases issued, and zero.
Leases == { lease \in Nat : lease < nextLease }

SlotStates == SlotsWith(Leases)

Stored(name) == name \in Slots /\ slots[name] # NoSlot

\* Make_Slot, which requires confirmed = 0 or confirmed >= restart.
MakeSlot(kind, restart, confirmed) ==
  [ kind |-> kind, restart |-> restart, confirmed |-> confirmed,
    active |-> FALSE, invalid |-> FALSE, lease |-> 0 ]

-----------------------------------------------------------------------------
(* The slot catalog: what an operation requires, and what it then does *)

Room == Cardinality({ name \in Slots : Stored(name) }) < Capacity

Create(name, state) == slots' = [slots EXCEPT ![name] = state]

\* FAULTY: a slot in use is dropped.
CanDropActive(name) == Stored(name)

CanDrop(name) == Stored(name) /\ ~slots[name].active

Drop(name) == slots' = [slots EXCEPT ![name] = NoSlot]

CanAcquire(name, kind) ==
  /\ Stored(name)
  /\ slots[name].kind = kind
  /\ ~slots[name].invalid /\ ~slots[name].active

\* FAULTY: the generation is not counted.
AcquireUncounted(name) ==
  /\ slots' = [slots EXCEPT ![name] =
       [@ EXCEPT !.active = TRUE, !.lease = nextLease]]
  /\ UNCHANGED nextLease

\* Leases are numbers of 64 bits, never zero, and do not come round.
Acquire(name) ==
  /\ slots' = [slots EXCEPT ![name] =
       [@ EXCEPT !.active = TRUE, !.lease = nextLease]]
  /\ nextLease' = nextLease + 1

\* FAULTY: any lease will do.
OwnsByName(name, lease) == Stored(name) /\ slots[name].active /\ lease # 0

Owns(name, lease) ==
  /\ Stored(name) /\ slots[name].active
  /\ lease # 0 /\ slots[name].lease = lease

CanAdvance(name, lease, restart, confirmed) ==
  /\ Owns(name, lease)
  /\ restart >= slots[name].restart
  /\ confirmed >= slots[name].confirmed
  /\ confirmed = 0 \/ confirmed >= restart

Advance(name, restart, confirmed) ==
  slots' = [slots EXCEPT ![name] =
    [@ EXCEPT !.restart = restart, !.confirmed = confirmed]]

Invalidate(name) ==
  /\ Stored(name)
  /\ slots' = [slots EXCEPT ![name].invalid = TRUE]

Release(name) ==
  slots' = [slots EXCEPT ![name] = [@ EXCEPT !.active = FALSE, !.lease = 0]]

\* FAULTY: a slot in use is taken not to need its WAL.
RetainingIdly ==
  { name \in Slots : Stored(name) /\ ~slots[name].invalid /\ ~slots[name].active }

Retaining == { name \in Slots : Stored(name) /\ ~slots[name].invalid }

\* Oldest_Restart_LSN: zero when no slot retains WAL.
OldestRestart ==
  IF Retaining = {} THEN 0
  ELSE CHOOSE lsn \in { slots[name].restart : name \in Retaining } :
         \A name \in Retaining : lsn <= slots[name].restart

-----------------------------------------------------------------------------
(* The WAL *)

\* A contiguous range; an empty store keeps its base.
AppendWAL ==
  /\ current < MaxLSN
  /\ current' = current + 1
  /\ UNCHANGED <<slots, nextLease, first>>

\* Retain_From, which does nothing at or below the base.
RetainFrom(oldest) == first' = IF oldest <= first THEN first ELSE oldest
=============================================================================
