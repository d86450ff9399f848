------------------------- MODULE ManagedPrimaryProofs -------------------------
(***************************************************************************)
(* The safety properties of ManagedPrimary, proved for every set of slots  *)
(* and sessions and every bound: leases are exclusive and held, slots      *)
(* advance by their holders only, the primary implements SlotLeases, and,  *)
(* when slots are created beside no other command, what slots need is      *)
(* retained.                                                               *)
(*                                                                         *)
(* Every action is one lemma, that says what the step means to the leases  *)
(* and the positions of the slots (CatalogStep); the invariant and the     *)
(* refinement are proved from these meanings alone.                        *)
(***************************************************************************)
EXTENDS ManagedPrimary, NaturalTheorems, TLAPS

-----------------------------------------------------------------------------
(* The invariant *)

\* What a session record must satisfy by itself.
Sound(r) ==
  /\ r.pc \in {"await", "advance"} => r.end <= r.position
  /\ r.pc = "create" => r.position <= MaxLSN
  /\ r.flushed <= MaxLSN

Position(name) == IF Stored(name) THEN slots[name].restart ELSE NoSlot

Base ==
  /\ TypeOK
  /\ \A s \in Sessions : Sound(session[s])
  /\ current <= MaxLSN
  /\ \A name \in Slots : Stored(name) => slots[name].restart <= MaxLSN

\* The slot a session with the record r holds.
HeldBy(r) == IF r.pc \in Leasing THEN r.name ELSE NoName
Held(s) == HeldBy(session[s])

\* The lease of an active slot.
Leased(name) ==
  IF Stored(name) /\ slots[name].active THEN {slots[name].lease} ELSE {}

(***************************************************************************)
(* The inductive form of LeaseIsHeld: an active slot has a holder, whose   *)
(* lease is the one stored, and no two sessions remember the same lease,   *)
(* even one that Stream_Physical released and did not forget.              *)
(***************************************************************************)
LeaseInv ==
  /\ \A name \in Slots : Leased(name) # {} => \E s \in Sessions : Held(s) = name
  /\ \A s \in Sessions : Held(s) \in Slots =>
       session[s].lease # 0 /\ Leased(Held(s)) = {session[s].lease}
  /\ \A s, t \in Sessions :
       s # t /\ session[s].lease # 0 => session[s].lease # session[t].lease

-----------------------------------------------------------------------------
(* What a step means to the leases *)

OnlyMoves(s) == \A t \in Sessions \ {s} : session'[t] = session[t]

KeepsLease(s, r) ==
  /\ r.lease \in {session[s].lease, 0}
  /\ Held(s) # NoName => r.lease = session[s].lease

Quiet(s) ==
  /\ OnlyMoves(s)
  /\ HeldBy(session'[s]) = Held(s) /\ KeepsLease(s, session'[s])
  /\ \A name \in Slots : Leased(name)' = Leased(name)

Takes(s) ==
  /\ OnlyMoves(s)
  /\ Held(s) = NoName
  /\ \E name \in Slots :
       /\ Stored(name) /\ Leased(name) = {} /\ Leased(name)' = {nextLease}
       /\ HeldBy(session'[s]) = name /\ session'[s].lease = nextLease
       /\ \A other \in Slots \ {name} : Leased(other)' = Leased(other)

GivesBack(s) ==
  /\ OnlyMoves(s)
  /\ HeldBy(session'[s]) = NoName /\ session'[s].lease \in {session[s].lease, 0}
  /\ \E name \in Slots :
       /\ Held(s) = name /\ Leased(name)' = {}
       /\ \A other \in Slots \ {name} : Leased(other)' = Leased(other)

\* What it means to the positions.
Others(name) == \A other \in Slots \ {name} : Position(other)' = Position(other)

Stays == \A name \in Slots : Position(name)' = Position(name)

Adds ==
  \E name \in Slots :
    /\ ~Stored(name) /\ Position(name)' \in 0..MaxLSN /\ Others(name)

Removes ==
  \E name \in Slots :
    /\ Stored(name) /\ Leased(name) = {}
    /\ Position(name)' = NoSlot /\ Others(name)

Advances(s) ==
  \E name \in Slots :
    /\ Held(s) = name /\ Stored(name)
    /\ Position(name)' \in 0..MaxLSN /\ Position(name)' >= Position(name)
    /\ Others(name)

CatalogStep(s) ==
  \/ Quiet(s) /\ (Stays \/ Adds \/ Removes \/ Advances(s))
  \/ (Takes(s) \/ GivesBack(s)) /\ Stays

LEMMA QuietLeases ==
  ASSUME TypeOK, LeaseInv, NEW s \in Sessions, Quiet(s)
  PROVE  LeaseInv'
  <1>1. \A t \in Sessions : Held(t)' = Held(t)
    BY DEF Quiet, OnlyMoves, Held
  <1>2. \A t \in Sessions : session'[t].lease \in {session[t].lease, 0}
    BY DEF Quiet, OnlyMoves, KeepsLease
  <1>3. \A t \in Sessions : Held(t) \in Slots => session'[t].lease = session[t].lease
    BY PrimaryAssumption DEF Quiet, OnlyMoves, KeepsLease
  <1>4. \A name \in Slots : Leased(name)' = Leased(name)
    BY DEF Quiet
  <1> QED
    BY <1>1, <1>2, <1>3, <1>4 DEF LeaseInv

LEMMA TakesLeases ==
  ASSUME TypeOK, LeaseInv, NEW s \in Sessions, Takes(s)
  PROVE  LeaseInv'
  <1>1. PICK name \in Slots :
          /\ Leased(name) = {} /\ Leased(name)' = {nextLease}
          /\ HeldBy(session'[s]) = name /\ session'[s].lease = nextLease
          /\ \A other \in Slots \ {name} : Leased(other)' = Leased(other)
    BY DEF Takes
  <1>2. \A t \in Sessions \ {s} : Held(t)' = Held(t) /\ session'[t] = session[t]
    BY DEF Takes, OnlyMoves, Held
  <1>3. Held(s)' = name
    BY <1>1 DEF Held
  <1>4. \A t \in Sessions : Held(t) # name
    BY <1>1 DEF LeaseInv
  <1>5. \A t \in Sessions : session[t].lease \in Nat /\ session[t].lease < nextLease
    BY DEF TypeOK, SessionStates, Leases
  <1>6. nextLease \in Nat \ {0}
    BY DEF TypeOK
  <1>7. \A n \in Slots : (Leased(n) # {})' => \E t \in Sessions : Held(t)' = n
    BY <1>1, <1>2, <1>3, PrimaryAssumption DEF LeaseInv, Takes
  <1>8. \A t \in Sessions : Held(t)' \in Slots =>
          session'[t].lease # 0 /\ Leased(Held(t))' = {session'[t].lease}
    BY <1>1, <1>2, <1>3, <1>4, <1>6 DEF LeaseInv
  <1>9. \A t, u \in Sessions :
          t # u /\ session'[t].lease # 0 => session'[t].lease # session'[u].lease
    BY <1>1, <1>2, <1>5, <1>6 DEF LeaseInv
  <1> QED
    BY <1>7, <1>8, <1>9 DEF LeaseInv

LEMMA GivesBackLeases ==
  ASSUME TypeOK, LeaseInv, NEW s \in Sessions, GivesBack(s)
  PROVE  LeaseInv'
  <1>0. PICK name \in Slots :
          /\ Held(s) = name /\ Leased(name)' = {}
          /\ \A other \in Slots \ {name} : Leased(other)' = Leased(other)
    BY DEF GivesBack
  <1>1. \A t \in Sessions \ {s} : Held(t)' = Held(t) /\ session'[t] = session[t]
    BY DEF GivesBack, OnlyMoves, Held
  <1>2. Held(s)' = NoName /\ session'[s].lease \in {session[s].lease, 0}
    BY DEF GivesBack, Held
  <1>3. \A t \in Sessions \ {s} : Held(t) # Held(s)
    BY <1>0 DEF LeaseInv
  <1>4. \A t, u \in Sessions :
          t # u /\ session'[t].lease # 0 => session'[t].lease # session'[u].lease
    BY <1>1, <1>2 DEF LeaseInv
  <1>5. \A t \in Sessions : Held(t)' \in Slots =>
          session'[t].lease # 0 /\ Leased(Held(t))' = {session'[t].lease}
    BY <1>1, <1>2, <1>3, <1>0, PrimaryAssumption DEF LeaseInv
  <1>6. \A n \in Slots : (Leased(n) # {})' => \E t \in Sessions : Held(t)' = n
    BY <1>1, <1>2, <1>0 DEF LeaseInv
  <1> QED
    BY <1>4, <1>5, <1>6 DEF LeaseInv
-----------------------------------------------------------------------------
(* What a session writes *)

LEMMA IdleIsState ==
  ASSUME TypeOK
  PROVE  /\ IdleSession \in SessionStates
         /\ \A why \in Failures :
              /\ [IdleSession EXCEPT !.failed = why] \in SessionStates
              /\ [IdleSession EXCEPT !.failed = why].pc = "idle"
              /\ [IdleSession EXCEPT !.failed = why].lease = 0
              /\ [IdleSession EXCEPT !.failed = why].flushed = 0
         /\ IdleSession.pc = "idle" /\ IdleSession.lease = 0
         /\ IdleSession.flushed = 0
  <1>1. 0 \in Leases
    BY DEF TypeOK, Leases
  <1>2. IdleSession \in SessionStates
    BY <1>1 DEF IdleSession, SessionStates, Counters, Kinds, LSN, Failures
  <1>3. ASSUME NEW why \in Failures
        PROVE  [IdleSession EXCEPT !.failed = why] \in SessionStates
    <2> HIDE DEF IdleSession
    <2> QED
      BY <1>2 DEF SessionStates
  <1> QED
    BY <1>2, <1>3 DEF IdleSession

LEMMA StatesGrow ==
  ASSUME TypeOK, nextLease' \in Nat, nextLease <= nextLease'
  PROVE  /\ SessionStates \subseteq SessionStates'
         /\ SlotStates \subseteq SlotStates'
  <1>1. ASSUME NEW lease \in Leases
        PROVE  lease \in Leases'
    BY DEF TypeOK, Leases
  <1>2. ASSUME NEW r \in SessionStates
        PROVE  r \in SessionStates'
    BY <1>1 DEF SessionStates
  <1>3. ASSUME NEW r \in SlotStates
        PROVE  r \in SlotStates'
    BY <1>1 DEF SlotStates, SlotsWith
  <1> QED
    BY <1>2, <1>3

LEMMA StepType ==
  ASSUME TypeOK, NEW s \in Sessions, NEW r \in SessionStates,
         session' = [session EXCEPT ![s] = r],
         UNCHANGED nextLease, first' \in LSN, current' \in LSN,
         slots' \in [Slots -> SlotStates \union {NoSlot}]
  PROVE  TypeOK'
  <1>1. UNCHANGED <<SessionStates, SlotStates>>
    BY DEF SessionStates, SlotStates, SlotsWith, Leases
  <1> QED
    BY <1>1 DEF TypeOK

LEMMA LocalStep ==
  ASSUME Base, NEW s \in Sessions, NEW r \in SessionStates, Sound(r),
         session' = [session EXCEPT ![s] = r],
         UNCHANGED <<slots, nextLease, current>>, first' \in LSN,
         HeldBy(r) = Held(s), KeepsLease(s, r)
  PROVE  Base' /\ Quiet(s) /\ Stays
  <1>1. TypeOK'
    BY StepType DEF Base, TypeOK
  <1>2. session'[s] = r /\ OnlyMoves(s)
    BY DEF Base, TypeOK, OnlyMoves
  <1>3. \A name \in Slots : Leased(name)' = Leased(name) /\ Position(name)' = Position(name)
    BY DEF Leased, Position, Stored
  <1>4. \A t \in Sessions : Sound(session[t])'
    BY <1>2 DEF Base, OnlyMoves, Sound
  <1>5. Base'
    BY <1>1, <1>4 DEF Base, Stored
  <1> QED
    BY <1>2, <1>3, <1>5 DEF Quiet, Stays

LEMMA EndsStep ==
  ASSUME Base, NEW s \in Sessions, Held(s) = NoName, Ends(s),
         UNCHANGED <<slots, nextLease, current>>, first' \in LSN
  PROVE  Base' /\ Quiet(s) /\ Stays
  <1>1. HeldBy(IdleSession) = NoName
    BY IdleIsState DEF Base, HeldBy, Leasing
  <1>2. Sound(IdleSession)
    BY IdleIsState, StoreAssumption DEF Base, Sound
  <1>3. KeepsLease(s, IdleSession)
    BY IdleIsState DEF Base, KeepsLease
  <1> QED
    BY <1>1, <1>2, <1>3, IdleIsState, LocalStep DEF Base, Ends

LEMMA GotoStep ==
  ASSUME Base, NEW s \in Sessions, NEW pc \in Counters \ {"await", "advance", "create"},
         Goto(s, pc), UNCHANGED storeVars,
         pc \in Leasing <=> session[s].pc \in Leasing
  PROVE  Base' /\ Quiet(s) /\ Stays
  <1> DEFINE r == [session[s] EXCEPT !.pc = pc]
  <1>1. r \in SessionStates /\ r.pc = pc /\ r.name = session[s].name
        /\ r.lease = session[s].lease /\ r.flushed = session[s].flushed
    BY DEF Base, TypeOK, SessionStates
  <1>2. session' = [session EXCEPT ![s] = r]
    BY Zenon DEF Goto
  <1> HIDE DEF r
  <1>3. HeldBy(r) = Held(s) /\ KeepsLease(s, r)
    BY <1>1 DEF Held, HeldBy, KeepsLease
  <1>4. Sound(r)
    BY <1>1 DEF Base, Sound
  <1> QED
    BY <1>1, <1>2, <1>3, <1>4, LocalStep DEF storeVars, Base, TypeOK

LEMMA ReleaseIs ==
  ASSUME TypeOK, NEW name \in Slots, Stored(name), Release(name)
  PROVE  /\ slots' \in [Slots -> SlotStates \union {NoSlot}]
         /\ \A other \in Slots : (Stored(other)' <=> Stored(other)) 
         /\ \A other \in Slots : Position(other)' = Position(other)
         /\ Leased(name)' = {}
         /\ \A other \in Slots \ {name} : Leased(other)' = Leased(other)
  <1>1. slots[name] \in SlotStates /\ slots[name] # NoSlot
    BY DEF Stored, TypeOK
  <1> DEFINE slot == [slots[name] EXCEPT !.active = FALSE, !.lease = 0]
  <1>2. slot \in SlotStates /\ slot.restart = slots[name].restart /\ ~slot.active
    <2>1. 0 \in Leases
      BY DEF TypeOK, Leases
    <2> QED
      BY <1>1, <2>1 DEF SlotStates, SlotsWith
  <1>3. slots' = [slots EXCEPT ![name] = slot]
    BY Zenon DEF Release
  <1>4. slot # NoSlot
    BY <1>2, StoreAssumption DEF SlotStates, SlotsWith, Leases
  <1> HIDE DEF slot
  <1> QED
    BY <1>1, <1>2, <1>3, <1>4 DEF TypeOK, Stored, Position, Leased

LEMMA FailsStep ==
  ASSUME Base, LeaseInv, NEW s \in Sessions, NEW why \in Failures, Fails(s, why)
  PROVE  Base' /\ CatalogStep(s)
  <1> PICK name : name = session[s].name
    OBVIOUS
  <1> DEFINE r == [IdleSession EXCEPT !.failed = why]
  <1>1. r \in SessionStates /\ r.pc = "idle" /\ r.lease = 0 /\ r.flushed = 0
    BY IdleIsState DEF Base
  <1>2. session' = [session EXCEPT ![s] = r] /\ UNCHANGED <<nextLease, first, current>>
    BY Zenon DEF Fails
  <1> HIDE DEF r
  <1>3. HeldBy(r) = NoName /\ Sound(r)
    BY <1>1, StoreAssumption DEF HeldBy, Leasing, Sound
  <1>4. CASE Owns(name, session[s].lease)
    <2>1. name \in Slots /\ Stored(name) /\ Release(name)
      BY <1>4 DEF Fails, Owns, Stored
    <2>2. Held(s) = name
      <3>1. Leased(name) = {session[s].lease} /\ session[s].lease # 0
        BY <1>4 DEF Owns, Leased
      <3>2. PICK t \in Sessions : Held(t) = name
        BY <3>1, <2>1 DEF LeaseInv
      <3>3. session[t].lease = session[s].lease
        BY <3>1, <3>2, <2>1 DEF LeaseInv
      <3>4. t = s
        BY <3>1, <3>3 DEF LeaseInv
      <3> QED
        BY <3>2, <3>4
    <2>3. /\ slots' \in [Slots -> SlotStates \union {NoSlot}]
          /\ \A other \in Slots : (Stored(other)' <=> Stored(other))
          /\ \A other \in Slots : Position(other)' = Position(other)
          /\ Leased(name)' = {}
          /\ \A other \in Slots \ {name} : Leased(other)' = Leased(other)
      BY <2>1, ReleaseIs DEF Base
    <2>4. TypeOK'
      BY <2>3, <1>1, <1>2, StepType DEF Base, TypeOK
    <2>5. session'[s] = r /\ OnlyMoves(s)
      BY <1>2 DEF Base, TypeOK, OnlyMoves
    <2>6. \A t \in Sessions : Sound(session[t])'
      BY <2>5, <1>3 DEF Base, OnlyMoves, Sound
    <2>7. Base'
      BY <2>4, <2>6, <2>3, <1>2 DEF Base, Position
    <2> QED
      BY <2>1, <2>2, <2>3, <2>5, <2>7, <1>1, <1>3 DEF CatalogStep, GivesBack, Stays
  <1>5. CASE ~Owns(name, session[s].lease)
    <2>1. UNCHANGED slots
      BY <1>5 DEF Fails
    <2>2. Held(s) = NoName
      <3>1. Held(s) \in Slots \union {NoName}
        BY DEF Base, TypeOK, SessionStates, Held, HeldBy
      <3>2. CASE Held(s) \in Slots
        <4>1. Held(s) = name
          BY <3>2, PrimaryAssumption DEF Held, HeldBy
        <4>2. session[s].lease # 0 /\ Leased(name) = {session[s].lease}
          BY <3>2, <4>1 DEF LeaseInv
        <4> QED
          BY <1>5, <4>2 DEF Leased, Owns
      <3> QED
        BY <3>1, <3>2
    <2>3. KeepsLease(s, r)
      BY <1>1, <2>2 DEF KeepsLease
    <2> QED
      BY <1>1, <1>2, <1>3, <2>1, <2>2, <2>3, LocalStep DEF CatalogStep, Base, TypeOK
  <1> QED
    BY <1>4, <1>5

-----------------------------------------------------------------------------
(* The steps of a session *)

LEMMA AcquireSlotStep ==
  ASSUME Base, LeaseInv, NEW s \in Sessions, AcquireSlot(s)
  PROVE  Base' /\ CatalogStep(s)
  <1> PICK name : name = session[s].name
    OBVIOUS
  <1> DEFINE pc == IF session[s].kind = "physical" THEN "check" ELSE "stream"
             position == IF /\ session[s].kind = "logical"
                            /\ session[s].position < slots[name].confirmed
                         THEN slots[name].confirmed ELSE session[s].position
             r == [session[s] EXCEPT
                     !.pc = pc, !.lease = nextLease,
                     !.restart = slots[name].restart,
                     !.confirmed = slots[name].confirmed,
                     !.position = position]
             slot == [slots[name] EXCEPT !.active = TRUE, !.lease = nextLease]
  <1>1. session[s] \in SessionStates /\ session[s].pc = "acquire" /\ Held(s) = NoName
    BY DEF Base, TypeOK, AcquireSlot, At, Held, HeldBy, Leasing
  <1>2. CASE CanAcquire(name, session[s].kind)
    <2>1. /\ slots' = [slots EXCEPT ![name] = slot]
          /\ session' = [session EXCEPT ![s] = r]
          /\ nextLease' = nextLease + 1
          /\ UNCHANGED <<first, current>>
      BY <1>2, Zenon DEF AcquireSlot, Acquire
    <2>2. name \in Slots /\ Stored(name) /\ slots[name] \in SlotStates /\ Leased(name) = {}
      BY <1>2 DEF CanAcquire, Stored, Base, TypeOK, Leased
    <2>3. slots[name].restart \in LSN /\ slots[name].confirmed \in LSN
      BY <2>2 DEF SlotStates, SlotsWith
    <2>4. pc \in Counters \cap Leasing /\ position \in LSN /\ nextLease \in Leases'
          /\ pc \notin {"await", "advance", "create"}
      BY <1>1, <2>1, <2>3 DEF Base, TypeOK, SessionStates, Counters, Leasing, Leases
    <2>5. SessionStates \subseteq SessionStates' /\ SlotStates \subseteq SlotStates'
      BY <2>1, StatesGrow DEF Base, TypeOK
    <2>6. /\ slot \in SlotStates' /\ slot.restart = slots[name].restart
          /\ slot.active /\ slot.lease = nextLease
      BY <2>2, <2>4, <2>5 DEF SlotStates, SlotsWith
    <2>7. r \in SessionStates' /\ r.pc = pc /\ r.name = name /\ r.lease = nextLease
          /\ r.flushed = session[s].flushed
      <3> HIDE DEF pc, position
      <3> QED
        BY <1>1, <2>3, <2>4, <2>5, ZenonT(60) DEF SessionStates
    <2> HIDE DEF r, slot, pc, position
    <2>8. slot # NoSlot
      BY <2>6, StoreAssumption DEF SlotStates, SlotsWith, Leases
    <2>9. TypeOK'
      <3>1. slots' \in [Slots -> SlotStates' \union {NoSlot}]
        BY <2>1, <2>2, <2>5, <2>6 DEF Base, TypeOK
      <3>2. session' \in [Sessions -> SessionStates']
        BY <2>1, <2>5, <2>7 DEF Base, TypeOK
      <3> QED
        BY <2>1, <3>1, <3>2 DEF Base, TypeOK
    <2>10. session'[s] = r /\ OnlyMoves(s)
      BY <2>1 DEF Base, TypeOK, OnlyMoves
    <2>11. \A t \in Sessions : Sound(session[t])'
      BY <2>4, <2>7, <2>10 DEF Base, OnlyMoves, Sound
    <2>12. /\ \A other \in Slots : (Stored(other)' <=> Stored(other))
           /\ \A other \in Slots : Position(other)' = Position(other)
           /\ Leased(name)' = {nextLease}
           /\ \A other \in Slots \ {name} : Leased(other)' = Leased(other)
      BY <2>1, <2>2, <2>6, <2>8 DEF Base, TypeOK, Stored, Position, Leased
    <2>13. Base'
      BY <2>1, <2>9, <2>11, <2>12 DEF Base, Position
    <2>14. HeldBy(r) = name
      BY <2>4, <2>7 DEF HeldBy
    <2> QED
      BY <1>1, <2>2, <2>7, <2>10, <2>12, <2>13, <2>14 DEF CatalogStep, Takes, Stays
  <1>3. CASE ~CanAcquire(name, session[s].kind)
    BY <1>1, <1>3, EndsStep DEF AcquireSlot, CatalogStep, storeVars, Base, TypeOK
  <1> QED
    BY <1>2, <1>3

LEMMA CheckPositionStep ==
  ASSUME Base, LeaseInv, NEW s \in Sessions, CheckPosition(s)
  PROVE  Base' /\ CatalogStep(s)
  <1>1. CASE Goto(s, "stream") /\ UNCHANGED storeVars
    BY <1>1, GotoStep DEF CheckPosition, At, Counters, Leasing, CatalogStep
  <1>2. CASE Fails(s, "none")
    BY <1>2, FailsStep DEF Failures
  <1> QED
    BY <1>1, <1>2 DEF CheckPosition

LEMMA SendWALStep ==
  ASSUME Base, LeaseInv, NEW s \in Sessions, SendWAL(s)
  PROVE  Base' /\ CatalogStep(s)
  <1> DEFINE p == IF session[s].position + Chunk <= current
                  THEN session[s].position + Chunk ELSE current
             r == [session[s] EXCEPT !.position = p]
  <1>1. session[s] \in SessionStates /\ session[s].pc = "stream"
    BY DEF Base, TypeOK, SendWAL, At
  <1>2. CASE session[s].position < first
    BY <1>2, FailsStep DEF SendWAL, Failures
  <1>3. CASE ~(session[s].position < first)
    <2>1. session' = [session EXCEPT ![s] = r] /\ UNCHANGED storeVars
      BY <1>3, Zenon DEF SendWAL
    <2>2. p \in LSN
      BY <1>1, PrimaryAssumption DEF SessionStates, LSN, Base, TypeOK
    <2>3. /\ r \in SessionStates /\ r.pc = "stream"
          /\ r.name = session[s].name /\ r.lease = session[s].lease
          /\ r.flushed = session[s].flushed
      <3> HIDE DEF p
      <3> QED
        BY <1>1, <2>2 DEF SessionStates
    <2> HIDE DEF r
    <2> QED
      BY <1>1, <2>1, <2>3, LocalStep
         DEF Base, TypeOK, storeVars, Sound, Held, HeldBy, KeepsLease, CatalogStep
  <1> QED
    BY <1>2, <1>3

LEMMA SendChangeStep ==
  ASSUME Base, LeaseInv, NEW s \in Sessions, SendChange(s)
  PROVE  Base' /\ CatalogStep(s)
  <1>1. session[s] \in SessionStates /\ session[s].pc = "stream"
    BY DEF Base, TypeOK, SendChange, At
  <1>2. PICK end \in (session[s].position + 1)..current :
          session' = [session EXCEPT ![s].position = end]
    BY DEF SendChange
  <1> DEFINE r == [session[s] EXCEPT !.position = end]
  <1>3. session' = [session EXCEPT ![s] = r] /\ UNCHANGED storeVars
    BY <1>2, Zenon DEF SendChange
  <1>4. end \in LSN
    BY <1>1 DEF SessionStates, LSN, Base, TypeOK
  <1>5. /\ r \in SessionStates /\ r.pc = "stream"
        /\ r.name = session[s].name /\ r.lease = session[s].lease
        /\ r.flushed = session[s].flushed
    BY <1>1, <1>4 DEF SessionStates
  <1> HIDE DEF r
  <1> QED
    BY <1>1, <1>3, <1>5, LocalStep
       DEF Base, TypeOK, storeVars, Sound, Held, HeldBy, KeepsLease, CatalogStep

LEMMA SendKeepaliveStep ==
  ASSUME Base, LeaseInv, NEW s \in Sessions, SendKeepalive(s)
  PROVE  Base' /\ CatalogStep(s)
  <1> DEFINE end == IF session[s].kind = "logical"
                    THEN session[s].position ELSE session[s].end
             r == [session[s] EXCEPT !.pc = "await", !.end = end]
  <1>1. session[s] \in SessionStates /\ session[s].pc = "stream"
    BY DEF Base, TypeOK, SendKeepalive, At
  <1>2. session' = [session EXCEPT ![s] = r] /\ UNCHANGED storeVars
    BY Zenon DEF SendKeepalive
  <1>3. end \in LSN /\ end <= session[s].position
    BY <1>1 DEF SessionStates, Kinds, LSN, SendKeepalive
  <1>4. /\ r \in SessionStates /\ r.pc = "await"
        /\ r.name = session[s].name /\ r.lease = session[s].lease
        /\ r.flushed = session[s].flushed
        /\ r.end = end /\ r.position = session[s].position
    <2> HIDE DEF end
    <2> QED
      BY <1>1, <1>3 DEF SessionStates, Counters
  <1> HIDE DEF r, end
  <1> QED
    BY <1>1, <1>2, <1>3, <1>4, LocalStep
       DEF Base, TypeOK, storeVars, Sound, Held, HeldBy, Leasing, KeepsLease, CatalogStep

LEMMA StandbyStatusStep ==
  ASSUME Base, LeaseInv, NEW s \in Sessions, StandbyStatus(s)
  PROVE  Base' /\ CatalogStep(s)
  <1>1. session[s] \in SessionStates /\ session[s].pc = "await"
    BY DEF Base, TypeOK, StandbyStatus, At
  <1>2. PICK received \in 0..MaxLSN, flushed \in 0..MaxLSN :
          session' = [session EXCEPT ![s] =
            [@ EXCEPT !.received = received, !.flushed = flushed,
                      !.feedback = TRUE,
                      !.pc = IF flushed >= session[s].end
                             THEN "advance" ELSE "await"]]
    BY Zenon DEF StandbyStatus
  <1> DEFINE pc == IF flushed >= session[s].end THEN "advance" ELSE "await"
             r == [session[s] EXCEPT !.received = received, !.flushed = flushed,
                                     !.feedback = TRUE, !.pc = pc]
  <1>3. pc \in {"advance", "await"}
    OBVIOUS
  <1>4. session' = [session EXCEPT ![s] = r] /\ UNCHANGED storeVars
    BY <1>2, Zenon DEF StandbyStatus
  <1>5. received \in LSN /\ flushed \in LSN /\ flushed <= MaxLSN
    BY StoreAssumption DEF LSN
  <1>6. /\ r \in SessionStates /\ r.pc = pc
        /\ r.name = session[s].name /\ r.lease = session[s].lease
        /\ r.flushed = flushed
        /\ r.end = session[s].end /\ r.position = session[s].position
    <2> HIDE DEF pc
    <2> QED
      BY <1>1, <1>3, <1>5 DEF SessionStates, Counters
  <1> HIDE DEF r, pc
  <1> QED
    BY <1>1, <1>3, <1>4, <1>5, <1>6, LocalStep
       DEF Base, TypeOK, storeVars, Sound, Held, HeldBy, Leasing, KeepsLease, CatalogStep

LEMMA StandbyDoneStep ==
  ASSUME Base, LeaseInv, NEW s \in Sessions, StandbyDone(s)
  PROVE  Base' /\ CatalogStep(s)
  <1> DEFINE r == [session[s] EXCEPT !.done = TRUE, !.pc = "advance"]
  <1>1. session[s] \in SessionStates /\ session[s].pc = "await"
    BY DEF Base, TypeOK, StandbyDone, At
  <1>2. session' = [session EXCEPT ![s] = r] /\ UNCHANGED storeVars
    BY Zenon DEF StandbyDone
  <1>3. /\ r \in SessionStates /\ r.pc = "advance"
        /\ r.name = session[s].name /\ r.lease = session[s].lease
        /\ r.flushed = session[s].flushed
        /\ r.end = session[s].end /\ r.position = session[s].position
    BY <1>1 DEF SessionStates, Counters
  <1> HIDE DEF r
  <1> QED
    BY <1>1, <1>2, <1>3, LocalStep
       DEF Base, TypeOK, storeVars, Sound, Held, HeldBy, Leasing, KeepsLease, CatalogStep

LEMMA CompleteCopyStep ==
  ASSUME Base, LeaseInv, NEW s \in Sessions, CompleteCopy(s)
  PROVE  Base' /\ CatalogStep(s)
  <1> DEFINE pc == IF session[s].name = NoName THEN "floor" ELSE "release"
             r == [IdleSession EXCEPT
                     !.pc = pc, !.name = session[s].name,
                     !.kind = session[s].kind, !.lease = session[s].lease]
  <1>1. session[s] \in SessionStates /\ session[s].pc = "complete"
    BY DEF Base, TypeOK, CompleteCopy, At
  <1>2. session' = [session EXCEPT ![s] = r] /\ UNCHANGED storeVars
    BY Zenon DEF CompleteCopy
  <1>3. pc \in {"floor", "release"} /\ (session[s].name # NoName => pc = "release")
    OBVIOUS
  <1>4. IdleSession \in SessionStates /\ IdleSession.flushed = 0
    BY IdleIsState DEF Base
  <1>5. /\ r \in SessionStates /\ r.pc = pc
        /\ r.name = session[s].name /\ r.lease = session[s].lease
        /\ r.flushed = 0
    <2> HIDE DEF pc
    <2> QED
      BY <1>1, <1>3, <1>4 DEF SessionStates, Counters
  <1> HIDE DEF r, pc
  <1>6. HeldBy(r) = Held(s)
    BY <1>1, <1>3, <1>5 DEF Held, HeldBy, Leasing
  <1>7. Sound(r)
    BY <1>3, <1>5, StoreAssumption DEF Sound
  <1>8. KeepsLease(s, r)
    BY <1>5 DEF KeepsLease
  <1> QED
    BY <1>2, <1>5, <1>6, <1>7, <1>8, LocalStep
       DEF Base, TypeOK, storeVars, CatalogStep

LEMMA ReadFloorStep ==
  ASSUME Base, LeaseInv, NEW s \in Sessions, ReadFloor(s), OldestRestart \in LSN
  PROVE  Base' /\ CatalogStep(s)
  <1> DEFINE r == [session[s] EXCEPT !.floor = OldestRestart, !.pc = "retain"]
  <1>1. session[s] \in SessionStates /\ session[s].pc = "floor" /\ Held(s) = NoName
    BY DEF Base, TypeOK, ReadFloor, At, Held, HeldBy, Leasing
  <1>2. CASE OldestRestart > first
    <2>1. session' = [session EXCEPT ![s] = r] /\ UNCHANGED storeVars
      BY <1>2, Zenon DEF ReadFloor
    <2>2. /\ r \in SessionStates /\ r.pc = "retain"
          /\ r.lease = session[s].lease /\ r.flushed = session[s].flushed
      BY <1>1 DEF SessionStates, Counters
    <2> HIDE DEF r
    <2> QED
      BY <1>1, <2>1, <2>2, LocalStep
         DEF Base, TypeOK, storeVars, Sound, HeldBy, Leasing, KeepsLease, CatalogStep
  <1>3. CASE ~(OldestRestart > first)
    BY <1>1, <1>3, EndsStep DEF ReadFloor, storeVars, Base, TypeOK, CatalogStep
  <1> QED
    BY <1>2, <1>3

LEMMA RetainStep ==
  ASSUME Base, LeaseInv, NEW s \in Sessions, Retain(s)
  PROVE  Base' /\ CatalogStep(s)
  <1>1. session[s] \in SessionStates /\ session[s].pc = "retain" /\ Held(s) = NoName
    BY DEF Base, TypeOK, Retain, At, Held, HeldBy, Leasing
  <1>2. CASE session[s].floor <= current
    <2>1. first' \in LSN
      BY <1>1, <1>2 DEF Retain, RetainFrom, SessionStates, LSN, Base, TypeOK
    <2> QED
      BY <1>1, <1>2, <2>1, EndsStep DEF Retain, CatalogStep
  <1>3. CASE ~(session[s].floor <= current)
    BY <1>3, FailsStep DEF Retain, Failures
  <1> QED
    BY <1>2, <1>3

\* A session that starts a command held nothing.
LEMMA BeginStep ==
  ASSUME Base, NEW s \in Sessions, At(s, "idle"),
         NEW r \in SessionStates, session' = [session EXCEPT ![s] = r],
         UNCHANGED storeVars,
         r.pc \notin {"await", "advance"}, r.flushed = 0, r.lease = 0,
         HeldBy(r) = NoName, r.pc = "create" => r.position <= MaxLSN
  PROVE  Base' /\ CatalogStep(s)
  <1>1. Held(s) = NoName
    BY DEF At, Held, HeldBy, Leasing
  <1>2. Sound(r) /\ KeepsLease(s, r)
    BY <1>1, StoreAssumption DEF Sound, KeepsLease
  <1> QED
    BY <1>1, <1>2, LocalStep DEF Base, TypeOK, storeVars, CatalogStep

LEMMA StartStep ==
  ASSUME Base, NEW s \in Sessions, Start(s)
  PROVE  Base' /\ CatalogStep(s)
  <1>1. /\ IdleSession \in SessionStates
        /\ IdleSession.flushed = 0 /\ IdleSession.lease = 0
    BY IdleIsState DEF Base
  <1>2. CASE StartPhysical(s)
    <2>1. PICK name \in Slots \union {NoName}, position \in 1..MaxLSN :
            session' = [session EXCEPT ![s] =
              [IdleSession EXCEPT
                 !.pc = IF name = NoName THEN "check" ELSE "acquire",
                 !.name = name, !.position = position, !.end = current]]
      BY <1>2, Zenon DEF StartPhysical
    <2> DEFINE pc == IF name = NoName THEN "check" ELSE "acquire"
               r == [IdleSession EXCEPT !.pc = pc, !.name = name,
                                        !.position = position, !.end = current]
    <2>2. session' = [session EXCEPT ![s] = r]
      BY <2>1, Zenon
    <2>3. pc \in {"check", "acquire"} /\ (pc = "check" => name = NoName)
      OBVIOUS
    <2>4. position \in LSN /\ current \in LSN
      BY StoreAssumption DEF LSN, Base, TypeOK
    <2>5. /\ r \in SessionStates /\ r.pc = pc /\ r.name = name
          /\ r.flushed = 0 /\ r.lease = 0
      <3> HIDE DEF pc, IdleSession
      <3> QED
        BY <1>1, <2>3, <2>4 DEF SessionStates, Counters
    <2> HIDE DEF r, pc
    <2>6. HeldBy(r) = NoName
      BY <2>3, <2>5 DEF HeldBy, Leasing
    <2> QED
      BY <1>2, <2>2, <2>3, <2>5, <2>6, BeginStep DEF StartPhysical
  <1>3. CASE StartLogical(s)
    <2>1. PICK name \in Slots, position \in 0..MaxLSN :
            session' = [session EXCEPT ![s] =
              [IdleSession EXCEPT !.pc = "acquire", !.kind = "logical",
                                  !.name = name, !.position = position]]
      BY <1>3, Zenon DEF StartLogical
    <2> DEFINE r == [IdleSession EXCEPT !.pc = "acquire", !.kind = "logical",
                                        !.name = name, !.position = position]
    <2>2. session' = [session EXCEPT ![s] = r]
      BY <2>1, Zenon
    <2>3. position \in LSN
      BY StoreAssumption DEF LSN
    <2>4. /\ r \in SessionStates /\ r.pc = "acquire"
          /\ r.flushed = 0 /\ r.lease = 0
      <3> HIDE DEF IdleSession
      <3> QED
        BY <1>1, <2>3 DEF SessionStates, Counters, Kinds
    <2> HIDE DEF r
    <2>5. HeldBy(r) = NoName
      BY <2>4 DEF HeldBy, Leasing
    <2> QED
      BY <1>3, <2>2, <2>4, <2>5, BeginStep DEF StartLogical
  <1>4. CASE StartCreate(s)
    <2>1. PICK name \in Slots :
            session' = [session EXCEPT ![s] =
              [IdleSession EXCEPT !.pc = "create", !.kind = "logical",
                                  !.name = name, !.position = current]]
      BY <1>4, Zenon DEF StartCreate
    <2> DEFINE r == [IdleSession EXCEPT !.pc = "create", !.kind = "logical",
                                        !.name = name, !.position = current]
    <2>2. session' = [session EXCEPT ![s] = r]
      BY <2>1, Zenon
    <2>3. /\ r \in SessionStates /\ r.pc = "create" /\ r.position = current
          /\ r.flushed = 0 /\ r.lease = 0
      <3> HIDE DEF IdleSession
      <3> QED
        BY <1>1 DEF SessionStates, Counters, Kinds, Base, TypeOK
    <2> HIDE DEF r
    <2>4. HeldBy(r) = NoName
      BY <2>3 DEF HeldBy, Leasing
    <2> QED
      BY <1>4, <2>2, <2>3, <2>4, BeginStep DEF StartCreate, Base
  <1>5. CASE StartDrop(s)
    <2>1. PICK name \in Slots, wait \in BOOLEAN :
            session' = [session EXCEPT ![s] =
              [IdleSession EXCEPT !.pc = "drop", !.name = name, !.wait = wait]]
      BY <1>5, Zenon DEF StartDrop
    <2> DEFINE r == [IdleSession EXCEPT !.pc = "drop", !.name = name, !.wait = wait]
    <2>2. session' = [session EXCEPT ![s] = r]
      BY <2>1, Zenon
    <2>3. /\ r \in SessionStates /\ r.pc = "drop"
          /\ r.flushed = 0 /\ r.lease = 0
      <3> HIDE DEF IdleSession
      <3> QED
        BY <1>1 DEF SessionStates, Counters
    <2> HIDE DEF r
    <2>4. HeldBy(r) = NoName
      BY <2>3 DEF HeldBy, Leasing
    <2> QED
      BY <1>5, <2>2, <2>3, <2>4, BeginStep DEF StartDrop
  <1> QED
    BY <1>2, <1>3, <1>4, <1>5 DEF Start

\* The slots a store operation leaves alone.
SlotChanges(name) ==
  /\ slots' \in [Slots -> SlotStates \union {NoSlot}]
  /\ \A other \in Slots \ {name} : slots'[other] = slots[other]

LEMMA OthersStay ==
  ASSUME NEW name \in Slots, SlotChanges(name)
  PROVE  \A other \in Slots \ {name} :
           /\ Stored(other)' = Stored(other)
           /\ Position(other)' = Position(other)
           /\ Leased(other)' = Leased(other)
  BY DEF SlotChanges, Stored, Position, Leased

LEMMA CatalogGoto ==
  ASSUME Base, NEW s \in Sessions,
         NEW pc \in Counters \ {"await", "advance", "create"}, Goto(s, pc),
         UNCHANGED <<nextLease, first, current>>,
         NEW name \in Slots, SlotChanges(name), Leased(name)' = Leased(name),
         Stored(name)' => slots'[name].restart <= MaxLSN,
         pc \in Leasing <=> session[s].pc \in Leasing
  PROVE  Base' /\ Quiet(s) /\ Others(name)
  <1> DEFINE r == [session[s] EXCEPT !.pc = pc]
  <1>1. /\ r \in SessionStates /\ r.pc = pc /\ r.name = session[s].name
        /\ r.lease = session[s].lease /\ r.flushed = session[s].flushed
    BY DEF Base, TypeOK, SessionStates
  <1>2. session' = [session EXCEPT ![s] = r]
    BY Zenon DEF Goto
  <1> HIDE DEF r
  <1>3. HeldBy(r) = Held(s) /\ KeepsLease(s, r) /\ Sound(r)
    BY <1>1 DEF Base, Sound, Held, HeldBy, KeepsLease
  <1>4. TypeOK'
    BY <1>1, <1>2, StepType DEF SlotChanges, Base, TypeOK
  <1>5. session'[s] = r /\ OnlyMoves(s)
    BY <1>2 DEF Base, TypeOK, OnlyMoves
  <1>6. \A t \in Sessions : Sound(session[t])'
    BY <1>3, <1>5 DEF Base, OnlyMoves, Sound
  <1>7. Base'
    BY <1>4, <1>6 DEF Base, SlotChanges, Stored
  <1> QED
    BY <1>3, <1>5, <1>7, OthersStay DEF Quiet, Others

LEMMA AdvanceSlotStep ==
  ASSUME Base, LeaseInv, NEW s \in Sessions, AdvanceSlot(s)
  PROVE  Base' /\ CatalogStep(s)
  <1> PICK name : name = session[s].name
    OBVIOUS
  <1> DEFINE flushed == session[s].flushed
             confirmed == Confirmed(s)
             slot == [slots[name] EXCEPT !.restart = flushed, !.confirmed = confirmed]
  <1>1. session[s] \in SessionStates /\ session[s].pc = "advance" /\ flushed <= MaxLSN
    BY DEF Base, TypeOK, AdvanceSlot, At, Sound
  <1>2. CASE Fails(s, "feedback exceeds streamed WAL")
             \/ Fails(s, "advancement lost its lease")
    BY <1>2, FailsStep DEF Failures
  <1>3. CASE Goto(s, "complete") /\ UNCHANGED storeVars
    BY <1>1, <1>3, GotoStep DEF Counters, Leasing, CatalogStep
  <1>4. CASE /\ CanAdvance(name, session[s].lease, flushed, confirmed)
             /\ Advance(name, flushed, confirmed)
             /\ Goto(s, "complete")
             /\ UNCHANGED <<nextLease, first, current>>
    <2>1. /\ name \in Slots /\ Stored(name) /\ slots[name] \in SlotStates
          /\ flushed >= slots[name].restart
      BY <1>4 DEF CanAdvance, Owns, Stored, Base, TypeOK
    <2>2. slots' = [slots EXCEPT ![name] = slot]
      BY <1>4, Zenon DEF Advance
    <2>3. flushed \in LSN /\ confirmed \in LSN
      BY <1>1 DEF SessionStates, Confirmed, LSN
    <2>4. /\ slot \in SlotStates /\ slot.restart = flushed
          /\ slot.active = slots[name].active /\ slot.lease = slots[name].lease
      <3> HIDE DEF flushed, confirmed
      <3> QED
        BY <2>1, <2>3 DEF SlotStates, SlotsWith
    <2> HIDE DEF slot, confirmed
    <2>5. slot # NoSlot
      BY <2>4, StoreAssumption DEF SlotStates, SlotsWith, Leases
    <2>6. SlotChanges(name)
      BY <2>1, <2>2, <2>4 DEF SlotChanges, Base, TypeOK
    <2>7. slots'[name] = slot
      BY <2>1, <2>2 DEF Base, TypeOK
    <2>8. /\ Stored(name)' /\ Leased(name)' = Leased(name)
          /\ Position(name)' = flushed /\ Position(name) = slots[name].restart
      BY <2>1, <2>4, <2>5, <2>7 DEF Stored, Leased, Position
    <2>9. Base' /\ Quiet(s) /\ Others(name)
      <3> HIDE DEF flushed
      <3>1. slots'[name].restart <= MaxLSN
        BY <2>4, <2>7, <1>1
      <3> QED
        BY <1>1, <1>4, <2>1, <2>6, <2>8, <3>1, CatalogGoto DEF Counters, Leasing
    <2>10. Held(s) = name
      BY <1>1 DEF Held, HeldBy, Leasing
    <2>11. flushed \in 0..MaxLSN
      BY <1>1, <2>3, StoreAssumption DEF LSN
    <2> QED
      BY <2>1, <2>8, <2>9, <2>10, <2>11 DEF CatalogStep, Advances
  <1> QED
    BY <1>2, <1>3, <1>4 DEF AdvanceSlot

LEMMA ReleaseSlotStep ==
  ASSUME Base, LeaseInv, NEW s \in Sessions, ReleaseSlot(s)
  PROVE  Base' /\ CatalogStep(s)
  <1> PICK name : name = session[s].name
    OBVIOUS
  <1> DEFINE lease == IF session[s].kind = "logical" THEN 0 ELSE session[s].lease
             r == [session[s] EXCEPT !.pc = "floor", !.lease = lease]
  <1>1. session[s] \in SessionStates /\ session[s].pc = "release" /\ Held(s) = name
    BY DEF Base, TypeOK, ReleaseSlot, At, Held, HeldBy, Leasing
  <1>2. CASE Owns(name, session[s].lease)
    <2>1. /\ name \in Slots /\ Stored(name) /\ Release(name)
          /\ UNCHANGED <<nextLease, first, current>>
      BY <1>2 DEF ReleaseSlot, Owns, Stored
    <2>2. session' = [session EXCEPT ![s] = r]
      BY <1>2, Zenon DEF ReleaseSlot
    <2>3. lease \in Leases /\ lease \in {session[s].lease, 0}
      BY <1>1 DEF SessionStates, Leases, Base, TypeOK
    <2>4. /\ r \in SessionStates /\ r.pc = "floor" /\ r.lease = lease
          /\ r.flushed = session[s].flushed
      <3> HIDE DEF lease
      <3> QED
        BY <1>1, <2>3 DEF SessionStates, Counters
    <2> HIDE DEF r, lease
    <2>5. /\ slots' \in [Slots -> SlotStates \union {NoSlot}]
          /\ \A other \in Slots : (Stored(other)' <=> Stored(other))
          /\ \A other \in Slots : Position(other)' = Position(other)
          /\ Leased(name)' = {}
          /\ \A other \in Slots \ {name} : Leased(other)' = Leased(other)
      BY <2>1, ReleaseIs DEF Base
    <2>6. TypeOK'
      BY <2>1, <2>2, <2>4, <2>5, StepType DEF Base, TypeOK
    <2>7. session'[s] = r /\ OnlyMoves(s)
      BY <2>2 DEF Base, TypeOK, OnlyMoves
    <2>8. \A t \in Sessions : Sound(session[t])'
      BY <2>4, <2>7 DEF Base, OnlyMoves, Sound
    <2>9. Base'
      BY <2>1, <2>5, <2>6, <2>8 DEF Base, Position
    <2>10. HeldBy(r) = NoName
      BY <2>4 DEF HeldBy, Leasing
    <2> QED
      BY <1>1, <2>1, <2>3, <2>4, <2>5, <2>7, <2>9, <2>10 DEF CatalogStep, GivesBack, Stays
  <1>3. CASE ~Owns(name, session[s].lease)
    BY <1>3, FailsStep DEF ReleaseSlot, Failures
  <1> QED
    BY <1>2, <1>3

LEMMA CreateSlotStep ==
  ASSUME Base, NEW s \in Sessions, CreateSlot(s)
  PROVE  Base' /\ CatalogStep(s)
  <1> PICK name, position :
        name = session[s].name /\ position = session[s].position
    OBVIOUS
  <1> DEFINE slot == MakeSlot("logical", position, position)
  <1>1. /\ session[s] \in SessionStates /\ session[s].pc = "create"
        /\ Held(s) = NoName /\ position <= MaxLSN
    BY DEF Base, TypeOK, CreateSlot, At, Held, HeldBy, Leasing, Sound
  <1>2. CASE /\ ~Stored(name) /\ Create(name, slot) /\ Goto(s, "respond")
             /\ UNCHANGED <<nextLease, first, current>>
    <2>1. position \in LSN /\ name \in Slots \union {NoName}
      BY <1>1 DEF SessionStates
    <2>2. slot \in SlotStates /\ slot.restart = position /\ ~slot.active
      BY <2>1 DEF MakeSlot, SlotStates, SlotsWith, Kinds, Leases, Base, TypeOK
    <2>3. slots' = [slots EXCEPT ![name] = slot]
      BY <1>2 DEF Create
    <2> HIDE DEF slot
    <2>4. slot # NoSlot
      BY <2>2, StoreAssumption DEF SlotStates, SlotsWith, Leases
    <2>5. CASE name \in Slots
      <3>1. SlotChanges(name) /\ slots'[name] = slot
        BY <2>2, <2>3, <2>5 DEF SlotChanges, Base, TypeOK
      <3>2. /\ Leased(name)' = Leased(name) /\ Position(name)' = position
            /\ slots'[name].restart <= MaxLSN
        BY <1>1, <1>2, <2>2, <2>4, <2>5, <3>1 DEF Stored, Leased, Position
      <3>3. Base' /\ Quiet(s) /\ Others(name)
        BY <1>1, <1>2, <2>5, <3>1, <3>2, CatalogGoto DEF Counters, Leasing
      <3>4. position \in 0..MaxLSN
        BY <1>1, <2>1, StoreAssumption DEF LSN
      <3> QED
        BY <1>2, <2>5, <3>2, <3>3, <3>4 DEF CatalogStep, Adds
    <2>6. CASE name = NoName
      <3>1. UNCHANGED slots
        BY <2>3, <2>6, PrimaryAssumption DEF Base, TypeOK
      <3> QED
        BY <1>1, <1>2, <3>1, GotoStep DEF storeVars, Counters, Leasing, CatalogStep
    <2> QED
      BY <2>1, <2>5, <2>6
  <1>3. CASE Ends(s) /\ UNCHANGED storeVars
    BY <1>1, <1>3, EndsStep DEF storeVars, Base, TypeOK, CatalogStep
  <1> QED
    BY <1>2, <1>3 DEF CreateSlot

LEMMA DropSlotStep ==
  ASSUME Base, NEW s \in Sessions, DropSlot(s)
  PROVE  Base' /\ CatalogStep(s)
  <1> PICK name : name = session[s].name
    OBVIOUS
  <1>1. session[s].pc = "drop" /\ Held(s) = NoName
    BY DEF DropSlot, At, Held, HeldBy, Leasing
  <1>2. CASE /\ CanDrop(name) /\ Drop(name) /\ Goto(s, "respond")
             /\ UNCHANGED <<nextLease, first, current>>
    <2>1. name \in Slots /\ Stored(name) /\ Leased(name) = {}
      BY <1>2 DEF CanDrop, Stored, Leased
    <2>2. SlotChanges(name) /\ slots'[name] = NoSlot
      BY <1>2, <2>1 DEF Drop, SlotChanges, Base, TypeOK
    <2>3. ~Stored(name)' /\ Leased(name)' = {} /\ Position(name)' = NoSlot
      BY <2>2 DEF Stored, Leased, Position
    <2>4. Base' /\ Quiet(s) /\ Others(name)
      <3>1. /\ Leased(name)' = Leased(name)
            /\ Stored(name)' => slots'[name].restart <= MaxLSN
        BY <2>1, <2>3
      <3>2. /\ "respond" \in Counters \ {"await", "advance", "create"}
            /\ "respond" \in Leasing <=> session[s].pc \in Leasing
        BY <1>1 DEF Counters, Leasing
      <3> QED
        BY <1>2, <2>1, <2>2, <3>1, <3>2, CatalogGoto
    <2> QED
      BY <2>1, <2>3, <2>4 DEF CatalogStep, Removes
  <1>3. CASE Ends(s) /\ UNCHANGED storeVars
    BY <1>1, <1>3, EndsStep DEF storeVars, Base, TypeOK, CatalogStep
  <1> QED
    BY <1>2, <1>3 DEF DropSlot

LEMMA SessionStep ==
  ASSUME Base, LeaseInv, NEW s \in Sessions, Step(s), OldestRestart \in LSN
  PROVE  Base' /\ CatalogStep(s)
  <1>1. CASE DropTimesOut(s)
    BY <1>1, EndsStep
       DEF DropTimesOut, At, Held, HeldBy, Leasing, storeVars, Base, TypeOK, CatalogStep
  <1>2. CASE Respond(s)
    BY <1>2, GotoStep DEF Respond, At, Counters, Leasing, CatalogStep
  <1>3. CASE BreakOff(s)
    BY <1>3, FailsStep DEF BreakOff, Failures
  <1> QED
    BY <1>1, <1>2, <1>3, AcquireSlotStep, CheckPositionStep, SendWALStep,
       SendKeepaliveStep, StandbyStatusStep, StandbyDoneStep, AdvanceSlotStep,
       CompleteCopyStep, ReleaseSlotStep, CreateSlotStep, DropSlotStep,
       ReadFloorStep, RetainStep, SendChangeStep
       DEF Step

LEMMA InvalidateSlotStep ==
  ASSUME Base, NEW name \in Slots, InvalidateSlot(name)
  PROVE  /\ Base' /\ Stays /\ UNCHANGED session
         /\ \A other \in Slots : Leased(other)' = Leased(other)
  <1> DEFINE slot == [slots[name] EXCEPT !.invalid = TRUE]
  <1>1. Stored(name) /\ slots[name] \in SlotStates
    BY DEF InvalidateSlot, Invalidate, Stored, Base, TypeOK
  <1>2. /\ slots' = [slots EXCEPT ![name] = slot]
        /\ UNCHANGED <<nextLease, first, current, session>>
    BY Zenon DEF InvalidateSlot, Invalidate
  <1>3. /\ slot \in SlotStates /\ slot.restart = slots[name].restart
        /\ slot.active = slots[name].active /\ slot.lease = slots[name].lease
    BY <1>1 DEF SlotStates, SlotsWith
  <1> HIDE DEF slot
  <1>4. slot # NoSlot
    BY <1>3, StoreAssumption DEF SlotStates, SlotsWith, Leases
  <1>5. SlotChanges(name) /\ slots'[name] = slot
    BY <1>2, <1>3 DEF SlotChanges, Base, TypeOK
  <1>6. Stored(name)' /\ Leased(name)' = Leased(name) /\ Position(name)' = Position(name)
    BY <1>1, <1>3, <1>4, <1>5 DEF Stored, Leased, Position
  <1>7. TypeOK'
    BY <1>2, <1>5 DEF SlotChanges, Base, TypeOK, SlotStates, SessionStates, Leases
  <1>8. Base'
    BY <1>1, <1>2, <1>3, <1>5, <1>7 DEF Base, SlotChanges, Stored, Sound
  <1> QED
    BY <1>2, <1>5, <1>6, <1>8, OthersStay DEF Stays

LEMMA AppendStep ==
  ASSUME Base, Append
  PROVE  /\ Base' /\ Stays /\ UNCHANGED session
         /\ \A other \in Slots : Leased(other)' = Leased(other)
  <1>1. /\ UNCHANGED <<slots, nextLease, first, session>>
        /\ current' = current + 1 /\ current < MaxLSN
    BY DEF Append, AppendWAL
  <1>2. TypeOK'
    BY <1>1 DEF Base, TypeOK, SlotStates, SessionStates, Leases, LSN
  <1>3. Base'
    BY <1>1, <1>2, StoreAssumption DEF Base, TypeOK, LSN, Stored, Sound
  <1> QED
    BY <1>1, <1>3 DEF Stays, Position, Leased, Stored

-----------------------------------------------------------------------------
(* The oldest restart position *)

LEMMA OldestIsLeast ==
  ASSUME TypeOK
  PROVE  /\ OldestRestart \in LSN
         /\ Retaining # {} => \A name \in Retaining : OldestRestart <= slots[name].restart
  <1>1. \A name \in Retaining : slots[name].restart \in Nat
    BY DEF Retaining, Stored, TypeOK, SlotStates, SlotsWith, LSN
  <1>2. CASE Retaining = {}
    BY <1>2 DEF OldestRestart, LSN
  <1>3. CASE Retaining # {}
    <2> DEFINE S == { slots[name].restart : name \in Retaining }
    <2>1. S \subseteq Nat /\ S # {}
      BY <1>1, <1>3
    <2>2. PICK least \in S : \A m \in S : least <= m
      <3> HIDE DEF S
      <3> QED
        BY <2>1, LeastNatural
    <2>3. \A name \in Retaining : least <= slots[name].restart
      BY <2>2
    <2>4. /\ OldestRestart \in S
          /\ \A name \in Retaining : OldestRestart <= slots[name].restart
      BY <1>3, <2>2, <2>3, Zenon DEF OldestRestart
    <2> QED
      BY <2>1, <2>4 DEF LSN
  <1> QED
    BY <1>2, <1>3

-----------------------------------------------------------------------------
(* The theorems *)

PrimaryInv == Base /\ LeaseInv

LEMMA InitInv ==
  ASSUME Init
  PROVE  PrimaryInv /\ \A s \in Sessions : Held(s) = NoName
  <1>1. \A s \in Sessions : session[s] = IdleSession
    BY DEF Init
  <1>2. /\ IdleSession.pc = "idle" /\ IdleSession.lease = 0
        /\ IdleSession.flushed = 0
    BY DEF IdleSession
  <1>3. \A s \in Sessions : Held(s) = NoName /\ Sound(session[s])
    BY <1>1, <1>2, StoreAssumption DEF Held, HeldBy, Leasing, Sound
  <1>4. 0 \in Leases /\ nextLease = 1
    BY DEF Init, Leases
  <1> DEFINE slot == MakeSlot("physical", 1, 0)
  <1>5. slot \in SlotStates /\ slot.restart = 1 /\ ~slot.active
    BY <1>4 DEF MakeSlot, SlotStates, SlotsWith, Kinds, LSN
  <1>6. IdleSession \in SessionStates
    BY <1>4 DEF IdleSession, SessionStates, Counters, Kinds, LSN, Failures
  <1>7. slots \in [Slots -> {NoSlot, slot}] /\ first = 1 /\ current = 1
    BY DEF Init
  <1> HIDE DEF slot
  <1>8. TypeOK
    BY <1>4, <1>5, <1>6, <1>7 DEF TypeOK, Init, LSN
  <1>9. Base
    BY <1>3, <1>5, <1>7, <1>8, StoreAssumption DEF Base, Stored
  <1>10. \A name \in Slots : Leased(name) = {}
    BY <1>5, <1>7 DEF Leased, Stored
  <1>11. LeaseInv
    BY <1>1, <1>2, <1>3, <1>10, PrimaryAssumption DEF LeaseInv
  <1> QED
    BY <1>3, <1>9, <1>11 DEF PrimaryInv

\* What a step of the primary is.
LEMMA NextIs ==
  ASSUME PrimaryInv, [Next]_vars
  PROVE  /\ Base'
         /\ \/ \E s \in Sessions : CatalogStep(s)
            \/ /\ Stays /\ UNCHANGED session
               /\ \A name \in Slots : Leased(name)' = Leased(name)
  <1>1. ASSUME NEW s \in Sessions, Start(s)
        PROVE  Base' /\ CatalogStep(s)
    BY <1>1, StartStep DEF PrimaryInv
  <1>2. ASSUME NEW s \in Sessions, Step(s)
        PROVE  Base' /\ CatalogStep(s)
    BY <1>2, SessionStep, OldestIsLeast DEF PrimaryInv, Base
  <1>3. CASE UNCHANGED vars
    BY <1>3
       DEF vars, storeVars, PrimaryInv, Base, TypeOK, SlotStates, SessionStates,
           Leases, Stays, Position, Leased, Stored, Sound
  <1> QED
    BY <1>1, <1>2, <1>3, InvalidateSlotStep, AppendStep DEF Next, PrimaryInv

LEMMA NextInv ==
  ASSUME PrimaryInv, [Next]_vars
  PROVE  PrimaryInv'
  <1>1. CASE \E s \in Sessions : CatalogStep(s)
    BY <1>1, NextIs, QuietLeases, TakesLeases, GivesBackLeases
       DEF CatalogStep, PrimaryInv, Base
  <1>2. CASE UNCHANGED session /\ \A name \in Slots : Leased(name)' = Leased(name)
    <2>1. \A s \in Sessions : Held(s)' = Held(s)
      BY <1>2 DEF Held
    <2>2. LeaseInv'
      BY <1>2, <2>1 DEF PrimaryInv, LeaseInv
    <2> QED
      BY <2>2, NextIs DEF PrimaryInv
  <1> QED
    BY <1>1, <1>2, NextIs

\* Base and LeaseInv hold in every state: no command of a session, however it
\* fails, and no append or invalidation disturbs them.
THEOREM PrimaryInvariant == Spec => []PrimaryInv
  <1>1. Init => PrimaryInv
    BY InitInv
  <1>2. PrimaryInv /\ [Next]_vars => PrimaryInv'
    BY NextInv
  <1> QED
    BY <1>1, <1>2, PTL DEF Spec

\* The stores and the sessions have their types; in particular every lease a
\* slot or a session remembers has been issued.
THEOREM PrimaryTypes == Spec => []TypeOK
  <1>1. PrimaryInv => TypeOK
    BY DEF PrimaryInv, Base
  <1> QED
    BY <1>1, PrimaryInvariant, PTL

\* An active slot is streamed by exactly one session, whose lease is the stored
\* one, and a streaming session's slot is stored and active (Acquire, Release and
\* Is_Owner of the store; the exception handlers of both Stream procedures).
THEOREM PrimaryLeases == Spec => []LeaseIsHeld
  <1>1. ASSUME PrimaryInv
        PROVE  LeaseIsHeld
    <2>1. \A s \in Sessions, name \in Slots : Holds(s, name) <=> Held(s) = name
      BY PrimaryAssumption DEF Holds, Held, HeldBy
    <2>2. \A name \in Slots : Stored(name) /\ slots[name].active => Leased(name) # {}
      BY DEF Leased
    <2>3. \A s \in Sessions, name \in Slots :
            Held(s) = name => Owns(name, session[s].lease)
      BY <1>1 DEF PrimaryInv, LeaseInv, Leased, Owns
    <2>4. \A s, t \in Sessions, name \in Slots : Held(s) = name /\ Held(t) = name => s = t
      BY <1>1 DEF PrimaryInv, LeaseInv
    <2> QED
      BY <1>1, <2>1, <2>2, <2>3, <2>4 DEF LeaseIsHeld, PrimaryInv, LeaseInv
  <1> QED
    BY <1>1, PrimaryInvariant, PTL

-----------------------------------------------------------------------------
(* Exclusive leases *)

HolderAgrees ==
  \A name \in Slots :
    /\ \A s \in Sessions : Held(s) = name => Holder(name) = s
    /\ (\A s \in Sessions : Held(s) # name) => Holder(name) = NoName

LEMMA HolderIs == LeaseInv => HolderAgrees
  <1> SUFFICES ASSUME LeaseInv, NEW name \in Slots
               PROVE  /\ \A s \in Sessions : Held(s) = name => Holder(name) = s
                      /\ (\A s \in Sessions : Held(s) # name) => Holder(name) = NoName
    BY DEF HolderAgrees
  <1>1. \A s \in Sessions : Holds(s, name) <=> Held(s) = name
    BY PrimaryAssumption DEF Holds, Held, HeldBy
  <1>2. ASSUME NEW s \in Sessions, Held(s) = name
        PROVE  Holder(name) = s
    <2>1. \A t \in Sessions : Holds(t, name) <=> t = s
      BY <1>1, <1>2 DEF LeaseInv
    <2> QED
      BY <2>1 DEF Holder
  <1>3. (\A s \in Sessions : Held(s) # name) => Holder(name) = NoName
    BY <1>1 DEF Holder
  <1> QED
    BY <1>2, <1>3

holderBar == [name \in Slots |-> Holder(name)]
positionBar == [name \in Slots |-> IF Stored(name) THEN slots[name].restart ELSE NoSlot]

LEMMA ExclusiveInit ==
  ASSUME Init
  PROVE  Exclusive!Init
  <1>1. \A name \in Slots : Holder(name) = NoName
    BY InitInv, HolderIs, PrimaryAssumption DEF PrimaryInv, HolderAgrees
  <1>2. \A name \in Slots : Position(name) \in 0..MaxLSN \union {NoSlot}
    BY InitInv DEF PrimaryInv, Base, TypeOK, Position, SlotStates, SlotsWith, LSN, Stored
  <1> QED
    BY <1>1, <1>2 DEF Exclusive!Init, Position

LEMMA ExclusiveNext ==
  ASSUME PrimaryInv, [Next]_vars
  PROVE  [Exclusive!Next]_<<holderBar, positionBar>>
  <1>1. HolderAgrees /\ HolderAgrees'
    <2>1. LeaseInv /\ LeaseInv'
      BY NextInv DEF PrimaryInv
    <2>2. LeaseInv' => HolderAgrees'
      BY HolderIs, PTL
    <2> QED
      BY <2>1, <2>2, HolderIs
  <1>2. \A name \in Slots : (Stored(name) <=> Position(name) # NoSlot)
    BY StoreAssumption
       DEF PrimaryInv, Base, TypeOK, Stored, Position, SlotStates, SlotsWith
  <1>3. ASSUME NEW s \in Sessions, OnlyMoves(s), HeldBy(session'[s]) = Held(s)
        PROVE  UNCHANGED holderBar
    <2>1. \A t \in Sessions : Held(t)' = Held(t)
      BY <1>3 DEF OnlyMoves, Held
    <2>2. ASSUME NEW name \in Slots
          PROVE  Holder(name)' = Holder(name)
      BY <1>1, <2>1 DEF HolderAgrees
    <2> QED
      BY <2>2 DEF holderBar
  <1>4. Stays => UNCHANGED positionBar
    BY DEF Stays, Position, positionBar
  <1>5. ASSUME NEW name \in Slots, Others(name)
        PROVE  positionBar' = [positionBar EXCEPT ![name] = Position(name)']
    BY <1>5 DEF Others, Position, positionBar
  <1>6. ASSUME NEW s \in Sessions, Takes(s), Stays
        PROVE  \E name \in Slots : Exclusive!Take(name)
    <2>1. PICK name \in Slots :
            /\ Stored(name) /\ Leased(name) = {} /\ HeldBy(session'[s]) = name
      BY <1>6 DEF Takes
    <2>2. \A t \in Sessions : Held(t) # name
      BY <2>1 DEF PrimaryInv, LeaseInv
    <2>3. Held(s) = NoName /\ Held(s)' = name
      BY <1>6, <2>1 DEF Takes, Held
    <2>4. \A t \in Sessions \ {s} : Held(t)' = Held(t)
      BY <1>6 DEF Takes, OnlyMoves, Held
    <2>5. Holder(name) = NoName /\ Holder(name)' = s
      BY <1>1, <2>2, <2>3 DEF HolderAgrees
    <2>6. ASSUME NEW other \in Slots \ {name}
          PROVE  Holder(other)' = Holder(other)
      BY <1>1, <2>3, <2>4, PrimaryAssumption DEF HolderAgrees
    <2>7. holderBar' = [holderBar EXCEPT ![name] = s]
      BY <2>5, <2>6 DEF holderBar
    <2> QED
      BY <1>2, <1>4, <1>6, <2>1, <2>5, <2>7
         DEF Exclusive!Take, Exclusive!Present, holderBar, positionBar, Position
  <1>7. ASSUME NEW s \in Sessions, GivesBack(s), Stays
        PROVE  \E name \in Slots : Exclusive!GiveBack(name)
    <2>1. PICK name \in Slots : Held(s) = name
      BY <1>7 DEF GivesBack
    <2>2. \A t \in Sessions \ {s} : Held(t) # name
      BY <2>1 DEF PrimaryInv, LeaseInv
    <2>3. Held(s)' = NoName
      BY <1>7 DEF GivesBack, Held
    <2>4. \A t \in Sessions \ {s} : Held(t)' = Held(t)
      BY <1>7 DEF GivesBack, OnlyMoves, Held
    <2>5. Holder(name) = s /\ Holder(name)' = NoName
      BY <1>1, <2>1, <2>2, <2>3, <2>4, PrimaryAssumption DEF HolderAgrees
    <2>6. ASSUME NEW other \in Slots \ {name}
          PROVE  Holder(other)' = Holder(other)
      BY <1>1, <2>1, <2>3, <2>4, PrimaryAssumption DEF HolderAgrees
    <2>7. holderBar' = [holderBar EXCEPT ![name] = NoName]
      BY <2>5, <2>6 DEF holderBar
    <2> QED
      BY <1>4, <1>7, <2>5, <2>7, PrimaryAssumption
         DEF Exclusive!GiveBack, holderBar, positionBar
  <1>8. ASSUME NEW s \in Sessions, Quiet(s), Adds
        PROVE  \E name \in Slots : Exclusive!Add(name)
    <2>1. PICK name \in Slots :
            ~Stored(name) /\ Position(name)' \in 0..MaxLSN /\ Others(name)
      BY <1>8 DEF Adds
    <2>2. UNCHANGED holderBar
      BY <1>3, <1>8 DEF Quiet
    <2> QED
      BY <1>2, <1>5, <2>1, <2>2
         DEF Exclusive!Add, Exclusive!Present, holderBar, positionBar, Position
  <1>9. ASSUME NEW s \in Sessions, Quiet(s), Removes
        PROVE  \E name \in Slots : Exclusive!Remove(name)
    <2>1. PICK name \in Slots :
            /\ Stored(name) /\ Leased(name) = {}
            /\ Position(name)' = NoSlot /\ Others(name)
      BY <1>9 DEF Removes
    <2>2. UNCHANGED holderBar
      BY <1>3, <1>9 DEF Quiet
    <2>3. \A t \in Sessions : Held(t) # name
      BY <2>1 DEF PrimaryInv, LeaseInv
    <2>4. Holder(name) = NoName
      BY <1>1, <2>3 DEF HolderAgrees
    <2> QED
      BY <1>2, <1>5, <2>1, <2>2, <2>4
         DEF Exclusive!Remove, Exclusive!Present, holderBar, positionBar, Position
  <1>10. ASSUME NEW s \in Sessions, Quiet(s), Advances(s)
         PROVE  \E name \in Slots : Exclusive!Move(name)
    <2>1. PICK name \in Slots :
            /\ Held(s) = name /\ Stored(name)
            /\ Position(name)' \in 0..MaxLSN /\ Position(name)' >= Position(name)
            /\ Others(name)
      BY <1>10 DEF Advances
    <2>2. UNCHANGED holderBar
      BY <1>3, <1>10 DEF Quiet
    <2>3. Holder(name) # NoName
      BY <1>1, <2>1, PrimaryAssumption DEF HolderAgrees
    <2> QED
      BY <1>2, <1>5, <2>1, <2>2, <2>3
         DEF Exclusive!Move, Exclusive!Present, holderBar, positionBar, Position
  <1>11. CASE \E s \in Sessions : CatalogStep(s)
    BY <1>3, <1>4, <1>6, <1>7, <1>8, <1>9, <1>10, <1>11
       DEF CatalogStep, Quiet, Exclusive!Next
  <1>12. CASE Stays /\ UNCHANGED session
    <2>1. ASSUME NEW name \in Slots
          PROVE  Holder(name)' = Holder(name)
      BY <1>12 DEF Holder, Holds
    <2> QED
      BY <1>4, <1>12, <2>1 DEF holderBar
  <1> QED
    BY <1>11, <1>12, NextIs

\* Every step of a session is a step of SlotLeases, seen from the slots, or none:
\* the message exchanges and failures of Handle take, move, give back and remove
\* slots one at a time.
THEOREM PrimaryImplementsLeases == Spec => ImplementsLeases
  <1>1. Init => Exclusive!Init
    BY ExclusiveInit
  <1>2. PrimaryInv /\ [Next]_vars => [Exclusive!Next]_<<holderBar, positionBar>>
    BY ExclusiveNext
  <1> QED
    BY <1>1, <1>2, PrimaryInvariant, PTL
       DEF Spec, ImplementsLeases, Exclusive!Spec, holderBar, positionBar

-----------------------------------------------------------------------------
(* Slots advance *)

KeepsPositions ==
  \A name \in Slots : Stored(name) /\ slots'[name] # NoSlot =>
    /\ slots'[name].restart = slots[name].restart
    /\ slots'[name].confirmed = slots[name].confirmed

\* The store operations that only mark a stored slot.
Marks(name) == Stored(name) /\ (Acquire(name) \/ Release(name) \/ Invalidate(name))

LEMMA MarkIs ==
  ASSUME TypeOK, NEW name \in Slots, Marks(name)
  PROVE  /\ \A other \in Slots \ {name} : slots'[other] = slots[other]
         /\ slots'[name].restart = slots[name].restart
         /\ slots'[name].confirmed = slots[name].confirmed
         /\ slots[name].invalid => slots'[name].invalid
  <1>1. slots[name] \in SlotStates
    BY DEF Marks, TypeOK, Stored
  <1>2. PICK slot :
          /\ slots' = [slots EXCEPT ![name] = slot]
          /\ slot \in { [slots[name] EXCEPT !.active = TRUE, !.lease = nextLease],
                        [slots[name] EXCEPT !.active = FALSE, !.lease = 0],
                        [slots[name] EXCEPT !.invalid = TRUE] }
    BY Zenon DEF Marks, Acquire, Release, Invalidate
  <1>3. /\ slot.restart = slots[name].restart
        /\ slot.confirmed = slots[name].confirmed
        /\ slots[name].invalid => slot.invalid
    BY <1>1, <1>2 DEF SlotStates, SlotsWith
  <1> QED
    BY <1>2, <1>3 DEF TypeOK

LEMMA StoreKeepsPositions ==
  ASSUME TypeOK,
         \/ UNCHANGED slots
         \/ \E name \in Slots :
              \/ Marks(name)
              \/ Drop(name)
              \/ ~Stored(name) /\ \E state : Create(name, state)
  PROVE  KeepsPositions
  <1>1. \A name \in Slots : Stored(name) => slots[name] \in SlotStates
    BY DEF TypeOK, Stored
  <1>2. CASE UNCHANGED slots
    BY <1>2 DEF KeepsPositions
  <1>3. ASSUME NEW name \in Slots, Marks(name)
        PROVE  KeepsPositions
    BY <1>3, MarkIs DEF KeepsPositions
  <1>4. ASSUME NEW name \in Slots, Drop(name)
        PROVE  KeepsPositions
    BY <1>4 DEF KeepsPositions, Drop, TypeOK
  <1>5. ASSUME NEW name \in Slots, ~Stored(name), NEW state, Create(name, state)
        PROVE  KeepsPositions
    BY <1>5 DEF KeepsPositions, Create, TypeOK, Stored
  <1> QED
    BY <1>2, <1>3, <1>4, <1>5

LEMMA FailsKeepsPositions ==
  ASSUME TypeOK, NEW s \in Sessions, NEW why, Fails(s, why)
  PROVE  KeepsPositions
  BY StoreKeepsPositions DEF Fails, Owns, Stored, Marks

LEMMA AdvanceSlotMoves ==
  ASSUME Base, NEW s \in Sessions, AdvanceSlot(s), NEW name \in Slots
  PROVE  AdvancesByHolder(name)
  <1> PICK own : own = session[s].name
    OBVIOUS
  <1> DEFINE flushed == session[s].flushed
             confirmed == Confirmed(s)
             slot == [slots[own] EXCEPT !.restart = flushed, !.confirmed = confirmed]
  <1>1. CASE KeepsPositions
    BY <1>1 DEF KeepsPositions, AdvancesByHolder
  <1>2. CASE /\ Reportable(s)
             /\ CanAdvance(own, session[s].lease, flushed, confirmed)
             /\ Advance(own, flushed, confirmed)
    <2>1. slots' = [slots EXCEPT ![own] = slot]
      BY <1>2, Zenon DEF Advance
    <2>2. /\ own \in Slots /\ slots[own] \in SlotStates
          /\ flushed >= slots[own].restart /\ confirmed >= slots[own].confirmed
      BY <1>2 DEF CanAdvance, Owns, Stored, Base, TypeOK
    <2>3. slot.restart = flushed /\ slot.confirmed = confirmed
      BY <2>2 DEF SlotStates, SlotsWith
    <2> HIDE DEF slot, confirmed
    <2>4. Holds(s, own) /\ flushed <= session[s].position
      <3>1. session[s] \in SessionStates /\ session[s].pc = "advance" /\ Sound(session[s])
        BY DEF Base, TypeOK, AdvanceSlot, At
      <3> QED
        BY <1>2, <3>1 DEF Sound, Reportable, Holds, Leasing, SessionStates, LSN
    <2>5. slots'[own] = slot /\ (name # own => slots'[name] = slots[name])
      BY <2>1, <2>2 DEF Base, TypeOK
    <2> QED
      BY <2>2, <2>3, <2>4, <2>5 DEF AdvancesByHolder
  <1>3. CASE \/ Fails(s, "feedback exceeds streamed WAL")
             \/ Fails(s, "advancement lost its lease")
    BY <1>1, <1>3, FailsKeepsPositions DEF Base
  <1>4. CASE UNCHANGED storeVars
    BY <1>1, <1>4, StoreKeepsPositions DEF Base, storeVars
  <1> QED
    BY <1>2, <1>3, <1>4 DEF AdvanceSlot

LEMMA OtherStepsKeepPositions ==
  ASSUME TypeOK, NEW s \in Sessions, Start(s) \/ Step(s), ~AdvanceSlot(s)
  PROVE  KeepsPositions
  <1>1. CASE Start(s)
    BY <1>1, StoreKeepsPositions
       DEF Start, StartPhysical, StartLogical, StartCreate, StartDrop, storeVars
  <1>2. CASE AcquireSlot(s)
    BY <1>2, StoreKeepsPositions DEF AcquireSlot, CanAcquire, Stored, storeVars, Marks
  <1>3. CASE CheckPosition(s) \/ SendWAL(s) \/ BreakOff(s) \/ Retain(s)
    BY <1>3, StoreKeepsPositions, FailsKeepsPositions
       DEF CheckPosition, SendWAL, BreakOff, Retain, storeVars
  <1>4. CASE SendKeepalive(s) \/ StandbyStatus(s) \/ StandbyDone(s) \/ CompleteCopy(s)
             \/ DropTimesOut(s) \/ Respond(s) \/ ReadFloor(s) \/ SendChange(s)
    BY <1>4, StoreKeepsPositions
       DEF SendKeepalive, StandbyStatus, StandbyDone, CompleteCopy, DropTimesOut,
           Respond, ReadFloor, SendChange, storeVars
  <1>5. CASE ReleaseSlot(s)
    BY <1>5, StoreKeepsPositions, FailsKeepsPositions DEF ReleaseSlot, Owns, Stored, Marks
  <1>6. CASE CreateSlot(s)
    <2>1. CASE UNCHANGED slots
      BY <2>1, StoreKeepsPositions
    <2>2. CASE session[s].name \in Slots
      BY <1>6, <2>2, StoreKeepsPositions DEF CreateSlot, storeVars
    <2>3. CASE session[s].name \notin Slots
      <3>1. slots' = slots
        BY <1>6, <2>3 DEF CreateSlot, Create, storeVars, TypeOK
      <3> QED
        BY <2>1, <3>1
    <2> QED
      BY <2>2, <2>3
  <1>7. CASE DropSlot(s)
    BY <1>7, StoreKeepsPositions DEF DropSlot, CanDrop, Stored, storeVars
  <1> QED
    BY <1>1, <1>2, <1>3, <1>4, <1>5, <1>6, <1>7 DEF Step

\* A slot never moves back, and only its holder moves it, to a position it has
\* sent (Advance after Await_Feedback, in both Stream procedures).
THEOREM PrimarySlotsAdvance == Spec => SlotsAdvance
  <1>1. ASSUME PrimaryInv, [Next]_vars
        PROVE  [\A name \in Slots : AdvancesByHolder(name)]_vars
    <2>1. KeepsPositions => \A name \in Slots : AdvancesByHolder(name)
      BY DEF KeepsPositions, AdvancesByHolder
    <2>2. ASSUME NEW s \in Sessions, Start(s) \/ Step(s)
          PROVE  \A name \in Slots : AdvancesByHolder(name)
      BY <1>1, <2>1, <2>2, AdvanceSlotMoves, OtherStepsKeepPositions DEF PrimaryInv, Base
    <2>3. ASSUME NEW name \in Slots, InvalidateSlot(name)
          PROVE  KeepsPositions
      BY <1>1, <2>3, StoreKeepsPositions DEF InvalidateSlot, Invalidate, Marks, PrimaryInv, Base
    <2>4. CASE Append
      BY <1>1, <2>1, <2>4, StoreKeepsPositions DEF Append, AppendWAL, PrimaryInv, Base
    <2> QED
      BY <1>1, <2>1, <2>2, <2>3, <2>4 DEF Next
  <1> QED
    BY <1>1, PrimaryInvariant, PTL DEF Spec, SlotsAdvance

-----------------------------------------------------------------------------
(* What slots need is retained *)

\* CREATE_REPLICATION_SLOT reads the position and stores the slot while no other
\* command runs; without this, the run CreateRace refutes SlotsAreRetained.
CreatesAlone == "create anywhere" \notin Liberties

RetentionInv ==
  /\ first <= current
  /\ SlotsAreRetained
  /\ \A s \in Sessions : At(s, "create") =>
       /\ first <= session[s].position
       /\ \A t \in Sessions \ {s} : At(t, "idle")
  /\ \A s \in Sessions : At(s, "retain") =>
       \A name \in Retaining : session[s].floor <= slots[name].restart

RetainsNoMore ==
  \A name \in Slots : Stored(name)' /\ ~slots'[name].invalid =>
    /\ Stored(name) /\ ~slots[name].invalid
    /\ slots[name].restart <= slots'[name].restart

LEMMA StoreRetainsNoMore ==
  ASSUME TypeOK,
         \/ UNCHANGED slots
         \/ \E name \in Slots :
              \/ Marks(name)
              \/ Drop(name)
              \/ \E lease, restart, confirmed \in Nat :
                   /\ CanAdvance(name, lease, restart, confirmed)
                   /\ Advance(name, restart, confirmed)
  PROVE  RetainsNoMore
  <1>1. \A name \in Slots : Stored(name) => slots[name] \in SlotStates
    BY DEF TypeOK, Stored
  <1>2. \A name \in Slots : Stored(name) => slots[name].restart \in Nat
    BY <1>1 DEF SlotStates, SlotsWith, LSN
  <1>3. CASE UNCHANGED slots
    BY <1>2, <1>3 DEF RetainsNoMore, Stored
  <1>4. ASSUME NEW name \in Slots, Marks(name)
        PROVE  RetainsNoMore
    <2>1. Stored(name)
      BY <1>4 DEF Marks
    <2>2. ASSUME NEW other \in Slots, Stored(other)', ~slots'[other].invalid
          PROVE  /\ Stored(other) /\ ~slots[other].invalid
                 /\ slots[other].restart = slots'[other].restart
      BY <1>4, <2>1, <2>2, MarkIs DEF Stored
    <2> QED
      BY <1>2, <2>2 DEF RetainsNoMore
  <1>5. ASSUME NEW name \in Slots, Drop(name)
        PROVE  RetainsNoMore
    BY <1>2, <1>5 DEF RetainsNoMore, Drop, TypeOK, Stored
  <1>6. ASSUME NEW name \in Slots, NEW lease \in Nat,
               NEW restart \in Nat, NEW confirmed \in Nat,
               CanAdvance(name, lease, restart, confirmed),
               Advance(name, restart, confirmed)
        PROVE  RetainsNoMore
    <2> DEFINE slot == [slots[name] EXCEPT !.restart = restart, !.confirmed = confirmed]
    <2>1. slots' = [slots EXCEPT ![name] = slot]
      BY <1>6, Zenon DEF Advance
    <2>2. Stored(name) /\ slots[name] \in SlotStates /\ restart >= slots[name].restart
      BY <1>1, <1>6 DEF CanAdvance, Owns, Stored
    <2>3. slot.restart = restart /\ slot.invalid = slots[name].invalid
      BY <2>2 DEF SlotStates, SlotsWith
    <2> HIDE DEF slot
    <2> QED
      BY <1>2, <2>1, <2>2, <2>3 DEF RetainsNoMore, TypeOK, Stored
  <1> QED
    BY <1>3, <1>4, <1>5, <1>6

\* s moves to a counter that promises nothing, and is not alone only if nobody creates.
Inert(s) ==
  /\ OnlyMoves(s)
  /\ session'[s].pc \notin {"create", "retain"}
  /\ At(s, "idle") => \A t \in Sessions : ~At(t, "create")
  /\ UNCHANGED <<first, current>>
  /\ RetainsNoMore

LEMMA InertRetains ==
  ASSUME Base, Base', RetentionInv, NEW s \in Sessions, Inert(s)
  PROVE  RetentionInv'
  <1>1. Retaining' \subseteq Retaining
    BY DEF Inert, RetainsNoMore, Retaining
  <1>2. \A name \in Retaining' : /\ slots[name].restart <= slots'[name].restart
                                 /\ slots[name].restart \in Nat
                                 /\ slots'[name].restart \in Nat
    <2>1. ASSUME NEW name \in Slots, Stored(name)
          PROVE  slots[name].restart \in Nat
      BY <2>1 DEF Base, TypeOK, Stored, SlotStates, SlotsWith, LSN
    <2>2. ASSUME NEW name \in Slots, Stored(name)'
          PROVE  slots'[name].restart \in Nat
      BY <2>2 DEF Base, TypeOK, Stored, SlotStates, SlotsWith, LSN
    <2> QED
      BY <2>1, <2>2 DEF Inert, RetainsNoMore, Retaining
  <1>3. SlotsAreRetained'
    BY <1>1, <1>2 DEF RetentionInv, SlotsAreRetained, Inert, Base, TypeOK, LSN
  <1>4. ASSUME NEW t \in Sessions, At(t, "create")'
        PROVE  FALSE
    <2>1. t # s /\ At(t, "create")
      BY <1>4 DEF Inert, OnlyMoves, At
    <2>2. At(s, "idle")
      BY <2>1 DEF RetentionInv
    <2> QED
      BY <2>1, <2>2 DEF Inert
  <1>5. ASSUME NEW t \in Sessions, At(t, "retain")', NEW name \in Retaining'
        PROVE  session'[t].floor <= slots'[name].restart
    <2>1. t # s /\ At(t, "retain") /\ session'[t] = session[t]
      BY <1>5 DEF Inert, OnlyMoves, At
    <2>2. session[t].floor <= slots[name].restart /\ session[t].floor \in Nat
      BY <1>1, <2>1 DEF RetentionInv, Base, TypeOK, SessionStates, LSN
    <2> QED
      BY <1>2, <2>1, <2>2
  <1>6. (first <= current)'
    BY DEF RetentionInv, Inert
  <1> QED
    BY <1>3, <1>4, <1>5, <1>6 DEF RetentionInv

LEMMA FailsInert ==
  ASSUME Base, NEW s \in Sessions, ~At(s, "idle"), NEW why \in Failures, Fails(s, why)
  PROVE  Inert(s)
  <1> DEFINE r == [IdleSession EXCEPT !.failed = why]
  <1>1. session' = [session EXCEPT ![s] = r] /\ UNCHANGED <<first, current>>
    BY Zenon DEF Fails
  <1>2. r.pc = "idle"
    BY IdleIsState DEF Base
  <1>3. RetainsNoMore
    BY StoreRetainsNoMore DEF Fails, Owns, Stored, Marks, Base
  <1> HIDE DEF r
  <1> QED
    BY <1>1, <1>2, <1>3 DEF Inert, OnlyMoves, Base, TypeOK

LEMMA EndsInert ==
  ASSUME Base, NEW s \in Sessions, ~At(s, "idle"), Ends(s), UNCHANGED storeVars
  PROVE  Inert(s)
  <1>1. IdleSession.pc = "idle"
    BY IdleIsState DEF Base
  <1>2. RetainsNoMore
    BY StoreRetainsNoMore DEF storeVars, Base
  <1> QED
    BY <1>1, <1>2 DEF Inert, OnlyMoves, Base, TypeOK, Ends, storeVars

LEMMA GotoInert ==
  ASSUME Base, NEW s \in Sessions, ~At(s, "idle"),
         NEW pc \in Counters \ {"create", "retain"}, Goto(s, pc),
         UNCHANGED <<first, current>>, RetainsNoMore
  PROVE  Inert(s)
  BY DEF Inert, OnlyMoves, Base, TypeOK, SessionStates, Goto

LEMMA StepInert ==
  ASSUME Base, NEW s \in Sessions, Step(s),
         ~CreateSlot(s), ~ReadFloor(s), ~Retain(s)
  PROVE  Inert(s)
  <1>0. ASSUME UNCHANGED slots
        PROVE  RetainsNoMore
    BY <1>0, StoreRetainsNoMore DEF Base
  <1>1. CASE AcquireSlot(s)
    <2>1. CASE CanAcquire(session[s].name, session[s].kind)
      <3>1. RetainsNoMore
        BY <1>1, <2>1, StoreRetainsNoMore DEF AcquireSlot, CanAcquire, Stored, Marks, Base
      <3> QED
        BY <1>1, <2>1, <3>1, ZenonT(60)
           DEF AcquireSlot, At, Inert, OnlyMoves, Base, TypeOK, SessionStates
    <2>2. CASE ~CanAcquire(session[s].name, session[s].kind)
      BY <1>1, <2>2, EndsInert DEF AcquireSlot, At
    <2> QED
      BY <2>1, <2>2
  <1>2. CASE CheckPosition(s)
    BY <1>0, <1>2, GotoInert, FailsInert
       DEF CheckPosition, At, Counters, Failures, storeVars
  <1>3. CASE SendWAL(s)
    <2>1. CASE session[s].position < first
      BY <1>3, <2>1, FailsInert DEF SendWAL, At, Failures
    <2>2. CASE ~(session[s].position < first)
      BY <1>0, <1>3, <2>2
         DEF SendWAL, At, Inert, OnlyMoves, Base, TypeOK, SessionStates, storeVars
    <2> QED
      BY <2>1, <2>2
  <1>4. CASE SendKeepalive(s) \/ StandbyDone(s) \/ SendChange(s)
    BY <1>0, <1>4, ZenonT(60)
       DEF SendKeepalive, StandbyDone, SendChange, At, Inert, OnlyMoves, Base,
           TypeOK, SessionStates, storeVars
  <1>5. CASE StandbyStatus(s)
    BY <1>0, <1>5
       DEF StandbyStatus, At, Inert, OnlyMoves, Base, TypeOK, SessionStates, storeVars
  <1>6. CASE CompleteCopy(s)
    BY <1>0, <1>6
       DEF CompleteCopy, IdleSession, At, Inert, OnlyMoves, Base, TypeOK, storeVars
  <1>7. CASE AdvanceSlot(s)
    <2>1. CASE Goto(s, "complete") /\ UNCHANGED <<first, current>> /\ RetainsNoMore
      BY <1>7, <2>1, GotoInert DEF AdvanceSlot, At, Counters
    <2>2. session[s].lease \in Nat /\ session[s].flushed \in Nat /\ Confirmed(s) \in Nat
      BY DEF Base, TypeOK, SessionStates, Leases, LSN, Confirmed
    <2>3. CASE /\ CanAdvance(session[s].name, session[s].lease,
                             session[s].flushed, Confirmed(s))
               /\ Advance(session[s].name, session[s].flushed, Confirmed(s))
               /\ Goto(s, "complete") /\ UNCHANGED <<nextLease, first, current>>
      <3>1. session[s].name \in Slots
        BY <2>3 DEF CanAdvance, Owns, Stored
      <3>2. RetainsNoMore
        BY <2>2, <2>3, <3>1, StoreRetainsNoMore DEF Base
      <3> QED
        BY <2>1, <2>3, <3>2
    <2>4. CASE \/ Fails(s, "feedback exceeds streamed WAL")
               \/ Fails(s, "advancement lost its lease")
      BY <1>7, <2>4, FailsInert DEF AdvanceSlot, At, Failures
    <2> QED
      BY <1>0, <1>7, <2>1, <2>3, <2>4 DEF AdvanceSlot, storeVars
  <1>8. CASE ReleaseSlot(s)
    <2>1. CASE Owns(session[s].name, session[s].lease)
      <3>1. RetainsNoMore
        BY <1>8, <2>1, StoreRetainsNoMore DEF ReleaseSlot, Owns, Stored, Marks, Base
      <3> QED
        BY <1>8, <2>1, <3>1
           DEF ReleaseSlot, At, Inert, OnlyMoves, Base, TypeOK, SessionStates
    <2>2. CASE ~Owns(session[s].name, session[s].lease)
      BY <1>8, <2>2, FailsInert DEF ReleaseSlot, At, Failures
    <2> QED
      BY <2>1, <2>2
  <1>9. CASE DropSlot(s)
    <2>1. CASE CanDrop(session[s].name)
      <3>1. RetainsNoMore
        BY <1>9, <2>1, StoreRetainsNoMore DEF DropSlot, CanDrop, Stored, Base
      <3> QED
        BY <1>9, <2>1, <3>1, GotoInert DEF DropSlot, At, Counters
    <2>2. CASE ~CanDrop(session[s].name)
      BY <1>9, <2>2, EndsInert DEF DropSlot, At
    <2> QED
      BY <2>1, <2>2
  <1>10. CASE DropTimesOut(s)
    BY <1>10, EndsInert DEF DropTimesOut, At
  <1>11. CASE Respond(s)
    BY <1>0, <1>11, GotoInert DEF Respond, At, Counters, storeVars
  <1>12. CASE BreakOff(s)
    BY <1>12, FailsInert DEF BreakOff, At, Failures
  <1> QED
    BY <1>1, <1>2, <1>3, <1>4, <1>5, <1>6, <1>7, <1>8, <1>9, <1>10, <1>11, <1>12 DEF Step

LEMMA StartIs ==
  ASSUME Base, NEW s \in Sessions
  PROVE  /\ StartPhysical(s) \/ StartLogical(s) \/ StartDrop(s) =>
              OnlyMoves(s) /\ session'[s].pc \in {"check", "acquire", "drop"}
         /\ StartCreate(s) => /\ OnlyMoves(s)
                              /\ session'[s].pc = "create"
                              /\ session'[s].position = current
  <1>1. IdleSession \in SessionStates
    BY IdleIsState DEF Base
  <1>2. ASSUME NEW r, session' = [session EXCEPT ![s] = r]
        PROVE  OnlyMoves(s) /\ session'[s] = r
    BY <1>2 DEF OnlyMoves, Base, TypeOK
  <1>3. ASSUME StartPhysical(s)
        PROVE  OnlyMoves(s) /\ session'[s].pc \in {"check", "acquire"}
    <2>1. PICK name, position :
            session' = [session EXCEPT ![s] =
              [IdleSession EXCEPT
                 !.pc = IF name = NoName THEN "check" ELSE "acquire",
                 !.name = name, !.position = position, !.end = current]]
      BY <1>3, Zenon DEF StartPhysical
    <2> DEFINE pc == IF name = NoName THEN "check" ELSE "acquire"
               r == [IdleSession EXCEPT !.pc = pc, !.name = name,
                                        !.position = position, !.end = current]
    <2>2. session' = [session EXCEPT ![s] = r]
      BY <2>1, Zenon
    <2>3. r.pc = pc
      BY <1>1 DEF SessionStates
    <2> HIDE DEF r
    <2> QED
      BY <1>2, <2>2, <2>3
  <1>4. ASSUME StartLogical(s)
        PROVE  OnlyMoves(s) /\ session'[s].pc = "acquire"
    <2>1. PICK name, position :
            session' = [session EXCEPT ![s] =
              [IdleSession EXCEPT !.pc = "acquire", !.kind = "logical",
                                  !.name = name, !.position = position]]
      BY <1>4, Zenon DEF StartLogical
    <2> QED
      BY <1>1, <1>2, <2>1, ZenonT(60) DEF SessionStates
  <1>5. ASSUME StartDrop(s)
        PROVE  OnlyMoves(s) /\ session'[s].pc = "drop"
    <2>1. PICK name, wait :
            session' = [session EXCEPT ![s] =
              [IdleSession EXCEPT !.pc = "drop", !.name = name, !.wait = wait]]
      BY <1>5, Zenon DEF StartDrop
    <2> QED
      BY <1>1, <1>2, <2>1, ZenonT(60) DEF SessionStates
  <1>6. ASSUME StartCreate(s)
        PROVE  /\ OnlyMoves(s)
               /\ session'[s].pc = "create" /\ session'[s].position = current
    <2>1. PICK name :
            session' = [session EXCEPT ![s] =
              [IdleSession EXCEPT !.pc = "create", !.kind = "logical",
                                  !.name = name, !.position = current]]
      BY <1>6, Zenon DEF StartCreate
    <2> QED
      BY <1>1, <1>2, <2>1, ZenonT(60) DEF SessionStates
  <1> QED
    BY <1>3, <1>4, <1>5, <1>6

LEMMA StartRetains ==
  ASSUME CreatesAlone,
         Base, Base', RetentionInv, NEW s \in Sessions, Start(s)
  PROVE  RetentionInv'
  <1>1. At(s, "idle") /\ UNCHANGED storeVars /\ \A t \in Sessions : ~At(t, "create")
    BY DEF CreatesAlone, Start, StartPhysical, StartLogical, StartCreate, StartDrop
  <1>2. RetainsNoMore
    BY <1>1, StoreRetainsNoMore DEF Base, storeVars
  <1>3. CASE StartPhysical(s) \/ StartLogical(s) \/ StartDrop(s)
    BY <1>1, <1>2, <1>3, StartIs, InertRetains DEF Inert, storeVars
  <1>4. CASE StartCreate(s)
    <2>1. /\ OnlyMoves(s)
          /\ session'[s].pc = "create" /\ session'[s].position = current
      BY <1>4, StartIs
    <2>2. \A t \in Sessions : At(t, "idle")
      BY <1>4 DEF StartCreate, CreatesAlone
    <2>3. \A t \in Sessions \ {s} : session'[t].pc = "idle"
      BY <2>1, <2>2 DEF OnlyMoves, At
    <2>4. UNCHANGED <<first, current, Retaining>> /\ SlotsAreRetained'
      BY <1>1 DEF storeVars, Retaining, Stored, RetentionInv, SlotsAreRetained
    <2> QED
      BY <2>1, <2>3, <2>4 DEF RetentionInv, At
  <1> QED
    BY <1>3, <1>4 DEF Start

LEMMA CreateSlotRetains ==
  ASSUME Base, Base', RetentionInv, NEW s \in Sessions, CreateSlot(s)
  PROVE  RetentionInv'
  <1> PICK name, position :
        name = session[s].name /\ position = session[s].position
    OBVIOUS
  <1> DEFINE slot == MakeSlot("logical", position, position)
  <1>1. /\ At(s, "create") /\ first <= position
        /\ \A t \in Sessions \ {s} : At(t, "idle")
    BY DEF CreateSlot, RetentionInv
  <1>2. CASE /\ Create(name, slot) /\ Goto(s, "respond")
             /\ UNCHANGED <<nextLease, first, current>>
    <2>1. slots' = [slots EXCEPT ![name] = slot]
      BY <1>2 DEF Create
    <2>2. slot.restart = position
      BY DEF MakeSlot
    <2> HIDE DEF slot
    <2>3. OnlyMoves(s) /\ session'[s].pc = "respond"
      BY <1>2 DEF Goto, OnlyMoves, Base, TypeOK, SessionStates
    <2>4. \A t \in Sessions : session'[t].pc \in {"idle", "respond"}
      BY <1>1, <2>3 DEF OnlyMoves, At
    <2>5. \A other \in Slots : slots'[other] = IF other = name THEN slot ELSE slots[other]
      BY <2>1 DEF Base, TypeOK
    <2>6. SlotsAreRetained'
      BY <1>1, <1>2, <2>2, <2>5 DEF SlotsAreRetained, Retaining, Stored, RetentionInv
    <2> QED
      BY <1>2, <2>4, <2>6 DEF RetentionInv, At
  <1>3. CASE Ends(s) /\ UNCHANGED storeVars
    BY <1>1, <1>3, EndsInert, InertRetains DEF At
  <1> QED
    BY <1>2, <1>3 DEF CreateSlot

LEMMA ReadFloorRetains ==
  ASSUME Base, Base', RetentionInv, NEW s \in Sessions, ReadFloor(s)
  PROVE  RetentionInv'
  <1>1. CASE OldestRestart > first
    <2>1. /\ OnlyMoves(s)
          /\ session'[s].pc = "retain" /\ session'[s].floor = OldestRestart
      <3> DEFINE r == [session[s] EXCEPT !.floor = OldestRestart, !.pc = "retain"]
      <3>1. session' = [session EXCEPT ![s] = r]
        BY <1>1, Zenon DEF ReadFloor
      <3>2. r.pc = "retain" /\ r.floor = OldestRestart
        BY DEF Base, TypeOK, SessionStates
      <3> HIDE DEF r
      <3> QED
        BY <3>1, <3>2 DEF OnlyMoves, Base, TypeOK
    <2>2. UNCHANGED <<first, current, Retaining, slots>> /\ SlotsAreRetained'
      BY <1>1 DEF ReadFloor, storeVars, Retaining, Stored, RetentionInv, SlotsAreRetained
    <2>3. \A name \in Retaining : OldestRestart <= slots[name].restart
      BY OldestIsLeast DEF Base
    <2>4. ASSUME NEW t \in Sessions, At(t, "create")'
          PROVE  FALSE
      <3>1. t # s /\ At(t, "create")
        BY <2>1, <2>4 DEF OnlyMoves, At
      <3> QED
        BY <3>1 DEF RetentionInv, ReadFloor, At
    <2>5. ASSUME NEW t \in Sessions, At(t, "retain")', NEW name \in Retaining
          PROVE  session'[t].floor <= slots[name].restart
      BY <2>1, <2>3, <2>5 DEF RetentionInv, OnlyMoves, At
    <2> QED
      BY <2>2, <2>4, <2>5 DEF RetentionInv
  <1>2. CASE ~(OldestRestart > first)
    BY <1>2, EndsInert, InertRetains DEF ReadFloor, At
  <1> QED
    BY <1>1, <1>2

LEMMA RetainRetains ==
  ASSUME Base, Base', RetentionInv, NEW s \in Sessions, Retain(s)
  PROVE  RetentionInv'
  <1>1. CASE session[s].floor <= current
    <2>1. OnlyMoves(s) /\ session'[s].pc = "idle"
      BY <1>1, IdleIsState DEF Retain, Ends, OnlyMoves, Base, TypeOK
    <2>2. UNCHANGED <<slots, current, Retaining>>
      BY <1>1 DEF Retain, Retaining, Stored
    <2>3. first' = first \/ first' = session[s].floor
      BY <1>1 DEF Retain, RetainFrom
    <2>4. (first <= current)'
      BY <1>1, <2>2, <2>3 DEF RetentionInv
    <2>5. SlotsAreRetained'
      BY <2>2, <2>3 DEF SlotsAreRetained, RetentionInv, Retain
    <2>6. ASSUME NEW t \in Sessions, At(t, "create")'
          PROVE  FALSE
      <3>1. t # s /\ At(t, "create")
        BY <2>1, <2>6 DEF OnlyMoves, At
      <3> QED
        BY <3>1 DEF RetentionInv, Retain, At
    <2>7. ASSUME NEW t \in Sessions, At(t, "retain")', NEW name \in Retaining
          PROVE  session'[t].floor <= slots[name].restart
      BY <2>1, <2>7 DEF RetentionInv, OnlyMoves, At
    <2> QED
      BY <2>2, <2>4, <2>5, <2>6, <2>7 DEF RetentionInv
  <1>2. CASE ~(session[s].floor <= current)
    BY <1>2, FailsInert, InertRetains DEF Retain, At, Failures
  <1> QED
    BY <1>1, <1>2

LEMMA RetentionNext ==
  ASSUME CreatesAlone, PrimaryInv, RetentionInv, [Next]_vars
  PROVE  RetentionInv'
  <1>1. Base /\ Base'
    BY NextIs DEF PrimaryInv
  <1>2. ASSUME NEW s \in Sessions, Start(s)
        PROVE  RetentionInv'
    BY <1>1, <1>2, StartRetains
  <1>3. ASSUME NEW s \in Sessions, Step(s)
        PROVE  RetentionInv'
    BY <1>1, <1>3, StepInert, InertRetains, CreateSlotRetains, ReadFloorRetains,
       RetainRetains
  <1>4. ASSUME NEW name \in Slots, InvalidateSlot(name)
        PROVE  RetentionInv'
    <2>1. UNCHANGED <<first, current, session>> /\ RetainsNoMore
      BY <1>1, <1>4, StoreRetainsNoMore DEF InvalidateSlot, Invalidate, Marks, Base
    <2>2. \A other \in Retaining' : /\ other \in Retaining
                                    /\ slots[other].restart = slots'[other].restart
      BY <1>1, <1>4, <2>1
         DEF RetainsNoMore, Retaining, InvalidateSlot, Invalidate, Base, TypeOK,
             Stored, SlotStates, SlotsWith
    <2> QED
      BY <2>1, <2>2 DEF RetentionInv, SlotsAreRetained, At
  <1>5. CASE Append
    <2>1. UNCHANGED <<first, slots, session>> /\ current' = current + 1
      BY <1>5 DEF Append, AppendWAL
    <2>2. /\ first \in Nat /\ current \in Nat /\ first <= current
          /\ first' \in Nat /\ current' \in Nat /\ first' = first
      BY <1>1, <2>1 DEF RetentionInv, Base, TypeOK, LSN
    <2>3. (first <= current)'
      BY <2>1, <2>2
    <2> QED
      BY <2>1, <2>3 DEF RetentionInv, SlotsAreRetained, Retaining, Stored, At
  <1>6. CASE UNCHANGED vars
    BY <1>6 DEF vars, storeVars, RetentionInv, SlotsAreRetained, Retaining, Stored, At
  <1> QED
    BY <1>2, <1>3, <1>4, <1>5, <1>6 DEF Next

\* Apply_Retention never trims what a slot still needs, if no slot is created
\* beside another command: the floor a session has read is at or below every
\* slot's restart position until it is applied.
THEOREM PrimaryRetains ==
  ASSUME CreatesAlone
  PROVE  Spec => []SlotsAreRetained
  <1>1. Init => RetentionInv
    <2> SUFFICES ASSUME Init
                 PROVE  RetentionInv
      OBVIOUS
    <2>1. \A s \in Sessions : session[s].pc = "idle"
      BY DEF Init, IdleSession
    <2>2. first = 1 /\ current = 1
      BY DEF Init
    <2>3. \A name \in Slots : Stored(name) => slots[name].restart = 1
      <3> DEFINE slot == MakeSlot("physical", 1, 0)
      <3>1. slots \in [Slots -> {NoSlot, slot}]
        BY DEF Init
      <3>2. slot.restart = 1
        BY DEF MakeSlot
      <3> HIDE DEF slot
      <3> QED
        BY <3>1, <3>2 DEF Stored
    <2>4. first <= current /\ SlotsAreRetained
      BY <2>2, <2>3, SMT DEF SlotsAreRetained, Retaining
    <2> QED
      BY <2>1, <2>4 DEF RetentionInv, At
  <1>2. PrimaryInv /\ RetentionInv /\ [Next]_vars => RetentionInv'
    BY RetentionNext
  <1>3. RetentionInv => SlotsAreRetained
    BY DEF RetentionInv
  <1> QED
    BY <1>1, <1>2, <1>3, PrimaryInvariant, PTL DEF Spec

=============================================================================
