------------------------------ MODULE SlotLeases ------------------------------
(***************************************************************************)
(* What a slot store and the sessions that use it promise together: a slot *)
(* is held by at most one session, only its holder moves it, only forward, *)
(* and it is not removed while it is held.  Leases, message exchanges and  *)
(* failures are invisible here.                                            *)
(***************************************************************************)
CONSTANTS
  Slots, Sessions,
  Positions,  \* a set of naturals
  Nobody,     \* the holder of a slot nobody holds
  Absent      \* the position of a slot that is not stored

VARIABLES holder, position

LOCAL INSTANCE Naturals

Init ==
  /\ holder = [name \in Slots |-> Nobody]
  /\ position \in [Slots -> Positions \union {Absent}]

Present(name) == position[name] # Absent

Add(name) ==
  /\ ~Present(name)
  /\ \E p \in Positions : position' = [position EXCEPT ![name] = p]
  /\ UNCHANGED holder

Remove(name) ==
  /\ Present(name) /\ holder[name] = Nobody
  /\ position' = [position EXCEPT ![name] = Absent]
  /\ UNCHANGED holder

Take(name) ==
  /\ Present(name) /\ holder[name] = Nobody
  /\ \E s \in Sessions : holder' = [holder EXCEPT ![name] = s]
  /\ UNCHANGED position

GiveBack(name) ==
  /\ holder[name] # Nobody
  /\ holder' = [holder EXCEPT ![name] = Nobody]
  /\ UNCHANGED position

Move(name) ==
  /\ Present(name) /\ holder[name] # Nobody
  /\ \E p \in Positions :
       /\ p >= position[name]
       /\ position' = [position EXCEPT ![name] = p]
  /\ UNCHANGED holder

Next ==
  \E name \in Slots :
    Add(name) \/ Remove(name) \/ Take(name) \/ GiveBack(name) \/ Move(name)

Spec == Init /\ [][Next]_<<holder, position>>
=============================================================================
