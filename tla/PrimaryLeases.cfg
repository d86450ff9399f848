CONSTANTS
  Slots = {a}
  NoSlot = NoSlot
  NoName = NoName
  Capacity = 1
  MaxLSN = 2
  MaxLease = 3
  Chunk = 1
  Sessions = {s1, s2}
  Liberties = {"append", "lie", "create anywhere"}
SPECIFICATION FairSpec
INVARIANT TypeOK
INVARIANT LeaseIsHeld
PROPERTY SlotsAdvance
PROPERTY ImplementsLeases
PROPERTY CommandsEnd
