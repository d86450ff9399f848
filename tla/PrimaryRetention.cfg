CONSTANTS
  Slots = {a, b}
  NoSlot = NoSlot
  NoName = NoName
  Capacity = 2
  MaxLSN = 2
  MaxLease = 4
  Chunk = 1
  Sessions = {s1, s2}
  Liberties = {"append"}
SPECIFICATION Spec
SYMMETRY Symmetry
INVARIANT SlotsAreRetained
