SPECIFICATION Spec
CONSTANTS
  n1 = n1
  n2 = n2
  Nodes = {n1, n2}
  Round <- Seats
  Stale = {n1}
  GenesisTime = 2
  Bits = 3
  Word = 16
  MaxTime = 24
INVARIANTS
  SlotRoundTrip
  BitmapIsHistory
  MissedAreEmptySlots
PROPERTIES
  FreshSlot
