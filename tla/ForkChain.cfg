SPECIFICATION Spec
CONSTANTS
  p = p
  q = q
  r = r
  w = w
  Producers = {p, q}
  Empty = Empty
  InitialRound <- TwoSeats
  NextRound <- SeatLost
  Threshold = 7000
  Headers <- AllHeaders
  NoHash = NoHash
  MaxNumber = 3
  MaxGap = 2
  MaxBlocks = 6
INVARIANTS
  
  
  IndexIsCanonical
PROPERTIES
  IrreversibleStays
  
