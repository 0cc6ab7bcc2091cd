SPECIFICATION Spec
CONSTANTS
  p = p
  q = q
  r = r
  w = w
  Producers = {p, q}
  Empty = Empty
  InitialRound <- TwoSeats
  NextRound <- TwoSeatsShuffled
  Threshold = 7000
  Headers <- GoodHeaders
  NoHash = NoHash
  MaxNumber = 4
  MaxGap = 2
  MaxBlocks = 9
INVARIANTS
  SwitchIsPossible
