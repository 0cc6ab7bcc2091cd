SPECIFICATION Spec
CONSTANTS
  p = p
  q = q
  r = r
  w = w
  Producers = {p, q, r, w}
  Empty = Empty
  InitialRound <- FiveSeats
  NextRound <- FiveSeatsShuffled
  Threshold = 7000
  Headers <- GoodHeaders
  NoHash = NoHash
  MaxNumber = 8
  MaxGap = 2
  MaxBlocks = 11
PROPERTIES
  ThresholdMet
