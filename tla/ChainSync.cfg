SPECIFICATION Spec
CONSTANTS
  p1 = p1
  p2 = p2
  Peers = {p1, p2}
  NumBlocks = 4
  Parent <- ForkedTree
  Heads <- ForkedHeads
  Empty = {3}
  Behind = 1
  FewKnown = 1
  QueueGap = 1
  MaxUnexpected = 1
  MaxDisconnects = 1
INVARIANTS
  IdleIsClean
  
  BodyOfItsHeader
  HeadersAboveStart
