SPECIFICATION Spec
CONSTANTS
  Accounts = {1, 2, 3}
  InitialProducers = {1}
  None = None
  DPOSVotedProducersPerRound = 1
  DPOSRunnerupProducersPerRound = 1
  POWProducersPerRound = 0
  TotalProducersPerRound = 2
  StartMinerVotingBlock = 1
  RaceLapLength = 12
  MaxVotes = 2
  Voters = {2, 3}
  MaxPowOps = 0
  MaxNumber = 8
INVARIANTS
  NobodyPassesTheLine
  TrackedUnlessReloaded
  SeatsAreDistinct
