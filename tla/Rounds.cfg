SPECIFICATION Spec
CONSTANTS
  Accounts = {1, 2, 3, 4}
  InitialProducers = {1}
  None = None
  DPOSVotedProducersPerRound = 1
  DPOSRunnerupProducersPerRound = 0
  POWProducersPerRound = 1
  TotalProducersPerRound = 2
  StartMinerVotingBlock = 2
  RaceLapLength = 4
  MaxVotes = 0
  Voters = {3, 4}
  MaxPowOps = 2
  MaxNumber = 4
INVARIANTS
  TypeOK
  PowCountAgrees
  NotBoth
  RoundIsPlayable
