SPECIFICATION FairSpec
CONSTANTS
    Txs <- MCTxs
    Limit = 2
    FutureLimit = 1
    BlockLimit = 2
    Ask = 10
    MaxSwitches = 1
INVARIANTS NonceOnce FutureSizeExact HeldBounded
PROPERTIES NothingLost QueueServed
