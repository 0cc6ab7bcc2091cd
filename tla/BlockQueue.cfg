SPECIFICATION Spec
CONSTANTS
    NumBlocks = 4
    Parent <- MCParent
    Time <- MCTime
    Own = {4}
    Verdicts <- MCVerdicts
    Threads = {t1, t2}
    SyncAmount = 2
    MaxTime = 1
    MaxTransient = 1
    MaxClears = 1
    MaxRetries = 1
    MaxCopies = 2
    MaxIrreversible = 1
SYMMETRY MCSymmetry
INVARIANTS ParentsFirst OncePerBlock UnknownWaits SoundWhenValid
PROPERTY NothingForgotten
