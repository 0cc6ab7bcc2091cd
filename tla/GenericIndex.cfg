CONSTANTS
    Keys = {k1, k2}
    Values = {v1, v2}
    NoObj = NoObj
    MaxId = 3
    MaxDepth = 3
    MaxRevision = 3
SPECIFICATION IndexSpec
INVARIANTS UndoExact UndoNeverThrows
PROPERTIES ImplementsSnapshots
CHECK_DEADLOCK FALSE
