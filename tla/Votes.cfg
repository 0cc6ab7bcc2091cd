SPECIFICATION Spec
CONSTANTS
    Accounts = {1, 2, 3}
    MaxRecords = 2
    VotesPreEth = 2
    Word = 5
    InitialBalance <- MCBalance
INVARIANTS
    GivenToCandidates
    RecordsBounded
    ReceivedIsGiven
    NothingMinted
PROPERTY
    ImplementsBook
