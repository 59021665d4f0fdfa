SPECIFICATION StoreSpec
CONSTANTS
    ada = ada
    bob = bob
    NULL = NULL
    All = All
    Hour = 2
    LatUpper <- TwoEdges
    DefaultLimit = 2
    MaxLimit = 2
    Kinds <- SomeKinds
    PagedKinds <- TwoKinds
    RequestKeep = 2
    RollupKeep = 4
    BatchSize = 1
    Window = 1
    Ranges <- SomeRanges
    Scopes <- AdminAndMember
    MaxRecords = 3
    MaxClock = 5
    PagedClock = 3
INVARIANTS
    ReportsAgree
    WalkComplete
    NoHole
