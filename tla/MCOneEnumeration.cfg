SPECIFICATION Spec
CONSTANTS
    Contexts = {c1}
    Clients = {k1, k2}
    NoOne = NoOne
    ChunkSizes = {1, 2}
    MaxObjects = 4
    MaxObjectCounts = {0, 1, 2}
    MaxCache = 1
    MaxOpenContexts = 1
    MaxZeroPulls = 1
    FinalCount = 2
    RequestKinds <- EveryRequest
    ChunkKinds <- EveryChunk
SYMMETRY Interchangeable
INVARIANTS
    TypeOK
    OneRequestAtATime
    NothingLostWhileOpen
    FinishedMeansAllReturned
    CacheBounded
    DelayedOnlyForProviders
    ReleasedWhenOver
