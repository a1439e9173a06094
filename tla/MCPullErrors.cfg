SPECIFICATION Spec
CONSTANTS
    Contexts = {c1}
    Clients = {k1, k2}
    NoOne = NoOne
    ChunkSizes = {1, 2}
    MaxObjects = 3
    MaxObjectCounts = {0, 1, 2}
    MaxCache = 1
    MaxOpenContexts = 1
    MaxZeroPulls = 1
    FinalCount = 1
    RequestKinds <- NoWrongPull
    ChunkKinds <- EveryChunk
SYMMETRY Interchangeable
PROPERTY ImplementsPullEnumerations
