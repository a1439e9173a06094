SPECIFICATION Spec
CONSTANTS
    Contexts = {c1, c2}
    Clients = {k1, k2}
    NoOne = NoOne
    ChunkSizes = {1}
    MaxObjects = 2
    MaxObjectCounts = {1}
    MaxCache = 0
    MaxOpenContexts = 1
    MaxZeroPulls = 1
    FinalCount = 1
    RequestKinds <- PullAndClose
    ChunkKinds <- ObjectsOnly
SYMMETRY Interchangeable
PROPERTY ImplementsPullEnumerations
