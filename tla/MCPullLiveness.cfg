SPECIFICATION FairSpec
CONSTANTS
    Contexts = {c1}
    Clients = {k1, k2}
    NoOne = NoOne
    ChunkSizes = {1}
    MaxObjects = 2
    MaxObjectCounts = {0, 1}
    MaxCache = 0
    MaxOpenContexts = 1
    MaxZeroPulls = 1
    FinalCount = 2
    RequestKinds <- PullOnly
    ChunkKinds <- ObjectsAndErrors
INVARIANTS
    DelayedRequestWatched
PROPERTIES
    
    
    
    ScanTerminates
