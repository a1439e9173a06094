SPECIFICATION Spec
CONSTANTS
    Contexts = {c1}
    Clients = {k1}
    NoOne = NoOne
    ChunkSizes = {1}
    MaxObjects = 1
    MaxObjectCounts = {1}
    MaxCache = 0
    MaxOpenContexts = 1
    MaxZeroPulls = 1
    FinalCount = 2
    RequestKinds <- PullOnly
    ChunkKinds <- ObjectsOnly
INVARIANT FoundContextStaysValid
