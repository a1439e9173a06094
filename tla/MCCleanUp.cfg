SPECIFICATION FairSpec
CONSTANTS
    d1 = d1
    d2 = d2
    s1 = s1
    s2 = s2
    Destinations = {d1}
    Subscriptions = {s1}
    DestinationOf <- SameDestination
    Workers = {w1, w2}
    DeliveryThreads = {t1}
    NoOne = NoOne
    RetryAttempts = {0, 1}
    RetryInterval = 1
    LifetimeFactor = 2
    MinQueueSize = 1
    MaxQueueSize = 2
    MaxArrivals = 3
    MaxListeners = 0
    MaxAge = 1
    Prompt = FALSE
INVARIANTS
    HandedOutOnce
    QueuesAreSwept
    WriterAlone
PROPERTIES
    PendingSettles
    RequestsReturn
