SPECIFICATION Spec
CONSTANTS
    d1 = d1
    d2 = d2
    s1 = s1
    s2 = s2
    Destinations = {d1}
    Subscriptions = {s1, s2}
    DestinationOf <- SameDestination
    Workers = {w1, w2}
    DeliveryThreads = {t1}
    NoOne = NoOne
    RetryAttempts = {1}
    RetryInterval = 2
    LifetimeFactor = 3
    MinQueueSize = 1
    MaxQueueSize = 3
    MaxArrivals = 3
    MaxListeners = 1
    MaxAge = 6
    Prompt = TRUE
\* Without a thread to be had, time stops.
CHECK_DEADLOCK FALSE
SYMMETRY Interchangeable
INVARIANTS
    TypeOK
    EveryIndicationAccounted
    DeliveredInOrder
    WithinLimit
    
