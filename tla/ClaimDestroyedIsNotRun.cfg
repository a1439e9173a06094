CONSTANTS
    s1 = s1
    s2 = s2
    c = c
    n = n
    NoOne = NoOne
    Services = {s1, s2}
    Operations = {c, n}
    Workers = {w1, w2}
    MaxThreads = 1
    Flags <- MCFlags
    To <- MCTo
    From <- MCFrom
    Closing <- MCClosing
    Deletion <- MCDeletion
    PlaceInList <- MCPlaceInList
SPECIFICATION Spec
INVARIANT DestroyedIsNotRun
CHECK_DEADLOCK FALSE
