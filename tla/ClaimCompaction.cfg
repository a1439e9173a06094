SPECIFICATION Spec
CONSTANTS
    n1 = n1
    n2 = n2
    short = short
    long = long
    Names = {n1, n2}
    Values = {short, long}
    SizeOf <- MCSizeOf
    MaxFreeCount = 2
    CrashAt = {}
    FailAt <- MCCompactIndex
    Absent = Absent
INVARIANT CleanAtRest
