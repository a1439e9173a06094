SPECIFICATION FairSpec
CONSTANTS
    n1 = n1
    n2 = n2
    short = short
    long = long
    Names = {n1, n2}
    Values = {short, long}
    SizeOf <- MCSizeOf
    MaxFreeCount = 2
    CrashAt <- MCSafeSteps
    FailAt <- MCSafeSteps
    Absent = Absent
INVARIANTS TypeOK  CleanAtRest 
PROPERTIES  OperationsEnd
