SPECIFICATION FairSpec
CONSTANTS
    w1 = w1
    w2 = w2
    explore = explore
    dig1 = dig1
    dig2 = dig2
    None = None
    Workers <- MCWorkers
    Request <- MCRequest
    Type <- MCType
    Depth <- MCDepth
    MaxQueue = 2
    MaxTimeouts = 1
PROPERTY DestructorReturns
CHECK_DEADLOCK FALSE
