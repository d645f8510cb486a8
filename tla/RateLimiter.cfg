SPECIFICATION Spec
CONSTANTS
    MaxRps = 4
    Costs = {1, 3}
    Second = 2
    MaxTime = 6
INVARIANTS
    WindowBound
    NoNeedlessSleep
CHECK_DEADLOCK FALSE
