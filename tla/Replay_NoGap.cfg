CONSTANTS
    Limit = 3
    MaxEvents = 3
    MaxDials = 2
    MaxFaults = 0
SPECIFICATION Spec
INVARIANT NoGap
CHECK_DEADLOCK FALSE
