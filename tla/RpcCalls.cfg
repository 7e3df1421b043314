SPECIFICATION Spec
CONSTANTS
    Callers = {c1, c2}
    MaxAttempts = 2
    InitialBackoff = 2
    MaxBackoff = 2
    RequestTimeout = 2
    MinInterval = 2
    Lateness = 1
    MaxCalls = 3
    MaxPause = 1
SYMMETRY CallerSymmetry
INVARIANTS
    RequestsSpaced
    CallsBounded
    OneAnswer
CHECK_DEADLOCK FALSE
