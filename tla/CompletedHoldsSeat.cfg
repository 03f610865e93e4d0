SPECIFICATION Spec
CONSTANTS
    Saga = {s1}
    Seat = {x1}
    None = None
    MaxSagaAttempts = 2
    BatchLimit = 1
    s1 = s1
    s2 = s2
    x1 = x1
CHECK_DEADLOCK FALSE
INVARIANT CompletedHoldsSeat
