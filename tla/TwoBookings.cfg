SPECIFICATION Spec
CONSTANTS
    Saga = {s1, s2}
    Seat = {x1}
    None = None
    MaxSagaAttempts = 1
    BatchLimit = 2
    s1 = s1
    s2 = s2
    x1 = x1
CHECK_DEADLOCK FALSE
CONSTRAINT SecondStopsAtSeat
INVARIANT SeatsMatchReservations
PROPERTY EffectsInOrder
