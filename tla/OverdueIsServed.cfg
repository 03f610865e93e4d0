SPECIFICATION TickingSpec
CONSTANTS
    Saga = {s1, s2}
    None = None
    MaxSagaAttempts = 2
    InitialStepTimeout = 1
    MaxStepTimeout = 2
    MaxJitter = 0
    RepublisherInterval = 1
    BatchLimit = 1
    Room = 1
    MaxMissed = 1
PROPERTIES
    OverdueIsServed
