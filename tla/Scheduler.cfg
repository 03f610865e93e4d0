SPECIFICATION SchedulerSpec
CONSTANTS
    Saga = {s1,s2,s3}
    None = None
    MaxSagaAttempts = 2
    InitialStepTimeout = 2
    MaxStepTimeout = 3
    MaxJitter = 1
    RepublisherInterval = 1
    BatchLimit = 2
    Room = 1
    MaxMissed = 2
SYMMETRY Symmetry
INVARIANTS
    Sched_TypeOK
    Sched_Inv
    RunningIsServed
    StepIsGivenUp
