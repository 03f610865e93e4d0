SPECIFICATION FairSpec
CONSTANTS
    Source = {a, b, f}
    MaxCopies = 1
    Partition = {p1}
    Consumer = {c1, c2}
    Service = {inventory, orchestrator}
    Relay <- TwoRelays
    BatchSize = 2
    Unpublishable = {b}
    Refused = {f}
    Conditional = {}
    Foreign = {f}
    Orchestrator = orchestrator
    Operator = {o1}
    MaxFaults = 1
    a = a
    b = b
    f = f
    inventory = inventory
    orchestrator = orchestrator
    c1 = c1
    c2 = c2
    p1 = p1
    p2 = p2
    o1 = o1
INVARIANTS
    Delivery_TypeOK
    CommittedIsSettled
    HandledOnce
    MarkedWasPublished
    DInv
PROPERTIES
    ImplementsMailbox
    RowIsPublished
    PublishedIsSettled
CHECK_DEADLOCK FALSE
