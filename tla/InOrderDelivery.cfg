SPECIFICATION Spec
CONSTANTS
    Source = {a, b}
    MaxCopies = 0
    Partition = {p1, p2}
    Consumer = {c1, c2}
    Service = {inventory, orchestrator}
    Relay <- OneRelay
    BatchSize = 2
    Unpublishable = {}
    Refused = {}
    Conditional = {}
    Foreign = {}
    Orchestrator = orchestrator
    Operator = {o1}
    MaxFaults = 0
    a = a
    b = b
    f = f
    inventory = inventory
    orchestrator = orchestrator
    c1 = c1
    c2 = c2
    p1 = p1
    p2 = p2
    o1 = o1
PROPERTIES
    InOrderDelivery
CHECK_DEADLOCK FALSE
