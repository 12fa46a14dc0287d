CONSTANTS
    p1 = p1
    p2 = p2
    d1 = d1
    d2 = d2
    None = None
    Abandoned = Abandoned
    Ports = {p1, p2}
    Drivers = {d1, d2}
    Matches <- AllMatch
    Reconnects = {d1}
    ManualBind = {TRUE, FALSE}
    PortCapacity = 1
    DriverCapacity = 1
    MaxCapacity = 2
    QueueCapacity = 2
    SequenceMax = 4
    GenerationMax = 2
    BindingMax = 2
    EpochMax = 1
    InFlightMax = 3
    DepthMax = 2
    MaxOffered = 5
    MaxNesting = 2
SPECIFICATION Spec
SYMMETRY AnyPort
CONSTRAINT SerioBound
CHECK_DEADLOCK FALSE
INVARIANTS TypeOK BindingsHeld
PROPERTIES BytesKept RecoveryExact
