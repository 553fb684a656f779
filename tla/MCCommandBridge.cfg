CONSTANTS
    p1 = p1
    p2 = p2
    NoCommand = NoCommand
    Producers <- MCProducers
    Capacity = 2
    MaxCommands = 3
    MaxFaults = 2
    Variants = {"native", "hydro", "luma", "doser"}
SPECIFICATION Spec
INVARIANTS
    SlotsAccounted
    LossesBounded
PROPERTIES
    ImplementsService
    AcceptedCommandSettles
CHECK_DEADLOCK FALSE
