SPECIFICATION Spec
CONSTANTS
    Arms = {east, west}
    Places = {1, 2}
    Touching <- Middle
    Kinds = {"new", "update"}
    AllowPartial = TRUE
    MovesOthers = TRUE
    MaxLength = 3
    PerCall = 0
    Comms = 1
    Step = 2
    Buffer = 1
    SwitchAfter = 1
    MaxTime = 5
    MaxRequests = 2
    None = None
SYMMETRY Symmetry
CHECK_DEADLOCK FALSE
PROPERTIES
    NoJump
    RunningArmsUndisturbed
