\* What the check for collisions of the arms says it finds, refuted.
SPECIFICATION Spec
CONSTANTS
    Arms = {east, west}
    Places = {1, 2, 3}
    Touching <- Middle
    Kinds = {"new"}
    AllowPartial = FALSE
    MovesOthers = FALSE
    MaxLength = 3
    PerCall = 0
    Comms = 1
    Step = 1
    Buffer = 1
    SwitchAfter = 1
    MaxTime = 8
    MaxRequests = 2
    None = None
SYMMETRY Symmetry
CHECK_DEADLOCK FALSE
INVARIANT
    ArmsNeverCollide
