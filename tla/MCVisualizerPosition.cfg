\* The hub alone: a position of one model that waits when another is active.
SPECIFICATION VisualizerSpec
CONSTANTS
    None = None
    Junk = Junk
    m1 = m1
    m2 = m2
    Clients = {c1, c2}
    Models <- MCModels
    NumPositions <- MCNumPositions
    Nobody = Nobody
    Streams = {}
INVARIANT PositionFits
CHECK_DEADLOCK FALSE
