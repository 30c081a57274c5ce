\* The hub with two clients and two models, any overlap of their requests;
\* the slot with three streams: an incumbent and two newcomers.
SPECIFICATION VisualizerSpec
CONSTANTS
    None = None
    Junk = Junk
    m1 = m1
    m2 = m2
    Clients = {c1, c2}
    Models <- MCModels
    NumPositions <- MCNumPositions
    Nobody = Nobody
    Streams = {s1, s2, s3}
INVARIANTS
    AdapterReadyAlone
    StartDelivers
    StreamerOwnsSlot
PROPERTIES
    RequestsServed
    NewcomerAdmitted
\* The hub and every client may wait for one another; every stream may have
\* ended.
CHECK_DEADLOCK FALSE
