\* Three ids, one of them invalid, so that a full queue can hold a duplicate
\* and the runner can be full of other jobs.
SPECIFICATION FairSpec
CONSTANTS
    None = None
    RequestIds = {r1, r2, r3}
    InvalidIds = {r3}
    Handlers = {h1, h2}
    QueueCapacity = 2
    JobCapacity = 2
INVARIANTS
    QueuedIdsSound
    ServiceNeverThrows
PROPERTIES
    ImplementsJobService
    QueueDrains
    StopIsObeyed
