SPECIFICATION MCSpec
CONSTANTS
    Requests = {r1, r2}
    Default = Default
    None = None
    Contexts = {c1, c2}
    Faulty = {c2}
    Threads = {t1, t2}
    Ops <- AllOps
    RequireAll = TRUE
    MaxRestarts = 1
    Free = Free
SYMMETRY Symmetry
CHECK_DEADLOCK FALSE
INVARIANTS
    NoCircularWait
    PlansUnderOwnOptions
    DefaultsWhenUnowned
    RegistryConsistent
PROPERTY
    ServedSurvivesRestart
