SPECIFICATION Spec
CONSTANTS
    Requests = {r1, r2}
    Default = Default
    None = None
CHECK_DEADLOCK FALSE
INVARIANT DestructorReleases
