SPECIFICATION FairSpec
CONSTANTS
    left = left
    right = right
    Arms <- MCArms
    Anchors <- MCAnchors
    Planners <- MCPlanners
    MaxAnchors = 3
    MaxProblem = 3
    MaxSeeds = 2
INVARIANTS
    PlanStaysValid
    EveryAnchorInTurn
PROPERTY
    EveryCallEnds
