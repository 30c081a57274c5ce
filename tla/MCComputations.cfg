SPECIFICATION ComputationsSpec
CONSTANTS
  Segments = 3
  XMax = 4
  Shapes <- MCShapes
  LimitSets <- MCLimits
  Eps = 1
  Scales = 2
  Currents <- MCCurrents
  Goals <- MCGoals
  QMin = 0
  QMax = 4
  MaxVelocity = 1
  MaxAcceleration = 3
  Margin = 1
  PerConf = 1
  Extra = 0
  MaxWork = 1
  MaxIterations = 2
  TimeCap = 9
  Askers = {s, t}
  Paths = {p}
  Poses = {1, 2}
  ShownConfs = {1, 2}
  Models = {"a", "ab"}
  Frames <- MCFrames
  Matches <- MCMatches
  MaxRequests = 2
  Items <- MCItems
  Standard = "standard"
  MaxQueueSize = 2
  MaxItems = 3
  IkConfs = {"q0", "q1", "q2"}
  FrameOffsets = {"near", "far"}
  Reach <- MCReach
  Apart <- MCApart
  Reference = "q0"
  Caches <- MCCaches
  IkOptionSets <- MCIkOptions
  Issues = {{}, {"jacobian", "limit"}}
  SamplesPerSeed = 2
  MaxCalls = 2
  CheckedConfs = {"q0", "q1", "q2", "q3"}
  Adapter <- MCAdapter
  Output <- MCOutput
  Contacts <- MCContacts
  Bodies = {"l", "tool", "r", "table", "base"}
  Arm <- MCArm
  Groups <- MCGroups
  CheckerAdapter <- MCCheckerAdapter
  Influence = 2
  Tolerance = 1
  Calls <- MCCalls
  Plants <- MCPlants
  Values = {0, 1}
  ModelCalls = 1
  Continuous = {1}
  Period = 5
  BlockedSets <- MCBlockedSets
  Seeds <- MCSeeds
  PointLists <- MCPointLists
  CliqueVertices <- MCCliqueVertices
  Roadmaps <- MCRoadmaps
  Grown <- MCGrown
  MaxBuilds = 3
  Regions = {1, 2, 3, 4}
  Worlds <- MCWorlds
  Lazy = {TRUE, FALSE}
  Configs <- MCConfigs
  MayMiss = TRUE
  MaxLeft = 1
INVARIANTS
  TimesOptimally
  ContinuesMotion
  BrowserAgrees
  ShownUnderItsOptions
  SeedsAreClosest
  VerdictJustified
  SamplesAreSound
  VerdictsAgree
  PassesFindStructure
  ConfigurationsCarryOver
  CoverageIsCurrent
  CliquesAreSound
  SolverGetsARoute
  NoPathIsDisconnected
CHECK_DEADLOCK FALSE
