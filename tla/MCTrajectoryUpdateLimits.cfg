SPECIFICATION UpdateSpec
CONSTANTS
  Currents <- MCCurrents
  Goals <- MCGoals
  QMin = 0
  QMax = 6
  MaxVelocity = 1
  MaxAcceleration = 9
  Margin = 0
  PerConf = 1
  Extra = 0
  MaxWork = 1
  MaxIterations = 1
  TimeCap = 9
INVARIANT CubicWithinVelocity
CHECK_DEADLOCK FALSE
