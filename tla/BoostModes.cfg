SPECIFICATION BoostFairSpec
CONSTANTS
  Orders = {"STOP"}
  Others = {"FORCE"}
  Reasons = {"hot"}
  BurstPeriod = 2
  Durations = {2}
  Thresholds = {0}
  TempActive = TRUE
  MaxCmds = 2
INVARIANT OrderHolds
PROPERTY BoostSettles
