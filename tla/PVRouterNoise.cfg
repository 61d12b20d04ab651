SPECIFICATION Spec
CONSTANTS
  NB_CYCLES = 1
  NCSTART = 1
  PULSE_END = 3
  Debounce = 1
  HalfPeriod = 5
  CleanMains = FALSE
  MaxMask = 2
CONSTANT Delays <- MCShortDelays
INVARIANTS SafeWhenStopped SnapshotOfOneWindow LossReported
PROPERTY SnapshotStable
