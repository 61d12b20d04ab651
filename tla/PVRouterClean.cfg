SPECIFICATION FairSpec
CONSTANTS
  NB_CYCLES = 1
  NCSTART = 2
  PULSE_END = 4
  Debounce = 2
  HalfPeriod = 6
  CleanMains = TRUE
  MaxMask = 0
  Delays = {3}
INVARIANT GateFollowsCommand
PROPERTY WarmupEnds
