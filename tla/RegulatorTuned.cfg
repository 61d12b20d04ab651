SPECIFICATION FairSpec
CONSTANTS
  Errors <- MCErrors
  MaxError = 60000
  Setpoint <- MCSetpoint
  MinIntegral <- MCMinIntegral
  IGains = {45, 60}
  PGains = {8, 20}
  Scale = 16384
  Full = 255
  MaxLong = 20000000
  Floor = 60000
  Ceiling = 200000
INVARIANTS NoOverflow MoreSurplusFiresEarlier
PROPERTIES FullOnSurplus NothingOnDeficitTuned
