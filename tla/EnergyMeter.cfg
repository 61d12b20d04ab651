SPECIFICATION Spec
CONSTANTS
  Channels = {"routed", "relay"}
  Quantum <- MCQuantum
  MaxRate <- MCMaxRate
  Limit = 0
  NbHours = 1
  Garbage = {2}
  MaxRestarts = 1
  MaxEnergy <- MCMaxEnergy
INVARIANT DailyLimit
PROPERTY Metered
