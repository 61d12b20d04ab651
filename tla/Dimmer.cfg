SPECIFICATION FairSpec
CONSTANTS
  Sum = 3
  Resistance = 2
  Margin = 1
  Low = 2
  High = 3
  Period = 2
  Check = 2
  Tries = 1
  Wh = 6
  Limit = 1
  Wrap = 4
  MaxBacklog = 25
  MaxWraps = 2
  Readings <- MCReadings
  Routed <- MCRouted
INVARIANTS Interlock PowersAgree IndexInTime
PROPERTY StopsInTheEnd
