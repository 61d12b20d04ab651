SPECIFICATION MqttFairSpec
CONSTANTS
  MaxCmds = 1
  Loses = TRUE
INVARIANTS Availability Commandable
PROPERTIES Fed ShownInTheEnd
