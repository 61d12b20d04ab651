SPECIFICATION FairSpec
CONSTANTS
  Minute = 3
  Period = 2
  Block = 2
  Day = 2
  MaxIndex = 2
INVARIANTS NeverTwoMissed DayFromMidnight SettingsKept
PROPERTY MqttComesBack
