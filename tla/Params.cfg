SPECIFICATION ParamsFairSpec
CONSTANTS
  Values = {1}
  Modes = {0, 1}
  Orders = {0}
  Default <- MCDefault
  MaxCmds = 2
  MaxFrames = 1
INVARIANTS InRange ModeSurvives
PROPERTY MirrorFollows
