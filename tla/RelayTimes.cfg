SPECIFICATION FairSpec
CONSTANTS
  TOn = 2
  TOff = 3
  ExtChanges = TRUE
  Restarts = TRUE
  Unreliable = TRUE
PROPERTIES MinimalOn MinimalOff ImportOpensRelay HttpRelayFollowsAnswers
