SPECIFICATION FairSpec
CONSTANTS
  Heads = {1, 2, 3}
  Sizes = {0, 1, 3}
  SndBuf = 2
  AckTimeout = 2
  RxTimeout = 2
  Packets = 2
  Connects = 2
INVARIANTS NoUseAfterEnd CountersAgree InOrder
PROPERTY ConnectionEnds
