SPECIFICATION Spec
CONSTANTS
  Byte <- MCByte
  Boundary <- MCBoundary
  Requests <- MCRequests
  BufSize = 2
  MaxPacket = 6
INVARIANTS HandledOnce ParsedAsSent PiecesAreWhole
CHECK_DEADLOCK FALSE
