SPECIFICATION FairSpec
CONSTANTS
  QLen = 2
  BufSize = 4
  PipeCap = 2
  MaxNoise = 3
  MaxAsks = 2
INVARIANTS OneToOne RoomEnough
PROPERTIES Served WaitReturns
