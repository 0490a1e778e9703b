SPECIFICATION ReadSpec
CONSTANTS
  Rooms = {0, 1, 3}
  MaxBuf = 2
  Length = 4
INVARIANTS CancelSafe EndIsReal
