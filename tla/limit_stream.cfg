SPECIFICATION FairSpec
CONSTANTS
  low = low
  top = top
  Limiters = {low, top}
  NoLimiter = none
  Upper <- PairUpper
  MaxDepth = 2
  Sessions = {"read", "write"}
  Cells = {c1, c2}
  NoCell = unlimited
  Weights = {2}
  Bursts = {1}
  Rooms = {1, 3}
INVARIANTS MovedAsAdmitted OneBorrow SleepsWatched
PROPERTIES OnlyOvertaken ImplementsHalves
