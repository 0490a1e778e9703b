SPECIFICATION FairSpec
CONSTANTS
  low = low
  top = top
  Limiters = {low, top}
  NoLimiter = none
  Upper <- PairUpper
  MaxDepth = 2
  Sessions = {"send", "recv"}
  Cells = {c1}
  NoCell = unlimited
  Weights = {2}
  Bursts = {1}
  MaxSize = 3
INVARIANT DatagramsPaid
PROPERTIES RetriesSucceed ImplementsDatagram
