SPECIFICATION FairSpec
CONSTANTS
  top = top
  low = low
  Limiters = {top, low}
  NoLimiter = none
  Upper <- PairUpper
  MaxDepth = 2
  Sessions = {s1, s2}
  Cells = {c1, c2, c3}
  NoCell = unlimited
  Weights = {1, 2}
  Bursts = {1}
INVARIANTS TypeOK NeverOverspent Ledger GrantPositive NoHoarding QuotesPaired
PROPERTIES NotStranded ImplementsShaper
