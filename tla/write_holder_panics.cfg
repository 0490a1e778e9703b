SPECIFICATION Spec
CONSTANTS
  MaxBuf = 2
  MaxOffer = 3
  Length = 4
INVARIANT ObjectPresent
