SPECIFICATION FairSpec
CONSTANTS
  Permits = {1, 2, 3}
  Rooms = {0, 1, 2, 4}
  MaxPanics = 2
INVARIANTS CreditBacked NoSpuriousEof FreeRideBounded
PROPERTIES Answered
