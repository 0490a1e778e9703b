SPECIFICATION Spec
CONSTANTS
  Permits = {1, 2, 3}
  MaxSize = 4
INVARIANT CompletedIsIdle
