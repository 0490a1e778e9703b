SPECIFICATION FairSpec
CONSTANTS
  BufSize <- Wide
  MaxOps = 2
  Timeout = 2
  Supply <- Both
CHECK_DEADLOCK FALSE
INVARIANTS SleepsSafely TimeoutMeansIdle
PROPERTIES ImplementsRelay Terminates Completes
