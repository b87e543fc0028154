SPECIFICATION Spec
CONSTANTS
  Words = {"a", "b"}
  MaxWords = 4
  MaxBytes = 5
  VersionGuard = 10
  IntLimit = 128
  Bytes = {"0", "1", "2", "5", "7", ":", "x"}
  MaxRest = 6
  CountLimit = 128
  Delays = {0, 1, 3, 20}
  MaxTries = 10
INVARIANT BackoffAlwaysDoubles
CHECK_DEADLOCK FALSE
