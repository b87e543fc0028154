SPECIFICATION Spec
CONSTANTS
  Threads = {t1, t2}
  Sizes = {0, 1, 3}
  kMaxPendingLines = 2
  kMaxPendingBytes = 3
  NoRecord = NoRecord
  MaxLines = 4
  MaxSinks = 1
INVARIANTS
  TypeOK
  WithinLimits
  AllLinesCounted
  SinkInOrder
  NewLinesToNewSink
PROPERTIES
  FlushWaitsForAll
  FlushReturns
