SPECIFICATION Spec
CONSTANTS
  Topics = {"t", "u"}
  Options = {"o", "p"}
  NoTopic = NoTopic
  NoOptions = NoOptions
  NoDelivery = NoDelivery
  Malformed = {2}
  maxAttempts = 2
  MaxMessages = 2
  MaxReceived = 2
  MaxLosses = 1
INVARIANTS
  TypeOK
  AckedWasFinished
  RetriedOnce
  CountersAgree
PROPERTIES
  NotDeadWhileTrying
  RestoredOrReported
