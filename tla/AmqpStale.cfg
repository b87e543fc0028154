SPECIFICATION Spec
CONSTANTS
  Topics = {"t"}
  Options = {"o"}
  NoTopic = NoTopic
  NoOptions = NoOptions
  NoDelivery = NoDelivery
  Faults = {}
  shape = "onDeferred"
  Malformed = {}
  maxAttempts = 1
  MaxMessages = 2
  MaxReceived = 3
  MaxLosses = 1
  MaxConsumers = 2
INVARIANT AckedWasFinished
