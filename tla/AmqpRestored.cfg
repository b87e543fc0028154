SPECIFICATION FairSpec
CONSTANTS
  Topics = {"t"}
  Options = {"o"}
  NoTopic = NoTopic
  NoOptions = NoOptions
  NoDelivery = NoDelivery
  Faults = {"declareTimeout"}
  shape = "onDeferred"
  Malformed = {}
  maxAttempts = 2
  MaxMessages = 1
  MaxReceived = 1
  MaxLosses = 1
  MaxConsumers = 2
PROPERTY RestoredOrReported
