SPECIFICATION Spec
CONSTANTS
  Topics = {"t", "u"}
  Options = {"o", "p"}
  NoTopic = NoTopic
  NoOptions = NoOptions
  NoDelivery = NoDelivery
  Faults = {}
  shape = "onDeferred"
  Malformed = {}
  maxAttempts = 1
  MaxMessages = 1
  MaxReceived = 1
  MaxLosses = 1
  MaxConsumers = 2
INVARIANT ConsumesWhatWasSubscribed
