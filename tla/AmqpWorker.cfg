SPECIFICATION Spec
CONSTANTS
  Topics = {"t"}
  Options = {"o", "p"}
  NoTopic = NoTopic
  NoOptions = NoOptions
  NoDelivery = NoDelivery
  Faults = {"unresolved", "unreachable", "handshakeTimeout", "rejected", "lostDeclaring", "declareTimeout", "consumeTimeout", "consumeLate", "lostClosing"}
  shape = "onDeferred"
  Malformed = {2}
  maxAttempts = 1
  MaxMessages = 2
  MaxReceived = 3
  MaxLosses = 1
  MaxConsumers = 2
INVARIANTS
  TypeOK
  DeferredIsUnacked
  DeferredIsOwned
  RetriedOnce
  CountersAgree
  CountedIfResolved
PROPERTIES
  NotDeadWhileTrying
