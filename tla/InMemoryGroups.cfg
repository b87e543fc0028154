SPECIFICATION Spec
CONSTANTS
  Strings <- MCStrings
  Transports = {p1}
  Topics <- GroupTopics
  Groups = {"g"}
  Routes <- GroupRoutes
  Declarations <- GroupDeclarations
  Rank <- NameRank
  NoTopic = NoTopic
  NoFanout = NoFanout
  kForensicMaxLength = 1
  MaxSequence = 3
  MaxReceived = 2
  MaxNumber = 9
VIEW ApartFromAbandoned
INVARIANTS
  AccountedFor
  OneLiveCopy
  SingleConsumerFifo
PROPERTY OverflowEnforced
