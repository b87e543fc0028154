SPECIFICATION Spec
CONSTANTS
  Strings <- MCStrings
  Transports = {p1, p2}
  Topics <- BoundedTopics
  Groups = {}
  Routes = {}
  Declarations <- BoundedDeclarations
  Rank <- NameRank
  NoTopic = NoTopic
  NoFanout = NoFanout
  kForensicMaxLength = 1
  MaxSequence = 3
  MaxReceived = 2
  MaxNumber = 6
INVARIANT AbandonedIsNotSettled
