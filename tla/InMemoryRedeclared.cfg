SPECIFICATION Spec
CONSTANTS
  Strings <- MCStrings
  Transports = {p1, p2}
  Topics <- BoundedTopics
  Groups = {"g"}
  Routes = {}
  Declarations <- TwoDeclarations
  Rank <- NameRank
  NoTopic = NoTopic
  NoFanout = NoFanout
  kForensicMaxLength = 1
  MaxSequence = 3
  MaxReceived = 2
  MaxNumber = 6
INVARIANT DeclarationsAgree
