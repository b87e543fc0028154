SPECIFICATION Spec
CONSTANTS
  Strings <- MCStrings
  kForensicMaxLength = 1
  cpp = cpp
  simple = simple
  Processes = {cpp, simple}
  Backend <- MCBackend
  Topics <- MCTopics
  Declarations <- MCDeclarations
  Asymmetric <- AsymmetricTopics
  Overrides <- MCOverrides
  Inspects <- MCInspects
  Absent = Absent
  MaxSends = 1
  MaxFaults = 1
INVARIANTS
  TypeOK
  ForensicsFirst
  DeclaredTwiceAgrees
  NothingEvaporates
