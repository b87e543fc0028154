SPECIFICATION Spec
CONSTANTS
  Strings <- MCStrings
  kForensicMaxLength = 1
  simple = simple
  Processes = {simple}
  Backend <- MCBackend
  Topics <- MCTopics
  Declarations <- MCDeclarations
  Asymmetric <- AsymmetricTopics
  Overrides = {}
  Inspects <- MCInspects
  Absent = Absent
  MaxSends = 0
  MaxFaults = 0
INVARIANT DepthNeverConflicts
