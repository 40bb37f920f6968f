SPECIFICATION AlertFairSpec
CONSTANTS
  blocklist = blocklist
  installs = installs
  MaxEvents = 2
  Rule = {blocklist, installs}
  EventKind <- Kinds
  RuleKind <- RuleKinds
  Hits <- BlockedDomain
  MaxGiveUps = 1
  MaxDbErrors = 1
INVARIANTS
  AcknowledgedMeansAlerted
PROPERTIES
  EventuallyAlerted
