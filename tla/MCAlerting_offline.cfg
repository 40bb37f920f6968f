SPECIFICATION AlertFairSpec
CONSTANTS
  blocklist = blocklist
  installs = installs
  MaxEvents = 1
  Rule = {blocklist, installs}
  EventKind <- Kinds
  RuleKind <- RuleKinds
  Hits <- BlockedDomain
  MaxGiveUps = 0
  MaxDbErrors = 0
PROPERTIES
  OfflineIsAlerted
