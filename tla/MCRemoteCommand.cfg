SPECIFICATION CommandFairSpec
CONSTANTS
  MaxRequests = 3
  Restart <- OddRestart
  MaxUnanswered = 2
  MaxCrashes = 2
INVARIANTS
  OnceInOrder
  LossIsExplained
PROPERTIES
  HelperFollowsAService
