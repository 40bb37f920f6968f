SPECIFICATION FairSpec
CONSTANTS
  MaxLogged = 3
  Time <- Times
  Horizon = {1, 2}
  Limit = 2
  Generation = {g1, g2}
  MaxStarts = 3
  MaxFaults = 1
CHECK_DEADLOCK FALSE
INVARIANTS
  NothingPassedOver
  RepeatsNeedAReason
PROPERTIES
  EventuallyReported
  EventuallyQuiet
