SPECIFICATION FairSpec
CONSTANTS
  Release = {1, 2, 3}
  Parsable = {1, 2, 3}
  Built <- BuiltIn
  Checker = {k1, k2}
  Torn = Torn
  Absent = Absent
  MaxPublished = 1
  MaxFaults = 1
CHECK_DEADLOCK FALSE
INVARIANTS
  TypeOK
  ComesBack
  BudgetHolds
PROPERTIES
  NoRollback
  EventuallyUpdated
