SPECIFICATION Spec
CONSTANTS
  User = {ann, bob}
  FirstAdmin = ann
  Session = {s1, s2}
  Request = {r1, r2}
  Instance = {i1}
  Idle = Idle
  Nobody = Nobody
  MaxRequests = 6
  MaxSecrets = 2
  MaxFaults = 1
SYMMETRY Symmetry
CHECK_DEADLOCK FALSE
INVARIANTS
  AdminRemains
  ActedWasEntitled
  EnabledIsProven
PROPERTIES
  LockOutIsFinal
