SPECIFICATION FairSpec
CONSTANTS
  Agent = {a1, a2}
  Token = {t1}
  MaxUses = 2
  Call = {1, 2, 3, 4}
  Torn = Torn
  Absent = Absent
  Public = Public
  Unlimited = Unlimited
  MaxRotations = 1
  MaxFaults = 1
CHECK_DEADLOCK FALSE
INVARIANTS
  TypeOK
  TokensHold
  AgentsKeepTrust
  OneIdentity
  NothingIsWasted
PROPERTIES
  EventuallyConnected
