SPECIFICATION FairSpec
CONSTANTS
  alice = alice
  bob = bob
  carol = carol
  User = {alice, bob, carol}
  NoUser = NoUser
  Marker <- MarkerName
  MaxLogins = 2
  MaxFaults = 2
INVARIANTS
  OnlyAfterAcceptance
PROPERTIES
  PromiseKept
  EventuallyOff
  EventuallyOn
