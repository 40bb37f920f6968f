SPECIFICATION FairSpec
CONSTANTS
  s1 = s1
  alice = alice
  bob = bob
  east = east
  west = west
  Shot = {s1}
  MaxCopies = 2
  Account = {alice, bob}
  Role <- AliceAdministers
  Viewer = {alice}
  Nobody = Nobody
  Listing = Listing
  DualApproval = TRUE
  MaxRequests = 1
  Instance = {east, west}
  MaxFaults = 1
INVARIANTS
  ServedWasApproved
  UnauditedNeedsFault
  GoneIsGone
PROPERTIES
  RetentionHolds
