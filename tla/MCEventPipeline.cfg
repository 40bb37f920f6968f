SPECIFICATION FairSpec
CONSTANTS
  service = service
  helper = helper
  e1 = e1
  e2 = e2
  s1 = s1
  Writer = {service, helper}
  Service = service
  Owner <- OneShotOwner
  Event = {e1, e2, s1}
  Shot = {s1}
  Large = {e1, e2}
  MaxBatch = 2
  MaxBlobs = 1
  MaxLarge = 1
  MaxFaults = 2
INVARIANTS
  NoEventLost
  RowHasBlob
  DuplicatesNeedFault
PROPERTIES
  EventuallyStored
  Refinement
