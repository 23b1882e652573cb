\* Two replicas, one restart from a snapshot: pulls and the outbox together.
CONSTANTS
  Replica = {1,2}
  Site = {1,2}
  HomeSite <- TwoHomes
  MaxTimestamp = 2
  Payload = {"edit"}
  EditPayload = {}
  IdentityReuse = FALSE
  MaxInFlight = 1
  MaxBatches = 3
  MaxRestores = 1
SPECIFICATION FairSpec
PROPERTY EventuallyEqual
CHECK_DEADLOCK FALSE
