\* A site restored from a stale snapshot mints an identity twice.
CONSTANTS
  Replica = {1,2}
  Site = {1,2}
  HomeSite <- TwoHomes
  MaxTimestamp = 3
  Payload = {"edit"}
  EditPayload = {}
  IdentityReuse = TRUE
  MaxInFlight = 0
  MaxBatches = 0
  MaxRestores = 1
SPECIFICATION Spec
PROPERTY ReuseIsRefused
CHECK_DEADLOCK FALSE
