\* A snapshot with unsent operations restored under a fresh site ID.
CONSTANTS
  Replica = {1,2}
  Site = {1,2,3}
  HomeSite <- TwoHomes
  MaxTimestamp = 3
  Payload = {"edit"}
  EditPayload = {}
  IdentityReuse = FALSE
  MaxInFlight = 0
  MaxBatches = 0
  MaxRestores = 1
SPECIFICATION Spec
PROPERTY OutboxSurvivesRestore
CHECK_DEADLOCK FALSE
