\* Two replicas and a spare site ID: one restart, under the old identity or a
\* fresh one, with a delta in flight.
CONSTANTS
  Replica = {1,2}
  Site = {1,2,3}
  HomeSite <- TwoHomes
  MaxTimestamp = 3
  Payload = {"edit"}
  EditPayload = {}
  IdentityReuse = FALSE
  MaxInFlight = 1
  MaxBatches = 0
  MaxRestores = 1
SPECIFICATION Spec
INVARIANTS
  TypeOK
  UniqueIdentity
  Convergence
  DeltaComplete
PROPERTIES
  NeverForgets
  ImplementsExchange
CHECK_DEADLOCK FALSE
