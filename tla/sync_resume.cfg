\* Two replicas: two outbox batches delivered in any order, so that gaps arise,
\* and one restart from a snapshot that may hold operations beyond a gap, edits
\* that wait, and less than what its site distributed.
CONSTANTS
  Replica = {1,2}
  Site = {1,2}
  HomeSite <- TwoHomes
  MaxTimestamp = 3
  Payload = {"edit"}
  EditPayload = {"edit"}
  IdentityReuse = TRUE
  MaxInFlight = 0
  MaxBatches = 2
  MaxRestores = 1
SPECIFICATION Spec
INVARIANTS
  FrontierExact
  LogComplete
  OwnNumbering
  ClockDominates
  OutboxComplete
  SnapshotsRestorable
CHECK_DEADLOCK FALSE
