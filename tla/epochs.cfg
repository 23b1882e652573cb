\* Two sessions, a spare site ID, one cut and one restart from a checkpoint.
CONSTANTS
  Replica = {1,2}
  Site = {1,2,3}
  HomeSite <- TwoHomes
  MaxTimestamp = 3
  Payload = {0,1}
  EditPayload = {}
  IdentityReuse = FALSE
  MaxInFlight = 0
  MaxBatches = 2
  MaxRestores = 1
  LastEpoch = 1
  MaxOps = 2
  LateAcks = FALSE
SPECIFICATION EpochSpec
INVARIANTS
  OneBasePerEpoch
  EpochsStayApart
  AcknowledgedIsStored
  SinceIsComplete
  StoreHasNoGap
CHECK_DEADLOCK FALSE
