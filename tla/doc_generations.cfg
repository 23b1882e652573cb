\* A base feature whose geometry is replaced while it is edited, a peer that tags
\* an edit with any identity, and a restart from a snapshot.
CONSTANTS
  Site = {1,2,9}
  MaxTimestamp = 4
  Feature = {"f"}
  BaseFeature = {"f"}
  Property = {}
  NoRef <- BaseGeneration
  Replica = {1,2}
  Peer = {9}
  Types = {"insert_feature","delete_feature","set_geometry","edit_geometry"}
  MaxOps = 3
  MaxPeerOps = 1
  MaxRestores = 1
SPECIFICATION Spec
INVARIANTS
  TypeOK
  FeaturesAreMeant
  WaitingIsMissing
  RestartIsFaithful
PROPERTY EditsWaitForMissing
CHECK_DEADLOCK FALSE
