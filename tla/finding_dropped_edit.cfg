\* A base feature, an edit of a geometry that loses against another one.
CONSTANTS
  Site = {1,2,9}
  MaxTimestamp = 8
  Feature = {"f"}
  BaseFeature = {"f"}
  Property = {}
  NoRef <- BaseGeneration
  Replica = {1,2}
  Peer = {}
  Types = {"set_geometry","edit_geometry"}
  MaxOps = 3
  MaxPeerOps = 1
  MaxRestores = 0
SPECIFICATION Spec
INVARIANT BufferedMeansWaiting
CHECK_DEADLOCK FALSE
