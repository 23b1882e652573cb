\* Two features, one of them new, with a property: every command, and a peer
\* that tags an edit with any identity it has heard of.
CONSTANTS
  Site = {1,2,9}
  MaxTimestamp = 8
  Feature = {"f","g"}
  BaseFeature = {"f"}
  Property = {"p"}
  NoRef <- BaseGeneration
  Replica = {1,2}
  Peer = {9}
  Types = {"insert_feature","delete_feature","set_geometry","set_property","delete_property","edit_geometry"}
  MaxOps = 3
  MaxPeerOps = 1
  MaxRestores = 0
SPECIFICATION Spec
INVARIANTS
  FeaturesAreMeant
  EditsStayInTheirGeneration
PROPERTY LocalEditsTakeEffect
CHECK_DEADLOCK FALSE
