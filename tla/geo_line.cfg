\* A line of two vertices: inserts, moves and deletes at two replicas and a peer.
CONSTANTS
  Site = {1,2,9}
  MaxTimestamp = 8
  Kind = "LineString"
  Shape <- TwoVertices
  Hole = 3
  Replica = {1,2}
  Peer = {9}
  Actions = {"insert_vertex","move_vertex","delete_vertex"}
  PeerActions = {"insert_vertex","move_vertex","delete_vertex"}
  MaxOps = 3
  MaxPeerOps = 1
SPECIFICATION Spec
INVARIANTS
  TypeOK
  SameAsReplay
  SameOrder
  ReloadIsFaithful
  FloorFallsOnlyTogether
  ReportsAreCurrent
PROPERTIES
  InsertsRightBehind
  NothingComesBack
CHECK_DEADLOCK FALSE
