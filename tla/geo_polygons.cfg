\* A multi-polygon of one triangle: parts and rings come and go while vertices
\* are inserted, and a peer asks for what polygons do not allow.  (Vertices of
\* peers are what geo_line is about.)
CONSTANTS
  Site = {1,2,9}
  MaxTimestamp = 8
  Kind = "MultiPolygon"
  Shape <- ThreeVertices
  Hole = 3
  Replica = {1,2}
  Peer = {9}
  Actions = {"add_part","remove_part","add_ring","remove_ring","insert_vertex"}
  PeerActions = {"add_part","remove_part","add_ring","remove_ring"}
  MaxOps = 3
  MaxPeerOps = 1
SPECIFICATION Spec
INVARIANTS
  SameAsReplay
  ReloadIsFaithful
  QuarantineAgrees
CHECK_DEADLOCK FALSE
