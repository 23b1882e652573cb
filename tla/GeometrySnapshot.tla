---------------------------- MODULE GeometrySnapshot ----------------------------
(***************************************************************************)
(* How a geometry is written into a snapshot and read back (sync.go), and  *)
(* what a snapshot is checked for before it is read (snapshot_validation). *)
(* Operations that wait are no part of it: they are written beside it and  *)
(* applied again.                                                          *)
(***************************************************************************)
EXTENDS GeometryEngine

-----------------------------------------------------------------------------
(* Vertices in document order, parents before children.                    *)
SnapshotVertices(s) ==
  LET order == Walk(s)
  IN  [i \in DOMAIN order |->
        LET v == s.vertex[order[i]]
        IN  [id |-> order[i], parent |-> v.parent, key |-> v.key, coord |-> v.coord,
             deleted |-> v.deleted, moveReg |-> v.moveReg]]

SnapshotRing(id, ring) ==
  [id |-> id, key |-> ring.key, exterior |-> ring.exterior, deleted |-> ring.deleted,
   vertices |-> SnapshotVertices(ring.seq)]

SnapshotPart(id, part) ==
  [id |-> id, key |-> part.key, deleted |-> part.deleted,
   rings |-> [k \in DOMAIN part.rings |->
                SnapshotRing(part.rings[k], part.ring[part.rings[k]])]]

SnapshotGeometry(g) ==
  [i \in DOMAIN g.parts |-> SnapshotPart(g.parts[i], g.part[g.parts[i]])]

-----------------------------------------------------------------------------
RestoreVertex(s, v) ==
  LET placed == [Insert(s, v.id, v.parent, v.key, v.coord)
                   EXCEPT !.vertex[v.id].moveReg = v.moveReg]
  IN  IF v.deleted THEN Delete(placed, v.id) ELSE placed

RestoreSeq(vertices) ==
  LET restored[n \in 0 .. Len(vertices)] ==
        IF n = 0 THEN NewVertexSeq ELSE RestoreVertex(restored[n - 1], vertices[n])
  IN  restored[Len(vertices)]

RestoreRing(rs) ==
  [key |-> rs.key, exterior |-> rs.exterior, deleted |-> rs.deleted,
   seq |-> RestoreSeq(rs.vertices)]

(* The entries of a sequence by their IDs.                                 *)
ByID(entries, Restore(_)) ==
  [id \in { entries[i].id : i \in DOMAIN entries } |->
     Restore(entries[CHOOSE i \in DOMAIN entries : entries[i].id = id])]

IDs(entries) == [i \in DOMAIN entries |-> entries[i].id]

RestorePart(ps) ==
  [key |-> ps.key, deleted |-> ps.deleted, rings |-> IDs(ps.rings),
   ring |-> ByID(ps.rings, RestoreRing)]

RestoreGeometry(snap) ==
  [parts |-> IDs(snap), part |-> ByID(snap, RestorePart), pending |-> << >>]

-----------------------------------------------------------------------------
(***************************************************************************)
(* Validation.  A stamp is plausible if the clocks of the snapshot,        *)
(* "lastTimestamp" and "applied", cover it.                                *)
(***************************************************************************)
Plausible(stamp, lastTimestamp, applied) ==
  /\ stamp.ts <= lastTimestamp
  /\ stamp.seq <= applied[stamp.site]

StrictlyOrdered(entries) ==
  \A i \in 1 .. Len(entries) - 1 : SetKeyBefore(entries[i].key, entries[i + 1].key)

DistinctIDs(entries) == IsInjective(IDs(entries))

\* Mutant of DerivedVertexID: the rings of added parts are taken for initial ones.
DerivedVertexIDOfBase(partKey, ringKey, key) ==
  CASE ~ key.initial                   -> InsertedVertexID(key.stamp)
    [] key.initial /\ ringKey.initial  -> InitialVertexID(ringKey.pos, key.pos)
    [] OTHER                           -> AddRingVertexID(ringKey.stamp, key.pos)

(* The ID that the keys of a part, its ring and its vertex stand for.      *)
DerivedVertexID(partKey, ringKey, key) ==
  CASE ~ key.initial -> InsertedVertexID(key.stamp)
    [] key.initial /\ ringKey.initial /\ partKey.initial ->
         InitialVertexID(ringKey.pos, key.pos)
    [] key.initial /\ ringKey.initial /\ ~ partKey.initial ->
         AddPartVertexID(partKey.stamp, ringKey.pos, key.pos)
    [] key.initial /\ ~ ringKey.initial -> AddRingVertexID(ringKey.stamp, key.pos)

DerivedRingID(partKey, key) ==
  CASE ~ key.initial                   -> AddedRingID(key.stamp)
    [] key.initial /\ partKey.initial  -> InitialRingID(partKey.pos, key.pos)
    [] OTHER                           -> AddPartRingID(partKey.stamp, key.pos)

DerivedPartID(key) ==
  IF key.initial THEN InitialPartID(key.pos) ELSE AddedPartID(key.stamp)

(* Each vertex but the first of a chain hangs below the one before it.     *)
DerivedParent(partKey, ringKey, key) ==
  IF key.pos = 0 THEN Root
                 ELSE DerivedVertexID(partKey, ringKey, InitialKey(key.pos - 1))

ValidRing(rs, partKey, lastTimestamp, applied) ==
  LET vs == rs.vertices
  IN  /\ \A i \in DOMAIN vs :
           LET v == vs[i]
           IN  /\ v.parent = Root \/ \E j \in 1 .. (i - 1) : vs[j].id = v.parent
               /\ v.key.initial => v.parent = DerivedParent(partKey, rs.key, v.key)
               /\ v.id = DerivedVertexID(partKey, rs.key, v.key)
               /\ ~ v.key.initial => Plausible(v.key.stamp, lastTimestamp, applied)
               /\ v.moveReg # NoStamp => Plausible(v.moveReg, lastTimestamp, applied)
      /\ \A i, j \in DOMAIN vs :
           i # j => /\ vs[i].id # vs[j].id
                    /\ << vs[i].parent, vs[i].key >> # << vs[j].parent, vs[j].key >>
      /\ Walk(RestoreRing(rs).seq) = IDs(vs)
      /\ PartType = "Point" => Len(vs) = 1 /\ ~ vs[1].deleted

ValidPart(ps, lastTimestamp, applied) ==
  /\ ps.rings # << >>
  /\ PartType # "Polygon" => Len(ps.rings) = 1
  /\ DistinctIDs(ps.rings) /\ StrictlyOrdered(ps.rings)
  /\ \A k \in DOMAIN ps.rings :
       LET rs == ps.rings[k]
       IN  /\ rs.id = DerivedRingID(ps.key, rs.key)
           /\ rs.key.initial => rs.key.pos = k - 1
           /\ ~ rs.key.initial => /\ PartType = "Polygon"
                                  /\ Plausible(rs.key.stamp, lastTimestamp, applied)
           /\ rs.exterior <=> PartType = "Polygon" /\ k = 1
           /\ rs.exterior => ~ rs.deleted
           /\ ValidRing(rs, ps.key, lastTimestamp, applied)

ValidGeometrySnapshot(snap, lastTimestamp, applied) ==
  /\ ~ IsMulti => Len(snap) = 1 /\ ~ snap[1].deleted
  /\ DistinctIDs(snap) /\ StrictlyOrdered(snap)
  /\ \A i \in DOMAIN snap :
       /\ snap[i].id = DerivedPartID(snap[i].key)
       /\ snap[i].key.initial => snap[i].key.pos = i - 1
       /\ ~ snap[i].key.initial => IsMulti /\ Plausible(snap[i].key.stamp, lastTimestamp, applied)
       /\ ValidPart(snap[i], lastTimestamp, applied)
=============================================================================
