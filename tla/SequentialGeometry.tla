--------------------------- MODULE SequentialGeometry ---------------------------
(***************************************************************************)
(* What a geometry is meant to be: the plain nested lists that one editor  *)
(* would end up with who performs the operations one after the other, in   *)
(* stamp order, on a list of parts, of rings, of vertices.  No trees, no   *)
(* ordering keys, no registers, no waiting: an operation whose target does *)
(* not exist, or that the type of geometry does not know, changes nothing. *)
(***************************************************************************)
EXTENDS GeometrySnapshot

Update(list, id, F(_)) ==
  [i \in DOMAIN list |-> IF list[i].id = id THEN F(list[i]) ELSE list[i]]

ListVertex(id) == [id |-> id, coord |-> id, deleted |-> FALSE]

ListRing(id, ids) ==
  [id |-> id, deleted |-> FALSE, vertices |-> [i \in DOMAIN ids |-> ListVertex(ids[i])]]

ListPart(id, RingID(_), VertexID(_, _)) ==
  [id |-> id, deleted |-> FALSE,
   rings |-> [r \in DOMAIN Shape |->
                ListRing(RingID(r - 1), [i \in 1 .. Shape[r] |-> VertexID(r - 1, i - 1)])]]

BaseList ==
  << ListPart(InitialPartID(0), LAMBDA r : InitialRingID(0, r), InitialVertexID) >>

OnPart(list, op, F(_)) == Update(list, op.part, F)

OnRing(list, op, F(_)) ==
  OnPart(list, op, LAMBDA part : [part EXCEPT !.rings = Update(@, op.ring, F)])

OnVertex(list, op, F(_)) ==
  OnRing(list, op, LAMBDA ring : [ring EXCEPT !.vertices = Update(@, op.vertex, F)])

Tombstoned(entry) == [entry EXCEPT !.deleted = TRUE]

(* Right behind the predecessor, or first.                                 *)
InsertBehind(vertices, op) ==
  LET new == ListVertex(InsertedVertexID(op))
  IN  IF op.vertex = Root
        THEN << new >> \o vertices
        ELSE LET at == { i \in DOMAIN vertices : vertices[i].id = op.vertex }
             IN  IF at = {} THEN vertices ELSE InsertAt(vertices, Min(at) + 1, new)

(* What the type of geometry admits: ring 0 of a polygon is its exterior.  *)
Admits(op) ==
  /\ op.action \in {"insert_vertex", "delete_vertex"} => PartType # "Point"
  /\ op.action = "add_ring" => PartType = "Polygon"
  /\ op.action \in {"add_part", "remove_part"} => IsMulti
  /\ op.action = "remove_ring" => ~ (PartType = "Polygon" /\ Last(op.ring) = 0)

Perform(list, op) ==
  CASE op.action = "insert_vertex" ->
         OnRing(list, op, LAMBDA ring : [ring EXCEPT !.vertices = InsertBehind(@, op)])
    [] op.action = "move_vertex" ->
         OnVertex(list, op, LAMBDA vertex : [vertex EXCEPT !.coord = MovedTo(op)])
    [] op.action = "delete_vertex" -> OnVertex(list, op, Tombstoned)
    [] op.action = "add_ring" ->
         OnPart(list, op, LAMBDA part :
           [part EXCEPT !.rings =
              Append(@, ListRing(AddedRingID(op), [i \in 1 .. Hole |-> AddRingVertexID(op, i - 1)]))])
    [] op.action = "remove_ring" -> OnRing(list, op, Tombstoned)
    [] op.action = "add_part" ->
         Append(list, ListPart(AddedPartID(op), LAMBDA r : AddPartRingID(op, r),
                               LAMBDA r, i : AddPartVertexID(op, r, i)))
    [] op.action = "remove_part" -> OnPart(list, op, Tombstoned)

Replay(ops) ==
  LET admitted == {op \in ops : Admits(op)}
      replayed[done \in SUBSET admitted] ==
        IF done = {}
          THEN BaseList
          ELSE LET op == Newest(done) IN Perform(replayed[done \ {op}], op)
  IN  replayed[admitted]

-----------------------------------------------------------------------------
(* The same lists read off a geometry of the engine.                       *)
ListOfRing(id, ring) ==
  LET order == Walk(ring.seq)
  IN  [id |-> id, deleted |-> ring.deleted,
       vertices |-> [i \in DOMAIN order |->
         LET vertex == ring.seq.vertex[order[i]]
         IN  [id |-> order[i], coord |-> vertex.coord, deleted |-> vertex.deleted]]]

ListOf(g) ==
  [p \in DOMAIN g.parts |->
    LET part == g.part[g.parts[p]]
    IN  [id |-> g.parts[p], deleted |-> part.deleted,
         rings |-> [r \in DOMAIN part.rings |->
                      ListOfRing(part.rings[r], part.ring[part.rings[r]])]]]
=============================================================================
