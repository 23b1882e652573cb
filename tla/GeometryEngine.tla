----------------------------- MODULE GeometryEngine -----------------------------
(***************************************************************************)
(* The state of one GeoJSON geometry (geometry.go): parts, their rings,    *)
(* the vertices of each ring, and the operations that wait for a part, a   *)
(* ring or a vertex that has not arrived.                                  *)
(*                                                                         *)
(* A geometry is [parts, part, pending]: the order of the part IDs, the    *)
(* part behind each ID, and the operations waiting on each dependency.  A  *)
(* result is [outcome, state, dep].  Coordinate layouts and the checks of  *)
(* coordinate values are left out: every coordinate here is well formed.   *)
(***************************************************************************)
EXTENDS VertexSeq

CONSTANTS
  Kind,           \* the GeometryType of the geometry
  Shape,          \* how many vertices each ring of a base or added part has
  Hole            \* how many vertices an added ring has

Multi == {"MultiPoint", "MultiLineString", "MultiPolygon"}

IsMulti == Kind \in Multi

PartType ==
  CASE Kind \in {"Point", "MultiPoint"}           -> "Point"
    [] Kind \in {"LineString", "MultiLineString"} -> "LineString"
    [] Kind \in {"Polygon", "MultiPolygon"}       -> "Polygon"

(* The vertices a ring of a base, or of what is added to it, must have.    *)
FewestVertices ==
  CASE PartType = "Point"      -> 1
    [] PartType = "LineString" -> 2
    [] PartType = "Polygon"    -> 3

ASSUME GeometryAssumption ==
  /\ Kind \in {"Point", "LineString", "Polygon"} \cup Multi
  /\ Shape \in Seq(Nat) /\ Shape # << >>
  /\ \A r \in DOMAIN Shape : Shape[r] >= FewestVertices
  /\ PartType = "Point" => Shape = << 1 >>
  /\ PartType # "Polygon" => Len(Shape) = 1
  /\ Hole \in Nat /\ Hole >= 3

VertexActions == {"insert_vertex", "move_vertex", "delete_vertex"}

NoDep == << >>
PartDep(part) == << "part", part >>
RingDep(part, ring) == << "ring", part, ring >>
VertexDep(part, ring, vertex) == << "vertex", part, ring, vertex >>

-----------------------------------------------------------------------------
(***************************************************************************)
(* Parts and rings.                                                        *)
(***************************************************************************)
NewRing(key, exterior, ids) ==
  [key |-> key, exterior |-> exterior, deleted |-> FALSE, seq |-> Chain(ids)]

(* A part with the rings of Shape; rings and vertices count from 0.        *)
NewPart(key, RingID(_), VertexID(_, _)) ==
  [key |-> key, deleted |-> FALSE,
   rings |-> [r \in DOMAIN Shape |-> RingID(r - 1)],
   ring |-> [id \in { RingID(r - 1) : r \in DOMAIN Shape } |->
               LET r == CHOOSE r \in DOMAIN Shape : RingID(r - 1) = id
               IN  NewRing(InitialKey(r - 1), PartType = "Polygon" /\ r = 1,
                           [i \in 1 .. Shape[r] |-> VertexID(r - 1, i - 1)])]]

NewGeometryState ==
  LET id == InitialPartID(0)
  IN  [parts |-> << id >>,
       part |-> [p \in {id} |-> NewPart(InitialKey(0), LAMBDA r : InitialRingID(0, r),
                                        InitialVertexID)],
       pending |-> << >>]

\* Mutant of SetKeyBefore: newest first, as vertices are ordered.
SetKeyNewestFirst(a, b) ==
  \/ a.initial /\ ~ b.initial
  \/ a.initial /\ b.initial /\ a.pos < b.pos
  \/ ~ a.initial /\ ~ b.initial /\ Less(b.stamp, a.stamp)

(* Parts, and rings of a part: the base's first, then oldest first.        *)
SetKeyBefore(a, b) ==
  \/ a.initial /\ ~ b.initial
  \/ a.initial /\ b.initial /\ a.pos < b.pos
  \/ ~ a.initial /\ ~ b.initial /\ Less(a.stamp, b.stamp)

InsertPart(g, id, part) ==
  LET at == Position(g.parts, LAMBDA other : SetKeyBefore(part.key, g.part[other].key))
  IN  [g EXCEPT !.parts = InsertAt(@, at, id), !.part = With(@, id, part)]

InsertRing(g, p, id, ring) ==
  LET at == Position(g.part[p].rings,
                     LAMBDA other : SetKeyBefore(ring.key, g.part[p].ring[other].key))
  IN  [g EXCEPT !.part[p].rings = InsertAt(@, at, id), !.part[p].ring = With(@, id, ring)]

-----------------------------------------------------------------------------
(***************************************************************************)
(* One attempt to apply an operation.                                      *)
(***************************************************************************)
Applied(g)       == [outcome |-> "applied", state |-> g, dep |-> NoDep]
Duplicate(g)     == [outcome |-> "duplicate", state |-> g, dep |-> NoDep]
Superseded(g)    == [outcome |-> "superseded", state |-> g, dep |-> NoDep]
Quarantined(g)   == [outcome |-> "quarantined", state |-> g, dep |-> NoDep]
Buffered(g, dep) == [outcome |-> "buffered", state |-> g, dep |-> dep]

(* The parts of a simple geometry never grow, and only polygons gain rings. *)
MissingPart(g, op) ==
  IF IsMulti THEN Buffered(g, PartDep(op.part)) ELSE Quarantined(g)

MissingRing(g, op) ==
  IF PartType = "Polygon" THEN Buffered(g, RingDep(op.part, op.ring)) ELSE Quarantined(g)

(* Then(part) once the part is known, Then(ring) once part and ring are.    *)
ResolvePart(g, op, Then(_)) ==
  IF op.part \in DOMAIN g.part THEN Then(g.part[op.part]) ELSE MissingPart(g, op)

ResolveRing(g, op, Then(_)) ==
  ResolvePart(g, op, LAMBDA part :
    IF op.ring \in DOMAIN part.ring THEN Then(part.ring[op.ring]) ELSE MissingRing(g, op))

WaitForVertex(g, op) == Buffered(g, VertexDep(op.part, op.ring, op.vertex))

PutVertices(g, op, s) == [g EXCEPT !.part[op.part].ring[op.ring].seq = s]

(* op.vertex is the predecessor of an insert, the target of the others.    *)
ApplyInsertVertex(g, op) ==
  ResolveRing(g, op, LAMBDA ring :
    LET s  == ring.seq
        id == InsertedVertexID(op)
    IN  IF PartType = "Point" THEN Quarantined(g)
        ELSE IF Has(s, id) THEN Duplicate(g)
        ELSE IF op.vertex # Root /\ ~ Has(s, op.vertex) THEN WaitForVertex(g, op)
        ELSE Applied(PutVertices(g, op, Insert(s, id, op.vertex, OpKey(StampOf(op)), id))))

ApplyMoveVertex(g, op) ==
  ResolveRing(g, op, LAMBDA ring :
    LET s == ring.seq
    IN  IF ~ Has(s, op.vertex) THEN WaitForVertex(g, op)
        ELSE IF ~ MoveWins(s, op.vertex, StampOf(op)) THEN Superseded(g)
        ELSE Applied(PutVertices(g, op, Move(s, op.vertex, StampOf(op), MovedTo(op)))))

\* Mutant of ApplyDeleteVertex: a second delete counts again.
ApplyDeleteVertexAgain(g, op) ==
  ResolveRing(g, op, LAMBDA ring :
    LET s == ring.seq
    IN  IF PartType = "Point" THEN Quarantined(g)
        ELSE IF ~ Has(s, op.vertex) THEN WaitForVertex(g, op)
        ELSE Applied(PutVertices(g, op, Delete(s, op.vertex))))

ApplyDeleteVertex(g, op) ==
  ResolveRing(g, op, LAMBDA ring :
    LET s == ring.seq
    IN  IF PartType = "Point" THEN Quarantined(g)
        ELSE IF ~ Has(s, op.vertex) THEN WaitForVertex(g, op)
        ELSE IF s.vertex[op.vertex].deleted THEN Duplicate(g)
        ELSE Applied(PutVertices(g, op, Delete(s, op.vertex))))

ApplyAddRing(g, op) ==
  ResolvePart(g, op, LAMBDA part :
    LET id == AddedRingID(op)
    IN  IF PartType # "Polygon" THEN Quarantined(g)
        ELSE IF id \in DOMAIN part.ring THEN Duplicate(g)
        ELSE Applied(InsertRing(g, op.part, id,
                                NewRing(OpKey(StampOf(op)), FALSE,
                                        [i \in 1 .. Hole |-> AddRingVertexID(op, i - 1)]))))

\* Mutant of ApplyRemoveRing: a ring that has not arrived is refused.
ApplyRemoveRingNow(g, op) ==
  ResolvePart(g, op, LAMBDA part :
    IF op.ring \notin DOMAIN part.ring \/ part.ring[op.ring].exterior THEN Quarantined(g)
    ELSE IF part.ring[op.ring].deleted THEN Duplicate(g)
    ELSE Applied([g EXCEPT !.part[op.part].ring[op.ring].deleted = TRUE]))

ApplyRemoveRing(g, op) ==
  ResolveRing(g, op, LAMBDA ring :
    IF ring.exterior THEN Quarantined(g)
    ELSE IF ring.deleted THEN Duplicate(g)
    ELSE Applied([g EXCEPT !.part[op.part].ring[op.ring].deleted = TRUE]))

ApplyAddPart(g, op) ==
  LET id == AddedPartID(op)
  IN  IF ~ IsMulti THEN Quarantined(g)
      ELSE IF id \in DOMAIN g.part THEN Duplicate(g)
      ELSE Applied(InsertPart(g, id, NewPart(OpKey(StampOf(op)),
                                             LAMBDA r : AddPartRingID(op, r),
                                             LAMBDA r, i : AddPartVertexID(op, r, i))))

ApplyRemovePart(g, op) ==
  IF ~ IsMulti
    THEN Quarantined(g)
    ELSE ResolvePart(g, op, LAMBDA part :
           IF part.deleted THEN Duplicate(g)
           ELSE Applied([g EXCEPT !.part[op.part].deleted = TRUE]))

ApplyOnce(g, op) ==
  CASE op.action = "insert_vertex" -> ApplyInsertVertex(g, op)
    [] op.action = "move_vertex"   -> ApplyMoveVertex(g, op)
    [] op.action = "delete_vertex" -> ApplyDeleteVertex(g, op)
    [] op.action = "add_ring"      -> ApplyAddRing(g, op)
    [] op.action = "remove_ring"   -> ApplyRemoveRing(g, op)
    [] op.action = "add_part"      -> ApplyAddPart(g, op)
    [] op.action = "remove_part"   -> ApplyRemovePart(g, op)

-----------------------------------------------------------------------------
(***************************************************************************)
(* Waiting operations and their release.                                   *)
(***************************************************************************)
Waiting(g, dep) == IF dep \in DOMAIN g.pending THEN g.pending[dep] ELSE << >>

Enqueue(g, dep, op) == [g EXCEPT !.pending = With(@, dep, Append(Waiting(g, dep), op))]

WaitingOps(g) == UNION { ToSet(g.pending[dep]) : dep \in DOMAIN g.pending }

Dequeue(g, dep) == [g EXCEPT !.pending = Restrict(@, DOMAIN @ \ {dep})]

RingDeps(g, p, id) ==
  LET order == Walk(g.part[p].ring[id].seq)
  IN  << RingDep(p, id) >> \o [i \in DOMAIN order |-> VertexDep(p, id, order[i])]

PartDeps(g, id) ==
  LET rings == g.part[id].rings
      upTo[n \in 0 .. Len(rings)] ==
        IF n = 0 THEN << PartDep(id) >> ELSE upTo[n - 1] \o RingDeps(g, id, rings[n])
  IN  upTo[Len(rings)]

(* What the operation has just made available in g.                        *)
UnlockedDeps(g, op) ==
  CASE op.action = "insert_vertex" -> << VertexDep(op.part, op.ring, InsertedVertexID(op)) >>
    [] op.action = "add_ring" -> RingDeps(g, op.part, AddedRingID(op))
    [] op.action = "add_part" -> PartDeps(g, AddedPartID(op))
    [] OTHER -> << >>

Unlocking(d, op, g) ==
  [state |-> g, unlocked |-> Append(d.unlocked, UnlockedDeps(g, op)),
   outcomes |-> With(d.outcomes, op, "applied")]

\* Mutant of Tried: what a released operation came to is reported only if it
\* was applied.
TriedSilently(d, op, result) ==
  CASE result.outcome = "buffered" -> [d EXCEPT !.state = Enqueue(@, result.dep, op)]
    [] result.outcome = "applied"  -> Unlocking(d, op, result.state)
    [] OTHER                       -> d

(* What becomes of a released operation that came to this result.          *)
Tried(d, op, result) ==
  CASE result.outcome = "buffered" -> [d EXCEPT !.state = Enqueue(@, result.dep, op)]
    [] result.outcome = "applied"  -> Unlocking(d, op, result.state)
    [] OTHER                       -> [d EXCEPT !.outcomes = With(@, op, result.outcome)]

(* One released operation is tried again.  A drain is [state, unlocked,    *)
(* outcomes]: the geometry, the dependencies each applied operation made   *)
(* available, and what is reported of each operation.                      *)
Retry(d, op) == Tried(d, op, ApplyOnce(d.state, op))

(* All that wait for dep are tried again.                                  *)
Release(d, dep) ==
  LET ops == Waiting(d.state, dep)
      tried[n \in 0 .. Len(ops)] ==
        IF n = 0 THEN [d EXCEPT !.state = Dequeue(@, dep)] ELSE Retry(tried[n - 1], ops[n])
  IN  tried[Len(ops)]

ReleaseAll(d, deps) ==
  LET visited[n \in 0 .. Len(deps)] ==
        IF n = 0 THEN d ELSE Release(visited[n - 1], deps[n])
  IN  visited[Len(deps)]

\* Mutant of Drain: what a released operation unlocks is not visited.
DrainOnce(start) == ReleaseAll(start, start.unlocked[1])

(* What the first operation unlocked, then what those it released          *)
(* unlocked, and so on: no turn is left once all that waited are applied.  *)
Drain(start) ==
  LET turns == Cardinality(WaitingOps(start.state)) + 1
      drained[n \in 0 .. turns] ==
        IF n = 0
          THEN start
          ELSE LET d == drained[n - 1]
               IN  IF n \in DOMAIN d.unlocked THEN ReleaseAll(d, d.unlocked[n]) ELSE d
  IN  drained[turns]

(* The whole of apply: the operation, then everything it releases.         *)
Completed(g, op, result) ==
  LET told == [o \in {op} |-> result.outcome]
  IN  CASE result.outcome = "buffered" ->
             [state |-> Enqueue(g, result.dep, op), unlocked |-> << >>, outcomes |-> told]
        [] result.outcome = "applied" ->
             Drain([state |-> result.state, unlocked |-> << UnlockedDeps(result.state, op) >>,
                    outcomes |-> told])
        [] OTHER -> [state |-> g, unlocked |-> << >>, outcomes |-> told]

EngineApply(g, op) == Completed(g, op, ApplyOnce(g, op))

-----------------------------------------------------------------------------
(***************************************************************************)
(* What a local operation must satisfy.                                    *)
(***************************************************************************)
\* Mutant of Floor: one vertex less.
FloorTooLow == IF PartType = "Polygon" THEN 2 ELSE 1

Floor == IF PartType = "Polygon" THEN 3 ELSE 2

ValidLocalOp(g, op) ==
  LET part == g.part[op.part]
      ring == part.ring[op.ring]
      s    == ring.seq
  IN  CASE op.action \in VertexActions ->
             /\ op.part \in DOMAIN g.part /\ op.ring \in DOMAIN part.ring
             /\ ~ part.deleted /\ ~ ring.deleted
             /\ op.action # "move_vertex" => PartType # "Point"
             /\ Has(s, op.vertex) \/ (op.action = "insert_vertex" /\ op.vertex = Root)
             /\ op.action = "delete_vertex" => s.visible - 1 >= Floor
        [] op.action = "add_ring" -> op.part \in DOMAIN g.part /\ PartType = "Polygon"
        [] op.action = "remove_ring" ->
             /\ op.part \in DOMAIN g.part /\ op.ring \in DOMAIN part.ring
             /\ ~ ring.exterior /\ ~ ring.deleted
        [] op.action = "add_part" -> IsMulti
        [] op.action = "remove_part" ->
             IsMulti /\ op.part \in DOMAIN g.part /\ ~ part.deleted
=============================================================================
