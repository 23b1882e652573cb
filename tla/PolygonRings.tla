----------------------------- MODULE PolygonRings -----------------------------
(***************************************************************************)
(* The views of a polygon (geometry.go, validate.go): the vertices of a    *)
(* ring exported as a closed ring and parsed again for a new base, and the *)
(* repairs and checks an exported polygon goes through.                    *)
(*                                                                         *)
(* The only state is the open ring of visible vertices.  It grows vertex   *)
(* by vertex through every sequence of positions: concurrent moves and     *)
(* deletes can leave any of them behind.                                   *)
(***************************************************************************)
EXTENDS Integers, SequencesExt

CONSTANTS
  Position,  \* the coordinates << x, y, z >> vertices may have
  Shell,     \* an exterior ring beside which the ring is taken for a hole
  MaxLen     \* bound on the vertices of the ring

ASSUME PositionAssumption ==
  /\ Position \subseteq Int \X Int \X Int
  /\ Shell \in Seq(Position)
  /\ MaxLen \in Nat

VARIABLE ring

SamePositionXY(a, b) == a[1] = b[1] /\ a[2] = b[2]

Closed(r) == SamePositionXY(Head(r), Last(r))

-----------------------------------------------------------------------------
(***************************************************************************)
(* Export, and the parse that rebuilds a base from it.                     *)
(***************************************************************************)
\* Mutant of ExportRing: a ring that looks closed is left alone.
ExportUnlessClosed(r) == IF r = << >> \/ Closed(r) THEN r ELSE Append(r, Head(r))

ExportRing(r) == IF r = << >> THEN r ELSE Append(r, Head(r))

OpenRing(r) == IF Len(r) >= 2 /\ Head(r) = Last(r) THEN Front(r) ELSE r

DistinctXY(r) == Cardinality({ << p[1], p[2] >> : p \in ToSet(r) })

(* Parsing gives the open ring, or nothing where it is refused.            *)
ParseRing(r) == IF DistinctXY(OpenRing(r)) < 3 THEN {} ELSE {OpenRing(r)}

-----------------------------------------------------------------------------
(***************************************************************************)
(* Repairs, in the order RepairPolygonRings applies them.                  *)
(***************************************************************************)
Repair == {"close", "orient", "dedupe", "drop"}

(* Twice the shoelace area; positive is counter-clockwise.                 *)
SignedArea(r) ==
  IF Len(r) < 3
    THEN 0
    ELSE MapThenSumSet(LAMBDA i : LET j == (i % Len(r)) + 1
                                  IN  r[i][1] * r[j][2] - r[j][1] * r[i][2],
                       DOMAIN r)

\* Mutant of RemoveConsecutiveDuplicates: a position is never visited twice.
RemoveDuplicates(r) ==
  FoldLeft(LAMBDA kept, p :
             IF \E q \in ToSet(kept) : SamePositionXY(p, q) THEN kept ELSE Append(kept, p),
           << >>, r)

RemoveConsecutiveDuplicates(r) ==
  FoldLeft(LAMBDA kept, p :
             IF kept # << >> /\ SamePositionXY(p, Last(kept)) THEN kept ELSE Append(kept, p),
           << >>, r)

CloseRing(r) == IF Len(r) < 3 \/ Closed(r) THEN r ELSE Append(r, Head(r))

(* A closed ring keeps its closing position equal to its first.            *)
ReverseRing(r) ==
  IF Len(r) >= 2 /\ Closed(r)
    THEN Append(Reverse(Front(r)), Last(Front(r)))
    ELSE Reverse(r)

Misoriented(r, exterior) ==
  Len(r) >= 3 /\ IF exterior THEN SignedArea(r) < 0 ELSE SignedArea(r) > 0

\* Mutant of Degenerate: the closing position counts.
DegenerateAsClosed(r) == Len(RemoveConsecutiveDuplicates(r)) < 3

Degenerate(r) ==
  LET distinct == RemoveConsecutiveDuplicates(r)
  IN  Len(distinct) < (IF Len(distinct) >= 2 /\ Closed(distinct) THEN 4 ELSE 3)

RepairRing(r, exterior, repairs) ==
  LET deduped == IF "dedupe" \in repairs THEN RemoveConsecutiveDuplicates(r) ELSE r
      closed  == IF "close" \in repairs THEN CloseRing(deduped) ELSE deduped
  IN  IF "orient" \in repairs /\ Misoriented(closed, exterior)
        THEN ReverseRing(closed)
        ELSE closed

(* The loops that append only what is good.                                *)
Kept(s, good) == FoldLeft(LAMBDA kept, x : IF x \in good THEN Append(kept, x) ELSE kept, << >>, s)

RepairPolygonRings(rings, repairs) ==
  LET repaired == [i \in DOMAIN rings |-> RepairRing(rings[i], i = 1, repairs)]
  IN  IF "drop" \notin repairs
        THEN repaired
        ELSE IF Degenerate(Head(repaired))
               THEN << >>
               ELSE Kept(repaired, {r \in ToSet(repaired) : ~ Degenerate(r)})

(* A multi-polygon loses the polygons that were dropped.                   *)
RepairMultiPolygon(polygons, repairs) ==
  LET repaired == [i \in DOMAIN polygons |-> RepairPolygonRings(polygons[i], repairs)]
  IN  IF "drop" \in repairs THEN Kept(repaired, ToSet(repaired) \ {<< >>}) ELSE repaired

(* ValidatePolygonRings up to the library that checks OGC validity.        *)
ValidRing(r, exterior) ==
  /\ Len(r) >= 4
  /\ Closed(r)
  /\ IF exterior THEN SignedArea(r) >= 0 ELSE SignedArea(r) <= 0

ValidPolygonRings(rings) ==
  rings # << >> /\ \A i \in DOMAIN rings : ValidRing(rings[i], i = 1)

-----------------------------------------------------------------------------
Init == ring = << >>

(* One more visible vertex.                                                *)
Grow(p) == Len(ring) < MaxLen /\ ring' = Append(ring, p)

Next == \E p \in Position : Grow(p)

Spec == Init /\ [][Next]_ring

-----------------------------------------------------------------------------
(***************************************************************************)
(* Properties.                                                             *)
(***************************************************************************)

(* The ring as exterior, and as a hole, in closed form and as the public   *)
(* function may get it: open.                                              *)
Polygons ==
  UNION { { << r >>, << ExportRing(Shell), r >> } : r \in {ring, ExportRing(ring)} \ {<< >>} }

(* A base rebuilt from an export has the vertices that were visible, also  *)
(* where one was moved onto another; what cannot be a base is refused.     *)
BaseIsWhatWasVisible ==
  ParseRing(ExportRing(ring)) = IF DistinctXY(ring) < 3 THEN {} ELSE {ring}

(* After all repairs a view passes every check short of OGC validity: a    *)
(* multi-polygon always, a polygon unless its exterior ring was dropped.   *)
RepairedViewsPass ==
  \A rings \in Polygons :
    LET repaired == RepairPolygonRings(rings, Repair)
    IN  /\ repaired # << >> => ValidPolygonRings(repaired)
        /\ \A view \in ToSet(RepairMultiPolygon(<< rings, << ExportRing(Shell) >> >>, Repair)) :
             ValidPolygonRings(view)

(* Repairs are views: whichever are selected, they do not change the shape *)
(* of a ring that stays, and repairing twice is repairing once.            *)
RepairsKeepTheShape ==
  \A rings \in Polygons : \A repairs \in SUBSET Repair :
    LET repaired == RepairPolygonRings(rings, repairs)
        Size(r)  == LET area == SignedArea(r) IN IF area < 0 THEN - area ELSE area
    IN  /\ \A i \in DOMAIN repaired :
             /\ Size(repaired[i]) \in {Size(r) : r \in ToSet(rings)}
             /\ Len(repaired) = Len(rings) => Size(repaired[i]) = Size(rings[i])
        /\ repaired # << >> => RepairPolygonRings(repaired, repairs) = repaired
=============================================================================
