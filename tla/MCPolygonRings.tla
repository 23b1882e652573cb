---------------------------- MODULE MCPolygonRings ----------------------------
(* An instance of PolygonRings small enough for TLC: four corners and a    *)
(* midpoint, one of them at two heights.                                   *)
EXTENDS PolygonRings

Corners ==
  { << 0, 0, 0 >>, << 2, 0, 0 >>, << 2, 2, 0 >>, << 0, 2, 0 >>, << 1, 1, 0 >>, << 0, 0, 1 >> }

Square == << << 0, 0, 0 >>, << 2, 0, 0 >>, << 2, 2, 0 >>, << 0, 2, 0 >> >>
=============================================================================
