------------------------------ MODULE MCGeometry ------------------------------
(* Instances of GeometryReplicas small enough for TLC.                     *)
EXTENDS GeometryReplicas

TwoVertices == << 2 >>
ThreeVertices == << 3 >>
=============================================================================
