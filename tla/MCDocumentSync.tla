---------------------------- MODULE MCDocumentSync ----------------------------
(* Instances of DocumentSync small enough for TLC.                         *)
EXTENDS DocumentSync

TwoHomes == << 1, 2 >>
=============================================================================
