-------------------------- MODULE MCDocumentFeatures --------------------------
(* Instances of DocumentReplicas small enough for TLC.                     *)
EXTENDS DocumentReplicas

BaseGeneration == << 0, 0 >>
=============================================================================
