--------------------------- MODULE MCDocumentEpochs ---------------------------
(* An instance of DocumentEpochs small enough for TLC.                     *)
EXTENDS DocumentEpochs

TwoHomes == << 1, 2 >>
=============================================================================
