------------------------- MODULE MCDocumentPipeline -------------------------
(* Values of the constants of DocumentPipeline for TLC. *)
EXTENDS DocumentPipeline, TLC

=============================================================================
