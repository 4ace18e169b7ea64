------------------------- MODULE MCOperatorPipeline -------------------------
(* OperatorPipeline for TLC; the .cfg files give the constants.            *)
EXTENDS OperatorPipeline
=============================================================================
