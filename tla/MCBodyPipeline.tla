--------------------------- MODULE MCBodyPipeline ---------------------------
(* Small instances of BodyPipeline for TLC.                                *)
EXTENDS BodyPipeline
=============================================================================
