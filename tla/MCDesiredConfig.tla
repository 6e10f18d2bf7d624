--------------------------- MODULE MCDesiredConfig ---------------------------
(* Instances of DesiredConfig for TLC.                                     *)
EXTENDS DesiredConfig
=============================================================================
