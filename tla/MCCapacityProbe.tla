--------------------------- MODULE MCCapacityProbe ---------------------------
(* Small instances of CapacityProbe for TLC.                               *)
EXTENDS CapacityProbe
=============================================================================
