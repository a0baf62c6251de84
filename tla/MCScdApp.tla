------------------------------ MODULE MCScdApp ------------------------------
(* Instances of ScdApp for TLC. *)
EXTENDS ScdApp, TLC

MCIds == 1..2
=============================================================================
