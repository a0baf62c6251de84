--------------------------- MODULE MCCallPinentry ---------------------------
(***************************************************************************)
(* Small instances of CallPinentry.                                        *)
(***************************************************************************)
EXTENDS CallPinentry

=============================================================================
