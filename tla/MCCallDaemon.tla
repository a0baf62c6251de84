---------------------------- MODULE MCCallDaemon ----------------------------
(***************************************************************************)
(* Small instances of CallDaemon.                                          *)
(***************************************************************************)
EXTENDS CallDaemon

=============================================================================
