---------------------------- MODULE MCTransport ----------------------------
(* Instance of MasterClockTransport for TLC.  The constants are given in     *)
(* the .cfg files; liveness is checked, so no symmetry is declared.          *)
EXTENDS MasterClockTransport
=============================================================================
