---------------------------- MODULE MCEventFanout ----------------------------
(***************************************************************************)
(* A finite instance of EventFanout.  Liveness rules out symmetry.         *)
(***************************************************************************)
EXTENDS EventFanout
=============================================================================
