--------------------------- MODULE MCVideoSession ---------------------------
(* The video session with the constants of MCVideoSession.cfg. *)
EXTENDS VideoSession
=============================================================================
