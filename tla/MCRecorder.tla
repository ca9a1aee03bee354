----------------------------- MODULE MCRecorder -----------------------------
(* The recorder with the constants of MCRecorder.cfg. *)
EXTENDS Recorder
=============================================================================
