----------------------------- MODULE MCRosBridge -----------------------------
(* The bridge with the constants of MCRosBridge.cfg and MCRosBridge_stop.cfg. *)
EXTENDS RosBridge
==============================================================================
