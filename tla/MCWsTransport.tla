--------------------------- MODULE MCWsTransport ---------------------------
(* The transport with the constants of MCWsTransport.cfg. *)
EXTENDS WsTransport
=============================================================================
