------------------------------ MODULE MCRelay ------------------------------
(***************************************************************************)
(* Constants for the model checker.  In session s the leader's transport   *)
(* connects twice and the follower's once; in session t a follower sits    *)
(* that has the same peer id, as the scripts give every session the same   *)
(* ids.  Symmetry is not used: connections differ by their URLs.           *)
(***************************************************************************)
EXTENDS Relay

MCPeerOf == [c \in Conns |-> IF c \in {"l1", "l2"} THEN "leader" ELSE "follower"]
MCSessionOf == [c \in Conns |-> IF c = "g1" THEN "t" ELSE "s"]
=============================================================================
