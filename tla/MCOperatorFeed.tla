--------------------------- MODULE MCOperatorFeed ---------------------------
(***************************************************************************)
(* Constants for the model checker.                                        *)
(***************************************************************************)
EXTENDS OperatorFeed

MCRobotStates == {[joint |-> FALSE, table |-> TRUE, edge |-> FALSE]}
=============================================================================
