----------------------------- MODULE MCFollower -----------------------------
(***************************************************************************)
(* Constants for the model checker.  One joint is enough for what depends  *)
(* on the order of steps; its soft range is -2..2, its hard range -3..3,   *)
(* and of all these configurations only 2 is out of the workspace: the one *)
(* that 3, which is in it, is clamped to.  The arm moves by 1 in a period, *)
(* so that a motion takes several.                                         *)
(***************************************************************************)
EXTENDS Follower

Joint == "j1"
At(n) == [j \in {Joint} |-> n]

MCMaxStep == At(1)
MCSoftLower == At(-2)
MCSoftUpper == At(2)
MCHardLower == At(-3)
MCHardUpper == At(3)
MCWorkspace == {At(n) : n \in -3 .. 3 \ {2}}

Body(shape, n, gripper) ==
  [shape |-> shape, positions |-> At(n), pose |-> "none", gripper |-> gripper]

Forward == Body("full", 1, 3)       \* accepted; the gripper value is clamped to 2
Back == Body("full", -3, 0)         \* clamped to -2
Outside == Body("full", 3, 0)       \* rejected: out of the workspace once clamped
Breach == Body("full", 4, 0)        \* beyond the hard limit: latches the E-stop
NonFinite == Body("nonfinite", 0, 0)
Short == Body("short", 0, 0)
Malformed == Body("malformed", 0, 0)

AllBodies == {Forward, Back, Outside, Breach, NonFinite, Short, Malformed}
FewBodies == {Forward, Outside, Breach}
=============================================================================
