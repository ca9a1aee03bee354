------------------------------ MODULE MockArm ------------------------------
(***************************************************************************)
(* The arm driver of src/teleop/sim/mock_arm.py, as operators on a record. *)
(* Only the control thread touches the arm, so it has no actions of its    *)
(* own: Follower.tla calls these operators where the controller calls the  *)
(* methods.                                                                *)
(*                                                                         *)
(* Angles and the gripper opening are integers, in units of which MaxStep  *)
(* and GripperStep are covered in one control period.  Velocities are left *)
(* out: step() derives them from the positions and nothing reads them but  *)
(* the feedback.                                                           *)
(***************************************************************************)
EXTENDS Integers

CONSTANTS
  Joints,         \* the joints of the arm (six in the default configuration)
  MaxStep,        \* MaxStep[j]: max_velocity[j] * dt, how far joint j turns in a period
  GripperStep,    \* how far the gripper moves in a period (2.0 * dt)
  GripperClosed   \* the gripper value 1.0; 0 is open

ASSUME ArmAssumption ==
  /\ MaxStep \in [Joints -> Nat]
  /\ GripperStep \in Nat
  /\ GripperClosed \in Nat

Positions == [Joints -> Int]
Home == [j \in Joints |-> 0]
Statuses == {"ready", "moving", "holding", "estop"}
Grips == 0 .. GripperClosed
Arms == [pos : Positions, target : Positions, grip : Grips,
         gripTarget : Grips, status : Statuses]

NewArm == [pos |-> Home, target |-> Home, grip |-> 0, gripTarget |-> 0,
           status |-> "ready"]

\* Mutant of UnitGripper: the value is passed on as it came.
UnclampedGripper(g) == g

UnitGripper(g) == IF g < 0 THEN 0 ELSE IF g > GripperClosed THEN GripperClosed ELSE g

ApplyCommand(arm, positions, gripper) ==
  [arm EXCEPT !.target = positions, !.gripTarget = UnitGripper(gripper)]

\* Mutant of Hold: reports the hold but leaves the arm its target.
HoldStatusOnly(arm) == [arm EXCEPT !.status = "holding"]

\* Freezes the joints.  The gripper keeps its target.
Hold(arm) == [arm EXCEPT !.target = arm.pos, !.status = "holding"]

EStop(arm) == [Hold(arm) EXCEPT !.status = "estop"]

\* From x toward t by at most d.
Toward(x, t, d) == IF t > x + d THEN x + d ELSE IF t < x - d THEN x - d ELSE t

\* One control period of motion.  An arm in ESTOP does not move at all, and
\* HOLDING is a status that a step never leaves.
Step(arm) ==
  IF arm.status = "estop" THEN arm
  ELSE [arm EXCEPT
          !.pos  = [j \in Joints |-> Toward(arm.pos[j], arm.target[j], MaxStep[j])],
          !.grip = Toward(arm.grip, arm.gripTarget, GripperStep),
          !.status = IF arm.status = "holding" THEN "holding"
                     ELSE IF arm.target # arm.pos THEN "moving" ELSE "ready"]
=============================================================================
