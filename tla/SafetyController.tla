-------------------------- MODULE SafetyController --------------------------
(***************************************************************************)
(* The validation of one command by src/teleop/follower/safety.py.  The    *)
(* two pieces of state of the class, the E-stop latch and the time of the  *)
(* last command, are variables of Follower.tla; here is the decision.      *)
(*                                                                         *)
(* Forward kinematics is abstracted to the set Workspace of the joint      *)
(* configurations whose end-effector lies in the configured volume.        *)
(***************************************************************************)
EXTENDS MockArm

CONSTANTS
  SoftLower, SoftUpper,   \* soft limits of each joint: a target beyond is clamped
  HardLower, HardUpper,   \* hard limits of each joint: a target beyond latches the E-stop
  Workspace               \* configurations whose forward kinematics is in the volume

ASSUME LimitsAssumption ==
  /\ {SoftLower, SoftUpper, HardLower, HardUpper} \subseteq Positions
  /\ \A j \in Joints : /\ HardLower[j] <= SoftLower[j]
                       /\ SoftLower[j] <= 0 /\ 0 <= SoftUpper[j]
                       /\ SoftUpper[j] <= HardUpper[j]
  /\ Workspace \subseteq Positions

\* What a payload can be once it is on the wire: it may fail to parse, it may
\* carry fewer joints than the arm has, or a value that is not finite.  "pose"
\* is the optional end-effector pose, told apart only by the side of the
\* workspace boundary it claims.
Shapes == {"full", "short", "nonfinite", "malformed"}
Poses == {"none", "inside", "outside"}
CommandBodies ==
  [shape : Shapes, positions : Positions, pose : Poses, gripper : Int]

Verdicts == {"accept", "clamp", "reject", "estop"}

BeyondHard(positions) ==
  \E j \in Joints : positions[j] < HardLower[j] \/ positions[j] > HardUpper[j]

\* Mutant of Clamped: the lower limits are forgotten.
ClampedAbove(positions) ==
  [j \in Joints |-> IF positions[j] > SoftUpper[j] THEN SoftUpper[j] ELSE positions[j]]

Clamped(positions) ==
  [j \in Joints |-> IF positions[j] < SoftLower[j] THEN SoftLower[j]
                    ELSE IF positions[j] > SoftUpper[j] THEN SoftUpper[j]
                    ELSE positions[j]]

WithinSoft(positions) ==
  \A j \in Joints : SoftLower[j] <= positions[j] /\ positions[j] <= SoftUpper[j]

\* A pose that came with the command is believed; only without one is the
\* end-effector computed from the (clamped) joints.
InWorkspace(pose, positions) ==
  IF pose = "none" THEN positions \in Workspace ELSE pose = "inside"

\* Mutant of Validate: the workspace is checked before the joints are clamped.
ValidateUnclamped(latched, body) ==
  IF latched \/ body.shape = "short" THEN "reject"
  ELSE IF body.shape = "nonfinite" \/ BeyondHard(body.positions) THEN "estop"
  ELSE IF ~InWorkspace(body.pose, body.positions) THEN "reject"
  ELSE IF WithinSoft(body.positions) THEN "accept"
  ELSE "clamp"

Validate(latched, body) ==
  IF latched \/ body.shape = "short" THEN "reject"
  ELSE IF body.shape = "nonfinite" \/ BeyondHard(body.positions) THEN "estop"
  ELSE IF ~InWorkspace(body.pose, Clamped(body.positions)) THEN "reject"
  ELSE IF WithinSoft(body.positions) THEN "accept"
  ELSE "clamp"

Safe(verdict) == verdict \in {"accept", "clamp"}
=============================================================================
