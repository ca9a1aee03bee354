--------------------------- MODULE FollowerProofs ---------------------------
(***************************************************************************)
(* Proofs about the follower, for every set of joints, limits, commands    *)
(* and timeout.  First what the operators of MockArm and SafetyController  *)
(* preserve, then an inductive invariant, then what follows from it.       *)
(***************************************************************************)
EXTENDS Follower, TLAPS

USE DEF Never
-----------------------------------------------------------------------------
(* The arm and the validation *)

LEMMA TowardBetween ==
  ASSUME NEW x \in Int, NEW t \in Int, NEW d \in Nat
  PROVE  /\ Toward(x, t, d) \in Int
         /\ x <= t => x <= Toward(x, t, d) /\ Toward(x, t, d) <= t
         /\ t <= x => t <= Toward(x, t, d) /\ Toward(x, t, d) <= x
BY DEF Toward

LEMMA HoldProperties ==
  ASSUME NEW a \in Arms
  PROVE  /\ Hold(a) \in Arms
         /\ Hold(a).pos = a.pos /\ Hold(a).target = a.pos
BY DEF Hold, Arms, Statuses

LEMMA EStopProperties ==
  ASSUME NEW a \in Arms
  PROVE  /\ EStop(a) \in Arms
         /\ EStop(a).pos = a.pos /\ EStop(a).target = a.pos
         /\ EStop(a).status = "estop"
BY DEF EStop, Hold, Arms, Statuses

LEMMA ApplyProperties ==
  ASSUME NEW a \in Arms, NEW p \in Positions, NEW g \in Int
  PROVE  /\ ApplyCommand(a, p, UnitGripper(g)) \in Arms
         /\ ApplyCommand(a, p, UnitGripper(g)).pos = a.pos
         /\ ApplyCommand(a, p, UnitGripper(g)).target = p
<1>1. UnitGripper(UnitGripper(g)) \in Grips
  BY ArmAssumption DEF UnitGripper, Grips
<1> QED BY <1>1 DEF ApplyCommand, Arms

\* A step is well typed, keeps the target, and leaves the arm where it is when
\* it is already at its target or is stopped.
LEMMA StepProperties ==
  ASSUME NEW a \in Arms
  PROVE  /\ Step(a) \in Arms
         /\ Step(a).target = a.target
         /\ a.target = a.pos => Step(a).pos = a.pos
         /\ a.status = "estop" => Step(a) = a
<1>1. CASE a.status = "estop"
  BY <1>1 DEF Step
<1>2. CASE a.status # "estop"
  <2> DEFINE q == [j \in Joints |-> Toward(a.pos[j], a.target[j], MaxStep[j])]
             g == Toward(a.grip, a.gripTarget, GripperStep)
             s == IF a.status = "holding" THEN "holding"
                  ELSE IF a.target # a.pos THEN "moving" ELSE "ready"
  <2>1. a.pos \in [Joints -> Int] /\ a.target \in [Joints -> Int]
    BY DEF Arms, Positions
  <2>2. q \in Positions
    BY <2>1, TowardBetween, ArmAssumption DEF Positions
  <2>3. g \in Grips
    <3>1. /\ a.grip \in Int /\ 0 <= a.grip /\ a.grip <= GripperClosed
          /\ a.gripTarget \in Int /\ 0 <= a.gripTarget /\ a.gripTarget <= GripperClosed
      BY ArmAssumption DEF Arms, Grips
    <3> QED BY <3>1, ArmAssumption DEF Grips, Toward
  <2>4. s \in {"ready", "moving", "holding"}
    OBVIOUS
  <2>5. Step(a) = [a EXCEPT !.pos = q, !.grip = g, !.status = s]
    BY <1>2 DEF Step
  <2>6. Step(a) \in Arms /\ Step(a).target = a.target /\ Step(a).pos = q
    <3> HIDE DEF q, g, s
    <3> QED BY <2>2, <2>3, <2>4, <2>5 DEF Arms, Statuses
  <2>7. ASSUME a.target = a.pos PROVE q = a.pos
    <3>1. \A j \in Joints : Toward(a.pos[j], a.target[j], MaxStep[j]) = a.pos[j]
      BY <2>1, <2>7, ArmAssumption DEF Toward
    <3> QED BY <2>1, <3>1
  <2> QED BY <1>2, <2>6, <2>7
<1> QED BY <1>1, <1>2

\* Motion stays between where the arm is and where it is headed.
LEMMA StepWithinSoft ==
  ASSUME NEW a \in Arms, WithinSoft(a.pos), WithinSoft(a.target)
  PROVE  WithinSoft(Step(a).pos) /\ WithinSoft(Step(a).target)
<1>1. WithinSoft(Step(a).target)
  BY StepProperties
<1>2. CASE a.status = "estop"
  BY <1>1, <1>2 DEF Step
<1>3. CASE a.status # "estop"
  <2>1. ASSUME NEW j \in Joints
        PROVE  /\ SoftLower[j] <= Toward(a.pos[j], a.target[j], MaxStep[j])
               /\ Toward(a.pos[j], a.target[j], MaxStep[j]) <= SoftUpper[j]
    <3>1. /\ a.pos[j] \in Int /\ a.target[j] \in Int /\ MaxStep[j] \in Nat
          /\ SoftLower[j] \in Int /\ SoftUpper[j] \in Int
      BY ArmAssumption, LimitsAssumption DEF Arms, Positions
    <3>2. /\ SoftLower[j] <= a.pos[j] /\ a.pos[j] <= SoftUpper[j]
          /\ SoftLower[j] <= a.target[j] /\ a.target[j] <= SoftUpper[j]
      BY DEF WithinSoft
    <3> QED BY <3>1, <3>2 DEF Toward
  <2>2. Step(a).pos = [j \in Joints |-> Toward(a.pos[j], a.target[j], MaxStep[j])]
    BY <1>3 DEF Step, Arms
  <2> QED BY <1>1, <2>1, <2>2 DEF WithinSoft
<1> QED BY <1>2, <1>3

\* Clamping never leaves a joint beyond its soft limits.
LEMMA ClampedWithinSoft ==
  ASSUME NEW p \in Positions
  PROVE  Clamped(p) \in Positions /\ WithinSoft(Clamped(p))
BY LimitsAssumption DEF Positions, Clamped, WithinSoft

LEMMA HomeWithinSoft == Home \in Positions /\ WithinSoft(Home)
BY LimitsAssumption DEF Home, Positions, WithinSoft

\* A command that is let through while no pose comes with it is in the workspace
\* once clamped, and was not judged under a latched E-stop.
LEMMA SafeVerdict ==
  ASSUME NEW latched \in BOOLEAN, NEW b \in CommandBodies, Safe(Validate(latched, b))
  PROVE  /\ ~latched
         /\ b.pose = "none" => Clamped(b.positions) \in Workspace
BY DEF Safe, Validate, InWorkspace

LEMMA ValidateType ==
  ASSUME NEW latched \in BOOLEAN, NEW b \in CommandBodies
  PROVE  Validate(latched, b) \in Verdicts
BY DEF Validate, Verdicts
-----------------------------------------------------------------------------
(* The inductive invariant *)

LEMMA BodyType ==
  ASSUME NEW c \in Commands
  PROVE  /\ c.seq \in Nat /\ c.stamp \in Nat
         /\ c.body \in CommandBodies
         /\ c.body.positions \in Positions /\ c.body.gripper \in Int
         /\ c # None
BY FollowerAssumption, NoneAssumption DEF Commands, CommandBodies

\* What the verdict does to the arm, whichever it is.
LEMMA DrivenProperties ==
  ASSUME TypeOK, WithinSoft(arm.pos), WithinSoft(arm.target), cmd \in Commands
  PROVE  /\ Driven(cmd.body) \in Arms
         /\ WithinSoft(Driven(cmd.body).pos) /\ WithinSoft(Driven(cmd.body).target)
<1>1. arm \in Arms
  BY DEF TypeOK
<1>2. CASE verdict = "estop"
  BY <1>1, <1>2, EStopProperties DEF Driven
<1>3. CASE verdict = "reject"
  BY <1>1, <1>3 DEF Driven
<1>4. CASE verdict # "estop" /\ verdict # "reject"
  <2> DEFINE p == Clamped(cmd.body.positions)
  <2>1. p \in Positions /\ WithinSoft(p) /\ cmd.body.gripper \in Int
    BY BodyType, ClampedWithinSoft
  <2>2. Driven(cmd.body) = ApplyCommand(arm, p, UnitGripper(cmd.body.gripper))
    BY <1>4 DEF Driven
  <2> HIDE DEF p
  <2> QED BY <1>1, <2>1, <2>2, ApplyProperties
<1> QED BY <1>2, <1>3, <1>4

LEMMA InitLoopInv == Init => LoopInv
<1> SUFFICES ASSUME Init PROVE LoopInv
  OBVIOUS
<1>1. arm \in Arms /\ arm.pos = Home /\ arm.target = Home
  BY HomeWithinSoft, ArmAssumption DEF Init, NewArm, Arms, Statuses, Grips
<1>2. TypeOK
  <2>1. feedback \in Statics
    BY DEF Init, Statics, Statuses
  <2>2. age \in Never .. CommandTimeout + 1
    BY FollowerAssumption DEF Init
  <2> QED BY <1>1, <2>1, <2>2 DEF Init, TypeOK, Steps, Verdicts
<1>3. HoldFreezesJoints /\ WithinSoftLimits
  BY <1>1, HomeWithinSoft DEF HoldFreezesJoints, WithinSoftLimits
<1> QED BY <1>2, <1>3 DEF Init, LoopInv,
      GatedByHold, LatestIsLast, HistoryBehind, ExitIsFresh, Resumable, FetchedIsFresh

LEMMA NextTypeOK == LoopInv /\ [Next]_vars => TypeOK'
<1> SUFFICES ASSUME LoopInv, [Next]_vars PROVE TypeOK'
  OBVIOUS
<1> USE FollowerAssumption DEF leaderVars, intakeVars, tickVars, historyVars
<1>a. TypeOK
  BY DEF LoopInv
<1>1. ASSUME NEW body \in Bodies, LeaderPublish(body) PROVE TypeOK'
  BY <1>a, <1>1 DEF TypeOK, LeaderPublish, Commands
<1>2. CASE LeaderRestart
  BY <1>a, <1>2 DEF TypeOK, LeaderRestart
<1>3. ASSUME NEW m \in net, Lose(m) PROVE TypeOK'
  BY <1>a, <1>3 DEF TypeOK, Lose
<1>4. CASE ClockTick
  BY <1>a, <1>4 DEF TypeOK, ClockTick
<1>5. ASSUME NEW m \in net, OnMalformed(m) \/ OnStale(m) PROVE TypeOK'
  BY <1>a, <1>5 DEF TypeOK, OnMalformed, OnStale, Discard
<1>6. ASSUME NEW m \in net, OnCommand(m) PROVE TypeOK'
  BY <1>a, <1>6, BodyType DEF TypeOK, OnCommand
<1>7. CASE ExitHold
  BY <1>a, <1>7 DEF TypeOK, ExitHold
<1>8. CASE WatchAlive \/ WatchLost
  BY <1>a, <1>8 DEF TypeOK, WatchAlive, WatchLost, Steps
<1>9. CASE EnterHold
  BY <1>a, <1>9, HoldProperties DEF TypeOK, EnterHold, Steps
<1>10. CASE GateClosed \/ FetchNone
  BY <1>a, <1>10, StepProperties DEF TypeOK, GateClosed, FetchNone, Steps
<1>11. CASE GateOpen \/ Fetch
  BY <1>a, <1>11 DEF TypeOK, GateOpen, Fetch, Steps
<1>12. CASE ValidateCommand
  <2>1. cmd \in Commands
    BY <1>12 DEF LoopInv, TypeOK, FetchedIsFresh, ValidateCommand
  <2>2. verdict' \in Verdicts
    BY <1>a, <1>12, <2>1, BodyType, ValidateType DEF TypeOK, ValidateCommand
  <2> QED BY <1>a, <1>12, <2>1, <2>2, BodyType DEF TypeOK, ValidateCommand, Steps
<1>13. CASE Act
  <2>1. cmd \in Commands
    BY <1>13 DEF LoopInv, TypeOK, FetchedIsFresh, Act
  <2>2. arm' \in Arms
    BY <1>a, <1>13, <2>1, DrivenProperties, StepProperties DEF Act, LoopInv, WithinSoftLimits
  <2> QED BY <1>a, <1>13, <2>2 DEF TypeOK, Act, Steps, Verdicts
<1>14. CASE PublishFeedback
  <2>1. LastStamp \in Nat
    BY <1>a, BodyType DEF TypeOK, LastStamp
  <2> QED BY <1>a, <1>14, <2>1 DEF TypeOK, PublishFeedback, Steps, Statics, Arms
<1>15. CASE TriggerEStop \/ ResetEStop
  BY <1>a, <1>15 DEF TypeOK, TriggerEStop, ResetEStop
<1>16. CASE UNCHANGED vars
  BY <1>a, <1>16 DEF TypeOK, vars
<1> QED BY <1>1, <1>2, <1>3, <1>4, <1>5, <1>6, <1>7, <1>8, <1>9, <1>10, <1>11, <1>12,
           <1>13, <1>14, <1>15, <1>16 DEF Next, Leader, Deliver, Control

LEMMA NextArm ==
  LoopInv /\ [Next]_vars => HoldFreezesJoints' /\ WithinSoftLimits' /\ GatedByHold'
<1> SUFFICES ASSUME LoopInv, [Next]_vars
             PROVE  HoldFreezesJoints' /\ WithinSoftLimits' /\ GatedByHold'
  OBVIOUS
<1> USE DEF leaderVars, intakeVars, tickVars, historyVars
<1>a. /\ arm \in Arms /\ holding \in BOOLEAN
      /\ HoldFreezesJoints /\ WithinSoft(arm.pos) /\ WithinSoft(arm.target) /\ GatedByHold
  BY DEF LoopInv, TypeOK, WithinSoftLimits
<1> DEFINE Goal == HoldFreezesJoints' /\ WithinSoftLimits' /\ GatedByHold'
           Frozen(a) == a.target = a.pos
<1>1. ASSUME arm' = arm, pc' = pc, holding' = holding \/ holding' = FALSE PROVE Goal
  BY <1>a, <1>1 DEF HoldFreezesJoints, WithinSoftLimits, GatedByHold
<1>2. ASSUME NEW body \in Bodies, LeaderPublish(body) PROVE Goal
  BY <1>1, <1>2 DEF LeaderPublish
<1>3. CASE LeaderRestart \/ ClockTick
  BY <1>1, <1>3 DEF LeaderRestart, ClockTick
<1>4. ASSUME NEW m \in net, Lose(m) \/ OnMalformed(m) \/ OnStale(m) \/ OnCommand(m)
      PROVE Goal
  BY <1>1, <1>4 DEF Lose, OnMalformed, OnStale, Discard, OnCommand
<1>5. CASE ExitHold
  BY <1>1, <1>5 DEF ExitHold
<1>6. CASE WatchAlive \/ WatchLost
  BY <1>a, <1>6 DEF WatchAlive, WatchLost, HoldFreezesJoints, WithinSoftLimits, GatedByHold
<1>7. CASE EnterHold
  BY <1>a, <1>7, HoldProperties DEF EnterHold, HoldFreezesJoints, WithinSoftLimits, GatedByHold
<1>8. CASE GateClosed \/ FetchNone
  BY <1>a, <1>8, StepProperties, StepWithinSoft
     DEF GateClosed, FetchNone, HoldFreezesJoints, WithinSoftLimits, GatedByHold
<1>9. CASE GateOpen
  BY <1>a, <1>9 DEF GateOpen, Blocked, HoldFreezesJoints, WithinSoftLimits, GatedByHold
<1>10. CASE Fetch \/ ValidateCommand
  BY <1>a, <1>10 DEF Fetch, ValidateCommand, HoldFreezesJoints, WithinSoftLimits, GatedByHold
<1>11. CASE Act
  <2>1. cmd \in Commands /\ TypeOK
    BY <1>11 DEF LoopInv, TypeOK, FetchedIsFresh, Act
  <2>2. WithinSoftLimits'
    BY <1>a, <1>11, <2>1, DrivenProperties, StepWithinSoft DEF Act, WithinSoftLimits
  <2> QED BY <1>a, <1>11, <2>2 DEF Act, HoldFreezesJoints, GatedByHold
<1>12. CASE PublishFeedback
  BY <1>a, <1>12 DEF PublishFeedback, HoldFreezesJoints, WithinSoftLimits, GatedByHold
<1>13. CASE TriggerEStop \/ ResetEStop \/ UNCHANGED vars
  BY <1>1, <1>13 DEF TriggerEStop, ResetEStop, vars
<1> QED BY <1>2, <1>3, <1>4, <1>5, <1>6, <1>7, <1>8, <1>9, <1>10, <1>11, <1>12, <1>13
        DEF Next, Leader, Deliver, Control

\* The conjuncts about sequence numbers and the hold.
LEMMA NextOrder ==
  LoopInv /\ [Next]_vars =>
    LatestIsLast' /\ HistoryBehind' /\ ExitIsFresh' /\ Resumable' /\ FetchedIsFresh'
<1> DEFINE Order == LatestIsLast /\ HistoryBehind /\ ExitIsFresh /\ Resumable /\ FetchedIsFresh
<1> SUFFICES ASSUME LoopInv, [Next]_vars PROVE Order'
  OBVIOUS
<1> USE DEF leaderVars, intakeVars, tickVars, historyVars
<1>a. /\ lastSeq \in Nat \cup {-1} /\ lossSeq \in Nat \cup {-1} /\ vetted \in Nat \cup {-1}
      /\ age \in Int /\ holding \in BOOLEAN /\ CommandTimeout \in Nat
      /\ latest \in Commands \cup {None} /\ cmd \in Commands \cup {None}
      /\ net \subseteq Commands
      /\ rx \in {"idle", "exit"} /\ pc \in Steps
  BY FollowerAssumption DEF LoopInv, TypeOK
<1>b. Order /\ GatedByHold
  BY DEF LoopInv
<1>1. ASSUME UNCHANGED <<intakeVars, age, holding, pc, cmd, lossSeq, vetted>> PROVE Order'
  BY <1>b, <1>1
     DEF LatestIsLast, HistoryBehind, ExitIsFresh, Resumable, FetchedIsFresh
<1>2. ASSUME NEW body \in Bodies, LeaderPublish(body) PROVE Order'
  BY <1>1, <1>2 DEF LeaderPublish
<1>3. ASSUME NEW m \in net, Lose(m) \/ OnMalformed(m) \/ OnStale(m) PROVE Order'
  BY <1>1, <1>3 DEF Lose, OnMalformed, OnStale, Discard
<1>4. CASE LeaderRestart \/ TriggerEStop \/ ResetEStop \/ UNCHANGED vars
  BY <1>1, <1>4 DEF LeaderRestart, TriggerEStop, ResetEStop, vars
<1> USE DEF LatestIsLast, HistoryBehind, ExitIsFresh, Resumable, FetchedIsFresh
<1>5. CASE ClockTick
  BY <1>a, <1>b, <1>5 DEF ClockTick
<1>6. ASSUME NEW m \in net, OnCommand(m) PROVE Order'
  <2>1. m \in Commands /\ m.seq \in Nat /\ m # None /\ m.seq > lastSeq
    BY <1>a, <1>6, BodyType DEF OnCommand, IsStale
  <2>2. pc \in {"validate", "act"} => cmd \in Commands /\ cmd.seq \in Nat
    BY <1>a, <1>b, BodyType
  <2> QED BY <1>a, <1>b, <1>6, <2>1, <2>2 DEF OnCommand
<1>7. CASE ExitHold
  BY <1>a, <1>b, <1>7 DEF ExitHold
<1>8. CASE WatchAlive
  BY <1>a, <1>b, <1>8 DEF WatchAlive
<1>9. CASE WatchLost
  <2>1. rx = "exit" => holding
    BY <1>a, <1>b, <1>9 DEF WatchLost, CommsLost
  <2> QED BY <1>a, <1>b, <1>9, <2>1 DEF WatchLost
<1>10. CASE EnterHold
  BY <1>a, <1>b, <1>10 DEF EnterHold
<1>11. CASE GateClosed \/ GateOpen \/ FetchNone
  BY <1>a, <1>b, <1>11 DEF GateClosed, GateOpen, FetchNone
<1>12. CASE Fetch
  BY <1>a, <1>b, <1>12, BodyType DEF Fetch, GatedByHold
<1>13. CASE ValidateCommand
  <2>1. cmd \in Commands /\ cmd.seq \in Nat
    BY <1>a, <1>b, <1>13, BodyType DEF ValidateCommand
  <2> QED BY <1>a, <1>b, <1>13, <2>1 DEF ValidateCommand
<1>14. CASE Act
  BY <1>a, <1>b, <1>14 DEF Act
<1>15. CASE PublishFeedback
  BY <1>a, <1>b, <1>15 DEF PublishFeedback
<1> QED BY <1>2, <1>3, <1>4, <1>5, <1>6, <1>7, <1>8, <1>9, <1>10, <1>11, <1>12, <1>13,
           <1>14, <1>15 DEF Next, Leader, Deliver, Control

\* LoopInv holds in every reachable state.
THEOREM LoopInvariant == Spec => []LoopInv
<1>1. LoopInv /\ [Next]_vars => LoopInv'
  BY NextTypeOK, NextArm, NextOrder DEF LoopInv
<1> QED BY InitLoopInv, <1>1, PTL DEF Spec
-----------------------------------------------------------------------------
(* What follows from it *)

\* Every variable of the follower keeps its type.
THEOREM TypeCorrect == Spec => []TypeOK
<1>1. LoopInv => TypeOK
  BY DEF LoopInv
<1> QED BY LoopInvariant, <1>1, PTL

\* While holding, the joints have no target but their own position.
THEOREM HoldIsFrozen == Spec => []HoldFreezesJoints
<1>1. LoopInv => HoldFreezesJoints
  BY DEF LoopInv
<1> QED BY LoopInvariant, <1>1, PTL

\* The arm is never beyond its soft limits.
THEOREM SoftLimitsHold == Spec => []WithinSoftLimits
<1>1. LoopInv => WithinSoftLimits
  BY DEF LoopInv
<1> QED BY LoopInvariant, <1>1, PTL

\* No command accepted before a loss reaches validation after it.
THEOREM ResumptionIsFresh == Spec => []ResumesOnFresh
<1>1. LoopInv => ResumesOnFresh
  BY DEF LoopInv, FetchedIsFresh, ResumesOnFresh
<1> QED BY LoopInvariant, <1>1, PTL

\* The controller, with its two threads and its clock, implements MotionGate.
THEOREM FollowerImplementsGate == Spec => ImplementsGate
<1>1. Init => Gate!Init
  BY DEF Init, Gate!Init
<1>2. LoopInv /\ [Next]_vars => [Gate!Next]_Gate!vars
  <2> SUFFICES ASSUME LoopInv, [Next]_vars PROVE [Gate!Next]_Gate!vars
    OBVIOUS
  <2> USE DEF leaderVars, intakeVars, tickVars, historyVars, Gate!Next, Gate!vars
  <2>1. TypeOK /\ FetchedIsFresh
    BY DEF LoopInv
  <2>2. ASSUME UNCHANGED <<lastSeq, vetted, lossSeq, estopped>> PROVE [Gate!Next]_Gate!vars
    BY <2>2
  <2>3. ASSUME NEW body \in Bodies, LeaderPublish(body) PROVE [Gate!Next]_Gate!vars
    BY <2>3, <2>2 DEF LeaderPublish
  <2>4. ASSUME NEW m \in net, Lose(m) \/ OnMalformed(m) \/ OnStale(m)
        PROVE  [Gate!Next]_Gate!vars
    BY <2>4, <2>2 DEF Lose, OnMalformed, OnStale, Discard
  <2>5. ASSUME NEW m \in net, OnCommand(m) PROVE [Gate!Next]_Gate!vars
    <3>1. m.seq \in Nat /\ m.seq > lastSeq
      BY <2>1, <2>5, BodyType DEF TypeOK, OnCommand, IsStale
    <3> QED BY <2>5, <3>1 DEF OnCommand, Gate!Accept
  <2>6. CASE WatchLost
    BY <2>6, <2>2 DEF WatchLost, Gate!LoseComms
  <2>7. CASE ValidateCommand
    <3>1. cmd \in Commands /\ cmd.seq \in Nat /\ cmd.body \in CommandBodies
      BY <2>1, <2>7, BodyType DEF TypeOK, FetchedIsFresh, ValidateCommand
    <3>2. estopped \in BOOLEAN
      BY <2>1 DEF TypeOK
    <3>3. CASE Safe(verdict')
      <4>1. ~estopped /\ verdict' # "estop"
        BY <2>7, <3>1, <3>2, <3>3, SafeVerdict DEF ValidateCommand, Safe
      <4>2. estopped' = estopped
        BY <2>7, <3>2, <4>1 DEF ValidateCommand
      <4>3. vetted' = cmd.seq /\ UNCHANGED <<lastSeq, lossSeq>>
        BY <2>7, <3>3 DEF ValidateCommand
      <4>4. cmd.seq > lossSeq /\ cmd.seq >= vetted /\ cmd.seq <= lastSeq
        BY <2>1, <2>7 DEF ValidateCommand, FetchedIsFresh
      <4> QED BY <3>1, <4>1, <4>2, <4>3, <4>4 DEF Gate!Execute
    <3>4. CASE ~Safe(verdict')
      BY <2>2, <2>7, <3>2, <3>4 DEF ValidateCommand, Gate!Latch
    <3> QED BY <3>3, <3>4
  <2>8. CASE TriggerEStop
    BY <2>8 DEF TriggerEStop, Gate!Latch
  <2>9. CASE ResetEStop
    BY <2>9 DEF ResetEStop, Gate!Reset
  <2>10. CASE \/ LeaderRestart \/ ClockTick \/ ExitHold \/ UNCHANGED vars
    BY <2>2, <2>10 DEF LeaderRestart, ClockTick, ExitHold, vars
  <2>11. CASE \/ WatchAlive \/ EnterHold \/ GateClosed \/ GateOpen \/ FetchNone \/ Fetch
              \/ Act \/ PublishFeedback
    BY <2>2, <2>11 DEF WatchAlive, EnterHold, GateClosed, GateOpen, FetchNone, Fetch, Act,
         PublishFeedback
  <2> QED BY <2>3, <2>4, <2>5, <2>6, <2>7, <2>8, <2>9, <2>10, <2>11
          DEF Next, Leader, Deliver, Control
<1> QED BY LoopInvariant, <1>1, <1>2, PTL DEF Spec, ImplementsGate, Gate!Spec
-----------------------------------------------------------------------------
(* The E-stop that a command latches *)

\* An answer with an E-stop freezes the arm in the same tick, and the gate is closed
\* from then on: the stop stays latched until the reset.
BreachInv ==
  tripped => /\ estopped
             /\ pc \notin {"fetch", "validate"}
             /\ IF pc = "act" THEN verdict = "estop" ELSE arm.target = arm.pos

LEMMA NextBreachInv ==
  ASSUME LoopInv, BreachInv, [Next]_vars
  PROVE  /\ BreachInv'
         /\ tripped /\ tripped' => arm'.pos = arm.pos
<1> USE DEF leaderVars, intakeVars, tickVars, historyVars
<1> DEFINE Goal == BreachInv' /\ (tripped /\ tripped' => arm'.pos = arm.pos)
<1>a. arm \in Arms /\ estopped \in BOOLEAN /\ tripped \in BOOLEAN
  BY DEF LoopInv, TypeOK
<1>1. ASSUME UNCHANGED <<tripped, estopped, pc, verdict, arm>> PROVE Goal
  BY <1>1 DEF BreachInv
<1>2. ASSUME NEW body \in Bodies, LeaderPublish(body) PROVE Goal
  BY <1>1, <1>2 DEF LeaderPublish
<1>3. ASSUME NEW m \in net, Lose(m) \/ OnMalformed(m) \/ OnStale(m) \/ OnCommand(m)
      PROVE Goal
  BY <1>1, <1>3 DEF Lose, OnMalformed, OnStale, Discard, OnCommand
<1>4. CASE LeaderRestart \/ ClockTick \/ ExitHold \/ UNCHANGED vars
  BY <1>1, <1>4 DEF LeaderRestart, ClockTick, ExitHold, vars
<1>5. CASE WatchAlive \/ WatchLost \/ PublishFeedback
  BY <1>5 DEF WatchAlive, WatchLost, PublishFeedback, BreachInv
<1>6. CASE EnterHold
  BY <1>a, <1>6, HoldProperties DEF EnterHold, BreachInv
<1>7. CASE GateClosed
  BY <1>a, <1>7, StepProperties DEF GateClosed, BreachInv
<1>8. CASE GateOpen \/ FetchNone \/ Fetch
  BY <1>8 DEF GateOpen, FetchNone, Fetch, Blocked, BreachInv
<1>9. CASE ValidateCommand
  BY <1>a, <1>9 DEF ValidateCommand, BreachInv
<1>10. CASE Act
  <2>1. /\ UNCHANGED <<tripped, estopped>> /\ pc' = "publish" /\ pc = "act"
        /\ arm' = Step(Driven(cmd.body))
    BY <1>10 DEF Act
  <2>2. ASSUME tripped PROVE arm'.pos = arm.pos /\ arm'.target = arm.pos
    <3>1. Driven(cmd.body) = EStop(arm)
      BY <2>1, <2>2 DEF BreachInv, Driven
    <3> QED BY <1>a, <2>1, <3>1, EStopProperties, StepProperties
  <2> QED BY <2>1, <2>2 DEF BreachInv
<1>11. CASE TriggerEStop \/ ResetEStop
  BY <1>11 DEF TriggerEStop, ResetEStop, BreachInv
<1> QED BY <1>2, <1>3, <1>4, <1>5, <1>6, <1>7, <1>8, <1>9, <1>10, <1>11
        DEF Next, Leader, Deliver, Control

\* A command that is answered with an E-stop means joints that do not move until the
\* stop is reset.
THEOREM BreachIsFrozen == Spec => BreachFreezesJoints
<1>1. Init => BreachInv
  BY DEF Init, BreachInv
<1>2. LoopInv /\ BreachInv /\ [Next]_vars => BreachInv'
  BY NextBreachInv
<1>3. LoopInv /\ BreachInv /\ [Next]_vars => [tripped /\ tripped' => arm'.pos = arm.pos]_vars
  BY NextBreachInv
<1> QED BY LoopInvariant, <1>1, <1>2, <1>3, PTL DEF Spec, BreachFreezesJoints
-----------------------------------------------------------------------------
(* The workspace *)

JudgedInv == pc = "act" /\ Safe(verdict) => Clamped(cmd.body.positions) \in Workspace

LEMMA NextJudgedInv ==
  ASSUME \A b \in Bodies : b.pose = "none", LoopInv, JudgedInv, [Next]_vars
  PROVE  /\ JudgedInv'
         /\ arm'.target \in Workspace \cup {arm.target, arm.pos}
<1> USE DEF leaderVars, intakeVars, tickVars, historyVars
<1> DEFINE Goal == JudgedInv' /\ arm'.target \in Workspace \cup {arm.target, arm.pos}
<1>a. arm \in Arms /\ TypeOK
  BY DEF LoopInv, TypeOK
<1>1. ASSUME UNCHANGED <<pc, verdict, cmd, arm>> PROVE Goal
  BY <1>1 DEF JudgedInv
<1>2. ASSUME NEW body \in Bodies, LeaderPublish(body) PROVE Goal
  BY <1>1, <1>2 DEF LeaderPublish
<1>3. ASSUME NEW m \in net, Lose(m) \/ OnMalformed(m) \/ OnStale(m) \/ OnCommand(m)
      PROVE Goal
  BY <1>1, <1>3 DEF Lose, OnMalformed, OnStale, Discard, OnCommand
<1>4. CASE LeaderRestart \/ ClockTick \/ ExitHold \/ TriggerEStop \/ ResetEStop
           \/ UNCHANGED vars
  BY <1>1, <1>4 DEF LeaderRestart, ClockTick, ExitHold, TriggerEStop, ResetEStop, vars
<1>5. CASE WatchAlive \/ WatchLost \/ PublishFeedback \/ GateOpen \/ Fetch
  BY <1>5 DEF WatchAlive, WatchLost, PublishFeedback, GateOpen, Fetch, JudgedInv
<1>6. CASE EnterHold
  BY <1>a, <1>6, HoldProperties DEF EnterHold, JudgedInv
<1>7. CASE GateClosed \/ FetchNone
  BY <1>a, <1>7, StepProperties DEF GateClosed, FetchNone, JudgedInv
<1>8. CASE ValidateCommand
  <2>1. cmd \in Commands /\ cmd.body \in Bodies /\ cmd.body \in CommandBodies
        /\ estopped \in BOOLEAN
    BY <1>a, <1>8, BodyType DEF LoopInv, TypeOK, FetchedIsFresh, ValidateCommand, Commands
  <2> QED BY <1>8, <2>1, SafeVerdict DEF ValidateCommand, JudgedInv
<1>9. CASE Act
  <2>1. cmd \in Commands
    BY <1>9 DEF LoopInv, TypeOK, FetchedIsFresh, Act
  <2> DEFINE p == Clamped(cmd.body.positions)
             d == Driven(cmd.body)
  <2>2. p \in Positions /\ cmd.body.gripper \in Int
    BY <2>1, BodyType, ClampedWithinSoft
  <2>3. d \in Arms
    BY <1>a, <2>1, DrivenProperties DEF LoopInv, WithinSoftLimits
  <2>4. d.target \in Workspace \cup {arm.target, arm.pos}
    <3>1. CASE verdict = "estop"
      BY <1>a, <3>1, EStopProperties DEF Driven
    <3>2. CASE verdict = "reject"
      BY <3>2 DEF Driven
    <3>3. CASE verdict # "estop" /\ verdict # "reject"
      <4>1. d = ApplyCommand(arm, p, UnitGripper(cmd.body.gripper))
        BY <3>3 DEF Driven
      <4>2. p \in Workspace
        BY <1>a, <1>9, <3>3 DEF Act, JudgedInv, Safe, TypeOK, Verdicts
      <4> HIDE DEF p, d
      <4> QED BY <1>a, <2>2, <4>1, <4>2, ApplyProperties
    <3> QED BY <3>1, <3>2, <3>3
  <2>5. arm'.target = d.target /\ pc' = "publish"
    BY <1>9, <2>3, StepProperties DEF Act
  <2> HIDE DEF d
  <2> QED BY <2>4, <2>5 DEF JudgedInv
<1> QED BY <1>2, <1>3, <1>4, <1>5, <1>6, <1>7, <1>8, <1>9
        DEF Next, Leader, Deliver, Control

\* Where the leaders send joints and no pose, as both of the repository's do, a
\* target the arm takes is in the workspace or is the pose it is frozen in.
THEOREM TargetsAreVetted == (\A b \in Bodies : b.pose = "none") => (Spec => TargetsVetted)
<1> SUFFICES ASSUME \A b \in Bodies : b.pose = "none" PROVE Spec => TargetsVetted
  OBVIOUS
<1>1. Init => JudgedInv
  BY DEF Init, JudgedInv
<1>2. LoopInv /\ JudgedInv /\ [Next]_vars => JudgedInv'
  BY NextJudgedInv
<1>3. LoopInv /\ JudgedInv /\ [Next]_vars
        => [arm'.target \in Workspace \cup {arm.target, arm.pos}]_vars
  BY NextJudgedInv
<1> QED BY LoopInvariant, <1>1, <1>2, <1>3, PTL DEF Spec, TargetsVetted
=============================================================================
