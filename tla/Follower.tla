------------------------------ MODULE Follower ------------------------------
(***************************************************************************)
(* The follower of a teleoperation session: the controller of              *)
(* src/teleop/follower/controller.py with the latch and the watchdog of    *)
(* its SafetyController, fed by a leader over a link.                      *)
(*                                                                         *)
(* Two threads share the controller.  The transport's thread runs          *)
(* _on_command, all of it under the lock; the control thread runs _tick    *)
(* and _publish_feedback for ever, and takes the lock only to fetch the    *)
(* last command.  Its other reads and writes of the shared state, the      *)
(* holding flag above all, are not protected: each is a step of its own.   *)
(*                                                                         *)
(* The link may lose commands and deliver them late or out of order, which *)
(* is what JointCommand.seq is there for.  The leader may restart, and     *)
(* then numbers its commands from 1 again.                                 *)
(***************************************************************************)
EXTENDS SafetyController

CONSTANTS
  Bodies,          \* the command contents a leader may send
  MaxSends,        \* bound of the model: how many commands are sent in all
  CommandTimeout,  \* command_timeout_s, in units of the clock
  ManualStop,      \* whether somebody calls trigger_estop() from outside
  None             \* Python's None

ASSUME FollowerAssumption ==
  /\ Bodies \subseteq CommandBodies
  /\ MaxSends \in Nat
  /\ CommandTimeout \in Nat
  /\ ManualStop \in BOOLEAN

\* stamp is the leader's clock, which goes on when the leader is restarted.
Commands == [seq : Nat, stamp : Nat, body : Bodies]
ASSUME NoneAssumption == None \notin Commands

VARIABLES
  leaderSeq,  \* LeaderNode._seq
  sends,      \* the leader's clock: commands published so far
  net,        \* commands in flight
  rx,         \* transport thread: "idle", or "exit" when about to leave the hold;
              \*   it holds the lock exactly when it is not idle
  lastSeq,    \* FollowerController._last_seq
  latest,     \* FollowerController._latest
  age,        \* time since the last command, or Never; it stops past the timeout
  holding,    \* FollowerController._holding
  estopped,   \* SafetyController._estopped
  pc,         \* control thread: the next step of the loop
  cmd,        \* control thread: the command fetched in this tick
  verdict,    \* control thread: what validate() said of cmd
  arm,        \* the arm (MockArm.tla)
  feedback,   \* the last STATUS frame published
  lossSeq,    \* history: _last_seq when the watchdog last found the link lost
  vetted,     \* history: sequence number of the last command validated as safe
  tripped     \* history: since the last reset a command was answered with an E-stop

leaderVars == <<leaderSeq, sends>>
intakeVars == <<rx, lastSeq, latest>>
tickVars == <<cmd, verdict, arm>>
historyVars == <<lossSeq, vetted, tripped>>
vars == <<leaderVars, net, intakeVars, age, holding, estopped, pc, tickVars,
          feedback, historyVars>>

Never == -1

\* Mutant of CommsLost: the test for "no command yet" the wrong way round.
CommsLostInverted == age = Never /\ age > CommandTimeout

CommsLost == age > CommandTimeout

Statics == [status : Statuses, estopped : BOOLEAN, holding : BOOLEAN, stamp : Nat]
Steps == {"watch", "hold", "gate", "fetch", "validate", "act", "publish"}

TypeOK ==
  /\ leaderSeq \in Nat /\ sends \in Nat
  /\ net \subseteq Commands
  /\ rx \in {"idle", "exit"}
  /\ lastSeq \in Nat \cup {-1}
  /\ latest \in Commands \cup {None}
  /\ age \in Never .. CommandTimeout + 1
  /\ holding \in BOOLEAN /\ estopped \in BOOLEAN
  /\ pc \in Steps
  /\ cmd \in Commands \cup {None}
  /\ verdict \in Verdicts
  /\ arm \in Arms
  /\ feedback \in Statics
  /\ lossSeq \in Nat \cup {-1} /\ vetted \in Nat \cup {-1}
  /\ tripped \in BOOLEAN

Init ==
  /\ leaderSeq = 0 /\ sends = 0 /\ net = {}
  /\ rx = "idle" /\ lastSeq = -1 /\ latest = None /\ age = Never
  /\ holding = FALSE /\ estopped = FALSE
  /\ pc = "watch" /\ cmd = None /\ verdict = "reject"
  /\ arm = NewArm
  /\ feedback = [status |-> "ready", estopped |-> FALSE, holding |-> FALSE, stamp |-> 0]
  /\ lossSeq = -1 /\ vetted = -1 /\ tripped = FALSE
-----------------------------------------------------------------------------
(* The leader and the link *)

LeaderPublish(body) ==
  /\ sends < MaxSends
  /\ leaderSeq' = leaderSeq + 1
  /\ sends' = sends + 1
  /\ net' = net \cup {[seq |-> leaderSeq', stamp |-> sends', body |-> body]}
  /\ UNCHANGED <<intakeVars, age, holding, estopped, pc, tickVars, feedback, historyVars>>

LeaderRestart ==
  /\ leaderSeq > 0
  /\ leaderSeq' = 0
  /\ UNCHANGED <<sends, net, intakeVars, age, holding, estopped, pc, tickVars,
                 feedback, historyVars>>

Lose(m) ==
  /\ net' = net \ {m}
  /\ UNCHANGED <<leaderVars, intakeVars, age, holding, estopped, pc, tickVars,
                 feedback, historyVars>>

\* The clock stops just past the timeout, where its value no longer matters.
\* The few bytecodes that follow the time stamp of a command in _on_command
\* take less than a unit of it; only the log call, made when the follower is
\* holding, may block for longer.
ClockTick ==
  /\ age # Never /\ age <= CommandTimeout
  /\ rx = "idle" \/ holding
  /\ age' = age + 1
  /\ UNCHANGED <<leaderVars, net, intakeVars, holding, estopped, pc, tickVars,
                 feedback, historyVars>>
-----------------------------------------------------------------------------
(* The transport thread: _on_command *)

\* Mutants of IsStale: the number of the last command passes again, or every one.
IsOlder(m) == m.seq < lastSeq
NeverStale(m) == m.seq < 0

IsStale(m) == m.seq <= lastSeq
Parses(m) == m.body.shape # "malformed"

Discard(m) ==
  /\ net' = net \ {m}
  /\ UNCHANGED <<leaderVars, intakeVars, age, holding, estopped, pc, tickVars,
                 feedback, historyVars>>

OnMalformed(m) == rx = "idle" /\ ~Parses(m) /\ Discard(m)
OnStale(m) == rx = "idle" /\ Parses(m) /\ IsStale(m) /\ Discard(m)

OnCommand(m) ==
  /\ rx = "idle" /\ Parses(m) /\ ~IsStale(m)
  /\ net' = net \ {m}
  /\ lastSeq' = m.seq
  /\ latest' = m
  /\ age' = 0
  /\ rx' = "exit"
  /\ UNCHANGED <<leaderVars, holding, estopped, pc, tickVars, feedback, historyVars>>

\* Mutant of ExitHold: the follower goes on holding.
ExitHoldHeld ==
  /\ rx = "exit"
  /\ rx' = "idle"
  /\ UNCHANGED <<leaderVars, net, lastSeq, latest, age, holding, estopped, pc, tickVars,
                 feedback, historyVars>>

\* Leaving the hold is the last thing _on_command does before it unlocks.
ExitHold ==
  /\ rx = "exit"
  /\ rx' = "idle"
  /\ holding' = FALSE
  /\ UNCHANGED <<leaderVars, net, lastSeq, latest, age, estopped, pc, tickVars,
                 feedback, historyVars>>
-----------------------------------------------------------------------------
(* The control thread: _tick and _publish_feedback *)

\* "comms_lost() and not holding": the clock is read first ...
WatchAlive ==
  /\ pc = "watch" /\ ~CommsLost
  /\ pc' = "gate"
  /\ UNCHANGED <<leaderVars, net, intakeVars, age, holding, estopped, tickVars,
                 feedback, historyVars>>

WatchLost ==
  /\ pc = "watch" /\ CommsLost
  /\ pc' = "hold"
  /\ lossSeq' = IF holding THEN lossSeq ELSE lastSeq
  /\ UNCHANGED <<leaderVars, net, intakeVars, age, holding, estopped, tickVars,
                 feedback, vetted, tripped>>

\* ... and the flag afterwards, by when a command may have come in.
EnterHold ==
  /\ pc = "hold"
  /\ pc' = "gate"
  /\ arm' = IF holding THEN arm ELSE Hold(arm)
  /\ holding' = TRUE
  /\ UNCHANGED <<leaderVars, net, intakeVars, age, estopped, cmd, verdict,
                 feedback, historyVars>>

\* Mutant of Blocked: only the E-stop blocks.
BlockedByStop == estopped

Blocked == holding \/ estopped

GateClosed ==
  /\ pc = "gate" /\ Blocked
  /\ arm' = Step(arm)
  /\ pc' = "publish"
  /\ UNCHANGED <<leaderVars, net, intakeVars, age, holding, estopped, cmd, verdict,
                 feedback, historyVars>>

GateOpen ==
  /\ pc = "gate" /\ ~Blocked
  /\ pc' = "fetch"
  /\ UNCHANGED <<leaderVars, net, intakeVars, age, holding, estopped, tickVars,
                 feedback, historyVars>>

\* Needs the lock.
FetchNone ==
  /\ pc = "fetch" /\ rx = "idle" /\ latest = None
  /\ arm' = Step(arm)
  /\ pc' = "publish"
  /\ UNCHANGED <<leaderVars, net, intakeVars, age, holding, estopped, cmd, verdict,
                 feedback, historyVars>>

Fetch ==
  /\ pc = "fetch" /\ rx = "idle" /\ latest # None
  /\ cmd' = latest
  /\ pc' = "validate"
  /\ UNCHANGED <<leaderVars, net, intakeVars, age, holding, estopped, verdict, arm,
                 feedback, historyVars>>

ValidateCommand ==
  /\ pc = "validate"
  /\ verdict' = Validate(estopped, cmd.body)
  /\ estopped' = (estopped \/ verdict' = "estop")
  /\ vetted' = IF Safe(verdict') THEN cmd.seq ELSE vetted
  /\ tripped' = (tripped \/ verdict' = "estop")
  /\ pc' = "act"
  /\ UNCHANGED <<leaderVars, net, intakeVars, age, holding, cmd, arm, feedback, lossSeq>>

\* Mutant of Driven: a breach latches the stop but does not stop the arm.
DrivenOn(body) ==
  IF Safe(verdict)
  THEN ApplyCommand(arm, Clamped(body.positions), UnitGripper(body.gripper))
  ELSE arm

\* What the verdict does to the arm, before the step that ends every tick.
Driven(body) ==
  CASE verdict = "estop"  -> EStop(arm)
    [] verdict = "reject" -> arm
    [] OTHER -> ApplyCommand(arm, Clamped(body.positions), UnitGripper(body.gripper))

Act ==
  /\ pc = "act"
  /\ arm' = Step(Driven(cmd.body))
  /\ cmd' = None
  /\ verdict' = "reject"
  /\ pc' = "publish"
  /\ UNCHANGED <<leaderVars, net, intakeVars, age, holding, estopped, feedback, historyVars>>

\* _last_cmd_stamp is set where _latest is.
LastStamp == IF latest = None THEN 0 ELSE latest.stamp

PublishFeedback ==
  /\ pc = "publish"
  /\ feedback' = [status |-> arm.status, estopped |-> estopped, holding |-> holding,
                  stamp |-> LastStamp]
  /\ pc' = "watch"
  /\ UNCHANGED <<leaderVars, net, intakeVars, age, holding, estopped, tickVars, historyVars>>

(* The E-stop from outside: trigger_estop() and reset_estop() *)

TriggerEStop ==
  /\ ManualStop /\ ~estopped
  /\ estopped' = TRUE
  /\ UNCHANGED <<leaderVars, net, intakeVars, age, holding, pc, tickVars, feedback, historyVars>>

ResetEStop ==
  /\ estopped
  /\ estopped' = FALSE
  /\ tripped' = FALSE
  /\ UNCHANGED <<leaderVars, net, intakeVars, age, holding, pc, tickVars, feedback,
                 lossSeq, vetted>>
-----------------------------------------------------------------------------
Leader == LeaderRestart \/ \E body \in Bodies : LeaderPublish(body)
Deliver == \E m \in net : OnMalformed(m) \/ OnStale(m) \/ OnCommand(m)
Control == \/ WatchAlive \/ WatchLost \/ EnterHold \/ GateClosed \/ GateOpen
           \/ FetchNone \/ Fetch \/ ValidateCommand \/ Act \/ PublishFeedback

Next == \/ Leader \/ (\E m \in net : Lose(m)) \/ ClockTick
        \/ Deliver \/ ExitHold
        \/ Control
        \/ TriggerEStop \/ ResetEStop

Spec == Init /\ [][Next]_vars

\* The two threads are scheduled.  Nothing is assumed of the leader, of the link, of
\* whoever stops and resets the arm, or of how much happens before time goes on.
FairSpec == Spec /\ WF_vars(Control) /\ WF_vars(ExitHold)
-----------------------------------------------------------------------------
(* Safety *)

\* While the follower holds for loss of communication the joints have nowhere
\* to go: "stops motion, holds the current pose" (controller.py:7-8).  The flag
\* is written by one thread and cleared by the other, the target by the control
\* thread alone, so a stale gate would let a command in under the hold.
HoldFreezesJoints == holding => arm.target = arm.pos

\* The arm is never beyond a soft limit nor headed there, whatever is commanded
\* and in whichever order holds, stops and commands come (safety.py:103-110).
WithinSoftLimits == WithinSoft(arm.pos) /\ WithinSoft(arm.target)

\* A command that reaches validation is newer than every command accepted before
\* the last loss, and so is not the one the arm was following when the link was
\* cut ("resuming only after a fresh ... command", controller.py:7-9).
ResumesOnFresh == pc \in {"validate", "act"} => cmd.seq > lossSeq

\* A new target is one that validation has placed in the workspace, or else the
\* pose the arm is frozen in (safety.py:112-116, mock_arm.py:74).
TargetsVetted ==
  [][arm'.target \in Workspace \cup {arm.target, arm.pos}]_vars

\* Once a command was answered with an E-stop the joints stay where they are until the
\* reset, through watchdog holds, the commands that keep arriving and further stops from
\* outside (controller.py:117-119, mock_arm.py:78-84).
BreachFreezesJoints == [][tripped /\ tripped' => arm'.pos = arm.pos]_vars

\* The follower lets commands through to the arm as MotionGate says it does.
Gate == INSTANCE MotionGate
          WITH accepted <- lastSeq, executed <- vetted, floor <- lossSeq,
               latched <- estopped
ImplementsGate == Gate!Spec

\* Why the properties above hold, as an inductive invariant.  The command under
\* validation is the newest there was when it was fetched; the hold cannot begin
\* between the gate and the end of the tick; and a hold only ends with a command
\* newer than the loss that began it, because the thread that is about to end it
\* has just accepted one and the watchdog cannot find the link lost again before.
GatedByHold == pc \in {"fetch", "validate", "act"} => ~holding
LatestIsLast == IF latest = None THEN lastSeq = -1 ELSE latest.seq = lastSeq
HistoryBehind == lossSeq <= lastSeq /\ vetted <= lastSeq
ExitIsFresh == rx = "exit" => /\ latest # None
                              /\ lastSeq > lossSeq
                              /\ holding \/ age = 0
Resumable == latest = None \/ lastSeq > lossSeq \/ holding \/ pc = "hold"
FetchedIsFresh == pc \in {"validate", "act"} =>
                    /\ cmd # None
                    /\ cmd.seq > lossSeq /\ cmd.seq >= vetted /\ cmd.seq <= lastSeq
LoopInv ==
  /\ TypeOK /\ HoldFreezesJoints /\ WithinSoftLimits
  /\ GatedByHold /\ LatestIsLast /\ HistoryBehind /\ ExitIsFresh /\ Resumable
  /\ FetchedIsFresh

(* Liveness, under FairSpec *)

LinkIsCut == <>[][~Deliver]_vars

\* If from some moment on no command is delivered and time goes on, a follower that
\* was ever commanded ends up holding, for good (controller.py:100-104).
LossIsHeld == LinkIsCut /\ WF_vars(ClockTick) => <>[](age = Never \/ holding)

\* A command that is accepted is judged: it ends a hold, passes the gate and is fetched
\* and validated, unless a newer one, the timeout or the E-stop gets in first
\* (controller.py:82-88, 106-116).  The control thread is neither stuck behind the lock
\* nor kept in the hold.  Only a command that comes just when the watchdog has found the
\* link lost, and has yet to enter the hold, may be held up until the next one.
CommandIsJudged ==
  \A n \in 1 .. MaxSends :
    (lastSeq = n /\ rx = "exit" /\ pc # "hold")
      ~> (lastSeq > n \/ CommsLost \/ estopped \/ (pc = "act" /\ cmd.seq = n))

(* What the documentation says and the code does not do *)

\* 'ESTOP = "estop"  # emergency stop latched' (types.py:34): the status that is
\* published while the stop is latched.
StopIsReported == feedback.estopped => feedback.status = "estop"
=============================================================================
