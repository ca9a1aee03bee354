---------------------------- MODULE OperatorFeed ----------------------------
(***************************************************************************)
(* What the operator is told: the feedback handlers of the leader node,    *)
(* its network monitor, the supervisor and the two tasks of the operator   *)
(* feed, src/teleop/cloud/telemetry_relay.py.                              *)
(*                                                                         *)
(* Three threads meet in the monitor and in the last state of the robot:   *)
(* the leader's loop, the transport and the event loop of the feed.  A     *)
(* reading of the monitor is one step.  The follower is what Follower.tla  *)
(* makes of it: it repeats the stamp of the newest command it accepted,    *)
(* and may still repeat one of an earlier run of the leader.  Commands and *)
(* feedback may be lost, late and out of order: a command that was sent    *)
(* may be accepted at any time, or never, and so may what the follower has *)
(* ever reported arrive.                                                   *)
(*                                                                         *)
(* A text of guidance is known by the advisory it repeats, so that one     *)
(* with new figures in it counts as the same.  The server relays states,   *)
(* telemetry and advisories to the operator, but not guidance.             *)
(*                                                                         *)
(* The feed's own connection may break at any time.  Until its library     *)
(* finds out, what is sent is lost; then sends raise.                      *)
(***************************************************************************)
EXTENDS NetworkMonitor, RuleEngine, FiniteSets

CONSTANTS
  MaxSends,      \* bound of the model: how many commands the leader sends
  PriorStamps,   \* how many commands an earlier run of the leader had sent
  RobotStates    \* the states the robot reports

ASSUME FeedAssumption ==
  /\ MaxSends \in Nat /\ PriorStamps \in Nat
  /\ RobotStates \subseteq RobotFacts
  /\ None \notin RobotFacts

VARIABLES
  mon,           \* LeaderNode.monitor
  lastState,     \* LeaderNode._last_state
  elapsed,       \* time since each command was stamped
  echoed,        \* the values that the follower's last_cmd_stamp has had
  link,          \* the feed's connection: "up", or "broken"
  feed,          \* the feed task: what it does next
  sample,        \* the feed task: what it is about to send
  guide,         \* the guidance task: "off", "ask", or "answer" while the model thinks
  text,          \* the guidance task: the answer
  lastGuidance,  \* TelemetryRelay._last_guidance
  ui,            \* what the operator sees: state, telemetry and advisories
  told,          \* the guidance that reached the server
  heard          \* history: stamps echoed to this leader

linkVars == <<elapsed, echoed>>
leaderVars == <<mon, lastState, heard>>
feedVars == <<feed, sample, ui>>
guideVars == <<guide, text, lastGuidance, told>>
vars == <<leaderVars, linkVars, link, feedVars, guideVars>>

Stamps == 1 .. PriorStamps + MaxSends
States == RobotStates \cup {None}
Texts == Rules \cup {"nominal", ""}
Samples == [state : States, telemetry : Telemetries, advisories : Seq(Rules)]

TypeOK ==
  /\ mon \in Monitors
  /\ lastState \in States
  /\ elapsed \in [Stamps -> 0 .. MaxAge]
  /\ echoed \subseteq Stamps
  /\ link \in {"up", "broken"}
  /\ feed \in {"connect", "sample", "state", "telemetry", "advisory", "sleep"}
  /\ sample \in Samples /\ ui \in Samples
  /\ guide \in {"off", "ask", "answer"}
  /\ {text, lastGuidance, told} \subseteq Texts
  /\ heard \subseteq Stamps

Nothing == [state |-> None, telemetry |-> Telemetry(NewMonitor), advisories |-> <<>>]

Init ==
  /\ mon = NewMonitor /\ lastState = None /\ heard = {}
  /\ elapsed = [n \in Stamps |-> IF n <= PriorStamps THEN MaxAge ELSE 0]
  /\ echoed \in {{}, 1 .. PriorStamps}
  /\ link = "broken" /\ feed = "connect" /\ sample = Nothing /\ ui = Nothing
  /\ guide = "off" /\ text = "" /\ lastGuidance = "" /\ told = ""
-----------------------------------------------------------------------------
(* The leader's loop, the link and the follower *)

SendCommand ==
  /\ mon.sent < MaxSends
  /\ mon' = OnCommandSent(mon)
  /\ UNCHANGED <<lastState, heard, linkVars, link, feedVars, guideVars>>

FollowerAccept(n) ==
  /\ n <= PriorStamps + mon.sent
  /\ \A e \in echoed : e < n
  /\ echoed' = echoed \cup {n}
  /\ UNCHANGED <<leaderVars, elapsed, link, feedVars, guideVars>>

\* Time passes until it no longer matters to anybody.
Tick ==
  /\ elapsed' = [n \in Stamps |-> IF n <= PriorStamps + mon.sent /\ elapsed[n] < MaxAge
                                  THEN elapsed[n] + 1 ELSE elapsed[n]]
  /\ mon' = MonitorTick(mon)
  /\ UNCHANGED <<lastState, heard, echoed, link, feedVars, guideVars>>

(* The transport thread: the leader's handlers *)

OnState(s) ==
  /\ lastState' = s
  /\ UNCHANGED <<mon, heard, linkVars, link, feedVars, guideVars>>

\* The stamp 0 of a follower that was never commanded is passed over.
OnStatus(n) ==
  /\ mon' = OnFeedback(mon, n, elapsed[n])
  /\ heard' = heard \cup {n}
  /\ UNCHANGED <<lastState, linkVars, link, feedVars, guideVars>>
-----------------------------------------------------------------------------
(* The feed task: run() and _broadcast() *)

\* Mutant of Connect: the guidance sent last is not forgotten.
ConnectRemembering ==
  /\ feed = "connect"
  /\ link' = "up" /\ feed' = "sample" /\ guide' = "ask"
  /\ UNCHANGED <<leaderVars, linkVars, sample, ui, text, lastGuidance, told>>

Connect ==
  /\ feed = "connect"
  /\ link' = "up"
  /\ feed' = "sample"
  /\ lastGuidance' = ""
  /\ guide' = "ask"
  /\ UNCHANGED <<leaderVars, linkVars, sample, ui, text, told>>

Drop ==
  /\ link = "up"
  /\ link' = "broken"
  /\ UNCHANGED <<leaderVars, linkVars, feedVars, guideVars>>

Sample ==
  /\ feed = "sample"
  /\ sample' = [state |-> lastState, telemetry |-> Telemetry(mon),
                advisories |-> Evaluate(lastState, Telemetry(mon))]
  /\ feed' = IF lastState = None THEN "telemetry" ELSE "state"
  /\ UNCHANGED <<leaderVars, linkVars, link, ui, guideVars>>

Sent(field, value) == ui' = IF link = "up" THEN [ui EXCEPT ![field] = value] ELSE ui

SendState ==
  /\ feed = "state"
  /\ Sent("state", sample.state)
  /\ feed' = "telemetry"
  /\ UNCHANGED <<leaderVars, linkVars, link, sample, guideVars>>

\* Mutant of SendTelemetry: the monitor is read anew.
SendNewTelemetry ==
  /\ feed = "telemetry"
  /\ Sent("telemetry", Telemetry(mon))
  /\ feed' = "advisory"
  /\ UNCHANGED <<leaderVars, linkVars, link, sample, guideVars>>

SendTelemetry ==
  /\ feed = "telemetry"
  /\ Sent("telemetry", sample.telemetry)
  /\ feed' = "advisory"
  /\ UNCHANGED <<leaderVars, linkVars, link, sample, guideVars>>

\* The sample is not needed any more.
SendAdvisory ==
  /\ feed = "advisory"
  /\ Sent("advisories", sample.advisories)
  /\ feed' = "sleep"
  /\ sample' = Nothing
  /\ UNCHANGED <<leaderVars, linkVars, link, guideVars>>

SendRaises ==
  /\ feed \in {"state", "telemetry", "advisory"} /\ link = "broken"
  /\ feed' = "connect"
  /\ sample' = Nothing
  /\ guide' = "off" /\ text' = ""
  /\ UNCHANGED <<leaderVars, linkVars, link, ui, lastGuidance, told>>

Sleep ==
  /\ feed = "sleep"
  /\ feed' = "sample"
  /\ UNCHANGED <<leaderVars, linkVars, link, sample, ui, guideVars>>

(* The guidance task: _guidance_loop() *)

\* The rules are evaluated on what is read now, whenever the answer comes.
Ask ==
  /\ guide = "ask"
  /\ text' = Guidance(lastState, Telemetry(mon))
  /\ guide' = "answer"
  /\ UNCHANGED <<leaderVars, linkVars, link, feedVars, lastGuidance, told>>

\* Only a new text is sent; whether it arrived or the send raised is the same to
\* the loop.
Answer ==
  /\ guide = "answer"
  /\ lastGuidance' = text
  /\ told' = IF text # lastGuidance /\ link = "up" THEN text ELSE told
  /\ guide' = "ask"
  /\ text' = ""
  /\ UNCHANGED <<leaderVars, linkVars, link, feedVars>>
-----------------------------------------------------------------------------
Feedback == (\E s \in RobotStates : OnState(s)) \/ (\E n \in echoed : OnStatus(n))
Feed == Connect \/ Sample \/ SendState \/ SendTelemetry \/ SendAdvisory \/ Sleep
Guide == Ask \/ Answer

Next ==
  \/ SendCommand \/ Tick \/ Feedback \/ Drop
  \/ \E n \in Stamps : FollowerAccept(n)
  \/ Feed \/ SendRaises \/ Guide

Spec == Init /\ [][Next]_vars

\* The tasks of the feed run, it gets its connection back, and a broken one is
\* found out (the library pings), some time if not at once: hence the strong
\* fairness.
FairSpec == Spec /\ WF_vars(Tick) /\ WF_vars(Feed) /\ SF_vars(SendRaises) /\ WF_vars(Guide)
-----------------------------------------------------------------------------
(* Properties *)

\* However often the follower repeats a stamp and in whatever order the repeats
\* arrive, a command counts as acknowledged, and its round trip is measured, at
\* most once (monitor.py:36-42).
CountedOnce == mon.acked <= Cardinality(heard) /\ Len(mon.rtts) <= mon.acked

\* When a broadcast is complete, the advisories the operator sees are those of the
\* state and the telemetry seen with them, whatever arrived while the frames were
\* being sent and however many broadcasts broke off in the middle
\* (telemetry_relay.py:83-97).
FeedConsistent ==
  feed = "sleep" /\ link = "up" => ui.advisories = Evaluate(ui.state, ui.telemetry)

\* If feedback stops for good and the feed's own connection does not, then a
\* leader that has ever been answered tells the operator that the connection is
\* lost, first of all (monitor.py:58-60, supervisor.py:72-75) ...
FeedbackStops == <>[][~Feedback]_vars
FeedStays == <>[][~Drop]_vars
CutIsReported ==
  FeedbackStops /\ FeedStays =>
    <>[](mon.sinceAck = Never \/ (ui.advisories # <<>> /\ Head(ui.advisories) = "connection lost"))

\* ... and the guidance comes to say so too, although only changed texts are sent
\* and the last one sent may have been lost with a connection
\* (telemetry_relay.py:63, 113-115).
GuidanceCatchesUp ==
  FeedbackStops /\ FeedStays => <>[](told = Guidance(lastState, Telemetry(mon)))
=============================================================================
