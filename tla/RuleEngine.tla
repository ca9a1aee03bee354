----------------------------- MODULE RuleEngine -----------------------------
(***************************************************************************)
(* The deterministic rules of src/teleop/agent/supervisor.py and the       *)
(* guidance its offline backend makes of them.  An advisory is known by    *)
(* its rule; of a robot state there is what the rules ask of it.           *)
(***************************************************************************)
EXTENDS Integers, Sequences

CONSTANT None

RobotFacts == [joint : BOOLEAN, table : BOOLEAN, edge : BOOLEAN]
Rules == {"connection lost", "slow", "latency", "loss", "video", "joint", "table", "edge"}

If(condition, rule) == IF condition THEN <<rule>> ELSE <<>>

Network(t) ==
  IF ~t.connected THEN <<"connection lost">>
  ELSE If(t.latency = "slow", "slow") \o If(t.latency = "warn", "latency")
         \o If(t.lossy, "loss") \o If(~t.streamsOk, "video")

Robot(s) == If(s.joint, "joint") \o If(s.table, "table") \o If(s.edge, "edge")

IsCritical(rule) == rule = "connection lost"

\* Those of the advisories that are critical, or those that are not, in their order.
Only(critical, s) ==
  LET f[i \in 0 .. Len(s)] == IF i = 0 THEN <<>>
                              ELSE IF IsCritical(s[i]) = critical THEN Append(f[i-1], s[i])
                              ELSE f[i-1]
  IN f[Len(s)]

\* The most severe first; the sort is stable.
Triage(advisories) == Only(TRUE, advisories) \o Only(FALSE, advisories)

Evaluate(state, telemetry) ==
  Triage(Network(telemetry) \o (IF state = None THEN <<>> ELSE Robot(state)))

\* MockLLM: the offline backend repeats the first advisory; none is below a warning.
Complete(advisories) == IF advisories = <<>> THEN "nominal" ELSE Head(advisories)

\* Supervisor.guidance gives it the advisories of the rules.
Guidance(state, telemetry) == Complete(Evaluate(state, telemetry))
=============================================================================
