--------------------------- MODULE NetworkMonitor ---------------------------
(***************************************************************************)
(* The leader's view of the link, src/teleop/network/monitor.py, as        *)
(* operators on a record.  Commands are known by their stamps, which grow; *)
(* times are kept as ages, which stop at the value past which they make no *)
(* difference.                                                             *)
(***************************************************************************)
EXTENDS Integers, SequencesExt

CONSTANTS
  Window,         \* how many round trips are averaged
  AckTimeout,     \* command_timeout_s, in units of the clock
  MaxAge,         \* bound of the model: the longest round trip told apart
  WarnLatency, SlowLatency,
  MaxLossPercent

ASSUME MonitorAssumption ==
  /\ Window \in Nat \ {0}
  /\ {AckTimeout, MaxAge, WarnLatency, SlowLatency, MaxLossPercent} \subseteq Nat
  /\ WarnLatency <= SlowLatency

Never == -1

Monitors == [rtts : BoundedSeq(0 .. MaxAge, Window), sent : Nat, acked : Nat,
             sinceAck : Never .. AckTimeout + 1, lastStamp : Nat]

NewMonitor == [rtts |-> <<>>, sent |-> 0, acked |-> 0, sinceAck |-> Never, lastStamp |-> 0]

OnCommandSent(mon) == [mon EXCEPT !.sent = @ + 1]

\* Mutant of Pushed: the window has no end.
PushedOn(rtts, rtt) == Append(rtts, rtt)

Pushed(rtts, rtt) == Append(IF Len(rtts) = Window THEN Tail(rtts) ELSE rtts, rtt)

\* Mutant of IsRepeated: an echo of the last command counts again.
IsOlderEcho(mon, stamp) == stamp < mon.lastStamp

\* The follower repeats its last stamp in every status frame.
IsRepeated(mon, stamp) == stamp <= mon.lastStamp

OnFeedback(mon, stamp, rtt) ==
  IF IsRepeated(mon, stamp) THEN [mon EXCEPT !.sinceAck = 0]
  ELSE [mon EXCEPT !.lastStamp = stamp, !.rtts = Pushed(@, rtt),
                   !.acked = @ + 1, !.sinceAck = 0]

MonitorTick(mon) ==
  [mon EXCEPT !.sinceAck = IF @ \in 0 .. AckTimeout THEN @ + 1 ELSE @]

\* Mutant of Connected: the link is up when there has been an echo at all.
EverConnected(mon) == TRUE

\* Before the first echo the link counts as connected.
Connected(mon) == mon.sinceAck <= AckTimeout

\* The average latency, as the rules tell it apart, whether the share of commands
\* that were not acknowledged is too large, and the connection.
AverageAbove(rtts, limit) == FoldLeft(LAMBDA a, b : a + b, 0, rtts) > limit * Len(rtts)

Telemetry(mon) ==
  [latency   |-> IF AverageAbove(mon.rtts, SlowLatency) THEN "slow"
                 ELSE IF AverageAbove(mon.rtts, WarnLatency) THEN "warn" ELSE "ok",
   lossy     |-> (mon.sent - mon.acked) * 100 > MaxLossPercent * mon.sent,
   connected |-> Connected(mon),
   streamsOk |-> TRUE]

Telemetries == [latency : {"ok", "warn", "slow"}, lossy : BOOLEAN,
                connected : BOOLEAN, streamsOk : BOOLEAN]
=============================================================================
