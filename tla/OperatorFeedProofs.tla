------------------------- MODULE OperatorFeedProofs -------------------------
(***************************************************************************)
(* Proofs about the operator feed, for every window, number of commands    *)
(* and set of states: a command is counted once, and what the operator     *)
(* sees after a broadcast hangs together.                                  *)
(***************************************************************************)
EXTENDS OperatorFeed, FiniteSetTheorems, WellFoundedInduction, TLAPS

(* Counting *)

\* A monitor whose window is not bounded.
CountedMonitors == [rtts : Seq(0 .. MaxAge), sent : Nat, acked : Nat,
                    sinceAck : Int, lastStamp : Nat]

\* Why a command is not counted twice: all the stamps that were ever echoed are below the
\* newest one that was counted, so one above it has not been heard before.
CountInv ==
  /\ mon \in CountedMonitors
  /\ elapsed \in [Stamps -> 0 .. MaxAge] /\ echoed \subseteq Stamps
  /\ IsFiniteSet(heard) /\ heard \subseteq 0 .. mon.lastStamp
  /\ CountedOnce

LEMMA StampsAreNumbers == Stamps \subseteq Nat \ {0}
BY FeedAssumption DEF Stamps

LEMMA InitCountInv == Init => CountInv
<1> SUFFICES ASSUME Init PROVE CountInv
  OBVIOUS
<1>1. mon = [rtts |-> <<>>, sent |-> 0, acked |-> 0, sinceAck |-> -1, lastStamp |-> 0]
  BY DEF Init, NewMonitor, Never
<1>2. mon \in CountedMonitors
  BY <1>1 DEF CountedMonitors
<1>3. elapsed \in [Stamps -> 0 .. MaxAge] /\ echoed \subseteq Stamps
  <2>1. MaxAge \in Nat /\ PriorStamps \in Nat /\ MaxSends \in Nat
    BY MonitorAssumption, FeedAssumption
  <2>2. elapsed = [n \in Stamps |-> IF n <= PriorStamps THEN MaxAge ELSE 0]
        /\ echoed \in {{}, 1 .. PriorStamps}
    BY DEF Init
  <2> QED BY <2>1, <2>2 DEF Stamps
<1>4. IsFiniteSet(heard) /\ Cardinality(heard) = 0 /\ heard = {}
  BY FS_EmptySet DEF Init
<1>5. Len(mon.rtts) = 0 /\ mon.acked = 0
  BY <1>1
<1>6. CountedOnce
  BY <1>4, <1>5 DEF CountedOnce
<1> QED BY <1>2, <1>3, <1>4, <1>6 DEF CountInv

\* Steps that neither acknowledge anything nor make the follower repeat another stamp.
LEMMA CountKept ==
  ASSUME CountInv, UNCHANGED heard,
         elapsed' \in [Stamps -> 0 .. MaxAge], echoed' \subseteq Stamps,
         mon' \in CountedMonitors,
         mon'.rtts = mon.rtts, mon'.acked = mon.acked, mon'.lastStamp = mon.lastStamp
  PROVE  CountInv'
BY DEF CountInv, CountedOnce

LEMMA TailType ==
  ASSUME NEW S, NEW s \in Seq(S), s # <<>>
  PROVE  Tail(s) \in Seq(S) /\ Len(Tail(s)) = Len(s) - 1
OBVIOUS

LEMMA StatusCountInv == CountInv /\ (\E n \in echoed : OnStatus(n)) => CountInv'
<1> SUFFICES ASSUME CountInv, NEW n \in echoed, OnStatus(n) PROVE CountInv'
  OBVIOUS
<1> DEFINE rtt == elapsed[n]
<1>1. /\ mon' = OnFeedback(mon, n, rtt) /\ heard' = heard \cup {n}
      /\ UNCHANGED <<elapsed, echoed>>
  BY DEF OnStatus, linkVars
<1>2. n \in Nat /\ rtt \in 0 .. MaxAge
  BY StampsAreNumbers DEF CountInv
<1>3. IsFiniteSet(heard') /\ Cardinality(heard) \in Nat
      /\ Cardinality(heard') = IF n \in heard THEN Cardinality(heard)
                               ELSE Cardinality(heard) + 1
  BY <1>1, FS_AddElement, FS_CardinalityType DEF CountInv
<1>a. mon.rtts \in Seq(0 .. MaxAge) /\ mon.acked \in Nat /\ mon.lastStamp \in Nat
  BY DEF CountInv, CountedMonitors
<1>b. mon.acked <= Cardinality(heard) /\ Len(mon.rtts) <= mon.acked
  BY DEF CountInv, CountedOnce
<1>4. CASE IsRepeated(mon, n)
  <2>1. mon' = [mon EXCEPT !.sinceAck = 0]
    BY <1>1, <1>4 DEF OnFeedback
  <2>2. mon' \in CountedMonitors
        /\ mon'.rtts = mon.rtts /\ mon'.acked = mon.acked /\ mon'.lastStamp = mon.lastStamp
    BY <2>1 DEF CountInv, CountedMonitors
  <2>3. n <= mon.lastStamp /\ heard \subseteq 0 .. mon.lastStamp
    BY <1>4 DEF IsRepeated, CountInv
  <2>4. heard' \subseteq 0 .. mon'.lastStamp
    BY <1>1, <1>2, <1>a, <2>2, <2>3
  <2>5. Cardinality(heard) <= Cardinality(heard')
    BY <1>3
  <2>6. CountedOnce'
    <3>1. Cardinality(heard') \in Nat
      BY <1>3
    <3>2. mon'.acked <= Cardinality(heard') /\ Len(mon'.rtts) <= mon'.acked
      BY <1>3, <1>a, <1>b, <2>2, <2>5, <3>1
    <3> QED BY <3>2 DEF CountedOnce
  <2> QED BY <1>1, <1>3, <2>2, <2>4, <2>6 DEF CountInv
<1>5. CASE ~IsRepeated(mon, n)
  <2>1. mon' = [mon EXCEPT !.lastStamp = n, !.rtts = Pushed(@, rtt),
                           !.acked = @ + 1, !.sinceAck = 0]
    BY <1>1, <1>5 DEF OnFeedback
  <2>2. Window \in Nat \ {0}
    BY MonitorAssumption
  <2>3. /\ Pushed(mon.rtts, rtt) \in Seq(0 .. MaxAge)
        /\ Len(Pushed(mon.rtts, rtt)) <= Len(mon.rtts) + 1 /\ Len(mon.rtts) \in Nat
    <3>1. CASE Len(mon.rtts) = Window
      <4>1. mon.rtts # <<>> /\ Pushed(mon.rtts, rtt) = Append(Tail(mon.rtts), rtt)
        BY <1>a, <2>2, <3>1 DEF Pushed
      <4>2. Tail(mon.rtts) \in Seq(0 .. MaxAge) /\ Len(Tail(mon.rtts)) = Len(mon.rtts) - 1
        BY <1>a, <4>1, TailType
      <4> QED BY <1>2, <1>a, <4>1, <4>2
    <3>2. CASE Len(mon.rtts) # Window
      <4>1. Pushed(mon.rtts, rtt) = Append(mon.rtts, rtt)
        BY <3>2 DEF Pushed
      <4> QED BY <1>2, <1>a, <4>1
    <3> QED BY <3>1, <3>2
  <2>4. /\ mon'.rtts = Pushed(mon.rtts, rtt) /\ mon'.acked = mon.acked + 1
        /\ mon'.lastStamp = n
        /\ mon' \in CountedMonitors
    <3> DEFINE rtts == Pushed(mon.rtts, rtt)
    <3>1. mon' = [mon EXCEPT !.lastStamp = n, !.rtts = rtts,
                             !.acked = mon.acked + 1, !.sinceAck = 0]
      BY <2>1
    <3>2. rtts \in Seq(0 .. MaxAge) /\ n \in Nat /\ mon.acked + 1 \in Nat /\ 0 \in Int
      BY <1>2, <1>a, <2>3
    <3> HIDE DEF rtts
    <3>3. mon \in CountedMonitors
      BY DEF CountInv
    <3>4. mon'.rtts = rtts /\ mon'.acked = mon.acked + 1 /\ mon'.lastStamp = n
      BY <3>1, <3>3 DEF CountedMonitors
    <3>5. mon' \in CountedMonitors
      BY <3>1, <3>2, <3>3 DEF CountedMonitors
    <3> QED BY <3>4, <3>5 DEF rtts
  <2>5. n > mon.lastStamp /\ n \notin heard
    BY <1>2, <1>5, <1>a DEF IsRepeated, CountInv
  <2>6. heard' \subseteq 0 .. mon'.lastStamp
    BY <1>1, <1>2, <1>a, <2>4, <2>5 DEF CountInv
  <2>7. CountedOnce'
    <3>1. Cardinality(heard') = Cardinality(heard) + 1
      BY <1>3, <2>5
    <3>2. Len(mon'.rtts) \in Nat
      BY <1>a, <2>3, <2>4
    <3>3. mon'.acked <= Cardinality(heard') /\ Len(mon'.rtts) <= mon'.acked
      BY <1>3, <1>a, <1>b, <2>3, <2>4, <3>1, <3>2
    <3> QED BY <3>3 DEF CountedOnce
  <2> QED BY <1>1, <1>3, <2>4, <2>6, <2>7 DEF CountInv
<1> QED BY <1>4, <1>5

LEMMA NextCountInv == CountInv /\ [Next]_vars => CountInv'
<1> SUFFICES ASSUME CountInv, [Next]_vars PROVE CountInv'
  OBVIOUS
<1> USE DEF leaderVars, linkVars, feedVars, guideVars
<1>1. CASE SendCommand
  <2>1. /\ mon' \in CountedMonitors
        /\ mon'.rtts = mon.rtts /\ mon'.acked = mon.acked /\ mon'.lastStamp = mon.lastStamp
    BY <1>1 DEF SendCommand, OnCommandSent, CountInv, CountedMonitors
  <2> QED BY <1>1, <2>1, CountKept DEF SendCommand, CountInv
<1>2. ASSUME NEW n \in Stamps, FollowerAccept(n) PROVE CountInv'
  BY <1>2, CountKept DEF FollowerAccept, CountInv
<1>3. CASE Tick
  <2>1. mon' = MonitorTick(mon) /\ UNCHANGED <<echoed, heard>>
    BY <1>3 DEF Tick
  <2>2. /\ mon' \in CountedMonitors
        /\ mon'.rtts = mon.rtts /\ mon'.acked = mon.acked /\ mon'.lastStamp = mon.lastStamp
    <3> DEFINE since == IF mon.sinceAck \in 0 .. AckTimeout THEN mon.sinceAck + 1
                        ELSE mon.sinceAck
    <3>1. mon' = [mon EXCEPT !.sinceAck = since] /\ mon \in CountedMonitors
      BY <2>1 DEF MonitorTick, CountInv
    <3>2. since \in Int
      BY <3>1 DEF CountedMonitors
    <3> HIDE DEF since
    <3> QED BY <3>1, <3>2 DEF CountedMonitors
  <2>3. elapsed' \in [Stamps -> 0 .. MaxAge]
    <3>1. elapsed \in [Stamps -> 0 .. MaxAge] /\ MaxAge \in Nat
      BY MonitorAssumption DEF CountInv
    <3>2. elapsed' = [n \in Stamps |-> IF n <= PriorStamps + mon.sent /\ elapsed[n] < MaxAge
                                       THEN elapsed[n] + 1 ELSE elapsed[n]]
      BY <1>3 DEF Tick
    <3> QED BY <3>1, <3>2
  <2> QED BY <2>1, <2>2, <2>3, CountKept DEF CountInv
<1>4. ASSUME UNCHANGED <<mon, heard, elapsed, echoed>> PROVE CountInv'
  BY <1>4 DEF CountInv, CountedOnce
<1>5. ASSUME NEW s \in RobotStates, OnState(s) PROVE CountInv'
  BY <1>4, <1>5 DEF OnState
<1>6. CASE Feed \/ SendRaises \/ Guide \/ Drop \/ UNCHANGED vars
  BY <1>4, <1>6 DEF Feed, Connect, Sample, SendState, SendTelemetry, SendAdvisory, Sleep,
       SendRaises, Guide, Ask, Answer, Drop, vars
<1> QED BY <1>1, <1>2, <1>3, <1>5, <1>6, StatusCountInv DEF Next, Feedback

\* A command is acknowledged at most once, for every size of the window.
THEOREM CommandsCountOnce == Spec => []CountedOnce
<1>1. CountInv => CountedOnce
  BY DEF CountInv
<1> QED BY InitCountInv, NextCountInv, <1>1, PTL DEF Spec
-----------------------------------------------------------------------------
(* Consistency of what the operator sees *)

Coherent(s) == s.advisories = Evaluate(s.state, s.telemetry)

\* A connection that is up has been up since the feed connected, so the frames of this
\* broadcast that were sent before have arrived.  No state is sent while there is none;
\* the operator then has none from an earlier broadcast either.
FeedInv ==
  /\ {"state", "telemetry", "advisories"} \subseteq DOMAIN ui
  /\ feed \in {"connect", "sample", "state", "telemetry", "advisory", "sleep"}
  /\ lastState = None => ui.state = None
  /\ feed \in {"state", "telemetry", "advisory"} =>
       Coherent(sample) /\ (lastState = None => sample.state = None)
  /\ link = "up" /\ feed \in {"telemetry", "advisory"} => ui.state = sample.state
  /\ link = "up" /\ feed = "advisory" => ui.telemetry = sample.telemetry
  /\ FeedConsistent

LEMMA InitFeedInv == Init => FeedInv
<1> SUFFICES ASSUME Init PROVE FeedInv
  OBVIOUS
<1>1. lastState = None /\ link = "broken" /\ feed = "connect"
  BY DEF Init
<1>2. ui.state = None /\ DOMAIN ui = {"state", "telemetry", "advisories"}
  <2> DEFINE t == Telemetry(NewMonitor)
  <2>1. ui = [state |-> None, telemetry |-> t, advisories |-> <<>>]
    BY DEF Init, Nothing
  <2> HIDE DEF t
  <2> QED BY <2>1
<1> QED BY <1>1, <1>2 DEF FeedInv, FeedConsistent

\* A frame is sent, or lost: what the operator sees changes in that field or not at all.
LEMMA SentField ==
  ASSUME NEW field \in {"state", "telemetry", "advisories"}, NEW value, Sent(field, value),
         {"state", "telemetry", "advisories"} \subseteq DOMAIN ui
  PROVE  /\ DOMAIN ui' = DOMAIN ui
         /\ link = "up" => ui'[field] = value
         /\ ui'[field] \in {ui[field], value}
         /\ \A f \in {"state", "telemetry", "advisories"} \ {field} : ui'[f] = ui[f]
BY DEF Sent

LEMMA NextFeedInv == FeedInv /\ [Next]_vars => FeedInv'
<1> SUFFICES ASSUME FeedInv, [Next]_vars PROVE FeedInv'
  OBVIOUS
<1> USE FeedAssumption DEF leaderVars, linkVars, feedVars, guideVars
<1>1. ASSUME UNCHANGED <<lastState, link, feed, sample, ui>> PROVE FeedInv'
  BY <1>1 DEF FeedInv, FeedConsistent, Coherent
<1>2. ASSUME NEW s \in RobotStates, OnState(s) PROVE FeedInv'
  <2>1. lastState' # None /\ UNCHANGED <<link, feed, sample, ui>>
    BY <1>2 DEF OnState
  <2> QED BY <2>1 DEF FeedInv, FeedConsistent, Coherent
<1>3. CASE Connect
  BY <1>3 DEF Connect, FeedInv, FeedConsistent
<1>4. CASE Drop
  BY <1>4 DEF Drop, FeedInv, FeedConsistent, Coherent
<1>5. CASE Sample
  <2>1. /\ feed' = IF lastState = None THEN "telemetry" ELSE "state"
        /\ UNCHANGED <<lastState, link, ui>>
    BY <1>5 DEF Sample
  <2>2. sample'.state = lastState /\ Coherent(sample)'
    BY <1>5 DEF Sample, Coherent
  <2> QED BY <2>1, <2>2 DEF FeedInv, FeedConsistent
<1>6. CASE SendState
  <2>1. /\ feed = "state" /\ feed' = "telemetry" /\ UNCHANGED <<lastState, link, sample>>
        /\ Sent("state", sample.state)
    BY <1>6 DEF SendState
  <2>2. /\ DOMAIN ui' = DOMAIN ui /\ ui'.state \in {ui.state, sample.state}
        /\ link = "up" => ui'.state = sample.state
    BY <2>1, SentField DEF FeedInv
  <2> QED BY <2>1, <2>2 DEF FeedInv, FeedConsistent, Coherent
<1>7. CASE SendTelemetry
  <2>1. /\ feed = "telemetry" /\ feed' = "advisory" /\ UNCHANGED <<lastState, link, sample>>
        /\ Sent("telemetry", sample.telemetry)
    BY <1>7 DEF SendTelemetry
  <2>2. /\ DOMAIN ui' = DOMAIN ui /\ ui'.state = ui.state
        /\ link = "up" => ui'.telemetry = sample.telemetry
    BY <2>1, SentField DEF FeedInv
  <2> QED BY <2>1, <2>2 DEF FeedInv, FeedConsistent, Coherent
<1>8. CASE SendAdvisory
  <2>1. /\ feed = "advisory" /\ feed' = "sleep" /\ UNCHANGED <<lastState, link>>
        /\ Sent("advisories", sample.advisories)
    BY <1>8 DEF SendAdvisory
  <2>2. /\ DOMAIN ui' = DOMAIN ui /\ ui'.state = ui.state /\ ui'.telemetry = ui.telemetry
        /\ link = "up" => ui'.advisories = sample.advisories
    BY <2>1, SentField DEF FeedInv
  <2> QED BY <2>1, <2>2 DEF FeedInv, FeedConsistent, Coherent
<1>9. CASE SendRaises \/ Sleep
  BY <1>9 DEF SendRaises, Sleep, FeedInv, FeedConsistent
<1>10. CASE \/ SendCommand \/ Tick \/ Guide \/ UNCHANGED vars
            \/ \E n \in echoed : OnStatus(n)
            \/ \E n \in Stamps : FollowerAccept(n)
  BY <1>1, <1>10 DEF SendCommand, Tick, Guide, Ask, Answer, OnStatus, FollowerAccept, vars
<1> QED BY <1>2, <1>3, <1>4, <1>5, <1>6, <1>7, <1>8, <1>9, <1>10 DEF Next, Feedback, Feed

\* After a broadcast the advisories the operator sees are those of the state and the
\* telemetry next to them, whatever was measured and lost in between.
THEOREM OperatorSeesConsistently == Spec => []FeedConsistent
<1>1. FeedInv => FeedConsistent
  BY DEF FeedInv
<1> QED BY InitFeedInv, NextFeedInv, <1>1, PTL DEF Spec
-----------------------------------------------------------------------------
(* The selection of advisories by a recursive function *)

LEMMA LeastNat ==
  ASSUME NEW T, T \subseteq Nat, T # {}
  PROVE  \E x \in T : \A y \in T : x <= y
<1>1. \E x \in T : \A y \in T : ~ (<<y, x>> \in OpToRel(<,Nat))
  BY WFMin, NatLessThanWellFounded
<1>2. \A x, y \in Nat : <<y, x>> \in OpToRel(<,Nat) <=> y < x
  BY DEF OpToRel
<1>3. \E x \in T : \A y \in T : ~(y < x)
  BY <1>1, <1>2
<1> QED BY <1>3

\* f selects from the first n elements of s: the definition inside Only, with an end of its
\* own.  That such a function exists, and that it takes its values among the sequences of
\* rules, goes by a least n for which it fails: the induction theorems of the library take
\* the formula as a parameter, which the provers cannot fill in.
Selects(f, c, s, n) ==
  f = [i \in 0 .. n |-> IF i = 0 THEN <<>>
                         ELSE IF IsCritical(s[i]) = c THEN Append(f[i-1], s[i]) ELSE f[i-1]]

LEMMA OnlyDef ==
  ASSUME NEW s, NEW c
  PROVE  Only(c, s) = (CHOOSE f : Selects(f, c, s, Len(s)))[Len(s)]
BY DEF Only, Selects

LEMMA SelectsFirst ==
  ASSUME NEW s \in Seq(Rules), NEW c
  PROVE  \E f \in [0..0 -> Seq(Rules)] : Selects(f, c, s, 0)
<1> DEFINE f == [i \in 0..0 |-> <<>>]
<1>1. f \in [0..0 -> Seq(Rules)]
  OBVIOUS
<1>2. Selects(f, c, s, 0)
  BY DEF Selects
<1> QED BY <1>1, <1>2

LEMMA SelectsNext ==
  ASSUME NEW s \in Seq(Rules), NEW c, NEW n \in 1..Len(s), NEW f \in [0..n-1 -> Seq(Rules)],
         Selects(f, c, s, n - 1)
  PROVE  \E g \in [0..n -> Seq(Rules)] : Selects(g, c, s, n)
<1> DEFINE e == IF IsCritical(s[n]) = c THEN Append(f[n-1], s[n]) ELSE f[n-1]
           g == [i \in 0..n |-> IF i = n THEN e ELSE f[i]]
<1>1. n \in Nat \ {0} /\ n - 1 \in 0..n-1 /\ s[n] \in Rules /\ f[n-1] \in Seq(Rules)
  OBVIOUS
<1>2. e \in Seq(Rules)
  BY <1>1
<1>3. g \in [0..n -> Seq(Rules)]
  <2> HIDE DEF e
  <2> QED BY <1>1, <1>2
<1>4. ASSUME NEW i \in 0..n
      PROVE  g[i] = IF i = 0 THEN <<>>
                    ELSE IF IsCritical(s[i]) = c THEN Append(g[i-1], s[i]) ELSE g[i-1]
  <2>1. CASE i = n
    <3>1. g[n] = e /\ g[n-1] = f[n-1]
      BY <1>1
    <3> QED BY <1>1, <2>1, <3>1
  <2>2. CASE i # n
    <3>1. i \in 0..n-1 /\ g[i] = f[i] /\ (i # 0 => i - 1 \in 0..n-1 /\ g[i-1] = f[i-1])
      BY <1>1, <2>2
    <3>2. f[i] = IF i = 0 THEN <<>>
                 ELSE IF IsCritical(s[i]) = c THEN Append(f[i-1], s[i]) ELSE f[i-1]
      BY <3>1 DEF Selects
    <3> QED BY <3>1, <3>2
  <2> QED BY <2>1, <2>2
<1>5. Selects(g, c, s, n)
  <2> DEFINE h == [i \in 0 .. n |-> IF i = 0 THEN <<>>
                        ELSE IF IsCritical(s[i]) = c THEN Append(g[i-1], s[i]) ELSE g[i-1]]
  <2>1. g = h
    <3>1. \A i \in 0..n : g[i] = h[i]
      BY <1>4
    <3>2. g = [i \in 0..n |-> g[i]] /\ h = [i \in 0..n |-> h[i]]
      OBVIOUS
    <3>3. [i \in 0..n |-> g[i]] = [i \in 0..n |-> h[i]]
      <4> HIDE DEF g, h
      <4> QED BY <3>1
    <3> HIDE DEF g, h
    <3> QED BY <3>2, <3>3
  <2> HIDE DEF g
  <2> QED BY <2>1 DEF Selects
<1> QED BY <1>3, <1>5

Unselected(c, s) == {n \in 0..Len(s) : ~ \E f \in [0..n -> Seq(Rules)] : Selects(f, c, s, n)}

LEMMA SelectsExist ==
  ASSUME NEW s \in Seq(Rules), NEW c
  PROVE  \E f \in [0..Len(s) -> Seq(Rules)] : Selects(f, c, s, Len(s))
<1>1. Len(s) \in Nat /\ Unselected(c, s) \subseteq Nat
  BY DEF Unselected
<1>2. Unselected(c, s) = {}
  <2> SUFFICES ASSUME Unselected(c, s) # {} PROVE FALSE
    OBVIOUS
  <2>1. PICK n \in Unselected(c, s) : \A m \in Unselected(c, s) : n <= m
    BY <1>1, LeastNat
  <2>2. n \in 0..Len(s) /\ ~ \E f \in [0..n -> Seq(Rules)] : Selects(f, c, s, n)
    BY <2>1 DEF Unselected
  <2>3. n # 0
    BY <2>2, SelectsFirst
  <2>4. n - 1 \in 0..Len(s) /\ n \in 1..Len(s) /\ ~ (n <= n - 1)
    BY <1>1, <2>2, <2>3
  <2>5. n - 1 \notin Unselected(c, s)
    BY <2>1, <2>4
  <2>6. \E f \in [0..n-1 -> Seq(Rules)] : Selects(f, c, s, n - 1)
    BY <2>4, <2>5 DEF Unselected
  <2> QED BY <2>2, <2>4, <2>6, SelectsNext
<1>3. Len(s) \in 0..Len(s)
  BY <1>1
<1> QED BY <1>2, <1>3 DEF Unselected

Wrong(f, s) == {n \in 0..Len(s) : f[n] \notin Seq(Rules)}

LEMMA SelectsTyped ==
  ASSUME NEW s \in Seq(Rules), NEW c, NEW f, Selects(f, c, s, Len(s))
  PROVE  f[Len(s)] \in Seq(Rules)
<1>1. Len(s) \in Nat /\ Wrong(f, s) \subseteq Nat
  BY DEF Wrong
<1>2. Wrong(f, s) = {}
  <2> SUFFICES ASSUME Wrong(f, s) # {} PROVE FALSE
    OBVIOUS
  <2>1. PICK n \in Wrong(f, s) : \A m \in Wrong(f, s) : n <= m
    BY <1>1, LeastNat
  <2>2. n \in 0..Len(s) /\ f[n] \notin Seq(Rules)
    BY <2>1 DEF Wrong
  <2>3. f[n] = IF n = 0 THEN <<>>
               ELSE IF IsCritical(s[n]) = c THEN Append(f[n-1], s[n]) ELSE f[n-1]
    BY <2>2 DEF Selects
  <2>4. n # 0
    BY <2>2, <2>3
  <2>5. n - 1 \in 0..Len(s) /\ n \in 1..Len(s) /\ ~ (n <= n - 1)
    BY <1>1, <2>2, <2>4
  <2>6. f[n-1] \in Seq(Rules)
    BY <2>1, <2>5 DEF Wrong
  <2>7. s[n] \in Rules
    BY <2>5
  <2> QED BY <2>2, <2>3, <2>4, <2>6, <2>7
<1>3. Len(s) \in 0..Len(s)
  BY <1>1
<1> QED BY <1>2, <1>3 DEF Wrong

LEMMA OnlyType ==
  ASSUME NEW s \in Seq(Rules), NEW c
  PROVE  Only(c, s) \in Seq(Rules)
<1> DEFINE g == CHOOSE f : Selects(f, c, s, Len(s))
<1>1. \E f : Selects(f, c, s, Len(s))
  BY SelectsExist
<1>2. Selects(g, c, s, Len(s))
  BY <1>1
<1> HIDE DEF g
<1>3. g[Len(s)] \in Seq(Rules)
  BY <1>2, SelectsTyped
<1> QED BY <1>3, OnlyDef DEF g
-----------------------------------------------------------------------------
(* Types *)

LEMMA ConcatType ==
  ASSUME NEW S, NEW s \in Seq(S), NEW t \in Seq(S)
  PROVE  s \o t \in Seq(S)
OBVIOUS

LEMMA SingletonType ==
  ASSUME NEW S, NEW r \in S
  PROVE  <<r>> \in Seq(S)
OBVIOUS

LEMMA IfType ==
  ASSUME NEW c, NEW r \in Rules
  PROVE  If(c, r) \in Seq(Rules)
<1>1. <<>> \in Seq(Rules) /\ <<r>> \in Seq(Rules)
  OBVIOUS
<1> QED BY <1>1 DEF If

LEMMA EvaluateType ==
  ASSUME NEW state, NEW telemetry
  PROVE  Evaluate(state, telemetry) \in Seq(Rules)
<1> DEFINE robot == IF state = None THEN <<>> ELSE Robot(state)
<1>1. /\ "connection lost" \in Rules /\ "slow" \in Rules /\ "latency" \in Rules
      /\ "loss" \in Rules /\ "video" \in Rules
      /\ "joint" \in Rules /\ "table" \in Rules /\ "edge" \in Rules
  BY DEF Rules
<1>2. Network(telemetry) \in Seq(Rules)
  <2>1. <<"connection lost">> \in Seq(Rules)
    BY <1>1, SingletonType
  <2>2. If(telemetry.latency = "slow", "slow") \o If(telemetry.latency = "warn", "latency")
          \o If(telemetry.lossy, "loss") \o If(~telemetry.streamsOk, "video") \in Seq(Rules)
    BY <1>1, IfType, ConcatType
  <2> QED BY <2>1, <2>2 DEF Network
<1>3. robot \in Seq(Rules)
  <2>1. If(state.joint, "joint") \o If(state.table, "table") \o If(state.edge, "edge")
          \in Seq(Rules)
    BY <1>1, IfType, ConcatType
  <2>2. <<>> \in Seq(Rules)
    OBVIOUS
  <2> QED BY <2>1, <2>2 DEF Robot
<1> HIDE DEF robot
<1>4. Network(telemetry) \o robot \in Seq(Rules)
  BY <1>2, <1>3, ConcatType
<1>5. Triage(Network(telemetry) \o robot) \in Seq(Rules)
  BY <1>4, OnlyType, ConcatType DEF Triage
<1> QED BY <1>5 DEF Evaluate, robot

LEMMA GuidanceType ==
  ASSUME NEW state, NEW telemetry
  PROVE  Guidance(state, telemetry) \in Texts
<1> DEFINE advisories == Evaluate(state, telemetry)
<1>1. advisories \in Seq(Rules)
  BY EvaluateType
<1> HIDE DEF advisories
<1>2. Complete(advisories) \in Rules \cup {"nominal"}
  BY <1>1 DEF Complete
<1> QED BY <1>2 DEF Guidance, Texts, advisories

LEMMA TelemetryType ==
  ASSUME NEW m, m.sent \in Int, m.acked \in Int, m.sinceAck \in Int
  PROVE  Telemetry(m) \in Telemetries
<1> DEFINE latency == IF AverageAbove(m.rtts, SlowLatency) THEN "slow"
                      ELSE IF AverageAbove(m.rtts, WarnLatency) THEN "warn" ELSE "ok"
           lossy == (m.sent - m.acked) * 100 > MaxLossPercent * m.sent
           connected == m.sinceAck <= AckTimeout
<1>1. latency \in {"ok", "warn", "slow"}
  OBVIOUS
<1>2. lossy \in BOOLEAN /\ connected \in BOOLEAN
  BY MonitorAssumption
<1>3. Telemetry(m) = [latency |-> latency, lossy |-> lossy, connected |-> connected,
                      streamsOk |-> TRUE]
  BY DEF Telemetry, Connected
<1> HIDE DEF latency, lossy, connected
<1> QED BY <1>1, <1>2, <1>3 DEF Telemetries

LEMMA BoundedSeqIs ==
  ASSUME NEW S, NEW n \in Nat, NEW s
  PROVE  s \in BoundedSeq(S, n) <=> s \in Seq(S) /\ Len(s) <= n
<1>1. ASSUME s \in BoundedSeq(S, n) PROVE s \in Seq(S) /\ Len(s) <= n
  <2>1. PICK m \in 0 .. n : s \in [1 .. m -> S]
    BY <1>1 DEF BoundedSeq, SeqOf
  <2> QED BY <2>1
<1>2. ASSUME s \in Seq(S), Len(s) <= n PROVE s \in BoundedSeq(S, n)
  <2>1. Len(s) \in 0 .. n /\ s \in [1 .. Len(s) -> S]
    BY <1>2
  <2> QED BY <2>1 DEF BoundedSeq, SeqOf
<1> QED BY <1>1, <1>2

\* The window drops its oldest entry before it would grow past its length.
LEMMA PushedType ==
  ASSUME NEW s \in BoundedSeq(0 .. MaxAge, Window), NEW rtt \in 0 .. MaxAge
  PROVE  Pushed(s, rtt) \in BoundedSeq(0 .. MaxAge, Window)
<1>1. Window \in Nat \ {0}
  BY MonitorAssumption
<1>2. s \in Seq(0 .. MaxAge) /\ Len(s) <= Window
  BY <1>1, BoundedSeqIs
<1>3. CASE Len(s) = Window
  <2>1. s # <<>> /\ Pushed(s, rtt) = Append(Tail(s), rtt)
    BY <1>1, <1>2, <1>3 DEF Pushed
  <2>2. Tail(s) \in Seq(0 .. MaxAge) /\ Len(Tail(s)) = Len(s) - 1
    BY <1>2, <2>1, TailType
  <2>3. Append(Tail(s), rtt) \in Seq(0 .. MaxAge) /\ Len(Append(Tail(s), rtt)) <= Window
    BY <1>1, <1>3, <2>2
  <2> QED BY <1>1, <2>1, <2>3, BoundedSeqIs
<1>4. CASE Len(s) # Window
  <2>1. Pushed(s, rtt) = Append(s, rtt)
    BY <1>4 DEF Pushed
  <2>2. Append(s, rtt) \in Seq(0 .. MaxAge) /\ Len(Append(s, rtt)) <= Window
    BY <1>1, <1>2, <1>4
  <2> QED BY <1>1, <2>1, <2>2, BoundedSeqIs
<1> QED BY <1>3, <1>4

LEMMA FeedbackType ==
  ASSUME NEW m \in Monitors, NEW n \in Nat, NEW rtt \in 0 .. MaxAge
  PROVE  OnFeedback(m, n, rtt) \in Monitors
<1>1. AckTimeout \in Nat /\ 0 \in Never .. AckTimeout + 1
  BY MonitorAssumption DEF Never
<1> DEFINE rtts == Pushed(m.rtts, rtt)
           acked == m.acked + 1
<1>2. rtts \in BoundedSeq(0 .. MaxAge, Window) /\ acked \in Nat
  BY PushedType DEF Monitors
<1> HIDE DEF rtts, acked
<1>3. [m EXCEPT !.sinceAck = 0] \in Monitors
  BY <1>1 DEF Monitors
<1>4. [m EXCEPT !.lastStamp = n, !.rtts = rtts, !.acked = acked, !.sinceAck = 0] \in Monitors
  BY <1>1, <1>2 DEF Monitors
<1>5. OnFeedback(m, n, rtt) =
        IF IsRepeated(m, n) THEN [m EXCEPT !.sinceAck = 0]
        ELSE [m EXCEPT !.lastStamp = n, !.rtts = rtts, !.acked = acked, !.sinceAck = 0]
  BY DEF OnFeedback, rtts, acked
<1> QED BY <1>3, <1>4, <1>5

LEMMA TickType ==
  ASSUME NEW m \in Monitors
  PROVE  MonitorTick(m) \in Monitors
<1> DEFINE since == IF m.sinceAck \in 0 .. AckTimeout THEN m.sinceAck + 1 ELSE m.sinceAck
<1>1. since \in Never .. AckTimeout + 1
  BY MonitorAssumption DEF Monitors, Never
<1> HIDE DEF since
<1>2. MonitorTick(m) = [m EXCEPT !.sinceAck = since]
  BY DEF MonitorTick, since
<1> QED BY <1>1, <1>2 DEF Monitors

LEMMA NewMonitorType == NewMonitor \in Monitors
<1>1. <<>> \in BoundedSeq(0 .. MaxAge, Window)
  <2>1. Window \in Nat /\ <<>> \in Seq(0 .. MaxAge) /\ Len(<<>>) <= Window
    BY MonitorAssumption
  <2> QED BY <2>1, BoundedSeqIs
<1>2. Never \in Never .. AckTimeout + 1
  BY MonitorAssumption DEF Never
<1> QED BY <1>1, <1>2 DEF NewMonitor, Monitors

LEMMA MonitorTelemetry ==
  ASSUME NEW m \in Monitors
  PROVE  Telemetry(m) \in Telemetries
<1>1. m.sent \in Int /\ m.acked \in Int /\ m.sinceAck \in Int
  BY MonitorAssumption DEF Monitors, Never
<1> QED BY <1>1, TelemetryType

LEMMA NothingType == Nothing \in Samples
<1>1. None \in States /\ <<>> \in Seq(Rules) /\ Telemetry(NewMonitor) \in Telemetries
  BY NewMonitorType, MonitorTelemetry DEF States
<1> HIDE DEF Telemetry
<1> QED BY <1>1 DEF Nothing, Samples

LEMMA SentType ==
  ASSUME ui \in Samples, NEW field \in {"state", "telemetry", "advisories"}, NEW value,
         Sent(field, value),
         field = "state" => value \in States,
         field = "telemetry" => value \in Telemetries,
         field = "advisories" => value \in Seq(Rules)
  PROVE  ui' \in Samples
BY DEF Sent, Samples

LEMMA InitFeedTyped == Init => TypeOK
<1> SUFFICES ASSUME Init PROVE TypeOK
  OBVIOUS
<1>1. mon \in Monitors /\ sample \in Samples /\ ui \in Samples
  BY NewMonitorType, NothingType DEF Init
<1>2. elapsed \in [Stamps -> 0 .. MaxAge] /\ echoed \subseteq Stamps
  BY InitCountInv DEF CountInv
<1> QED BY <1>1, <1>2 DEF Init, TypeOK, States, Texts

LEMMA NextFeedTyped == TypeOK /\ [Next]_vars => TypeOK'
<1> SUFFICES ASSUME TypeOK, [Next]_vars PROVE TypeOK'
  OBVIOUS
<1> USE DEF leaderVars, linkVars, feedVars, guideVars
<1>1. CASE SendCommand
  <2>1. mon' \in Monitors
    BY <1>1 DEF SendCommand, OnCommandSent, TypeOK, Monitors
  <2> QED BY <1>1, <2>1 DEF SendCommand, TypeOK
<1>2. ASSUME NEW n \in Stamps, FollowerAccept(n) PROVE TypeOK'
  BY <1>2 DEF FollowerAccept, TypeOK
<1>3. CASE Tick
  <2>1. mon' \in Monitors
    BY <1>3, TickType DEF Tick, TypeOK
  <2>2. elapsed' \in [Stamps -> 0 .. MaxAge]
    <3>1. elapsed \in [Stamps -> 0 .. MaxAge] /\ MaxAge \in Nat
      BY MonitorAssumption DEF TypeOK
    <3>2. elapsed' = [n \in Stamps |-> IF n <= PriorStamps + mon.sent /\ elapsed[n] < MaxAge
                                       THEN elapsed[n] + 1 ELSE elapsed[n]]
      BY <1>3 DEF Tick
    <3> QED BY <3>1, <3>2
  <2> QED BY <1>3, <2>1, <2>2 DEF Tick, TypeOK
<1>4. ASSUME NEW s \in RobotStates, OnState(s) PROVE TypeOK'
  BY <1>4 DEF OnState, TypeOK, States
<1>5. ASSUME NEW n \in echoed, OnStatus(n) PROVE TypeOK'
  <2>1. n \in Stamps /\ n \in Nat /\ elapsed[n] \in 0 .. MaxAge
    BY StampsAreNumbers DEF TypeOK
  <2>2. mon' \in Monitors
    BY <1>5, <2>1, FeedbackType DEF OnStatus, TypeOK
  <2> QED BY <1>5, <2>1, <2>2 DEF OnStatus, TypeOK
<1>6. CASE Connect
  BY <1>6 DEF Connect, TypeOK, Texts
<1>7. CASE Sample
  <2> DEFINE t == Telemetry(mon)
             a == Evaluate(lastState, t)
  <2>1. lastState \in States /\ t \in Telemetries /\ a \in Seq(Rules)
    BY MonitorTelemetry, EvaluateType DEF TypeOK
  <2>2. /\ sample' = [state |-> lastState, telemetry |-> t, advisories |-> a]
        /\ feed' \in {"telemetry", "state"} /\ UNCHANGED <<leaderVars, linkVars, link, ui, guideVars>>
    BY <1>7 DEF Sample
  <2> HIDE DEF t, a
  <2>3. sample' \in Samples
    BY <2>1, <2>2 DEF Samples
  <2> QED BY <2>2, <2>3 DEF TypeOK
<1>8. CASE SendState \/ SendTelemetry \/ SendAdvisory
  <2>1. /\ sample.state \in States /\ sample.telemetry \in Telemetries
        /\ sample.advisories \in Seq(Rules)
    BY DEF TypeOK, Samples
  <2>2. ui' \in Samples
    BY <1>8, <2>1, SentType DEF SendState, SendTelemetry, SendAdvisory, TypeOK
  <2> QED BY <1>8, <2>2, NothingType DEF SendState, SendTelemetry, SendAdvisory, TypeOK
<1>9. CASE Ask
  <2>1. text' \in Texts
    BY <1>9, GuidanceType DEF Ask
  <2> QED BY <1>9, <2>1 DEF Ask, TypeOK
<1>10. CASE SendRaises \/ Sleep \/ Drop \/ Answer \/ UNCHANGED vars
  BY <1>10, NothingType DEF SendRaises, Sleep, Drop, Answer, vars, TypeOK, Texts
<1> QED BY <1>1, <1>2, <1>3, <1>4, <1>5, <1>6, <1>7, <1>8, <1>9, <1>10
      DEF Next, Feedback, Feed, Guide

\* The window of the monitor never grows past its length, its clocks stay in range, and
\* whatever the rules say of whatever is measured is a list of advisories they know.
THEOREM FeedTypeCorrect == Spec => []TypeOK
BY InitFeedTyped, NextFeedTyped, PTL DEF Spec
=============================================================================
