------------------------- MODULE WsTransportProofs -------------------------
(***************************************************************************)
(* Proofs about the websocket transport, for any number of connections and *)
(* messages: it implements LossyLink, keeps the order of what goes over    *)
(* one connection, and loses messages to disconnections only.              *)
(***************************************************************************)
EXTENDS WsTransport, SequenceTheorems, TLAPS

(* Sequences of packets and what is in them *)

LEMMA ElemsEmpty == Elems(<<>>) = {}
BY DEF Elems

LEMMA ElemsAppend ==
  ASSUME NEW S, NEW s \in Seq(S), NEW e \in S
  PROVE  Append(s, e) \in Seq(S) /\ Elems(Append(s, e)) = Elems(s) \cup {e}
<1>1. /\ Append(s, e) \in Seq(S) /\ Len(Append(s, e)) = Len(s) + 1 /\ Len(s) \in Nat
      /\ Append(s, e)[Len(s) + 1] = e
      /\ \A i \in 1..Len(s) : Append(s, e)[i] = s[i]
  OBVIOUS
<1> QED BY <1>1 DEF Elems

LEMMA ElemsTail ==
  ASSUME NEW S, NEW s \in Seq(S), s # <<>>
  PROVE  /\ Head(s) \in S /\ Tail(s) \in Seq(S)
         /\ Elems(s) = {Head(s)} \cup Elems(Tail(s))
<1>1. /\ Tail(s) \in Seq(S) /\ Len(s) \in Nat \ {0} /\ Len(Tail(s)) = Len(s) - 1
      /\ Head(s) = s[1] /\ s[1] \in S
      /\ \A i \in 1..Len(Tail(s)) : Tail(s)[i] = s[i + 1]
  OBVIOUS
<1>2. Elems(s) \subseteq {Head(s)} \cup Elems(Tail(s))
  <2> SUFFICES ASSUME NEW i \in 1..Len(s) PROVE s[i] \in {Head(s)} \cup Elems(Tail(s))
    BY DEF Elems
  <2>1. CASE i = 1
    BY <1>1, <2>1
  <2>2. CASE i # 1
    <3>1. i - 1 \in 1..Len(Tail(s)) /\ Tail(s)[i - 1] = s[i]
      BY <1>1, <2>2
    <3> QED BY <3>1 DEF Elems
  <2> QED BY <2>1, <2>2
<1>3. Elems(Tail(s)) \subseteq Elems(s)
  <2> SUFFICES ASSUME NEW i \in 1..Len(Tail(s)) PROVE Tail(s)[i] \in Elems(s)
    BY DEF Elems
  <2>1. i + 1 \in 1..Len(s) /\ Tail(s)[i] = s[i + 1]
    BY <1>1
  <2> QED BY <2>1 DEF Elems
<1> QED BY <1>1, <1>2, <1>3 DEF Elems

\* Messages in the order they were published.
Increasing(s) == \A i, j \in 1..Len(s) : i < j => s[i].msg < s[j].msg

LEMMA IncreasingAppend ==
  ASSUME NEW s \in Seq(Packets), NEW e \in Packets, Increasing(s),
         \A p \in Elems(s) : p.msg < e.msg
  PROVE  Increasing(Append(s, e))
<1>1. /\ Len(Append(s, e)) = Len(s) + 1 /\ Len(s) \in Nat
      /\ Append(s, e)[Len(s) + 1] = e
      /\ \A i \in 1..Len(s) : Append(s, e)[i] = s[i]
  OBVIOUS
<1> QED BY <1>1 DEF Increasing, Elems

LEMMA IncreasingTail ==
  ASSUME NEW s \in Seq(Packets), s # <<>>, Increasing(s)
  PROVE  Increasing(Tail(s)) /\ \A p \in Elems(Tail(s)) : Head(s).msg < p.msg
<1>1. /\ Len(s) \in Nat \ {0} /\ Len(Tail(s)) = Len(s) - 1 /\ Head(s) = s[1]
      /\ \A i \in 1..Len(Tail(s)) : Tail(s)[i] = s[i + 1]
  OBVIOUS
<1>2. Increasing(Tail(s))
  BY <1>1 DEF Increasing
<1>3. ASSUME NEW i \in 1..Len(Tail(s)) PROVE Head(s).msg < Tail(s)[i].msg
  BY <1>1 DEF Increasing
<1> QED BY <1>2, <1>3 DEF Elems
-----------------------------------------------------------------------------
(* Types *)

LEMMA InitTypeOK == Init => TypeOK
<1> SUFFICES ASSUME Init PROVE TypeOK
  OBVIOUS
<1> USE WsAssumption DEF Init
<1>1. <<>> \in Seq(Packets) /\ Len(<<>>) <= 1
  OBVIOUS
<1>2. wire \in [Conns -> Seq(Packets)]
  BY <1>1
<1>3. /\ ref \in Conns \cup {None} /\ nconn \in 0..MaxConns /\ nextMsg \in 1..(MaxMsgs + 1)
      /\ conn \in [Conns -> {"none", "open", "cut", "clean", "error"}]
  OBVIOUS
<1> QED BY <1>1, <1>2, <1>3 DEF TypeOK

LEMMA PublisherTypeOK == TypeOK /\ Publisher => TypeOK'
<1> SUFFICES ASSUME TypeOK, Publisher PROVE TypeOK'
  OBVIOUS
<1> USE WsAssumption DEF connVars, closeVars
<1>1. CASE PublishRead
  <2>1. nextMsg \in 1..MaxMsgs /\ nextMsg' \in 1..(MaxMsgs + 1)
    BY <1>1 DEF PublishRead, TypeOK
  <2>2. held' \in Seq(Packets) /\ Len(held') <= 1
    <3>1. CASE ref = None
      BY <1>1, <3>1 DEF PublishRead
    <3>2. CASE ref # None
      <4>1. [conn |-> ref, msg |-> nextMsg] \in Packets
        BY <2>1, <3>2 DEF TypeOK, Packets
      <4> QED BY <1>1, <3>2, <4>1 DEF PublishRead
    <3> QED BY <3>1, <3>2
  <2> QED BY <1>1, <2>1, <2>2 DEF PublishRead, TypeOK
<1>2. CASE PublishSchedule
  <2>1. held' = <<>> /\ tasks' \in Seq(Packets)
    BY <1>2 DEF PublishSchedule, TypeOK
  <2> QED BY <1>2, <2>1 DEF PublishSchedule, TypeOK
<1>3. CASE RunSend
  <2>1. Head(tasks) \in Packets /\ Tail(tasks) \in Seq(Packets)
    BY <1>3, ElemsTail DEF RunSend, TypeOK
  <2>2. Append(wire[Head(tasks).conn], Head(tasks)) \in Seq(Packets)
    BY <2>1, ElemsAppend DEF TypeOK, Packets
  <2>3. wire' \in [Conns -> Seq(Packets)]
    BY <1>3, <2>2 DEF RunSend, TypeOK
  <2> QED BY <1>3, <2>1, <2>3 DEF RunSend, TypeOK
<1> QED BY <1>1, <1>2, <1>3 DEF Publisher

LEMMA MainTypeOK == TypeOK /\ Main => TypeOK'
<1> SUFFICES ASSUME TypeOK, Main PROVE TypeOK'
  OBVIOUS
<1> USE WsAssumption DEF linkVars, closeVars, TypeOK
<1>1. CASE ConnectOk
  <2>1. nconn + 1 \in Conns
    BY <1>1 DEF ConnectOk, Conns
  <2> QED BY <1>1, <2>1 DEF ConnectOk
<1>2. CASE ConnectFails \/ ReceiveRaises
  BY <1>2 DEF ConnectFails, ReceiveRaises, Except
<1>3. CASE ReceiveEnds \/ Wake
  BY <1>3 DEF ReceiveEnds, Wake
<1>4. CASE StopLoop \/ CloseLoop \/ ThreadEnds
  BY <1>4 DEF StopLoop, CloseLoop, ThreadEnds
<1> QED BY <1>1, <1>2, <1>3, <1>4 DEF Main

LEMMA NetworkTypeOK == TypeOK /\ Network => TypeOK'
<1> SUFFICES ASSUME TypeOK, Network PROVE TypeOK'
  OBVIOUS
<1> USE DEF connVars, closeVars, linkVars
<1>1. CASE Break \/ Notice
  <2>1. conn' \in [Conns -> {"none", "open", "cut", "clean", "error"}]
    <3>1. CASE Break
      BY <3>1 DEF Break, TypeOK
    <3>2. CASE Notice
      BY <3>2 DEF Notice, TypeOK
    <3> QED BY <1>1, <3>1, <3>2
  <2> QED BY <1>1, <2>1 DEF Break, Notice, TypeOK
<1>2. ASSUME NEW c \in Conns, Arrive(c) PROVE TypeOK'
  <2>1. Head(wire[c]) \in Packets /\ Tail(wire[c]) \in Seq(Packets)
    BY <1>2, ElemsTail DEF Arrive, TypeOK
  <2>2. got' \in Seq(Packets)
    BY <1>2, <2>1 DEF Arrive, TypeOK
  <2>3. wire' \in [Conns -> Seq(Packets)]
    BY <1>2, <2>1 DEF Arrive, TypeOK
  <2> QED BY <1>2, <2>2, <2>3 DEF Arrive, TypeOK
<1>3. ASSUME NEW c \in Conns, LoseRest(c) PROVE TypeOK'
  BY <1>3 DEF LoseRest, TypeOK
<1> QED BY <1>1, <1>2, <1>3 DEF Network

LEMMA CloserTypeOK == TypeOK /\ (Close \/ Closer \/ Shutdown) => TypeOK'
<1> SUFFICES ASSUME TypeOK, Close \/ Closer \/ Shutdown PROVE TypeOK'
  OBVIOUS
<1> USE DEF linkVars, connVars, closeVars, TypeOK
<1>1. CASE Close
  BY <1>1 DEF Close
<1>2. CASE Closer
  BY <1>2 DEF Closer, Post, Result, Join, ForceStop, Rejoin
<1>3. CASE Shutdown
  BY <1>3 DEF Shutdown, ShutdownStarts, Handshake, ShutdownEnds
<1> QED BY <1>1, <1>2, <1>3

LEMMA NextTypeOK == TypeOK /\ [Next]_vars => TypeOK'
<1>1. TypeOK /\ UNCHANGED vars => TypeOK'
  BY DEF TypeOK, vars, linkVars, connVars, closeVars
<1> QED BY <1>1, PublisherTypeOK, MainTypeOK, NetworkTypeOK, CloserTypeOK DEF Next

\* Every variable of the transport keeps its type.
THEOREM TransportTypeCorrect == Spec => []TypeOK
<1> QED BY InitTypeOK, NextTypeOK, PTL DEF Spec
-----------------------------------------------------------------------------
(* Order *)

Waiting == Elems(tasks) \cup Elems(held)
Written == Elems(got) \cup UNION {Elems(wire[c]) : c \in Conns}

\* Why messages keep their order and are not repeated: they pass through the tasks of the
\* loop in the order they were published, whatever connection they are meant for, so what
\* waits there is newer than all that was written; and a message is in one place only.
OrderInv ==
  /\ Increasing(tasks) /\ \A c \in Conns : Increasing(wire[c])
  /\ \A p \in Elems(tasks), q \in Elems(held) : p.msg < q.msg
  /\ \A p \in Written, q \in Waiting : p.msg < q.msg
  /\ \A p \in Written \cup Waiting : p.msg < nextMsg
  /\ \A c \in Conns : \A q \in Elems(wire[c]) :
       q.conn = c /\ \A p \in Elems(got) : p.conn = c => p.msg < q.msg
  /\ \A p, q \in Written : p.msg = q.msg => p = q
  /\ OrderKept

LEMMA InitOrderInv == Init => OrderInv
<1> SUFFICES ASSUME Init PROVE OrderInv
  OBVIOUS
<1>1. /\ Elems(tasks) = {} /\ Elems(held) = {} /\ Elems(got) = {}
      /\ \A c \in Conns : Elems(wire[c]) = {}
  BY ElemsEmpty DEF Init
<1>2. Written = {} /\ Waiting = {}
  BY <1>1 DEF Written, Waiting
<1>3. Increasing(tasks) /\ \A c \in Conns : Increasing(wire[c])
  BY DEF Init, Increasing
<1>4. OrderKept
  BY DEF Init, OrderKept
<1> QED BY <1>1, <1>2, <1>3, <1>4 DEF OrderInv

\* What PublishSchedule adds to the tasks.
LEMMA AppendHeld ==
  ASSUME TypeOK, held # <<>>
  PROVE  /\ held[1] \in Packets /\ Elems(held) = {held[1]}
         /\ tasks \o held = Append(tasks, held[1])
<1>1. held \in Seq(Packets) /\ Len(held) = 1 /\ held[1] \in Packets
  <2>1. held \in Seq(Packets) /\ Len(held) <= 1
    BY DEF TypeOK
  <2>2. Len(held) \in Nat \ {0} /\ held \in [1..Len(held) -> Packets]
    BY <2>1, EmptySeq, LenProperties
  <2>3. Len(held) = 1
    BY <2>1, <2>2
  <2> QED BY <2>1, <2>2, <2>3
<1>2. Elems(held) = {held[1]}
  BY <1>1 DEF Elems
<1>3. held = <<held[1]>>
  BY <1>1, SeqEqual
<1>4. tasks \o held = Append(tasks, held[1])
  BY <1>1, <1>3, AppendIsConcat DEF TypeOK
<1> QED BY <1>1, <1>2, <1>4

LEMMA PacketTypes ==
  ASSUME TypeOK
  PROVE  /\ Written \subseteq Packets /\ Waiting \subseteq Packets
         /\ \A p \in Packets : p.msg \in Nat /\ p.conn \in Conns
         /\ nextMsg \in Nat
<1>1. \A s \in Seq(Packets) : Elems(s) \subseteq Packets
  BY DEF Elems
<1>2. Written \subseteq Packets /\ Waiting \subseteq Packets
  BY <1>1 DEF TypeOK, Written, Waiting
<1> QED BY <1>2 DEF TypeOK, Packets

LEMMA PublishReadOrder == TypeOK /\ OrderInv /\ PublishRead => OrderInv'
<1> SUFFICES ASSUME TypeOK, OrderInv, PublishRead PROVE OrderInv'
  OBVIOUS
<1>1. Elems(held') \subseteq {[conn |-> ref, msg |-> nextMsg]}
  BY DEF PublishRead, Elems
<1>2. /\ UNCHANGED <<tasks, wire, got>> /\ nextMsg' = nextMsg + 1 /\ Elems(held) = {}
  BY ElemsEmpty DEF PublishRead
<1>3. Written' = Written /\ Waiting = Elems(tasks)
      /\ Waiting' \subseteq Elems(tasks) \cup {[conn |-> ref, msg |-> nextMsg]}
  BY <1>1, <1>2 DEF Written, Waiting
<1>4. \A p \in Written \cup Waiting : p.msg < nextMsg /\ p.msg \in Nat
  BY PacketTypes DEF OrderInv
<1>5. \A p \in Elems(tasks), q \in Elems(held') : p.msg < q.msg
  BY <1>1, <1>3, <1>4
<1>6. \A p \in Written, q \in Waiting' : p.msg < q.msg
  BY <1>3, <1>4 DEF OrderInv
<1>7. \A p \in Written \cup Waiting' : p.msg < nextMsg + 1
  BY <1>3, <1>4, PacketTypes
<1> QED BY <1>2, <1>3, <1>5, <1>6, <1>7 DEF OrderInv, OrderKept

LEMMA PublishScheduleOrder == TypeOK /\ OrderInv /\ PublishSchedule => OrderInv'
<1> SUFFICES ASSUME TypeOK, OrderInv, PublishSchedule PROVE OrderInv'
  OBVIOUS
<1>1. UNCHANGED <<nextMsg, wire, got>> /\ held # <<>> /\ Elems(held') = {}
  BY ElemsEmpty DEF PublishSchedule
<1>2. Increasing(tasks') /\ Elems(tasks') \subseteq Waiting
  <2>1. CASE tasks' = tasks
    BY <2>1 DEF OrderInv, Waiting
  <2>2. CASE tasks' = tasks \o held
    <3>a. /\ tasks' = Append(tasks, held[1]) /\ held[1] \in Packets /\ Elems(held) = {held[1]}
      BY <1>1, <2>2, AppendHeld
    <3>b. tasks \in Seq(Packets) /\ Increasing(tasks)
      BY DEF TypeOK, OrderInv
    <3>1. \A p \in Elems(tasks) : p.msg < held[1].msg
      BY <3>a DEF OrderInv
    <3>2. Increasing(tasks')
      BY <3>1, <3>a, <3>b, IncreasingAppend
    <3>3. Elems(tasks') = Elems(tasks) \cup Elems(held)
      BY <3>a, <3>b, ElemsAppend
    <3> QED BY <3>2, <3>3 DEF Waiting
  <2> QED BY <2>1, <2>2 DEF PublishSchedule
<1>3. Written' = Written /\ Waiting' \subseteq Waiting
  BY <1>1, <1>2 DEF Written, Waiting
<1> QED BY <1>1, <1>2, <1>3 DEF OrderInv, OrderKept

LEMMA RunSendOrder == TypeOK /\ OrderInv /\ RunSend => OrderInv'
<1> SUFFICES ASSUME TypeOK, OrderInv, RunSend PROVE OrderInv'
  OBVIOUS
<1> DEFINE p == Head(tasks)
<1>1. /\ UNCHANGED <<nextMsg, held, got>> /\ tasks' = Tail(tasks) /\ tasks # <<>>
  BY DEF RunSend
<1>2. p \in Packets /\ p.conn \in Conns /\ Elems(tasks) = {p} \cup Elems(tasks')
  BY <1>1, ElemsTail, PacketTypes DEF TypeOK
<1>3. Increasing(tasks') /\ \A q \in Elems(tasks') : p.msg < q.msg
  BY <1>1, IncreasingTail DEF OrderInv, TypeOK
<1>4. Waiting' \subseteq Waiting /\ p \in Waiting /\ \A q \in Waiting' : p.msg < q.msg
  BY <1>1, <1>2, <1>3 DEF Waiting, OrderInv
<1>5. CASE wire' = wire
  <2>1. Written' = Written
    BY <1>1, <1>5 DEF Written
  <2> QED BY <1>1, <1>2, <1>3, <1>4, <1>5, <2>1 DEF OrderInv, OrderKept
<1>6. CASE wire' = [wire EXCEPT ![p.conn] = Append(@, p)]
  <2>1. /\ wire'[p.conn] = Append(wire[p.conn], p) /\ wire[p.conn] \in Seq(Packets)
        /\ \A c \in Conns : c # p.conn => wire'[c] = wire[c]
    BY <1>2, <1>6 DEF TypeOK
  <2>2. Elems(wire'[p.conn]) = Elems(wire[p.conn]) \cup {p}
    BY <1>2, <2>1, ElemsAppend
  <2>3. Written' = Written \cup {p}
    <3>1. \A q : (\E c \in Conns : q \in Elems(wire'[c]))
                   <=> (\E c \in Conns : q \in Elems(wire[c])) \/ q = p
      BY <1>2, <2>1, <2>2
    <3>2. \A q : /\ q \in Written <=> q \in Elems(got) \/ \E c \in Conns : q \in Elems(wire[c])
                 /\ q \in Written' <=> q \in Elems(got') \/ \E c \in Conns : q \in Elems(wire'[c])
      BY DEF Written
    <3>3. \A q : q \in Written' <=> q \in Written \cup {p}
      BY <1>1, <3>1, <3>2
    <3> QED BY <3>3
  <2>4. \A q \in Written : q.msg < p.msg /\ q.msg \in Nat
    BY <1>4, PacketTypes DEF OrderInv
  <2>5. \A c \in Conns : Increasing(wire'[c])
    <3>1. Increasing(wire'[p.conn])
      BY <1>2, <2>1, <2>4, IncreasingAppend DEF OrderInv, Written
    <3> QED BY <2>1, <3>1 DEF OrderInv
  <2>6. \A q \in Written', r \in Waiting' : q.msg < r.msg
    BY <1>4, <2>3 DEF OrderInv
  <2>7. \A q \in Written' \cup Waiting' : q.msg < nextMsg
    BY <1>4, <2>3 DEF OrderInv
  <2>8. \A c \in Conns : \A q \in Elems(wire'[c]) :
          q.conn = c /\ \A r \in Elems(got) : r.conn = c => r.msg < q.msg
    <3> TAKE c \in Conns
    <3>1. \A r \in Elems(got) : r.msg < p.msg
      BY <2>4 DEF Written
    <3>2. CASE c = p.conn
      BY <2>2, <3>1, <3>2 DEF OrderInv
    <3>3. CASE c # p.conn
      BY <2>1, <3>3 DEF OrderInv
    <3> QED BY <3>2, <3>3
  <2>9. \A q, r \in Written' : q.msg = r.msg => q = r
    BY <2>3, <2>4 DEF OrderInv
  <2> QED BY <1>1, <1>2, <1>3, <2>5, <2>6, <2>7, <2>8, <2>9 DEF OrderInv, OrderKept
<1> QED BY <1>5, <1>6 DEF RunSend

LEMMA ArriveOrder == TypeOK /\ OrderInv /\ (\E c \in Conns : Arrive(c)) => OrderInv'
<1> SUFFICES ASSUME TypeOK, OrderInv, NEW c \in Conns, Arrive(c) PROVE OrderInv'
  OBVIOUS
<1> DEFINE p == Head(wire[c])
<1>1. /\ UNCHANGED <<nextMsg, held, tasks>> /\ got' = Append(got, p)
      /\ wire[c] # <<>> /\ wire[c] \in Seq(Packets) /\ got \in Seq(Packets)
      /\ wire'[c] = Tail(wire[c]) /\ \A d \in Conns : d # c => wire'[d] = wire[d]
  BY DEF Arrive, TypeOK
<1>2. p \in Packets /\ Elems(wire[c]) = {p} \cup Elems(wire'[c])
  BY <1>1, ElemsTail
<1>3. Increasing(wire'[c]) /\ \A q \in Elems(wire'[c]) : p.msg < q.msg
  BY <1>1, IncreasingTail DEF OrderInv
<1>4. Elems(got') = Elems(got) \cup {p}
  BY <1>1, <1>2, ElemsAppend
<1>5. Written' = Written /\ Waiting' = Waiting
  BY <1>1, <1>2, <1>4 DEF Written, Waiting
<1>6. p.conn = c /\ \A q \in Elems(got) : q.conn = c => q.msg < p.msg
  BY <1>2 DEF OrderInv
<1>7. \A d \in Conns : \A q \in Elems(wire'[d]) :
        q.conn = d /\ \A r \in Elems(got') : r.conn = d => r.msg < q.msg
  <2> TAKE d \in Conns
  <2>1. CASE d = c
    BY <1>2, <1>3, <1>4, <2>1 DEF OrderInv
  <2>2. CASE d # c
    BY <1>1, <1>4, <1>6, <2>2 DEF OrderInv
  <2> QED BY <2>1, <2>2
<1>8. OrderKept'
  <2> SUFFICES ASSUME NEW i \in 1..Len(got'), NEW j \in 1..Len(got'),
                      i < j, got'[i].conn = got'[j].conn
               PROVE  got'[i].msg < got'[j].msg
    BY DEF OrderKept
  <2>1. /\ Len(got') = Len(got) + 1 /\ Len(got) \in Nat /\ got'[Len(got) + 1] = p
        /\ \A k \in 1..Len(got) : got'[k] = got[k]
    BY <1>1, <1>2
  <2>2. CASE j \in 1..Len(got)
    <3>1. i \in 1..Len(got)
      BY <2>1, <2>2
    <3> QED BY <2>1, <2>2, <3>1 DEF OrderInv, OrderKept
  <2>3. CASE j = Len(got) + 1
    <3>1. i \in 1..Len(got) /\ got[i] \in Elems(got)
      BY <2>1, <2>3 DEF Elems
    <3> QED BY <1>6, <2>1, <2>3, <3>1
  <2> QED BY <2>1, <2>2, <2>3
<1>9. \A d \in Conns : Increasing(wire'[d])
  BY <1>1, <1>3 DEF OrderInv
<1> QED BY <1>1, <1>5, <1>7, <1>8, <1>9 DEF OrderInv

LEMMA LoseRestOrder == TypeOK /\ OrderInv /\ (\E c \in Conns : LoseRest(c)) => OrderInv'
<1> SUFFICES ASSUME TypeOK, OrderInv, NEW c \in Conns, LoseRest(c) PROVE OrderInv'
  OBVIOUS
<1>1. /\ UNCHANGED <<nextMsg, held, tasks, got>> /\ wire'[c] = <<>>
      /\ \A d \in Conns : d # c => wire'[d] = wire[d]
  BY DEF LoseRest, TypeOK
<1>2. \A d \in Conns : /\ Elems(wire'[d]) \subseteq Elems(wire[d])
                       /\ Increasing(wire'[d])
  BY <1>1, ElemsEmpty DEF OrderInv, Increasing
<1>3. Written' \subseteq Written /\ Waiting' = Waiting
  BY <1>1, <1>2 DEF Written, Waiting
<1> QED BY <1>1, <1>2, <1>3 DEF OrderInv, OrderKept

\* The steps that concern connections only.
LEMMA LinkFrame ==
  Main \/ Break \/ Notice \/ Close \/ Closer \/ Shutdown \/ UNCHANGED vars
    => UNCHANGED linkVars
BY DEF Main, ConnectOk, ConnectFails, ReceiveEnds, ReceiveRaises, Wake, StopLoop,
       CloseLoop, ThreadEnds, Break, Notice, Close, Closer, Post, Result, Join,
       ForceStop, Rejoin, Shutdown, ShutdownStarts, Handshake, ShutdownEnds, vars

LEMMA NextOrderInv == TypeOK /\ OrderInv /\ [Next]_vars => OrderInv'
<1>1. ASSUME OrderInv, UNCHANGED linkVars PROVE OrderInv'
  BY <1>1 DEF linkVars, OrderInv, OrderKept, Written, Waiting
<1> QED BY <1>1, LinkFrame, PublishReadOrder, PublishScheduleOrder, RunSendOrder, ArriveOrder,
           LoseRestOrder DEF Next, Network, Publisher

LEMMA OrderInvariant == Spec => [](TypeOK /\ OrderInv)
<1> QED BY InitTypeOK, NextTypeOK, InitOrderInv, NextOrderInv, PTL DEF Spec

\* What one connection delivers comes in the order of publishing, for any number of
\* connections, messages and tasks between them.
THEOREM OrderIsKept == Spec => []OrderKept
<1>1. OrderInv => OrderKept
  BY DEF OrderInv
<1> QED BY OrderInvariant, <1>1, PTL
-----------------------------------------------------------------------------
(* The transport is a lossy link *)

linkNet == {p.msg : p \in InFlight}

LEMMA NumbersOfElems == \A s : Numbers(s) = {p.msg : p \in Elems(s)}
BY DEF Numbers, Elems

\* A step that hands nothing to the server and takes no new message can only lose some.
LEMMA LosingStep ==
  ASSUME InFlight' \subseteq InFlight, UNCHANGED <<nextMsg, got>>
  PROVE  [Link!Next]_Link!vars
BY DEF Link!Next, Link!Lose, Numbers

LEMMA PublishReadStep == TypeOK /\ OrderInv /\ PublishRead => [Link!Next]_Link!vars
<1> SUFFICES ASSUME TypeOK, OrderInv, PublishRead PROVE [Link!Next]_Link!vars
  OBVIOUS
<1>1. /\ nextMsg \in 1..MaxMsgs /\ nextMsg' = nextMsg + 1
      /\ UNCHANGED <<tasks, wire, got>> /\ Elems(held) = {}
  BY WsAssumption, ElemsEmpty DEF PublishRead, TypeOK
<1>2. Elems(held') = {} \/ Elems(held') = {[conn |-> ref, msg |-> nextMsg]}
  <2>1. CASE held' = <<>>
    BY <2>1, ElemsEmpty
  <2>2. CASE held' = <<[conn |-> ref, msg |-> nextMsg]>>
    BY <2>2 DEF Elems
  <2> QED BY <2>1, <2>2 DEF PublishRead
<1>3. InFlight' = InFlight \cup Elems(held')
  BY <1>1 DEF InFlight
<1>4. linkNet' \in {linkNet, linkNet \cup {nextMsg}}
  BY <1>2, <1>3 DEF linkNet
<1>5. 1..(nextMsg' - 1) = 1..(nextMsg - 1) \cup {nextMsg} /\ nextMsg \notin 1..(nextMsg - 1)
  BY <1>1
<1>6. Numbers(got)' = Numbers(got)
  BY <1>1 DEF Numbers
<1> QED BY <1>1, <1>4, <1>5, <1>6 DEF Link!Next, Link!Publish, linkNet

LEMMA ArriveStep ==
  TypeOK /\ OrderInv /\ (\E c \in Conns : Arrive(c)) => [Link!Next]_Link!vars
<1> SUFFICES ASSUME TypeOK, OrderInv, NEW c \in Conns, Arrive(c)
             PROVE  [Link!Next]_Link!vars
  OBVIOUS
<1> DEFINE p == Head(wire[c])
<1>1. /\ UNCHANGED <<nextMsg, held, tasks>> /\ got' = Append(got, p)
      /\ wire[c] # <<>> /\ wire[c] \in Seq(Packets) /\ got \in Seq(Packets)
      /\ wire'[c] = Tail(wire[c]) /\ \A d \in Conns : d # c => wire'[d] = wire[d]
  BY DEF Arrive, TypeOK
<1>2. p \in Packets /\ Elems(wire[c]) = {p} \cup Elems(wire'[c])
  BY <1>1, ElemsTail
<1>3. p \in InFlight /\ p \in Written /\ p.msg \in 1..MaxMsgs
  BY <1>2 DEF InFlight, Written, Packets
<1>4. \A q \in Elems(wire'[c]) : p.msg < q.msg
  BY <1>1, IncreasingTail DEF OrderInv
<1>5. p.msg \in Nat /\ p.conn = c
  BY <1>2, <1>3 DEF OrderInv
<1>6. InFlight = InFlight' \cup {p}
  BY <1>1, <1>2 DEF InFlight
<1>7. \A q \in InFlight' : q.msg # p.msg
  <2> SUFFICES ASSUME NEW q \in InFlight', q.msg = p.msg PROVE FALSE
    OBVIOUS
  <2>1. q \notin Waiting
    BY <1>3, <1>5 DEF OrderInv
  <2>2. PICK d \in Conns : q \in Elems(wire'[d])
    BY <1>1, <2>1 DEF InFlight, Waiting
  <2>3. d = c
    <3>1. ASSUME d # c PROVE FALSE
      <4>1. q \in Elems(wire[d]) /\ q \in Written
        BY <1>1, <2>2, <3>1 DEF Written
      <4>2. q = p
        BY <1>3, <4>1 DEF OrderInv
      <4> QED BY <1>5, <3>1, <4>1, <4>2 DEF OrderInv
    <3> QED BY <3>1
  <2> QED BY <1>4, <1>5, <2>2, <2>3
<1>8. linkNet' = linkNet \ {p.msg} /\ p.msg \in linkNet
  BY <1>3, <1>6, <1>7 DEF linkNet
<1>9. Numbers(got)' = Numbers(got) \cup {p.msg}
  <2>1. Elems(got') = Elems(got) \cup {p}
    BY <1>1, <1>2, ElemsAppend
  <2> QED BY <2>1, NumbersOfElems
<1> QED BY <1>1, <1>3, <1>8, <1>9 DEF Link!Next, Link!Deliver, linkNet

LEMMA NextIsLinkStep == TypeOK /\ OrderInv /\ [Next]_vars => [Link!Next]_Link!vars
<1> SUFFICES ASSUME TypeOK, OrderInv, [Next]_vars PROVE [Link!Next]_Link!vars
  OBVIOUS
<1>1. CASE UNCHANGED linkVars
  <2>1. InFlight' = InFlight /\ UNCHANGED <<nextMsg, got>>
    BY <1>1 DEF linkVars, InFlight
  <2> QED BY <2>1, LosingStep
<1>2. CASE PublishSchedule
  <2>1. /\ UNCHANGED <<nextMsg, wire, got>> /\ held # <<>> /\ Elems(held') = {}
    BY <1>2, ElemsEmpty DEF PublishSchedule
  <2>2. Elems(tasks') \subseteq Elems(tasks) \cup Elems(held)
    <3>1. /\ tasks \o held = Append(tasks, held[1]) /\ held[1] \in Packets
          /\ Elems(held) = {held[1]} /\ tasks \in Seq(Packets)
      BY <2>1, AppendHeld DEF TypeOK
    <3>2. Elems(tasks \o held) = Elems(tasks) \cup Elems(held)
      BY <3>1, ElemsAppend
    <3> QED BY <1>2, <3>2 DEF PublishSchedule
  <2>3. InFlight' \subseteq InFlight
    BY <2>1, <2>2 DEF InFlight
  <2> QED BY <2>1, <2>3, LosingStep
<1>3. CASE RunSend
  <2> DEFINE p == Head(tasks)
  <2>1. /\ UNCHANGED <<nextMsg, held, got>> /\ tasks # <<>> /\ tasks' = Tail(tasks)
        /\ tasks \in Seq(Packets) /\ wire \in [Conns -> Seq(Packets)]
    BY <1>3 DEF RunSend, TypeOK
  <2>2. p \in Packets /\ Elems(tasks) = {p} \cup Elems(tasks') /\ p.conn \in Conns
    BY <2>1, ElemsTail, PacketTypes
  <2>3. \A c \in Conns : Elems(wire'[c]) \subseteq Elems(wire[c]) \cup {p}
    <3>1. wire' = wire \/ wire' = [wire EXCEPT ![p.conn] = Append(@, p)]
      BY <1>3 DEF RunSend
    <3>2. \A c \in Conns : wire'[c] = wire[c] \/ wire'[c] = Append(wire[c], p)
      BY <2>1, <2>2, <3>1
    <3>3. \A c \in Conns : Elems(Append(wire[c], p)) = Elems(wire[c]) \cup {p}
      BY <2>1, <2>2, ElemsAppend
    <3> QED BY <3>2, <3>3
  <2>4. InFlight' \subseteq InFlight
    BY <2>1, <2>2, <2>3 DEF InFlight
  <2> QED BY <2>1, <2>4, LosingStep
<1>4. ASSUME NEW c \in Conns, LoseRest(c) PROVE [Link!Next]_Link!vars
  <2>1. /\ UNCHANGED <<nextMsg, held, tasks, got>> /\ wire'[c] = <<>>
        /\ \A d \in Conns : d # c => wire'[d] = wire[d]
    BY <1>4 DEF LoseRest, TypeOK
  <2>2. \A d \in Conns : Elems(wire'[d]) \subseteq Elems(wire[d])
    BY <2>1, ElemsEmpty
  <2>3. InFlight' \subseteq InFlight
    BY <2>1, <2>2 DEF InFlight
  <2> QED BY <2>1, <2>3, LosingStep
<1> QED BY <1>1, <1>2, <1>3, <1>4, LinkFrame, PublishReadStep, ArriveStep
        DEF Next, Network, Publisher

\* Whatever its threads and connections do, the transport delivers a message at most once,
\* and only what was published.
THEOREM TransportImplementsLink == Spec => ImplementsLink
<1>1. Init => Link!Init
  <2> SUFFICES ASSUME Init PROVE Link!Init
    OBVIOUS
  <2>1. /\ Elems(held) = {} /\ Elems(tasks) = {} /\ \A c \in Conns : Elems(wire[c]) = {}
        /\ Numbers(got) = {} /\ 1..(nextMsg - 1) = {}
    BY ElemsEmpty DEF Init, Numbers
  <2>2. InFlight = {}
    BY <2>1 DEF InFlight
  <2> QED BY <2>1, <2>2 DEF Link!Init
<1> QED BY OrderInvariant, NextIsLinkStep, <1>1, PTL DEF Spec, ImplementsLink, Link!Spec
-----------------------------------------------------------------------------
(* Losses *)

\* Until close() is called the ws-tx thread stays in its loop, and while it receives, _ws is
\* the connection it receives from.
RunInv ==
  /\ running => closer = "idle" /\ ~stopReq /\ LoopRuns
  /\ main = "receiving" => ref = nconn /\ ref # None

LEMMA NextRunInv == TypeOK /\ RunInv /\ [Next]_vars => RunInv'
<1> SUFFICES ASSUME TypeOK, RunInv, [Next]_vars PROVE RunInv'
  OBVIOUS
<1> USE DEF LoopRuns, connVars, closeVars
<1>1. CASE ConnectOk
  <2>1. nconn + 1 # None
    BY <1>1 DEF TypeOK, None
  <2> QED BY <1>1, <2>1 DEF ConnectOk, RunInv
<1>2. CASE ConnectFails \/ ReceiveEnds \/ ReceiveRaises \/ Wake
  BY <1>2 DEF ConnectFails, ReceiveEnds, ReceiveRaises, Wake, Except, RunInv
<1>3. CASE StopLoop \/ CloseLoop \/ ThreadEnds
  BY <1>3 DEF StopLoop, CloseLoop, ThreadEnds, RunInv
<1>4. CASE Network
  BY <1>4 DEF Network, Break, Notice, Arrive, LoseRest, RunInv
<1>5. CASE Publisher
  BY <1>5 DEF Publisher, PublishRead, PublishSchedule, RunSend, RunInv
<1>6. CASE Close
  BY <1>6 DEF Close, RunInv
<1>7. CASE Closer
  BY <1>7 DEF Closer, Post, Result, Join, ForceStop, Rejoin, RunInv
<1>8. CASE Shutdown
  BY <1>8 DEF Shutdown, ShutdownStarts, Handshake, ShutdownEnds, RunInv
<1>9. CASE UNCHANGED vars
  BY <1>9 DEF vars, RunInv
<1> QED BY <1>1, <1>2, <1>3, <1>4, <1>5, <1>6, <1>7, <1>8, <1>9 DEF Next, Main

LEMMA RunInvariant == Spec => []RunInv
<1>1. Init => RunInv
  BY DEF Init, RunInv, LoopRuns
<1> QED BY <1>1, NextRunInv, TransportTypeCorrect, PTL DEF Spec

\* What a step makes of a message that is under way while nobody has called close().
Kept == \A p \in InFlight : p \in InFlight' \cup Elems(got') \/ conn[p.conn] # "open"
DroppedAtOnce == nextMsg' # nextMsg /\ held' = <<>>

LEMMA StepKeeps ==
  TypeOK /\ OrderInv /\ RunInv /\ [Next]_vars
    => (running => Kept /\ (DroppedAtOnce => main # "receiving"))
<1> SUFFICES ASSUME TypeOK, OrderInv, RunInv, [Next]_vars, running
             PROVE  Kept /\ (DroppedAtOnce => main # "receiving")
  OBVIOUS
<1>1. CASE UNCHANGED linkVars
  BY <1>1 DEF linkVars, InFlight, Kept, DroppedAtOnce
<1>2. CASE PublishRead
  <2>1. UNCHANGED <<tasks, wire>> /\ Elems(held) = {}
    BY <1>2, ElemsEmpty DEF PublishRead
  <2>2. Kept
    BY <2>1 DEF Kept, InFlight
  <2>3. held' = <<>> => ref = None
    <3>1. ref # None => held' = << [conn |-> ref, msg |-> nextMsg] >>
      BY <1>2 DEF PublishRead
    <3>2. ref # None => Len(held') = 1
      BY <3>1
    <3> QED BY <3>2
  <2> QED BY <2>2, <2>3 DEF RunInv, DroppedAtOnce
<1>3. CASE PublishSchedule
  <2>1. held # <<>> /\ UNCHANGED <<nextMsg, wire>> /\ tasks' = tasks \o held
    BY <1>3 DEF PublishSchedule, RunInv, LoopRuns, LoopOpen
  <2>2. Elems(tasks') = Elems(tasks) \cup Elems(held)
    <3>1. /\ tasks' = Append(tasks, held[1]) /\ held[1] \in Packets
          /\ Elems(held) = {held[1]} /\ tasks \in Seq(Packets)
      BY <2>1, AppendHeld DEF TypeOK
    <3> QED BY <3>1, ElemsAppend
  <2> QED BY <2>1, <2>2 DEF Kept, InFlight, DroppedAtOnce
<1>4. CASE RunSend
  <2> DEFINE p == Head(tasks)
  <2>1. /\ UNCHANGED <<nextMsg, held>> /\ tasks # <<>> /\ tasks' = Tail(tasks)
        /\ tasks \in Seq(Packets) /\ wire \in [Conns -> Seq(Packets)]
        /\ wire' = IF LooksOpen(p.conn) THEN [wire EXCEPT ![p.conn] = Append(@, p)] ELSE wire
    BY <1>4 DEF RunSend, TypeOK
  <2>2. p \in Packets /\ Elems(tasks) = {p} \cup Elems(tasks') /\ p.conn \in Conns
    BY <2>1, ElemsTail, PacketTypes
  <2> HIDE DEF p
  <2>3. \A c \in Conns : Elems(wire[c]) \subseteq Elems(wire'[c])
    <3>1. \A c \in Conns : wire'[c] = wire[c] \/ wire'[c] = Append(wire[c], p)
      BY <2>1, <2>2
    <3>2. \A c \in Conns : Elems(Append(wire[c], p)) = Elems(wire[c]) \cup {p}
      BY <2>1, <2>2, ElemsAppend
    <3> QED BY <3>1, <3>2
  <2>4. conn[p.conn] = "open" => p \in Elems(wire'[p.conn])
    <3> SUFFICES ASSUME conn[p.conn] = "open" PROVE p \in Elems(wire'[p.conn])
      OBVIOUS
    <3>1. wire'[p.conn] = Append(wire[p.conn], p) /\ wire[p.conn] \in Seq(Packets)
      BY <2>1, <2>2 DEF LooksOpen
    <3> QED BY <2>2, <3>1, ElemsAppend
  <2>5. InFlight \subseteq InFlight' \cup {p}
    <3>1. Elems(held') = Elems(held) /\ Elems(tasks) = {p} \cup Elems(tasks')
      BY <2>1, <2>2
    <3>2. UNION {Elems(wire[c]) : c \in Conns} \subseteq UNION {Elems(wire'[c]) : c \in Conns}
      BY <2>3
    <3> QED BY <3>1, <3>2 DEF InFlight
  <2>6. conn[p.conn] = "open" => p \in InFlight'
    BY <2>2, <2>4 DEF InFlight
  <2> QED BY <2>1, <2>5, <2>6 DEF Kept, DroppedAtOnce
<1>5. ASSUME NEW c \in Conns, Arrive(c)
      PROVE  Kept /\ (DroppedAtOnce => main # "receiving")
  <2>1. /\ UNCHANGED <<nextMsg, held, tasks>> /\ got' = Append(got, Head(wire[c]))
        /\ wire[c] # <<>> /\ wire[c] \in Seq(Packets) /\ got \in Seq(Packets)
        /\ wire'[c] = Tail(wire[c]) /\ \A d \in Conns : d # c => wire'[d] = wire[d]
    BY <1>5 DEF Arrive, TypeOK
  <2>2. Elems(wire[c]) = {Head(wire[c])} \cup Elems(wire'[c]) /\ Head(wire[c]) \in Elems(got')
    BY <2>1, ElemsTail, ElemsAppend
  <2> QED BY <2>1, <2>2 DEF Kept, InFlight, DroppedAtOnce
<1>6. ASSUME NEW c \in Conns, LoseRest(c)
      PROVE  Kept /\ (DroppedAtOnce => main # "receiving")
  <2>1. /\ UNCHANGED <<nextMsg, held, tasks>> /\ conn[c] # "open"
        /\ \A d \in Conns : d # c => wire'[d] = wire[d]
        /\ \A p \in Elems(wire[c]) : p.conn = c
    BY <1>6 DEF LoseRest, TypeOK, OrderInv
  <2> QED BY <2>1 DEF Kept, InFlight, DroppedAtOnce
<1> QED BY <1>1, <1>2, <1>3, <1>4, <1>5, <1>6, LinkFrame DEF Next, Network, Publisher

\* For any number of connections and messages, before close() is called a message is lost
\* only with the connection it was meant for, or because there was none.
THEOREM LostToDisconnectionOnly == Spec => LostOnlyWhenDown
<1>1. TypeOK /\ OrderInv /\ RunInv /\ [Next]_vars
        => [running =>
              /\ \A p \in InFlight : p \in InFlight' \cup Elems(got') \/ conn[p.conn] # "open"
              /\ nextMsg' # nextMsg /\ held' = <<>> => main # "receiving"]_vars
  BY StepKeeps DEF Kept, DroppedAtOnce
<1> QED BY <1>1, OrderInvariant, RunInvariant, PTL DEF Spec, LostOnlyWhenDown
=============================================================================
