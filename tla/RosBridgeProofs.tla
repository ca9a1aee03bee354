-------------------------- MODULE RosBridgeProofs --------------------------
(***************************************************************************)
(* Proofs about the ROS 2 bridge, for any number of commands               *)
(* and of connections: its types, and what it publishes on                 *)
(* /joint_commands.  None of it is a refinement of the controller's gate:  *)
(* that the node publishes past the gate is what StoppedIsSilent shows.    *)
(***************************************************************************)
EXTENDS RosBridge, SequenceTheorems, TLAPS

(* Facts about sequences *)

LEMMA AppendFacts ==
  ASSUME NEW S, NEW s \in Seq(S), NEW e \in S
  PROVE  /\ Append(s, e) \in Seq(S) /\ Len(Append(s, e)) = Len(s) + 1
         /\ Len(s) \in Nat /\ Append(s, e)[Len(s) + 1] = e
         /\ \A i \in 1..Len(s) : Append(s, e)[i] = s[i]
OBVIOUS

LEMMA TailFacts ==
  ASSUME NEW S, NEW s \in Seq(S), s # <<>>
  PROVE  /\ Tail(s) \in Seq(S) /\ Len(s) \in Nat \ {0} /\ Len(Tail(s)) = Len(s) - 1
         /\ Head(s) = s[1] /\ s[1] \in S
         /\ \A i \in 1..Len(Tail(s)) : Tail(s)[i] = s[i + 1]
OBVIOUS

LEMMA OneFacts ==
  ASSUME NEW S, NEW e \in S
  PROVE  <<e>> \in Seq(S) /\ Len(<<e>>) = 1 /\ <<e>>[1] = e
OBVIOUS

LEMMA FirstOf == ASSUME NEW S, NEW s \in Seq(S), s # <<>> PROVE s[1] \in S
OBVIOUS
LEMMA NoneFacts ==
  ASSUME NEW S
  PROVE  <<>> \in Seq(S) /\ Len(<<>>) = 0 /\ DOMAIN <<>> = {}
OBVIOUS

\* The lists of handlers there are.
Todos == {<<>>, <<"controller">>, <<"node">>, <<"controller", "node">>}

LEMMA TodosAreLists == Todos \subseteq Seq(Handlers)
<1>1. <<>> \in Seq(Handlers)
  OBVIOUS
<1>2. "controller" \in Handlers /\ "node" \in Handlers
  BY DEF Handlers
<1>3. <<"controller">> \in Seq(Handlers) /\ <<"node">> \in Seq(Handlers)
  BY <1>2
<1>4. <<"controller", "node">> \in Seq(Handlers)
  BY <1>2
<1> QED BY <1>1, <1>3, <1>4 DEF Todos

LEMMA TodosTail ==
  /\ Tail(<<"controller">>) = <<>> /\ Len(<<"controller">>) = 1
  /\ Tail(<<"node">>) = <<>> /\ Len(<<"node">>) = 1
  /\ Tail(<<"controller", "node">>) = <<"node">> /\ Len(<<"controller", "node">>) = 2
  /\ Head(<<"controller">>) = "controller" /\ Head(<<"node">>) = "node"
  /\ Head(<<"controller", "node">>) = "controller"
OBVIOUS

LEMMA TodosDiffer ==
  /\ <<>> # <<"controller">> /\ <<>> # <<"node">> /\ <<>> # <<"controller", "node">>
  /\ <<"controller">> # <<"node">> /\ <<"node">> # <<"controller", "node">>
  /\ <<"controller">> # <<"controller", "node">>
<1>1. \A s, t : s = t => Len(s) = Len(t) /\ Head(s) = Head(t)
  OBVIOUS
<1>2. Len(<<>>) = 0
  OBVIOUS
<1> QED BY <1>1, <1>2, TodosTail
-----------------------------------------------------------------------------
(* The invariant *)

\* The transport's thread calls the controller first, and the node after it.
HandlersOk ==
  /\ todo \in Todos
  /\ frame = <<>> <=> todo = <<>>
  /\ todo = <<"node">> => frame[1].seq <= lastSeq
  /\ stage = "closed" => frame = <<>>

Typed == TypeOK /\ HandlersOk /\ OfferedFirst

\* What a connection carries is in order, and is its own.
WireOk ==
  \A c \in Conns :
    /\ \A i \in 1..Len(wire[c]) : wire[c][i].conn = c /\ (c = conn => wire[c][i].seq <= seq)
    /\ \A i, j \in 1..Len(wire[c]) : i < j => wire[c][i].seq < wire[c][j].seq
    /\ c > conn => wire[c] = <<>>

\* Command m has left its connection: what the connection carries came after it.
Past(m) ==
  /\ m.conn <= conn /\ (m.conn = conn => m.seq <= seq)
  /\ \A i \in 1..Len(wire[m.conn]) : m.seq < wire[m.conn][i].seq

PastOk ==
  /\ frame # <<>> => Past(frame[1])
  /\ \A i \in DOMAIN issued :
       /\ Past(issued[i])
       /\ frame # <<>> /\ frame[1].conn = issued[i].conn
            => issued[i].seq < frame[1].seq

OrderInv == WireOk /\ PastOk /\ InOrder
-----------------------------------------------------------------------------
(* Types, and the handlers *)

LEMMA TypedInit == Init => Typed
<1> SUFFICES ASSUME Init PROVE Typed
  OBVIOUS
<1> USE BridgeAssumption DEF BridgeAssumption
<1>1. wire \in [Conns -> Seq(Commands)]
  BY DEF Init
<1>2. conn \in Conns
  BY DEF Init, Conns
<1>3. /\ frame = <<>> /\ todo = <<>> /\ latest = <<>> /\ issued = <<>>
      /\ \A S : <<>> \in Seq(S) /\ Len(<<>>) = 0
  BY NoneFacts DEF Init
<1>4. frame \in Seq(Commands) /\ Len(frame) <= 1 /\ todo \in Seq(Handlers)
  BY <1>3
<1>5. latest \in Seq(Commands) /\ Len(latest) <= 1 /\ issued \in Seq(Commands)
  BY <1>3
<1>6. /\ seq \in Nat /\ sends \in 0..MaxSends /\ lastSeq \in Nat \cup {-1}
       /\ estopped \in BOOLEAN
       /\ stage \in {"made", "controlled", "up", "stopped", "closed"}
  <2>1. seq = 0 /\ sends = 0 /\ lastSeq = -1
    BY DEF Init
  <2>2. estopped = FALSE /\ stage = "made"
    BY DEF Init
  <2>3. seq \in Nat /\ sends \in 0..MaxSends /\ lastSeq \in Nat \cup {-1}
    BY <2>1
  <2> QED BY <2>2, <2>3
<1>7. TypeOK
  BY <1>1, <1>2, <1>4, <1>5, <1>6 DEF TypeOK
<1>8. HandlersOk
  BY TodosDiffer DEF Init, HandlersOk, Todos
<1>9. OfferedFirst
  BY NoneFacts DEF Init, OfferedFirst
<1> QED BY <1>7, <1>8, <1>9 DEF Typed

LEMMA LeaderTyped == ASSUME Typed, Leader PROVE Typed'
<1> USE BridgeAssumption DEF Typed, TypeOK, HandlersOk, OfferedFirst, rxVars, ctlVars, leaderVars
<1>1. ASSUME NEW empty \in BOOLEAN, NEW breach \in BOOLEAN, OnJoints(empty, breach)
      PROVE  Typed'
  <2> DEFINE m == [conn |-> conn, seq |-> seq', empty |-> empty, breach |-> breach]
  <2>1. seq' \in Nat \ {0} /\ sends' \in 0..MaxSends
    BY <1>1 DEF OnJoints
  <2>2. m \in Commands
    BY <2>1 DEF Commands
  <2>3. Append(wire[conn], m) \in Seq(Commands)
    BY <2>2
  <2>4. wire' = [wire EXCEPT ![conn] = Append(wire[conn], m)]
    BY <1>1 DEF OnJoints
  <2>5. wire' \in [Conns -> Seq(Commands)]
    BY <2>3, <2>4
  <2> QED BY <1>1, <2>1, <2>5 DEF OnJoints
<1>2. CASE Reconnect
  BY <1>2 DEF Reconnect, Conns
<1>3. CASE RestartLeader
  BY <1>3 DEF RestartLeader, Conns
<1>4. ASSUME NEW c \in Conns, Lose(c) PROVE Typed'
  <2>1. Tail(wire[c]) \in Seq(Commands)
    BY <1>4 DEF Lose
  <2> QED BY <1>4, <2>1 DEF Lose
<1> QED BY <1>1, <1>2, <1>3, <1>4 DEF Leader

LEMMA TransportTyped == ASSUME Typed, Transport PROVE Typed'
<1> USE DEF Typed, TypeOK, HandlersOk, OfferedFirst, leaderVars, ctlVars
<1>1. ASSUME NEW c \in Conns, Dispatch(c) PROVE Typed'
  <2>1. Tail(wire[c]) \in Seq(Commands) /\ Head(wire[c]) \in Commands
    BY <1>1 DEF Dispatch
  <2>2. wire' \in [Conns -> Seq(Commands)]
    BY <1>1, <2>1 DEF Dispatch
  <2>3. /\ todo' \in {<<>>, <<"controller">>, <<"controller", "node">>}
        /\ frame' \in Seq(Commands) /\ Len(frame') <= 1 /\ (frame' = <<>> <=> todo' = <<>>)
    BY <1>1, <2>1 DEF Dispatch, Subscribed
  <2>4. todo' \in Seq(Handlers) /\ todo' # <<"node">> /\ todo' \in Todos
    BY <2>3, TodosAreLists, TodosDiffer DEF Todos
  <2> QED BY <1>1, <2>2, <2>3, <2>4 DEF Dispatch
<1>2. CASE Accept
  <2>1. todo \in {<<"controller">>, <<"controller", "node">>} /\ frame[1] \in Commands
    <3>1. frame[1] \in Commands
      BY <1>2, FirstOf DEF Accept
    <3>2. todo # <<>> /\ Head(todo) = "controller"
      BY <1>2 DEF Accept
    <3> QED BY <3>1, <3>2, TodosTail DEF Todos
  <2>2. /\ todo = <<"controller">> => todo' = <<>> /\ frame' = <<>>
        /\ todo = <<"controller", "node">> => todo' = <<"node">> /\ frame' = frame
    <3>1. /\ todo' = Tail(todo)
          /\ frame' = IF Len(todo) = 1 THEN <<>> ELSE frame
      BY <1>2 DEF Accept, Called
    <3>2. ASSUME todo = <<"controller">> PROVE todo' = <<>> /\ frame' = <<>>
      <4>1. Tail(todo) = <<>> /\ Len(todo) = 1
        BY ONLY <3>2, TodosTail
      <4> QED BY ONLY <3>1, <4>1
    <3>3. ASSUME todo = <<"controller", "node">> PROVE todo' = <<"node">> /\ frame' = frame
      <4>1. Tail(todo) = <<"node">> /\ Len(todo) = 2
        BY ONLY <3>3, TodosTail
      <4> QED BY ONLY <3>1, <4>1
    <3> QED BY <3>2, <3>3
  <2>3. lastSeq' \in Nat \cup {-1} /\ lastSeq <= lastSeq' /\ frame[1].seq <= lastSeq'
    BY <1>2, <2>1 DEF Accept, Commands
  <2>4. todo' \in Seq(Handlers) /\ todo' \in Todos /\ (frame' = <<>> <=> todo' = <<>>)
    BY <2>1, <2>2, TodosAreLists, TodosDiffer DEF Todos
  <2>5. latest' \in Seq(Commands) /\ Len(latest') <= 1
    BY <1>2 DEF Accept
  <2>6. OfferedFirst'
    <3> SUFFICES ASSUME NEW i \in DOMAIN issued PROVE issued[i].seq <= lastSeq'
      BY <1>2 DEF Accept
    <3>1. issued[i] \in Commands /\ issued[i].seq <= lastSeq
      OBVIOUS
    <3>2. issued[i].seq \in Nat
      BY <3>1 DEF Commands
    <3> QED BY <2>3, <3>1, <3>2
  <2> QED BY <1>2, <2>1, <2>2, <2>3, <2>4, <2>5, <2>6 DEF Accept
<1>3. CASE Republish
  <2>1. todo = <<"node">> /\ frame[1] \in Commands
    <3>1. frame[1] \in Commands
      BY <1>3, FirstOf DEF Republish
    <3>2. todo # <<>> /\ Head(todo) = "node"
      BY <1>3 DEF Republish
    <3> QED BY <3>1, <3>2, TodosTail DEF Todos
  <2>2. todo' = <<>> /\ frame' = <<>>
    BY <1>3, <2>1, TodosTail DEF Republish, Called
  <2> DEFINE m == frame[1]
  <2>4. m \in Commands
    BY <2>1
  <2>5. issued' = issued \/ issued' = Append(issued, m)
    BY <1>3 DEF Republish
  <2> HIDE DEF m
  <2>6. issued' \in Seq(Commands)
    <3>1. issued \in Seq(Commands)
      OBVIOUS
    <3>2. Append(issued, m) \in Seq(Commands)
      BY <2>4, <3>1, AppendFacts
    <3> QED BY <2>5, <3>1, <3>2
  <2>7. OfferedFirst'
    <3>1. CASE issued' = issued
      BY <1>3, <3>1 DEF Republish
    <3>2. CASE issued' = Append(issued, m)
      <4>1. /\ Len(issued') = Len(issued) + 1 /\ Len(issued) \in Nat
            /\ issued'[Len(issued) + 1] = m
            /\ \A i \in 1..Len(issued) : issued'[i] = issued[i]
        BY <2>4, <3>2, AppendFacts
      <4>2. DOMAIN issued' = 1..Len(issued') /\ DOMAIN issued = 1..Len(issued)
        BY <2>6
      <4>3. m.seq <= lastSeq' /\ lastSeq' = lastSeq
        BY <1>3, <2>1 DEF Republish, m
      <4> SUFFICES ASSUME NEW i \in 1..Len(issued) + 1
                   PROVE  issued'[i].seq <= lastSeq'
        BY <4>1, <4>2
      <4>4. CASE i = Len(issued) + 1
        BY <4>1, <4>3, <4>4
      <4>5. CASE i # Len(issued) + 1
        <5>1. i \in DOMAIN issued /\ issued'[i] = issued[i]
          BY <4>1, <4>2, <4>5
        <5> QED BY <5>1, <4>3
      <4> QED BY <4>4, <4>5
    <3> QED BY <2>5, <3>1, <3>2
  <2>8. todo' \in Seq(Handlers) /\ frame' \in Seq(Commands) /\ Len(frame') = 0
        /\ todo' \in Todos /\ todo' # <<"node">>
    BY <2>2, TodosDiffer DEF Todos
  <2> QED BY <1>3, <2>2, <2>6, <2>7, <2>8 DEF Republish
<1> QED BY <1>1, <1>2, <1>3 DEF Transport

LEMMA NodeTyped == ASSUME Typed, Node \/ Validate PROVE Typed'
<1> USE DEF Typed, TypeOK, HandlersOk, OfferedFirst, leaderVars, rxVars, ctlVars
<1>1. CASE StartController \/ Subscribe \/ StopController
  BY <1>1 DEF StartController, Subscribe, StopController, Goes
<1>2. CASE CloseTransport
  BY <1>2 DEF CloseTransport, Goes
<1>3. CASE Launch
  <2>2. frame = <<>> /\ todo = <<>>
    BY <1>3 DEF Launch
  <2>3. todo' # <<"node">> /\ frame' = frame /\ todo' = todo
    BY <1>3, <2>2, TodosDiffer DEF Launch
  <2> QED BY <1>3, <2>2, <2>3, NoneFacts DEF Launch
<1>4. CASE Validate
  BY <1>4 DEF Validate
<1> QED BY <1>1, <1>2, <1>3, <1>4 DEF Node

LEMMA TypedNext == ASSUME Typed, [Next]_vars PROVE Typed'
<1>1. CASE UNCHANGED vars
  BY <1>1 DEF vars, leaderVars, rxVars, ctlVars, Typed, TypeOK, HandlersOk, OfferedFirst
<1> QED BY <1>1, LeaderTyped, TransportTyped, NodeTyped DEF Next

\* Every variable keeps its type, and the handlers their order: the invariant of the two
\* theorems that follow, and of the rest.
THEOREM BridgeTyped == Spec => []Typed
<1>1. Init => Typed
  BY TypedInit
<1>2. Typed /\ [Next]_vars => Typed'
  BY TypedNext
<1> QED BY <1>1, <1>2, PTL DEF Spec

\* Every variable of the bridge keeps its type (follower_bridge.py:39-66).
THEOREM BridgeTypeCorrect == Spec => []TypeOK
<1>1. Typed => TypeOK
  BY DEF Typed
<1> QED BY <1>1, BridgeTyped, PTL

\* Whenever in its start or stop a command comes, the node publishes nothing that the
\* controller was not offered before (follower_bridge.py:56-62).
THEOREM OfferedBeforePublished == Spec => []OfferedFirst
<1>1. Typed => OfferedFirst
  BY DEF Typed
<1> QED BY <1>1, BridgeTyped, PTL
-----------------------------------------------------------------------------
(* Order *)

IInv == Typed /\ OrderInv

\* What takes commands from the wire or leaves it as it is keeps it in order.
LEMMA WireTail ==
  ASSUME IInv, NEW c \in Conns, wire[c] # <<>>, wire' = [wire EXCEPT ![c] = Tail(@)],
         UNCHANGED <<conn, seq>>
  PROVE  /\ WireOk'
         /\ \A m : m = Head(wire[c]) => Past(m)'
         /\ \A m : m.conn \in Conns /\ Past(m) => Past(m)'
<1> USE DEF IInv, Typed, TypeOK, OrderInv
<1>1. /\ Len(wire[c]) \in Nat \ {0} /\ Len(Tail(wire[c])) = Len(wire[c]) - 1
      /\ Head(wire[c]) = wire[c][1] /\ wire[c][1] \in Commands
      /\ \A i \in 1..Len(Tail(wire[c])) : Tail(wire[c])[i] = wire[c][i + 1]
  BY TailFacts
<1>2. wire'[c] = Tail(wire[c]) /\ \A d \in Conns : d # c => wire'[d] = wire[d]
  OBVIOUS
<1>3. \A i \in 1..Len(wire'[c]) : i + 1 \in 1..Len(wire[c]) /\ wire'[c][i] = wire[c][i + 1]
  BY <1>1, <1>2
<1>4. WireOk'
  <2> SUFFICES ASSUME NEW d \in Conns
      PROVE  /\ \A i \in 1..Len(wire'[d]) :
                   wire'[d][i].conn = d /\ (d = conn => wire'[d][i].seq <= seq)
             /\ \A i, j \in 1..Len(wire'[d]) : i < j => wire'[d][i].seq < wire'[d][j].seq
             /\ d > conn => wire'[d] = <<>>
    BY DEF WireOk
  <2>1. CASE d = c
    <3>1. ~(d > conn)
      BY <2>1 DEF WireOk
    <3>2. \A i \in 1..Len(wire'[d]) :
            wire'[d][i].conn = d /\ (d = conn => wire'[d][i].seq <= seq)
      BY <1>3, <2>1 DEF WireOk
    <3>3. ASSUME NEW i \in 1..Len(wire'[d]), NEW j \in 1..Len(wire'[d]), i < j
          PROVE  wire'[d][i].seq < wire'[d][j].seq
      <4>1. i + 1 \in 1..Len(wire[d]) /\ j + 1 \in 1..Len(wire[d]) /\ i + 1 < j + 1
        BY <1>3, <2>1, <3>3
      <4> QED BY <1>3, <2>1, <4>1 DEF WireOk
    <3> QED BY <3>1, <3>2, <3>3
  <2>2. CASE d # c
    BY <1>2, <2>2 DEF WireOk
  <2> QED BY <2>1, <2>2
<1>5. ASSUME NEW m, m = Head(wire[c]) PROVE Past(m)'
  <2>1. m.conn = c /\ (c = conn => m.seq <= seq) /\ ~(c > conn)
    BY <1>1, <1>5 DEF WireOk
  <2>2. ASSUME NEW i \in 1..Len(wire'[c]) PROVE m.seq < wire'[c][i].seq
    <3>1. 1 \in 1..Len(wire[c]) /\ i + 1 \in 1..Len(wire[c]) /\ 1 < i + 1
      BY <1>1, <1>3
    <3> QED BY <1>1, <1>3, <1>5, <3>1 DEF WireOk
  <2>3. m.conn <= conn
    BY <2>1 DEF Conns
  <2> QED BY <2>1, <2>2, <2>3 DEF Past
<1>6. ASSUME NEW m, m.conn \in Conns, Past(m) PROVE Past(m)'
  <2>1. CASE m.conn = c
    BY <1>3, <1>6, <2>1 DEF Past
  <2>2. CASE m.conn # c
    BY <1>2, <1>6, <2>2 DEF Past
  <2> QED BY <2>1, <2>2
<1> QED BY <1>4, <1>5, <1>6

\* A new command comes after all that went before it.
LEMMA WireAppend ==
  ASSUME IInv, NEW empty \in BOOLEAN, NEW breach \in BOOLEAN, OnJoints(empty, breach)
  PROVE  WireOk' /\ \A m : m.conn \in Conns /\ m.seq \in Nat /\ Past(m) => Past(m)'
<1> USE DEF IInv, Typed, TypeOK, OrderInv
<1> DEFINE e == [conn |-> conn, seq |-> seq', empty |-> empty, breach |-> breach]
<1>1. seq' = seq + 1 /\ conn' = conn /\ wire' = [wire EXCEPT ![conn] = Append(wire[conn], e)]
  BY DEF OnJoints
<1>2. e \in Commands /\ e.conn = conn /\ e.seq = seq + 1
  BY <1>1 DEF Commands
<1> HIDE DEF e
<1>3. /\ wire'[conn] = Append(wire[conn], e)
      /\ \A d \in Conns : d # conn => wire'[d] = wire[d]
  BY <1>1
<1>4. /\ Len(wire'[conn]) = Len(wire[conn]) + 1 /\ Len(wire[conn]) \in Nat
      /\ wire'[conn][Len(wire[conn]) + 1] = e
      /\ \A i \in 1..Len(wire[conn]) : wire'[conn][i] = wire[conn][i]
      /\ \A i \in 1..Len(wire[conn]) : wire[conn][i] \in Commands /\ wire[conn][i].seq <= seq
                                       /\ wire[conn][i].conn = conn
      /\ ~(conn > conn)
  BY <1>2, <1>3, AppendFacts DEF WireOk, Conns
<1>5. \A i \in 1..Len(wire'[conn]) : i \in 1..Len(wire[conn]) \/ i = Len(wire[conn]) + 1
  BY <1>4
<1>6. WireOk'
  <2> SUFFICES ASSUME NEW d \in Conns
      PROVE  /\ \A i \in 1..Len(wire'[d]) :
                   wire'[d][i].conn = d /\ (d = conn => wire'[d][i].seq <= seq')
             /\ \A i, j \in 1..Len(wire'[d]) : i < j => wire'[d][i].seq < wire'[d][j].seq
             /\ d > conn => wire'[d] = <<>>
    BY <1>1 DEF WireOk
  <2>1. CASE d = conn
    <3>1. ASSUME NEW i \in 1..Len(wire'[d])
          PROVE  wire'[d][i].conn = d /\ wire'[d][i].seq <= seq'
      <4>1. CASE i \in 1..Len(wire[conn])
        <5>1. wire[conn][i].seq \in Nat /\ wire[conn][i].seq <= seq
          BY <1>4, <4>1 DEF Commands
        <5> QED BY <1>1, <1>4, <2>1, <4>1, <5>1
      <4>2. CASE i = Len(wire[conn]) + 1
        BY <1>1, <1>2, <1>4, <2>1, <4>2
      <4> QED BY <1>5, <2>1, <4>1, <4>2
    <3>2. ASSUME NEW i \in 1..Len(wire'[d]), NEW j \in 1..Len(wire'[d]), i < j
          PROVE  wire'[d][i].seq < wire'[d][j].seq
      <4>1. i \in 1..Len(wire[conn])
        BY <1>4, <2>1, <3>2
      <4>2. CASE j \in 1..Len(wire[conn])
        BY <1>4, <2>1, <3>2, <4>1, <4>2 DEF WireOk
      <4>3. CASE j = Len(wire[conn]) + 1
        <5>1. wire[conn][i].seq \in Nat /\ wire[conn][i].seq <= seq
          BY <1>4, <4>1 DEF Commands
        <5>2. wire'[d][i].seq = wire[conn][i].seq /\ wire'[d][j].seq = seq + 1
          BY <1>2, <1>4, <2>1, <4>1, <4>3
        <5> QED BY <5>1, <5>2
      <4> QED BY <1>5, <2>1, <4>2, <4>3
    <3> QED BY <2>1, <3>1, <3>2, <1>4
  <2>2. CASE d # conn
    BY <1>3, <2>2 DEF WireOk
  <2> QED BY <2>1, <2>2
<1>7. ASSUME NEW m, m.conn \in Conns, m.seq \in Nat, Past(m) PROVE Past(m)'
  <2>1. CASE m.conn = conn
    <3>1. m.seq <= seq
      BY <1>7, <2>1 DEF Past
    <3>2. ASSUME NEW i \in 1..Len(wire'[conn]) PROVE m.seq < wire'[conn][i].seq
      <4>1. CASE i \in 1..Len(wire[conn])
        BY <1>4, <1>7, <2>1, <4>1 DEF Past
      <4>2. CASE i = Len(wire[conn]) + 1
        BY <1>2, <1>4, <1>7, <3>1, <4>2
      <4> QED BY <1>5, <4>1, <4>2
    <3>3. m.seq <= seq'
      BY <1>1, <1>7, <3>1
    <3> QED BY <1>1, <1>7, <2>1, <3>2, <3>3 DEF Past
  <2>2. CASE m.conn # conn
    BY <1>1, <1>3, <1>7, <2>2 DEF Past
  <2> QED BY <2>1, <2>2
<1> QED BY <1>6, <1>7

\* A new connection starts empty, behind all others.
LEMMA WireNew ==
  ASSUME IInv, Reconnect \/ RestartLeader
  PROVE  WireOk' /\ \A m : m.conn \in Conns /\ Past(m) => Past(m)'
<1> USE DEF IInv, Typed, TypeOK, OrderInv
<1>1. conn' = conn + 1 /\ conn' \in Conns /\ wire' = wire /\ conn \in Nat
  BY BridgeAssumption DEF BridgeAssumption, Reconnect, RestartLeader, Conns
<1>2. wire[conn'] = <<>>
  BY <1>1 DEF WireOk
<1>3. WireOk'
  <2> SUFFICES ASSUME NEW d \in Conns
      PROVE  /\ \A i \in 1..Len(wire[d]) :
                   wire[d][i].conn = d /\ (d = conn' => wire[d][i].seq <= seq')
             /\ \A i, j \in 1..Len(wire[d]) : i < j => wire[d][i].seq < wire[d][j].seq
             /\ d > conn' => wire[d] = <<>>
    BY <1>1 DEF WireOk
  <2>1. d = conn' => Len(wire[d]) = 0
    BY <1>2
  <2>2. d \in Nat
    BY DEF Conns
  <2> QED BY <1>1, <2>1, <2>2 DEF WireOk
<1>4. ASSUME NEW m, m.conn \in Conns, Past(m) PROVE Past(m)'
  BY <1>1, <1>4 DEF Past, Conns
<1> QED BY <1>3, <1>4

LEMMA IssuedTyped ==
  ASSUME Typed, NEW i \in DOMAIN issued
  PROVE  issued[i] \in Commands /\ issued[i].conn \in Conns
         /\ issued[i].seq \in Nat
<1>1. issued[i] \in Commands
  BY DEF Typed, TypeOK
<1> QED BY <1>1 DEF Commands

LEMMA FrameTyped ==
  ASSUME Typed, frame # <<>>
  PROVE  frame[1] \in Commands /\ frame[1].conn \in Conns /\ frame[1].seq \in Nat
<1>1. frame[1] \in Commands
  BY FirstOf DEF Typed, TypeOK
<1> QED BY <1>1 DEF Commands

\* A step that keeps the past past, and neither takes a command in hand nor publishes one.
LEMMA PastKept ==
  ASSUME IInv, WireOk', UNCHANGED <<issued, frame>>,
         \A m : m.conn \in Conns /\ m.seq \in Nat /\ Past(m) => Past(m)'
  PROVE  OrderInv'
<1> USE DEF IInv, OrderInv
<1>1. frame # <<>> => Past(frame[1])'
  <2> SUFFICES ASSUME frame # <<>>, NEW m, m = frame[1] PROVE Past(m)'
    OBVIOUS
  <2> QED BY FrameTyped DEF PastOk
<1>2. ASSUME NEW i \in DOMAIN issued PROVE Past(issued[i])'
  <2> SUFFICES ASSUME NEW m, m = issued[i] PROVE Past(m)'
    OBVIOUS
  <2> QED BY IssuedTyped DEF PastOk
<1>3. PastOk'
  BY <1>1, <1>2 DEF PastOk
<1> QED BY <1>3 DEF InOrder

LEMMA DispatchOrder == ASSUME IInv, NEW c \in Conns, Dispatch(c) PROVE OrderInv'
<1>1. /\ wire[c] # <<>> /\ wire' = [wire EXCEPT ![c] = Tail(@)] /\ UNCHANGED <<conn, seq>>
      /\ frame' = <<>> \/ frame' = <<Head(wire[c])>>
      /\ issued' = issued
  BY DEF Dispatch, leaderVars
<1>2. /\ WireOk'
      /\ \A m : m = Head(wire[c]) => Past(m)'
      /\ \A m : m.conn \in Conns /\ Past(m) => Past(m)'
  BY <1>1, WireTail
<1>3. ASSUME frame' # <<>>
      PROVE  frame'[1] = Head(wire[c]) /\ Head(wire[c]) = wire[c][1] /\ wire[c][1].conn = c
             /\ 1 \in 1..Len(wire[c])
  <2>1. 1 \in 1..Len(wire[c]) /\ Head(wire[c]) = wire[c][1]
    BY <1>1, TailFacts DEF IInv, Typed, TypeOK
  <2> QED BY <1>1, <1>3, <2>1 DEF IInv, OrderInv, WireOk
<1>4. frame' # <<>> => Past(frame[1])'
  <2> SUFFICES ASSUME frame' # <<>>, NEW m, m = frame'[1] PROVE Past(m)'
    OBVIOUS
  <2> QED BY <1>2, <1>3
<1>5. ASSUME NEW i \in DOMAIN issued PROVE Past(issued[i])'
  <2> SUFFICES ASSUME NEW m, m = issued[i] PROVE Past(m)'
    BY <1>1
  <2> QED BY <1>2, IssuedTyped DEF IInv, OrderInv, PastOk
<1>6. ASSUME NEW i \in DOMAIN issued, frame' # <<>>, frame'[1].conn = issued[i].conn
      PROVE  issued[i].seq < frame'[1].seq
  <2>1. Past(issued[i]) /\ issued[i].conn = c
    BY <1>3, <1>6 DEF IInv, OrderInv, PastOk
  <2> QED BY <1>3, <1>6, <2>1 DEF Past
<1>7. PastOk'
  BY <1>1, <1>4, <1>5, <1>6 DEF PastOk
<1> QED BY <1>1, <1>2, <1>7 DEF IInv, OrderInv, InOrder

LEMMA AcceptOrder == ASSUME IInv, Accept PROVE OrderInv'
<1>1. /\ UNCHANGED <<wire, conn, seq, issued>>
      /\ frame' = frame \/ frame' = <<>>
  BY DEF Accept, Called, leaderVars
<1>2. \A m : Past(m) => Past(m)'
  BY <1>1 DEF Past
<1>3. ASSUME NEW i \in DOMAIN issued PROVE Past(issued[i])'
  BY <1>1, <1>2 DEF IInv, OrderInv, PastOk, Past
<1>4. frame' # <<>> => Past(frame[1])'
  BY <1>1 DEF IInv, OrderInv, PastOk, Past
<1>5. PastOk'
  BY <1>1, <1>3, <1>4 DEF IInv, OrderInv, PastOk
<1> QED BY <1>1, <1>5 DEF IInv, OrderInv, WireOk, InOrder

LEMMA RepublishOrder == ASSUME IInv, Republish PROVE OrderInv'
<1> USE DEF IInv, OrderInv
<1>1. UNCHANGED <<wire, conn, seq>> /\ frame # <<>>
  BY DEF Republish, leaderVars
<1>2. frame' = <<>>
  <2>1. todo # <<>> /\ Head(todo) = "node" /\ todo \in Todos
    BY DEF Republish, Typed, HandlersOk
  <2>2. todo = <<"node">>
    BY <2>1, TodosTail DEF Todos
  <2>3. Len(todo) = 1
    BY <2>2, TodosTail
  <2> QED BY <2>3 DEF Republish, Called
<1> DEFINE m == frame[1]
<1>3. issued' = issued \/ issued' = Append(issued, m)
  BY DEF Republish
<1>4. m \in Commands /\ m = frame[1]
  BY <1>1, FrameTyped
<1> HIDE DEF m
<1>5. \A d : Past(d) => Past(d)'
  BY <1>1 DEF Past
<1>6. WireOk'
  BY <1>1 DEF WireOk
<1>7. CASE issued' = issued
  <2>1. \A i \in DOMAIN issued : Past(issued[i])'
    BY <1>1, <1>7 DEF PastOk, Past
  <2> QED BY <1>2, <1>6, <1>7, <2>1 DEF PastOk, InOrder
<1>8. CASE issued' = Append(issued, m)
  <2>1. /\ Len(issued') = Len(issued) + 1 /\ Len(issued) \in Nat
        /\ issued'[Len(issued) + 1] = m
        /\ \A i \in 1..Len(issued) : issued'[i] = issued[i]
        /\ DOMAIN issued = 1..Len(issued) /\ DOMAIN issued' = 1..Len(issued) + 1
    <3>1. issued \in Seq(Commands)
      BY DEF Typed, TypeOK
    <3>2. issued' \in Seq(Commands)
      BY <1>4, <1>8, <3>1, AppendFacts
    <3> QED BY <1>4, <1>8, <3>1, <3>2, AppendFacts
  <2>2. \A i \in DOMAIN issued' : i \in DOMAIN issued \/ i = Len(issued) + 1
    BY <2>1
  <2>3. ASSUME NEW i \in DOMAIN issued' PROVE Past(issued'[i])
    <3>1. CASE i \in DOMAIN issued
      BY <2>1, <3>1 DEF PastOk
    <3>2. CASE i = Len(issued) + 1
      BY <1>1, <1>4, <2>1, <3>2 DEF PastOk
    <3> QED BY <2>2, <3>1, <3>2
  <2>4. PastOk'
    BY <1>1, <1>2, <2>3 DEF PastOk, Past
  <2>5. ASSUME NEW i \in DOMAIN issued', NEW j \in DOMAIN issued', i < j,
               issued'[i].conn = issued'[j].conn
        PROVE  issued'[i].seq < issued'[j].seq
    <3>1. i \in DOMAIN issued /\ issued'[i] = issued[i]
      BY <2>1, <2>5
    <3>2. CASE j \in DOMAIN issued
      BY <2>1, <2>5, <3>1, <3>2 DEF InOrder
    <3>3. CASE j = Len(issued) + 1
      BY <1>1, <1>4, <2>1, <2>5, <3>1, <3>3 DEF PastOk
    <3> QED BY <2>2, <3>2, <3>3
  <2> QED BY <1>6, <2>4, <2>5 DEF InOrder
<1> QED BY <1>3, <1>7, <1>8

LEMMA OrderNext == ASSUME IInv, [Next]_vars PROVE IInv'
<1> SUFFICES OrderInv'
  BY TypedNext DEF IInv
<1>1. ASSUME NEW empty \in BOOLEAN, NEW breach \in BOOLEAN, OnJoints(empty, breach)
      PROVE  OrderInv'
  <2>1. UNCHANGED <<issued, frame>>
    BY <1>1 DEF OnJoints, rxVars
  <2> QED BY <1>1, <2>1, WireAppend, PastKept
<1>2. CASE Reconnect \/ RestartLeader
  <2>1. UNCHANGED <<issued, frame>>
    BY <1>2 DEF Reconnect, RestartLeader, rxVars
  <2>2. WireOk' /\ \A m : m.conn \in Conns /\ m.seq \in Nat /\ Past(m) => Past(m)'
    BY <1>2, WireNew
  <2> QED BY <2>1, <2>2, PastKept
<1>3. ASSUME NEW c \in Conns, Lose(c) PROVE OrderInv'
  <2>1. /\ UNCHANGED <<issued, frame, conn, seq>>
        /\ wire[c] # <<>> /\ wire' = [wire EXCEPT ![c] = Tail(@)]
    BY <1>3 DEF Lose, rxVars, leaderVars
  <2> QED BY <2>1, WireTail, PastKept
<1>4. CASE Validate \/ (\E a, b : Goes(a, b)) \/ UNCHANGED vars
  <2>1. UNCHANGED <<wire, conn, seq, issued, frame>>
    BY <1>4 DEF Validate, Goes, vars, leaderVars, rxVars
  <2>2. WireOk'
    BY <2>1 DEF IInv, OrderInv, WireOk
  <2>3. \A m : m.conn \in Conns /\ m.seq \in Nat /\ Past(m) => Past(m)'
    BY <2>1 DEF Past
  <2>4. UNCHANGED <<issued, frame>>
    BY <2>1
  <2> QED BY <2>2, <2>3, <2>4, PastKept
<1>5. CASE Launch
  <2>1. UNCHANGED <<wire, conn, seq, frame>> /\ issued' = <<>>
    BY <1>5 DEF Launch, leaderVars, rxVars
  <2>2. WireOk'
    BY <2>1 DEF IInv, OrderInv, WireOk
  <2>3. frame' # <<>> => Past(frame[1])'
    BY <2>1 DEF IInv, OrderInv, PastOk, Past
  <2>4. ~ \E i : i \in DOMAIN issued'
    BY <2>1, NoneFacts
  <2>5. InOrder'
    BY <2>4 DEF InOrder
  <2>6. PastOk'
    BY <2>3, <2>4 DEF PastOk
  <2> QED BY <2>2, <2>5, <2>6 DEF OrderInv
<1>6. CASE Leader
  BY <1>1, <1>2, <1>3, <1>6 DEF Leader
<1>7. CASE Transport
  BY <1>7, DispatchOrder, AcceptOrder, RepublishOrder DEF Transport
<1>8. CASE Node
  BY <1>4, <1>5, <1>8
     DEF Node, StartController, Subscribe, StopController, CloseTransport
<1> QED BY <1>4, <1>6, <1>7, <1>8 DEF Next

LEMMA OrderInit == Init => OrderInv
<1> SUFFICES ASSUME Init PROVE OrderInv
  OBVIOUS
<1>1. /\ \A c \in Conns : wire[c] = <<>> /\ Len(wire[c]) = 0
      /\ frame = <<>> /\ DOMAIN issued = {}
  BY NoneFacts DEF Init
<1> QED BY <1>1 DEF OrderInv, WireOk, PastOk, InOrder

\* The invariant by which the node publishes in order: a command that has left its
\* connection came before all that the connection still carries.
THEOREM OrderInvariant == Spec => []IInv
<1>1. Init => IInv
  BY TypedInit, OrderInit DEF IInv
<1>2. IInv /\ [Next]_vars => IInv'
  BY OrderNext
<1> QED BY <1>1, <1>2, PTL DEF Spec

\* Over any number of connections, losses, restarts and launches, what came over one
\* connection is published on /joint_commands once and in order
\* (leader_bridge.py:53-62, follower_bridge.py:67-78).
THEOREM PublishedInOrder == Spec => []InOrder
<1>1. IInv => InOrder
  BY DEF IInv, OrderInv
<1> QED BY <1>1, OrderInvariant, PTL
=============================================================================
