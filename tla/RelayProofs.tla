---------------------------- MODULE RelayProofs ----------------------------
(***************************************************************************)
(* Proofs about the relay, for every set of peers, sessions and            *)
(* connections and whenever clients reconnect.                             *)
(***************************************************************************)
EXTENDS Relay, TLAPS

LEMMA InitTypeOK == Init => TypeOK
BY RelayAssumption DEF Init, TypeOK, Frames

LEMMA NextTypeOK == TypeOK /\ [Next]_vars => TypeOK'
<1> SUFFICES ASSUME TypeOK, [Next]_vars PROVE TypeOK'
  OBVIOUS
<1> USE RelayAssumption DEF TypeOK, handlerVars, sharedVars
<1>1. ASSUME NEW c \in Conns, Connect(c) PROVE TypeOK'
  BY <1>1 DEF Connect, HubAdd
<1>2. ASSUME NEW c \in Conns, Vanish(c) PROVE TypeOK'
  BY <1>2 DEF Vanish
<1>3. ASSUME NEW c \in Conns, OnJoin(c) PROVE TypeOK'
  BY <1>3 DEF OnJoin, Join, Answer, Others, Frames
<1>4. ASSUME NEW c \in Conns, OnHeartbeat(c) PROVE TypeOK'
  BY <1>4 DEF OnHeartbeat
<1>5. ASSUME NEW c \in Conns, NEW k \in Kinds, OnRelayed(c, k) PROVE TypeOK'
  <2>1. PICK ps \in SUBSET Peers : SendAround(c, k, ps)
    BY <1>5 DEF OnRelayed, Others
  <2>2. k \in Frames
    BY DEF Frames
  <2> QED BY <1>5, <2>1, <2>2 DEF OnRelayed, SendAround, Answer
<1>7. ASSUME NEW c \in Conns, OnDisconnect(c) PROVE TypeOK'
  <2>1. registry' \in [Sessions -> SUBSET Peers] /\ stale' \in [Sessions -> SUBSET Peers]
    BY <1>7 DEF OnDisconnect, Leave
  <2>2. hub' \in [Peers -> Conns \cup {NoConn}]
    BY <1>7 DEF OnDisconnect, HubRemove
  <2> QED BY <1>7, <2>1, <2>2 DEF OnDisconnect, Frames
<1>8. ASSUME NEW c \in Conns, NEW p \in Peers, BeginSend(c, p) PROVE TypeOK'
  BY <1>8 DEF BeginSend
<1>9. ASSUME NEW c \in Conns, Delivered(c) PROVE TypeOK'
  <2>1. sock[c] \in Conns
    BY <1>9 DEF Delivered
  <2>2. knows' \in [Conns -> SUBSET Peers]
    BY <1>9, <2>1 DEF Delivered
  <2> QED BY <1>9, <2>2 DEF Delivered, EndSend
<1>10. ASSUME NEW c \in Conns, LostInBuffer(c) PROVE TypeOK'
  BY <1>10 DEF LostInBuffer, EndSend
<1>11. ASSUME NEW c \in Conns, Unreachable(c) PROVE TypeOK'
  <2>1. registry' \in [Sessions -> SUBSET Peers] /\ stale' \in [Sessions -> SUBSET Peers]
    <3>1. CASE UNCHANGED <<registry, stale>>
      BY <3>1
    <3>2. CASE \E s \in Sessions : Leave(s, to[c])
      BY <3>2 DEF Leave
    <3>3. hub[to[c]] = NoConn \/ SessionOf[hub[to[c]]] \in Sessions
      OBVIOUS
    <3> QED BY <1>11, <3>1, <3>2, <3>3 DEF Unreachable
  <2>2. hub' \in [Peers -> Conns \cup {NoConn}]
    BY <1>11 DEF Unreachable, HubRemove
  <2> QED BY <1>11, <2>1, <2>2 DEF Unreachable, EndSend
<1>12. ASSUME NEW c \in Conns, SentToAll(c) PROVE TypeOK'
  BY <1>12 DEF SentToAll, Frames
<1>13. ASSUME NEW s \in Sessions, NEW p \in Peers, GoStale(s, p) PROVE TypeOK'
  BY <1>13 DEF GoStale
<1>14. CASE Prune
  BY <1>14 DEF Prune
<1>15. CASE UNCHANGED vars
  BY <1>15 DEF vars
<1>16. ASSUME NEW c \in Conns, Replied(c) PROVE TypeOK'
  BY <1>16 DEF Replied
<1> QED BY <1>1, <1>2, <1>3, <1>4, <1>5, <1>7, <1>8, <1>9, <1>10, <1>11, <1>12, <1>13,
           <1>14, <1>15, <1>16 DEF Next, OnFrame, Send

\* Every variable of the relay keeps its type.
THEOREM RelayTypeCorrect == Spec => []TypeOK
<1> QED BY InitTypeOK, NextTypeOK, PTL DEF Spec
-----------------------------------------------------------------------------
(* No ghosts *)

\* Served in the next state.
Serving(c) == pc'[c] \in {"receive", "reply", "send"}

LEMMA InitNoGhosts == Init => NoGhosts
BY DEF Init, NoGhosts

\* Steps that serve whom they served, and add nobody to hub and registry.
LEMMA NoGhostsKept ==
  ASSUME TypeOK, NoGhosts,
         \A c \in Conns : Served(c) => Serving(c),
         \A p \in Peers : hub'[p] \in {hub[p], NoConn},
         \A s \in Sessions : registry'[s] \subseteq registry[s]
  PROVE  NoGhosts'
<1>1. ASSUME NEW p \in Peers, hub'[p] # NoConn
      PROVE  PeerOf[hub'[p]] = p /\ Serving(hub'[p])
  <2>1. hub'[p] = hub[p] /\ hub[p] \in Conns /\ PeerOf[hub[p]] = p /\ Served(hub[p])
    BY <1>1 DEF NoGhosts, TypeOK
  <2>2. Serving(hub[p])
    BY <2>1
  <2> QED BY <2>1, <2>2 DEF Served, Serving
<1>2. ASSUME NEW s \in Sessions, NEW p \in registry'[s]
      PROVE  \E c \in Conns : PeerOf[c] = p /\ SessionOf[c] = s /\ Serving(c)
  BY <1>2 DEF NoGhosts
<1> QED BY <1>1, <1>2 DEF NoGhosts, Served, Serving

LEMMA NextNoGhosts == TypeOK /\ NoGhosts /\ [Next]_vars => NoGhosts'
<1> SUFFICES ASSUME TypeOK, NoGhosts, [Next]_vars PROVE NoGhosts'
  OBVIOUS
<1> USE RelayAssumption DEF handlerVars, sharedVars
<1>1. ASSUME NEW c \in Conns, Connect(c) PROVE NoGhosts'
  <2>1. /\ pc' = [pc EXCEPT ![c] = "receive"] /\ hub' = [hub EXCEPT ![PeerOf[c]] = c]
        /\ registry' = registry
    BY <1>1 DEF Connect, HubAdd
  <2>2. \A d \in Conns : Served(d) => Serving(d)
    BY <2>1 DEF Served, Serving, TypeOK
  <2>3. Serving(c)
    BY <2>1 DEF Served, Serving, TypeOK
  <2>4. ASSUME NEW p \in Peers, hub'[p] # NoConn
        PROVE  PeerOf[hub'[p]] = p /\ Serving(hub'[p])
    <3>1. CASE p = PeerOf[c]
      <4>1. hub'[p] = c
        BY <2>1, <3>1 DEF TypeOK
      <4> QED BY <2>3, <3>1, <4>1 DEF Served, Serving
    <3>2. CASE p # PeerOf[c]
      <4>1. hub'[p] = hub[p] /\ hub[p] \in Conns
        BY <2>1, <2>4, <3>2 DEF TypeOK
      <4>2. PeerOf[hub[p]] = p /\ Serving(hub[p])
        BY <2>2, <2>4, <4>1 DEF NoGhosts
      <4> QED BY <4>1, <4>2 DEF Served, Serving
    <3> QED BY <3>1, <3>2
  <2> QED BY <2>1, <2>2, <2>4 DEF NoGhosts, Served, Serving
<1>2. ASSUME NEW c \in Conns, OnJoin(c) PROVE NoGhosts'
  <2>1. /\ pc[c] = "receive" /\ pc' = [pc EXCEPT ![c] = "reply"] /\ hub' = hub
        /\ registry' = [registry EXCEPT ![SessionOf[c]] = @ \cup {PeerOf[c]}]
    BY <1>2 DEF OnJoin, Join, Answer
  <2>2. \A d \in Conns : Served(d) => Serving(d)
    BY <2>1 DEF Served, Serving, TypeOK
  <2>3. Serving(c)
    BY <2>1 DEF Served, Serving, TypeOK
  <2>4. ASSUME NEW p \in Peers, hub[p] # NoConn
        PROVE  PeerOf[hub[p]] = p /\ Serving(hub[p])
    BY <2>2, <2>4 DEF NoGhosts, TypeOK
  <2>5. ASSUME NEW s \in Sessions, NEW p \in registry'[s]
        PROVE  \E d \in Conns : PeerOf[d] = p /\ SessionOf[d] = s /\ Serving(d)
    <3>1. CASE p \in registry[s]
      BY <2>2, <3>1 DEF NoGhosts
    <3>2. CASE p \notin registry[s]
      <4>1. s = SessionOf[c] /\ p = PeerOf[c]
        BY <2>1, <2>5, <3>2 DEF TypeOK
      <4> QED BY <2>3, <4>1
    <3> QED BY <3>1, <3>2
  <2> QED BY <2>1, <2>4, <2>5 DEF NoGhosts, Served, Serving
<1>3. ASSUME NEW c \in Conns, OnDisconnect(c) PROVE NoGhosts'
  <2> DEFINE s0 == SessionOf[c]  p0 == PeerOf[c]
  <2>1. /\ pc' = [pc EXCEPT ![c] = "farewell"]
        /\ hub' = [hub EXCEPT ![p0] = NoConn]
        /\ registry' = [registry EXCEPT ![s0] = @ \ {p0}]
    BY <1>3 DEF OnDisconnect, HubRemove, Leave
  <2>2. \A d \in Conns \ {c} : Served(d) => Serving(d)
    BY <2>1 DEF Served, Serving, TypeOK
  <2>3. ASSUME NEW p \in Peers, hub'[p] # NoConn
        PROVE  PeerOf[hub'[p]] = p /\ Serving(hub'[p])
    <3>1. p # p0 /\ hub'[p] = hub[p] /\ hub[p] \in Conns
      BY <2>1, <2>3 DEF TypeOK
    <3>2. PeerOf[hub[p]] = p /\ Served(hub[p])
      BY <2>3, <3>1 DEF NoGhosts
    <3>3. hub[p] # c
      BY <3>1, <3>2
    <3>4. Serving(hub[p])
      BY <2>2, <3>1, <3>2, <3>3
    <3> QED BY <3>1, <3>2, <3>4 DEF Served, Serving
  <2>4. ASSUME NEW s \in Sessions, NEW p \in registry'[s]
        PROVE  \E d \in Conns : PeerOf[d] = p /\ SessionOf[d] = s /\ Serving(d)
    <3>1. p \in registry[s] /\ ~(s = s0 /\ p = p0)
      BY <2>1, <2>4 DEF TypeOK
    <3>2. PICK d \in Conns : PeerOf[d] = p /\ SessionOf[d] = s /\ Served(d)
      BY <3>1 DEF NoGhosts
    <3> QED BY <2>2, <3>1, <3>2
  <2> QED BY <2>3, <2>4 DEF NoGhosts, Served, Serving
<1>4. ASSUME NEW c \in Conns, Unreachable(c) PROVE NoGhosts'
  <2>1. /\ pc' = pc /\ hub' = [hub EXCEPT ![to[c]] = NoConn]
        /\ \/ registry' = registry
           \/ registry' = [registry EXCEPT ![SessionOf[hub[to[c]]]] = @ \ {to[c]}]
    BY <1>4 DEF Unreachable, HubRemove, Leave, EndSend
  <2>2. \A d \in Conns : Served(d) => Serving(d)
    BY <2>1 DEF Served, Serving
  <2>3. \A p \in Peers : hub'[p] \in {hub[p], NoConn}
    BY <2>1 DEF TypeOK
  <2>4. \A s \in Sessions : registry'[s] \subseteq registry[s]
    BY <2>1 DEF TypeOK
  <2> QED BY <2>2, <2>3, <2>4, NoGhostsKept
<1>5. ASSUME UNCHANGED <<hub, registry>>, \A c \in Conns : Served(c) => Serving(c)
      PROVE  NoGhosts'
  BY <1>5, NoGhostsKept
<1>6. ASSUME NEW c \in Conns, Vanish(c) \/ OnHeartbeat(c) PROVE NoGhosts'
  BY <1>5, <1>6 DEF Vanish, OnHeartbeat, Served, Serving
<1>7. ASSUME NEW c \in Conns, NEW k \in Kinds, OnRelayed(c, k) PROVE NoGhosts'
  <2>1. UNCHANGED <<hub, registry>> /\ pc' = [pc EXCEPT ![c] = "send"]
    BY <1>7 DEF OnRelayed, SendAround, Answer
  <2> QED BY <1>5, <2>1 DEF Served, Serving, TypeOK
<1>9. ASSUME NEW c \in Conns,
             (\E p \in Peers : BeginSend(c, p)) \/ Delivered(c) \/ LostInBuffer(c)
      PROVE  NoGhosts'
  BY <1>5, <1>9 DEF BeginSend, Delivered, LostInBuffer, EndSend, Served, Serving
<1>10. ASSUME NEW c \in Conns, SentToAll(c) PROVE NoGhosts'
  <2>1. UNCHANGED <<hub, registry>>
    BY <1>10 DEF SentToAll
  <2>2. /\ pc[c] \in {"send", "farewell"}
        /\ pc' = [pc EXCEPT ![c] = IF pc[c] = "send" THEN "receive" ELSE "done"]
    BY <1>10 DEF SentToAll, Sending
  <2> QED BY <1>5, <2>1, <2>2 DEF Served, Serving, TypeOK
<1>11. ASSUME NEW s \in Sessions, NEW p \in Peers, GoStale(s, p) PROVE NoGhosts'
  BY <1>5, <1>11 DEF GoStale, Served, Serving
<1>12. CASE Prune
  <2>1. /\ pc' = pc /\ hub' = hub
        /\ \A s \in Sessions : registry'[s] \subseteq registry[s]
    BY <1>12 DEF Prune
  <2> QED BY <2>1, NoGhostsKept DEF Served, Serving
<1>13. CASE UNCHANGED vars
  BY <1>5, <1>13 DEF vars, Served, Serving
<1>14. ASSUME NEW c \in Conns, Replied(c) PROVE NoGhosts'
  <2>1. UNCHANGED <<hub, registry>> /\ pc' = [pc EXCEPT ![c] = "send"]
    BY <1>14 DEF Replied
  <2> QED BY <1>5, <2>1 DEF Served, Serving, TypeOK
<1> QED BY <1>1, <1>2, <1>3, <1>4, <1>6, <1>7, <1>9, <1>10, <1>11, <1>12, <1>13, <1>14
        DEF Next, OnFrame, Send

\* However peers leave, fail, are pruned and come back, hub and registry never
\* name one that no handler serves any more.
THEOREM NoGhostsEver == Spec => []NoGhosts
<1> QED BY InitTypeOK, NextTypeOK, InitNoGhosts, NextNoGhosts, PTL DEF Spec
-----------------------------------------------------------------------------
(* Those who are there can be reached *)

\* Why nobody takes the place of a client that has its id to itself: nothing is left of
\* the other connections of its id, neither a handler that has yet to clean up nor a send
\* that has yet to fail.
ReachInv ==
  \A c \in Conns :
    /\ client[c] = "new" => pc[c] = "idle" /\ c \notin joined
    /\ client[c] = "open" => Served(c)
    /\ sock[c] # NoConn => to[c] = PeerOf[sock[c]]
    /\ c \in alone =>
         /\ client[c] = "open" /\ hub[PeerOf[c]] = c
         /\ \A d \in Namesakes(c) : client[d] = "new" \/ Forgotten(d)
         /\ c \in joined /\ PeerOf[c] \in Heartbeaters =>
              PeerOf[c] \in registry[SessionOf[c]] \ stale[SessionOf[c]]

LEMMA InitReach == Init => ReachInv
BY DEF Init, ReachInv

\* A client whose place in the registry must last.
Kept(c) == c \in alone /\ c \in joined /\ PeerOf[c] \in Heartbeaters

\* Steps of the server that begin no send, and take nobody from hub and registry who has
\* its id to itself.
LEMMA ReachKept ==
  ASSUME TypeOK, ReachInv, UNCHANGED <<client, alone>>,
         \A c \in Conns : client[c] = "new" => c \notin joined',
         \A c \in Conns : /\ pc[c] \in {"idle", "done"} => pc'[c] = pc[c]
                          /\ client[c] = "open" => Serving(c),
         \A c \in Conns : /\ sock'[c] \in {sock[c], NoConn}
                          /\ sock'[c] # NoConn => to'[c] = to[c],
         \A c \in alone : hub'[PeerOf[c]] = hub[PeerOf[c]],
         \A c \in Conns : Kept(c)' =>
           PeerOf[c] \in registry'[SessionOf[c]] \ stale'[SessionOf[c]]
  PROVE  ReachInv'
<1> USE RelayAssumption
<1>1. \A c \in Conns : client[c] = "new" => pc'[c] = "idle"
  BY DEF ReachInv
<1>2. \A c \in Conns : sock'[c] # NoConn => to'[c] = PeerOf[sock'[c]]
  BY DEF ReachInv
<1>3. \A d \in Conns : Forgotten(d) => Forgotten(d)'
  BY DEF Forgotten
<1>4. \A c \in alone : /\ client[c] = "open" /\ hub'[PeerOf[c]] = c
                       /\ \A d \in Namesakes(c) : client[d] = "new" \/ Forgotten(d)'
  BY <1>3 DEF ReachInv, TypeOK, Namesakes
<1> QED BY <1>1, <1>2, <1>4 DEF ReachInv, Kept, Served, Serving, Namesakes

\* A client that has gone has left nothing behind that could harm one that has its id to
\* itself.
LEMMA GoneIsForgotten ==
  ASSUME TypeOK, ReachInv, NEW c \in alone, NEW d \in Conns,
         client[d] = "gone", PeerOf[d] = PeerOf[c]
  PROVE  pc[d] = "done" /\ \A e \in Conns : sock[e] # d
BY DEF ReachInv, Forgotten, Namesakes, TypeOK

LEMMA ConnectReach ==
  ASSUME TypeOK, NoGhosts, ReachInv, NEW c \in Conns, Connect(c)
  PROVE  ReachInv'
<1> USE RelayAssumption
<1>1. /\ client[c] = "new" /\ client' = [client EXCEPT ![c] = "open"]
      /\ pc' = [pc EXCEPT ![c] = "receive"] /\ hub' = [hub EXCEPT ![PeerOf[c]] = c]
      /\ UNCHANGED <<joined, to, sock, registry, stale>>
      /\ c \notin joined
  BY DEF Connect, HubAdd, ReachInv
<1>2. /\ alone' \ {c} \subseteq {e \in alone : PeerOf[e] # PeerOf[c]}
      /\ c \in alone' => \A e \in Namesakes(c) : client[e] = "new" \/ Forgotten(e)
  <2>1. c \notin alone
    BY <1>1 DEF ReachInv
  <2> QED BY <2>1 DEF Connect, Namesakes, TypeOK
<1>3. \A d \in Conns : Forgotten(d) => d # c /\ Forgotten(d)'
  <2> SUFFICES ASSUME NEW d \in Conns, Forgotten(d) PROVE d # c /\ Forgotten(d)'
    OBVIOUS
  <2>1. d # c
    BY <1>1 DEF Forgotten, ReachInv
  <2> QED BY <1>1, <2>1 DEF Forgotten, TypeOK
<1>4. \A d \in Conns \ {c} :
        client[d] = "new" \/ Forgotten(d) => client'[d] = "new" \/ Forgotten(d)'
  BY <1>1, <1>3 DEF TypeOK
<1>5. ASSUME NEW e \in alone', e # c
      PROVE  /\ client'[e] = "open" /\ hub'[PeerOf[e]] = e
             /\ \A d \in Namesakes(e) : client'[d] = "new" \/ Forgotten(d)'
             /\ e \in joined /\ PeerOf[e] \in Heartbeaters =>
                  PeerOf[e] \in registry[SessionOf[e]] \ stale[SessionOf[e]]
  <2>1. e \in alone /\ e \in Conns /\ PeerOf[e] # PeerOf[c]
    BY <1>2, <1>5 DEF TypeOK
  <2>2. client'[e] = "open" /\ hub'[PeerOf[e]] = e
    BY <1>1, <2>1 DEF TypeOK, ReachInv
  <2>3. \A d \in Namesakes(e) : client'[d] = "new" \/ Forgotten(d)'
    BY <1>4, <2>1 DEF ReachInv, Namesakes
  <2> QED BY <2>1, <2>2, <2>3 DEF ReachInv
<1>6. c \in alone' => /\ client'[c] = "open" /\ hub'[PeerOf[c]] = c
                      /\ \A d \in Namesakes(c) : client'[d] = "new" \/ Forgotten(d)'
  BY <1>1, <1>2, <1>4 DEF TypeOK, Namesakes
<1>7. \A e \in Conns : /\ client'[e] = "new" => pc'[e] = "idle" /\ e \notin joined
                       /\ client'[e] = "open" => Serving(e)
                       /\ sock[e] # NoConn => to[e] = PeerOf[sock[e]]
  BY <1>1 DEF TypeOK, ReachInv, Served, Serving
<1>8. \A e \in Conns : Served(e)' <=> Serving(e)
  BY DEF Served, Serving
<1> QED BY <1>1, <1>5, <1>6, <1>7, <1>8 DEF ReachInv, Namesakes

LEMMA VanishReach ==
  ASSUME TypeOK, ReachInv, NEW c \in Conns, Vanish(c)
  PROVE  ReachInv'
<1>1. /\ client[c] = "open" /\ client' = [client EXCEPT ![c] = "gone"]
      /\ alone' = alone \ {c}
      /\ UNCHANGED <<joined, pc, to, sock, hub, registry, stale>>
  BY DEF Vanish, handlerVars, sharedVars
<1>2. \A d \in Conns : /\ client'[d] = "new" <=> client[d] = "new"
                       /\ client'[d] = "open" <=> client[d] = "open" /\ d # c
  BY <1>1 DEF TypeOK
<1>3. \A d \in Conns : Forgotten(d)' <=> Forgotten(d)
  BY <1>1 DEF Forgotten
<1> QED BY <1>1, <1>2, <1>3 DEF ReachInv, Served, Namesakes

\* Nobody begins to send to a connection that is forgotten: the hub has no such one.
LEMMA BeginSendReach ==
  ASSUME TypeOK, NoGhosts, ReachInv, NEW c \in Conns, NEW p \in Peers, BeginSend(c, p)
  PROVE  ReachInv'
<1> USE RelayAssumption
<1>1. /\ sock' = [sock EXCEPT ![c] = hub[p]]
      /\ to' = IF hub[p] = NoConn THEN to ELSE [to EXCEPT ![c] = p]
      /\ UNCHANGED <<client, joined, pc, hub, registry, stale, alone>>
  BY DEF BeginSend, sharedVars
<1>2. hub[p] # NoConn => PeerOf[hub[p]] = p /\ Served(hub[p])
  BY DEF NoGhosts
<1>3. \A e \in Conns : sock'[e] # NoConn => to'[e] = PeerOf[sock'[e]]
  BY <1>1, <1>2 DEF TypeOK, ReachInv
<1>4. \A d \in Conns : Forgotten(d) => Forgotten(d)'
  <2> SUFFICES ASSUME NEW d \in Conns, Forgotten(d) PROVE Forgotten(d)'
    OBVIOUS
  <2>1. d # hub[p]
    BY <1>2 DEF Forgotten, Served
  <2> QED BY <1>1, <2>1 DEF Forgotten, TypeOK
<1> QED BY <1>1, <1>3, <1>4 DEF ReachInv, Served, Namesakes

LEMMA NextReach ==
  ASSUME TypeOK, NoGhosts, ReachInv, [Next]_vars
  PROVE  ReachInv'
<1> USE RelayAssumption DEF handlerVars, sharedVars
<1>r. \A c \in Conns : Kept(c) => PeerOf[c] \in registry[SessionOf[c]] \ stale[SessionOf[c]]
  BY DEF ReachInv, Kept
<1>j. \A c \in Conns : /\ client[c] = "new" => c \notin joined
                       /\ client[c] = "open" => Served(c)
  BY DEF ReachInv
<1>1. ASSUME NEW c \in Conns, OnJoin(c) PROVE ReachInv'
  <2> DEFINE s == SessionOf[c]  p == PeerOf[c]
  <2>1. /\ pc[c] = "receive" /\ pc' = [pc EXCEPT ![c] = "reply"]
        /\ joined' = joined \cup {c} /\ UNCHANGED <<client, to, sock, hub, alone>>
        /\ registry' = [registry EXCEPT ![s] = @ \cup {p}]
        /\ stale' = [stale EXCEPT ![s] = @ \ {p}]
    BY <1>1 DEF OnJoin, Join, Answer
  <2>2. /\ registry'[s] = registry[s] \cup {p} /\ stale'[s] = stale[s] \ {p}
        /\ \A t \in Sessions \ {s} : registry'[t] = registry[t] /\ stale'[t] = stale[t]
    BY <2>1 DEF TypeOK
  <2>3. \A d \in Conns : Kept(d)' => PeerOf[d] \in registry'[SessionOf[d]] \ stale'[SessionOf[d]]
    <3> SUFFICES ASSUME NEW d \in Conns, Kept(d)'
                 PROVE  PeerOf[d] \in registry'[SessionOf[d]] \ stale'[SessionOf[d]]
      OBVIOUS
    <3>1. CASE d = c
      BY <2>2, <3>1
    <3>2. CASE d # c
      <4>1. PeerOf[d] \in registry[SessionOf[d]] \ stale[SessionOf[d]]
        BY <1>r, <2>1, <3>2 DEF Kept
      <4> QED BY <2>2, <4>1
    <3> QED BY <3>1, <3>2
  <2>4. \A d \in Conns : /\ pc[d] \in {"idle", "done"} => pc'[d] = pc[d]
                         /\ client[d] = "open" => Serving(d)
    BY <1>j, <2>1 DEF Served, Serving, TypeOK
  <2>5. \A d \in Conns : client[d] = "new" => d \notin joined'
    BY <2>1 DEF ReachInv, TypeOK
  <2> QED BY <2>1, <2>3, <2>4, <2>5, ReachKept
<1>2. ASSUME NEW c \in Conns, Served(c), NEW step \in {"send", "receive"},
             pc' = [pc EXCEPT ![c] = step],
             UNCHANGED <<client, joined, to, sock, hub, registry, stale, alone>>
      PROVE  ReachInv'
  <2>1. \A d \in Conns : /\ pc[d] \in {"idle", "done"} => pc'[d] = pc[d]
                         /\ client[d] = "open" => Serving(d)
    BY <1>2, <1>j DEF Served, Serving, TypeOK
  <2> QED BY <1>r, <1>j, <1>2, <2>1, ReachKept DEF Kept
<1>3. ASSUME NEW c \in Conns, NEW k \in Kinds, OnRelayed(c, k) PROVE ReachInv'
  BY <1>2, <1>3 DEF OnRelayed, SendAround, Answer, Served
<1>5. ASSUME NEW c \in Conns, Replied(c) PROVE ReachInv'
  BY <1>2, <1>5 DEF Replied, Served
<1>6. ASSUME NEW c \in Conns, SentToAll(c) PROVE ReachInv'
  <2>1. UNCHANGED <<client, joined, to, sock, hub, registry, stale, alone>>
    BY <1>6 DEF SentToAll
  <2>2. /\ pc[c] \in {"send", "farewell"}
        /\ pc' = [pc EXCEPT ![c] = IF pc[c] = "send" THEN "receive" ELSE "done"]
    BY <1>6 DEF SentToAll, Sending
  <2>3. CASE pc[c] = "send"
    BY <1>2, <2>1, <2>2, <2>3 DEF Served
  <2>4. CASE pc[c] = "farewell"
    <3>1. \A d \in Conns : /\ pc[d] \in {"idle", "done"} => pc'[d] = pc[d]
                           /\ client[d] = "open" => Serving(d)
      BY <1>j, <2>2, <2>4 DEF Served, Serving, TypeOK
    <3> QED BY <1>r, <1>j, <2>1, <3>1, ReachKept DEF Kept
  <2> QED BY <2>2, <2>3, <2>4
<1>7. ASSUME NEW c \in Conns, OnDisconnect(c) PROVE ReachInv'
  <2> DEFINE s == SessionOf[c]  p == PeerOf[c]
  <2>1. /\ pc[c] \in {"receive", "reply"} /\ client[c] = "gone"
        /\ pc' = [pc EXCEPT ![c] = "farewell"] /\ UNCHANGED <<client, to, sock, alone>>
        /\ joined' = joined \ {c}
        /\ hub' = [hub EXCEPT ![p] = NoConn]
        /\ registry' = [registry EXCEPT ![s] = @ \ {p}]
        /\ stale' = [stale EXCEPT ![s] = @ \ {p}]
    BY <1>7 DEF OnDisconnect, HubRemove, Leave
  <2>2. \A d \in alone : PeerOf[d] # p
    BY <2>1, GoneIsForgotten
  <2>3. \A d \in Conns : /\ pc[d] \in {"idle", "done"} => pc'[d] = pc[d]
                         /\ client[d] = "open" => Serving(d)
    BY <1>j, <2>1 DEF Served, Serving, TypeOK
  <2>4. \A d \in alone : hub'[PeerOf[d]] = hub[PeerOf[d]]
    BY <2>1, <2>2 DEF TypeOK
  <2>5. \A t \in Sessions : registry[t] \ {p} \subseteq registry'[t] /\ stale'[t] \subseteq stale[t]
    BY <2>1 DEF TypeOK
  <2>6. \A d \in Conns : Kept(d)' => PeerOf[d] \in registry'[SessionOf[d]] \ stale'[SessionOf[d]]
    <3> SUFFICES ASSUME NEW d \in Conns, Kept(d)'
                 PROVE  PeerOf[d] \in registry'[SessionOf[d]] \ stale'[SessionOf[d]]
      OBVIOUS
    <3>1. Kept(d) /\ d \in alone
      BY <2>1 DEF Kept
    <3>2. PeerOf[d] # p /\ PeerOf[d] \in registry[SessionOf[d]] \ stale[SessionOf[d]]
      BY <1>r, <2>2, <3>1
    <3> QED BY <2>5, <3>2
  <2> QED BY <1>j, <2>1, <2>3, <2>4, <2>6, ReachKept
<1>8. ASSUME NEW c \in Conns, EndSend(c), UNCHANGED <<hub, registry, stale>>
      PROVE  ReachInv'
  <2>1. /\ UNCHANGED <<client, joined, pc, alone>> /\ sock' = [sock EXCEPT ![c] = NoConn]
        /\ to' = [to EXCEPT ![c] = PeerOf[c]]
    BY <1>8 DEF EndSend
  <2>2. \A d \in Conns : /\ sock'[d] \in {sock[d], NoConn}
                         /\ sock'[d] # NoConn => to'[d] = to[d]
    BY <2>1 DEF TypeOK
  <2> QED BY <1>r, <1>j, <1>8, <2>1, <2>2, ReachKept DEF Served, Serving, Kept
<1>9. ASSUME NEW c \in Conns, Delivered(c) \/ LostInBuffer(c) PROVE ReachInv'
  BY <1>8, <1>9 DEF Delivered, LostInBuffer
<1>10. ASSUME NEW c \in Conns, Unreachable(c) PROVE ReachInv'
  <2> DEFINE p == to[c]  now == hub[p]
  <2>1. /\ sock[c] # NoConn /\ client[sock[c]] = "gone"
        /\ hub' = [hub EXCEPT ![p] = NoConn]
        /\ UNCHANGED <<client, joined, pc, alone>> /\ sock' = [sock EXCEPT ![c] = NoConn]
        /\ to' = [to EXCEPT ![c] = PeerOf[c]]
    BY <1>10 DEF Unreachable, HubRemove, EndSend
  <2>2. sock[c] \in Conns /\ p = PeerOf[sock[c]]
    BY <2>1 DEF TypeOK, ReachInv
  <2>3. \A d \in alone : PeerOf[d] # p
    BY <2>1, <2>2, GoneIsForgotten
  <2>4. \A d \in Conns : /\ sock'[d] \in {sock[d], NoConn}
                         /\ sock'[d] # NoConn => to'[d] = to[d]
    BY <2>1 DEF TypeOK
  <2>5. \A d \in alone : hub'[PeerOf[d]] = hub[PeerOf[d]]
    BY <2>1, <2>3 DEF TypeOK
  <2>6. \A t \in Sessions : registry[t] \ {p} \subseteq registry'[t] /\ stale'[t] \subseteq stale[t]
    <3>1. CASE UNCHANGED <<registry, stale>>
      BY <3>1
    <3>2. CASE now # NoConn /\ Leave(SessionOf[now], p)
      <4>1. now \in Conns /\ SessionOf[now] \in Sessions
        BY <2>2, <3>2 DEF TypeOK
      <4> QED BY <3>2, <4>1 DEF Leave, TypeOK
    <3> QED BY <1>10, <3>1, <3>2 DEF Unreachable
  <2>7. \A d \in Conns : Kept(d)' => PeerOf[d] \in registry'[SessionOf[d]] \ stale'[SessionOf[d]]
    <3> SUFFICES ASSUME NEW d \in Conns, Kept(d)'
                 PROVE  PeerOf[d] \in registry'[SessionOf[d]] \ stale'[SessionOf[d]]
      OBVIOUS
    <3>1. Kept(d) /\ d \in alone
      BY <2>1 DEF Kept
    <3>2. PeerOf[d] # p /\ PeerOf[d] \in registry[SessionOf[d]] \ stale[SessionOf[d]]
      BY <1>r, <2>3, <3>1
    <3> QED BY <2>6, <3>2
  <2> QED BY <1>j, <2>1, <2>4, <2>5, <2>7, ReachKept DEF Served, Serving
<1>11. ASSUME UNCHANGED <<client, joined, pc, to, sock, hub, alone>>,
              \A c \in Conns : Kept(c) =>
                PeerOf[c] \in registry'[SessionOf[c]] \ stale'[SessionOf[c]]
       PROVE  ReachInv'
  BY <1>j, <1>11, ReachKept DEF Served, Serving, Kept
<1>12. ASSUME NEW c \in Conns, OnHeartbeat(c) PROVE ReachInv'
  <2>1. /\ UNCHANGED <<client, joined, pc, to, sock, hub, alone, registry>>
        /\ \A t \in Sessions : stale'[t] \subseteq stale[t]
    BY <1>12 DEF OnHeartbeat, TypeOK
  <2> QED BY <1>r, <1>11, <2>1
<1>13. ASSUME NEW s \in Sessions, NEW p \in Peers, GoStale(s, p) PROVE ReachInv'
  <2>1. /\ UNCHANGED <<client, joined, pc, to, sock, hub, alone, registry>>
        /\ stale' = [stale EXCEPT ![s] = @ \cup {p}]
    BY <1>13 DEF GoStale
  <2>2. p \in Heartbeaters =>
          \A c \in Conns : PeerOf[c] = p /\ SessionOf[c] = s => client[c] # "open"
    BY <1>13 DEF GoStale
  <2>3. \A c \in Conns : Kept(c) => PeerOf[c] \notin stale'[SessionOf[c]]
    <3> SUFFICES ASSUME NEW c \in Conns, Kept(c) PROVE PeerOf[c] \notin stale'[SessionOf[c]]
      OBVIOUS
    <3>1. client[c] = "open" /\ PeerOf[c] \notin stale[SessionOf[c]]
      BY <1>r DEF Kept, ReachInv
    <3>2. ~(PeerOf[c] = p /\ SessionOf[c] = s)
      BY <2>2, <3>1 DEF Kept
    <3> QED BY <2>1, <3>1, <3>2 DEF TypeOK
  <2> QED BY <1>r, <1>11, <2>1, <2>3
<1>14. CASE Prune
  <2>1. /\ UNCHANGED <<client, joined, pc, to, sock, hub, alone>>
        /\ \A s \in Sessions : registry'[s] = registry[s] \ stale[s] /\ stale'[s] = {}
    BY <1>14 DEF Prune
  <2>2. \A c \in Conns : Kept(c) => PeerOf[c] \in registry'[SessionOf[c]] \ stale'[SessionOf[c]]
    BY <1>r, <2>1
  <2> QED BY <1>11, <2>1, <2>2
<1>15. CASE UNCHANGED vars
  BY <1>r, <1>11, <1>15 DEF vars
<1>16. ASSUME NEW c \in Conns, Connect(c) \/ Vanish(c) \/ (\E p \in Peers : BeginSend(c, p))
       PROVE  ReachInv'
  BY <1>16, ConnectReach, VanishReach, BeginSendReach
<1> QED BY <1>1, <1>3, <1>5, <1>6, <1>7, <1>9, <1>10, <1>12, <1>13, <1>14, <1>15, <1>16
        DEF Next, OnFrame, Send

\* A client that has joined, is there and has its peer id to itself is never out of the
\* hub, and if it sends heartbeats never out of the registry: whoever else fails, is pruned,
\* comes back early or has the same name in another session, and for every mixture of
\* clients that do and do not send heartbeats.
THEOREM SoleClientsAreReachable == Spec => []SoleIsReachable
<1>1. TypeOK /\ NoGhosts /\ ReachInv /\ [Next]_vars => ReachInv'
  BY NextReach
<1>2. ReachInv => SoleIsReachable
  BY DEF ReachInv, SoleIsReachable, Sole, Live, Listed
<1> QED BY InitTypeOK, NextTypeOK, InitNoGhosts, NextNoGhosts, InitReach, <1>1, <1>2, PTL
        DEF Spec
-----------------------------------------------------------------------------
(* Any two find each other *)

\* A handler says goodbye for its client only when it has begun to clean up.
FrameInv == \A c \in Conns : pc[c] \in {"reply", "send"} => frame[c] # "peer-left"

LEMMA NextFrame == TypeOK /\ FrameInv /\ [Next]_vars => FrameInv'
<1> SUFFICES ASSUME TypeOK, FrameInv, [Next]_vars, NEW c \in Conns,
                    pc'[c] \in {"reply", "send"}
             PROVE  frame'[c] # "peer-left"
  BY DEF FrameInv
<1> USE DEF handlerVars, sharedVars, FrameInv, TypeOK
<1>1. ASSUME NEW d \in Conns, OnFrame(d) PROVE frame'[c] # "peer-left"
  BY <1>1 DEF OnFrame, OnJoin, OnHeartbeat, OnRelayed, SendAround, Answer, RelayedKinds
<1>2. ASSUME NEW d \in Conns, Send(d) PROVE frame'[c] # "peer-left"
  <2>1. CASE Replied(d)
    BY <2>1 DEF Replied
  <2>2. CASE SentToAll(d)
    BY <2>2 DEF SentToAll
  <2>3. CASE (\E p \in Peers : BeginSend(d, p)) \/ Delivered(d) \/ LostInBuffer(d)
             \/ Unreachable(d)
    BY <2>3 DEF BeginSend, Delivered, LostInBuffer, Unreachable, EndSend
  <2> QED BY <1>2, <2>1, <2>2, <2>3 DEF Send
<1>3. ASSUME NEW d \in Conns, Connect(d) \/ Vanish(d) \/ OnDisconnect(d)
      PROVE  frame'[c] # "peer-left"
  <2>1. CASE Connect(d)
    <3>1. pc' = [pc EXCEPT ![d] = "receive"] /\ frame' = frame
      BY <2>1 DEF Connect
    <3> QED BY <3>1
  <2>2. CASE Vanish(d)
    BY <2>2 DEF Vanish
  <2>3. CASE OnDisconnect(d)
    <3>1. /\ pc' = [pc EXCEPT ![d] = "farewell"]
          /\ frame' = [frame EXCEPT ![d] = "peer-left"]
      BY <2>3 DEF OnDisconnect
    <3> QED BY <3>1
  <2> QED BY <1>3, <2>1, <2>2, <2>3
<1>4. ASSUME NEW s \in Sessions, NEW p \in Peers, GoStale(s, p) PROVE frame'[c] # "peer-left"
  BY <1>4 DEF GoStale
<1>5. CASE Prune \/ UNCHANGED vars
  BY <1>5 DEF Prune, vars
<1> QED BY <1>1, <1>2, <1>3, <1>4, <1>5 DEF Next

\* Those that Rendezvous speaks of.
Found(c) == Sole(c) /\ Listed(c)

\* Steps that bring nobody, and take nothing from those who stay.
LEMMA RendezvousKept ==
  ASSUME Rendezvous, \A c \in Conns : Found(c)' => Found(c) /\ knows[c] \subseteq knows'[c]
  PROVE  Rendezvous'
BY DEF Rendezvous, Found

LEMMA JoinRendezvous ==
  ASSUME TypeOK, ReachInv, Rendezvous, NEW c \in Conns, OnJoin(c)
  PROVE  Rendezvous'
<1> USE RelayAssumption
<1>1. /\ pc[c] = "receive" /\ joined' = joined \cup {c} /\ UNCHANGED <<client, alone>>
      /\ knows' = [knows EXCEPT ![c] =
                     IF client[c] = "open" THEN Others(SessionOf[c], PeerOf[c]) ELSE @]
      /\ registry' = [registry EXCEPT ![SessionOf[c]] = @ \cup {PeerOf[c]}]
  BY DEF OnJoin, Join
<1>2. ASSUME NEW d \in Conns \ {c}, Found(d)' PROVE Found(d) /\ knows'[d] = knows[d]
  <2>1. Sole(d) /\ knows'[d] = knows[d]
    BY <1>1, <1>2 DEF Found, Sole, Live, TypeOK
  <2>2. ASSUME PeerOf[d] = PeerOf[c] PROVE FALSE
    <3>1. client[c] = "new" \/ Forgotten(c)
      BY <2>1, <2>2 DEF Sole, ReachInv, Namesakes
    <3> QED BY <1>1, <3>1 DEF ReachInv, Forgotten
  <2>3. Listed(d)
    BY <1>1, <1>2, <2>2 DEF Found, Listed, TypeOK
  <2> QED BY <2>1, <2>3 DEF Found
<1>3. ASSUME NEW d \in Conns \ {c}, Found(c)', Found(d),
             SessionOf[c] = SessionOf[d], PeerOf[c] # PeerOf[d]
      PROVE  PeerOf[d] \in knows'[c]
  <2>1. knows'[c] = registry[SessionOf[c]] \ {PeerOf[c]}
    BY <1>1, <1>3 DEF Found, Sole, Live, TypeOK, Others
  <2> QED BY <1>3, <2>1 DEF Found, Listed
<1> QED BY <1>2, <1>3 DEF Rendezvous, Found

\* A goodbye is delivered only for a client of whom no successor has the id to itself yet.
LEMMA DeliveredRendezvous ==
  ASSUME TypeOK, ReachInv, FrameInv, Rendezvous, NEW x \in Conns, Delivered(x)
  PROVE  Rendezvous'
<1> USE RelayAssumption
<1>1. /\ Sending(x) /\ sock[x] \in Conns /\ UNCHANGED <<client, joined, alone, registry>>
      /\ knows' = CASE frame[x] = "peer-joined" ->
                         [knows EXCEPT ![sock[x]] = @ \cup {PeerOf[x]}]
                    [] frame[x] = "peer-left" -> [knows EXCEPT ![sock[x]] = @ \ {PeerOf[x]}]
                    [] OTHER -> knows
  BY DEF Delivered, EndSend, TypeOK, sharedVars
<1>2. \A c \in Conns : Found(c)' <=> Found(c)
  BY <1>1 DEF Found, Sole, Live, Listed
<1>3. CASE frame[x] = "peer-left"
  <2>1. pc[x] = "farewell" /\ \A c \in Conns : knows[c] \ {PeerOf[x]} \subseteq knows'[c]
    BY <1>1, <1>3 DEF FrameInv, Sending, TypeOK
  <2>2. ASSUME NEW c \in Conns, Found(c) PROVE PeerOf[c] # PeerOf[x]
    <3>1. c \in alone /\ client[c] = "open"
      BY <2>2 DEF Found, Sole, Live
    <3>2. c # x
      BY <2>1, <3>1 DEF ReachInv, Served
    <3>3. client[x] # "new" /\ ~Forgotten(x)
      BY <2>1 DEF ReachInv, Forgotten
    <3> QED BY <3>1, <3>2, <3>3 DEF ReachInv, Namesakes
  <2> QED BY <1>2, <2>1, <2>2 DEF Rendezvous, Found
<1>4. CASE frame[x] # "peer-left"
  <2>1. \A c \in Conns : knows[c] \subseteq knows'[c]
    BY <1>1, <1>4 DEF TypeOK
  <2> QED BY <1>2, <2>1, RendezvousKept
<1> QED BY <1>3, <1>4

LEMMA NextRendezvous ==
  ASSUME TypeOK, ReachInv, FrameInv, Rendezvous, [Next]_vars
  PROVE  Rendezvous'
<1> USE RelayAssumption DEF handlerVars, sharedVars
<1>1. ASSUME UNCHANGED <<client, alone, knows>>, joined' \subseteq joined,
             \A s \in Sessions : registry'[s] \subseteq registry[s]
      PROVE  Rendezvous'
  <2>1. \A c \in Conns : Found(c)' => Found(c)
    BY <1>1 DEF Found, Sole, Live, Listed
  <2> QED BY <1>1, <2>1, RendezvousKept
<1>2. ASSUME NEW c \in Conns, Connect(c) PROVE Rendezvous'
  <2>1. /\ client[c] = "new" /\ client' = [client EXCEPT ![c] = "open"]
        /\ alone' \subseteq alone \cup {c} /\ UNCHANGED <<joined, knows, registry>>
    BY <1>2 DEF Connect
  <2>2. c \notin joined
    BY <2>1 DEF ReachInv
  <2>3. \A d \in Conns : Found(d)' => Found(d)
    BY <2>1, <2>2 DEF Found, Sole, Live, Listed, TypeOK
  <2> QED BY <2>1, <2>3, RendezvousKept
<1>3. ASSUME NEW c \in Conns, Vanish(c) PROVE Rendezvous'
  <2>1. /\ client' = [client EXCEPT ![c] = "gone"] /\ alone' = alone \ {c}
        /\ knows' = [knows EXCEPT ![c] = {}] /\ UNCHANGED <<joined, registry>>
    BY <1>3 DEF Vanish
  <2>2. \A d \in Conns : Found(d)' => Found(d) /\ knows'[d] = knows[d]
    BY <2>1 DEF Found, Sole, Live, Listed, TypeOK
  <2> QED BY <2>2, RendezvousKept
<1>4. ASSUME NEW c \in Conns, NEW k \in Kinds, OnRelayed(c, k) PROVE Rendezvous'
  BY <1>1, <1>4 DEF OnRelayed
<1>5. ASSUME NEW c \in Conns, NEW p \in Peers, BeginSend(c, p) PROVE Rendezvous'
  BY <1>1, <1>5 DEF BeginSend
<1>6. ASSUME NEW c \in Conns,
             OnHeartbeat(c) \/ Replied(c) \/ LostInBuffer(c) \/ SentToAll(c)
      PROVE  Rendezvous'
  BY <1>1, <1>6 DEF OnHeartbeat, Replied, LostInBuffer, SentToAll, EndSend
<1>7. ASSUME NEW c \in Conns, OnDisconnect(c) PROVE Rendezvous'
  <2>1. /\ UNCHANGED <<client, alone, knows>> /\ joined' = joined \ {c}
        /\ registry' = [registry EXCEPT ![SessionOf[c]] = @ \ {PeerOf[c]}]
    BY <1>7 DEF OnDisconnect, Leave
  <2> QED BY <1>1, <2>1 DEF TypeOK
<1>8. ASSUME NEW c \in Conns, Unreachable(c) PROVE Rendezvous'
  <2>1. UNCHANGED <<client, joined, alone, knows>>
    BY <1>8 DEF Unreachable, EndSend
  <2>2. \A s \in Sessions : registry'[s] \subseteq registry[s]
    BY <1>8 DEF Unreachable, Leave, TypeOK
  <2> QED BY <1>1, <2>1, <2>2
<1>9. ASSUME NEW s \in Sessions, NEW p \in Peers, GoStale(s, p) PROVE Rendezvous'
  BY <1>1, <1>9 DEF GoStale
<1>10. CASE Prune
  <2>1. \A s \in Sessions : registry'[s] \subseteq registry[s]
    BY <1>10 DEF Prune
  <2> QED BY <1>1, <1>10, <2>1 DEF Prune
<1>11. CASE UNCHANGED vars
  BY <1>1, <1>11 DEF vars
<1> QED BY <1>2, <1>3, <1>4, <1>5, <1>6, <1>7, <1>8, <1>9, <1>10, <1>11, JoinRendezvous,
           DeliveredRendezvous
        DEF Next, OnFrame, Send

\* Of any two participants of a session that are there, are listed and have their ids to
\* themselves, one has been told of the other and not been told since that it left,
\* whichever clients send heartbeats and whenever any of them fail and come back.
THEOREM RendezvousHolds == Spec => []Rendezvous
<1>1. Init => FrameInv /\ Rendezvous
  BY DEF Init, FrameInv, Rendezvous, Sole, Live
<1>2. TypeOK /\ NoGhosts /\ ReachInv /\ [Next]_vars => ReachInv'
  BY NextReach
<1>3. TypeOK /\ ReachInv /\ FrameInv /\ Rendezvous /\ [Next]_vars => Rendezvous'
  BY NextRendezvous
<1> QED BY InitTypeOK, NextTypeOK, InitNoGhosts, NextNoGhosts, InitReach, NextFrame,
           <1>1, <1>2, <1>3, PTL DEF Spec
=============================================================================
