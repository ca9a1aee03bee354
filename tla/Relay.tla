------------------------------- MODULE Relay -------------------------------
(***************************************************************************)
(* The cloud side of a session: the websocket endpoint, ConnectionHub and  *)
(* SessionRegistry of src/teleop/cloud.  Every participant, the control    *)
(* transports, the video publisher, the operator feed and the browser,     *)
(* reaches the others through it.                                          *)
(*                                                                         *)
(* One handler serves each connection, and all handlers run on one event   *)
(* loop: what a handler does between two awaits is one action.  It awaits  *)
(* the next frame of its client, and each frame it sends.  Sending to a    *)
(* client whose network has gone may succeed (the bytes are buffered and   *)
(* lost) or raise.  GET /sessions prunes from a thread of its own.         *)
(*                                                                         *)
(* A connection is identified by a member of Conns that is used once; it   *)
(* was opened with a URL /ws/{session}/{peer}.  Roles, ICE servers and the *)
(* contents of relayed frames do not matter here.                          *)
(***************************************************************************)
EXTENDS Naturals, FiniteSets

CONSTANTS
  Peers, Sessions, Conns,
  PeerOf, SessionOf,   \* the URL a connection is opened with
  Kinds,               \* the types of the frames the clients publish
  Heartbeaters,        \* the peers that send heartbeats (the browser does)
  NoConn

ASSUME RelayAssumption ==
  /\ PeerOf \in [Conns -> Peers]
  /\ SessionOf \in [Conns -> Sessions]
  /\ Heartbeaters \subseteq Peers
  /\ NoConn \notin Conns

VARIABLES
  client,    \* the client's end: "new", "open", or "gone"
  pc,        \* the handler: "idle", "receive", "reply", "send", "farewell" or "done"
  joined,    \* the connections being served whose join frame was handled
  frame,     \* handler: the type of the frame being sent around
  pending,   \* handler: the peers it has still to be sent to
  to, sock,  \* handler: the peer and the socket of the send it awaits
  hub,       \* ConnectionHub: the connection of each peer id
  registry,  \* SessionRegistry: the peers of each session
  stale,     \* those not seen for peer_ttl_s
  knows,     \* history: the peers each client has been told are there
  alone      \* history: the connections that have had their peer id to themselves

handlerVars == <<pc, frame, pending, to, sock>>
sharedVars == <<hub, registry, stale>>
vars == <<client, joined, handlerVars, sharedVars, knows, alone>>

SameUrl(c, d) == PeerOf[c] = PeerOf[d] /\ SessionOf[c] = SessionOf[d]
Frames == Kinds \cup {"peer-joined", "peer-left", "none"}

TypeOK ==
  /\ client \in [Conns -> {"new", "open", "gone"}]
  /\ pc \in [Conns -> {"idle", "receive", "reply", "send", "farewell", "done"}]
  /\ joined \subseteq Conns
  /\ frame \in [Conns -> Frames]
  /\ pending \in [Conns -> SUBSET Peers]
  /\ to \in [Conns -> Peers] /\ sock \in [Conns -> Conns \cup {NoConn}]
  /\ hub \in [Peers -> Conns \cup {NoConn}]
  /\ registry \in [Sessions -> SUBSET Peers]
  /\ stale \in [Sessions -> SUBSET Peers]
  /\ knows \in [Conns -> SUBSET Peers]
  /\ alone \subseteq Conns

Init ==
  /\ client = [c \in Conns |-> "new"]
  /\ pc = [c \in Conns |-> "idle"]
  /\ joined = {}
  /\ frame = [c \in Conns |-> "none"]
  /\ pending = [c \in Conns |-> {}]
  /\ to = PeerOf /\ sock = [c \in Conns |-> NoConn]
  /\ hub = [p \in Peers |-> NoConn]
  /\ registry = [s \in Sessions |-> {}]
  /\ stale = [s \in Sessions |-> {}]
  /\ knows = [c \in Conns |-> {}]
  /\ alone = {}
-----------------------------------------------------------------------------
(* SessionRegistry.  An empty session is a session that is not there. *)

\* Mutant of Leave: the registry keeps the peer.
LeaveNothing(s, p) == UNCHANGED <<registry, stale>>

Join(s, p) ==
  /\ registry' = [registry EXCEPT ![s] = @ \cup {p}]
  /\ stale' = [stale EXCEPT ![s] = @ \ {p}]

Leave(s, p) ==
  /\ registry' = [registry EXCEPT ![s] = @ \ {p}]
  /\ stale' = [stale EXCEPT ![s] = @ \ {p}]

\* Mutant of Others: none for one not yet listed.
OthersOfMember(s, p) == IF p \in registry[s] THEN registry[s] \ {p} ELSE {}

Others(s, p) == registry[s] \ {p}

\* Mutant of Prune: drops those that have been seen.
PruneSeen ==
  /\ registry' = [s \in Sessions |-> registry[s] \cap stale[s]]
  /\ UNCHANGED <<client, joined, handlerVars, hub, stale, knows, alone>>

Prune ==
  /\ registry' = [s \in Sessions |-> registry[s] \ stale[s]]
  /\ stale' = [s \in Sessions |-> {}]
  /\ UNCHANGED <<client, joined, handlerVars, hub, knows, alone>>

(* ConnectionHub *)

\* Mutant of HubAdd: the id is stored instead of the connection.
HubAddId(p, c) == hub' = [hub EXCEPT ![p] = p]

HubAdd(p, c) == hub' = [hub EXCEPT ![p] = c]
HubRemove(p) == hub' = [hub EXCEPT ![p] = NoConn]
-----------------------------------------------------------------------------
(* Clients and their connections *)

Forgotten(d) == pc[d] = "done" /\ \A c \in Conns : sock[c] # d

Namesakes(c) == {d \in Conns \ {c} : PeerOf[d] = PeerOf[c]}

\* A participant has one connection at a time.  When that has gone it may come back on
\* a new one at once, before the server has noticed anything.  Participants of other
\* sessions may have the same peer id, for which the hub has one place.
Connect(c) ==
  /\ client[c] = "new"
  /\ \A d \in Conns \ {c} :
       SameUrl(c, d) => client[d] # "open"
  /\ client' = [client EXCEPT ![c] = "open"]
  /\ pc' = [pc EXCEPT ![c] = "receive"]
  /\ HubAdd(PeerOf[c], c)
  /\ alone' = (alone \ Namesakes(c)) \cup
       {d \in {c} : \A e \in Namesakes(c) : client[e] = "new" \/ Forgotten(e)}
  /\ UNCHANGED <<joined, frame, pending, to, sock, registry, stale, knows>>

\* The client closes, or its network fails; the server is yet to find out.
Vanish(c) ==
  /\ client[c] = "open"
  /\ client' = [client EXCEPT ![c] = "gone"]
  /\ knows' = [knows EXCEPT ![c] = {}]
  /\ alone' = alone \ {c}
  /\ UNCHANGED <<joined, handlerVars, sharedVars>>

\* A peer that has been silent for the TTL.  Clients that send heartbeats do so
\* several times within it.
GoStale(s, p) ==
  /\ p \in registry[s] \ stale[s]
  /\ p \in Heartbeaters =>
       \A c \in Conns : PeerOf[c] = p /\ SessionOf[c] = s => client[c] # "open"
  /\ stale' = [stale EXCEPT ![s] = @ \cup {p}]
  /\ UNCHANGED <<client, joined, handlerVars, hub, registry, knows, alone>>
-----------------------------------------------------------------------------
(* The endpoint: frames of the client *)

Answer(c, step, f, ps) ==
  /\ pc' = [pc EXCEPT ![c] = step]
  /\ frame' = [frame EXCEPT ![c] = f]
  /\ pending' = [pending EXCEPT ![c] = ps]
  /\ UNCHANGED <<to, sock>>

SendAround(c, f, ps) == Answer(c, "send", f, ps)

\* The reply, on its way once the handler awaits it, lists the other peers; each
\* of them is then told of the new one.
OnJoin(c) ==
  LET s == SessionOf[c]  p == PeerOf[c] IN
  /\ pc[c] = "receive" /\ c \notin joined
  /\ joined' = joined \cup {c}
  /\ Join(s, p)
  /\ knows' = [knows EXCEPT ![c] = IF client[c] = "open" THEN Others(s, p) ELSE @]
  /\ Answer(c, "reply", "peer-joined", Others(s, p))
  /\ UNCHANGED <<client, hub, alone>>

Replied(c) ==
  /\ pc[c] = "reply"
  /\ pc' = [pc EXCEPT ![c] = "send"]
  /\ UNCHANGED <<client, joined, frame, pending, to, sock, sharedVars, knows, alone>>

OnHeartbeat(c) ==
  /\ pc[c] = "receive" /\ c \in joined
  /\ PeerOf[c] \in stale[SessionOf[c]]
  /\ stale' = [stale EXCEPT ![SessionOf[c]] = @ \ {PeerOf[c]}]
  /\ UNCHANGED <<client, joined, handlerVars, hub, registry, knows, alone>>

RelayedKinds ==
  {"offer", "answer", "candidate", "telemetry", "advisory", "state", "pub"}
AddressedKinds == {"offer", "answer", "candidate"}

\* A frame that names an addressee goes to that peer id, of whichever session, and another
\* to the rest of its own.  One of a type that is not relayed, as the guidance of the
\* operator feed, is logged and dropped.
OnRelayed(c, k) ==
  /\ pc[c] = "receive" /\ c \in joined
  /\ k \in RelayedKinds
  /\ \/ SendAround(c, k, Others(SessionOf[c], PeerOf[c]))
     \/ k \in AddressedKinds /\ \E p \in Peers : SendAround(c, k, {p})
  /\ UNCHANGED <<client, joined, sharedVars, knows, alone>>

\* Mutant of OnDisconnect: nobody is told.
OnDisconnectQuietly(c) ==
  /\ pc[c] \in {"receive", "reply"} /\ client[c] = "gone"
  /\ HubRemove(PeerOf[c])
  /\ Leave(SessionOf[c], PeerOf[c])
  /\ pc' = [pc EXCEPT ![c] = "done"]
  /\ joined' = joined \ {c}
  /\ UNCHANGED <<client, frame, pending, to, sock, knows, alone>>

\* The handler's "finally", when receiving or replying shows that its client has
\* gone.
OnDisconnect(c) ==
  LET s == SessionOf[c]  p == PeerOf[c] IN
  /\ pc[c] \in {"receive", "reply"} /\ client[c] = "gone"
  /\ HubRemove(p)
  /\ Leave(s, p)
  /\ pc' = [pc EXCEPT ![c] = "farewell"]
  /\ frame' = [frame EXCEPT ![c] = "peer-left"]
  /\ pending' = [pending EXCEPT ![c] = registry'[s]]
  /\ joined' = joined \ {c}
  /\ UNCHANGED <<client, to, sock, knows, alone>>
-----------------------------------------------------------------------------
(* The endpoint: ConnectionHub.send, peer by peer *)

Sending(c) == pc[c] \in {"send", "farewell"}

BeginSend(c, p) ==
  /\ Sending(c) /\ sock[c] = NoConn
  /\ p \in pending[c]
  /\ pending' = [pending EXCEPT ![c] = @ \ {p}]
  /\ sock' = [sock EXCEPT ![c] = hub[p]]
  /\ to' = IF hub[p] = NoConn THEN to ELSE [to EXCEPT ![c] = p]
  /\ UNCHANGED <<client, joined, pc, frame, sharedVars, knows, alone>>

EndSend(c) ==
  /\ sock' = [sock EXCEPT ![c] = NoConn]
  /\ to' = [to EXCEPT ![c] = PeerOf[c]]
  /\ UNCHANGED <<client, joined, pc, frame, pending, alone>>

Delivered(c) ==
  LET d == sock[c]  p == PeerOf[c] IN
  /\ Sending(c) /\ d # NoConn /\ client[d] = "open"
  /\ knows' = CASE frame[c] = "peer-joined" -> [knows EXCEPT ![d] = @ \cup {p}]
                [] frame[c] = "peer-left"   -> [knows EXCEPT ![d] = @ \ {p}]
                [] OTHER -> knows
  /\ EndSend(c)
  /\ UNCHANGED sharedVars

LostInBuffer(c) ==
  /\ Sending(c) /\ sock[c] # NoConn /\ client[sock[c]] = "gone"
  /\ EndSend(c)
  /\ UNCHANGED <<sharedVars, knows>>

\* The exception handler forgets the peer: whichever connection it has by now.
Unreachable(c) ==
  LET p == to[c]  now == hub[p] IN
  /\ Sending(c) /\ sock[c] # NoConn /\ client[sock[c]] = "gone"
  /\ HubRemove(p)
  /\ IF now = NoConn THEN UNCHANGED <<registry, stale>> ELSE Leave(SessionOf[now], p)
  /\ EndSend(c)
  /\ UNCHANGED knows

SentToAll(c) ==
  /\ Sending(c) /\ sock[c] = NoConn /\ pending[c] = {}
  /\ pc' = [pc EXCEPT ![c] = IF @ = "send" THEN "receive" ELSE "done"]
  /\ frame' = [frame EXCEPT ![c] = "none"]
  /\ UNCHANGED <<client, joined, pending, to, sock, sharedVars, knows, alone>>
-----------------------------------------------------------------------------
Send(c) == \/ Replied(c)
           \/ \E p \in Peers : BeginSend(c, p)
           \/ Delivered(c) \/ LostInBuffer(c) \/ Unreachable(c) \/ SentToAll(c)

OnFrame(c) == OnJoin(c) \/ OnHeartbeat(c) \/ \E k \in Kinds : OnRelayed(c, k)

Next == \/ \E c \in Conns : Connect(c) \/ Vanish(c) \/ OnFrame(c) \/ OnDisconnect(c) \/ Send(c)
        \/ \E s \in Sessions, p \in Peers : GoStale(s, p)
        \/ Prune

Spec == Init /\ [][Next]_vars

\* The event loop runs every handler and a send ends one way or the other.  A
\* closed connection is noticed (the server pings its clients) once the frames
\* that had arrived on it, of which there are finitely many, are handled: hence
\* the strong fairness.  Clients are under no obligation.
FairSpec == Spec /\ \A c \in Conns : SF_vars(OnDisconnect(c)) /\ WF_vars(Send(c))
-----------------------------------------------------------------------------
(* Properties *)

Served(c) == pc[c] \in {"receive", "reply", "send"}
Live(c) == client[c] = "open" /\ c \in joined
Listed(c) == PeerOf[c] \in registry[SessionOf[c]]

\* Joined, still there, and never in the way of another connection of the same peer id:
\* whatever was left of earlier ones had been cleaned up when it was opened, and no other
\* has been opened since.
Sole(c) == Live(c) /\ c \in alone

\* Hub and registry name nobody whose last handler has begun to clean up, in any
\* order of departures, failed sends, prunings and reconnections
\* (signaling_server.py:126-135 and 199-201, session_registry.py:84-98).
NoGhosts ==
  /\ \A p \in Peers : hub[p] # NoConn => PeerOf[hub[p]] = p /\ Served(hub[p])
  /\ \A s \in Sessions : \A p \in registry[s] :
       \E c \in Conns : PeerOf[c] = p /\ SessionOf[c] = s /\ Served(c)

\* Nothing that others do, leave, fail, lose frames, are pruned, come back early or bear
\* the same name elsewhere, takes a client that has its peer id to itself out of the hub
\* (signaling_server.py:126-135, 200); and one that sends heartbeats keeps its place in
\* the registry, where broadcasts look (signaling_server.py:190, session_registry.py:94).
SoleIsReachable ==
  \A c \in Conns : Sole(c) => /\ hub[PeerOf[c]] = c
                             /\ (PeerOf[c] \in Heartbeaters => Listed(c))

\* Of two participants of a session that have their ids to themselves and are listed, one
\* has been told of the other, and not been told since that it left: "a leader and
\* follower that have never seen each other's IPs can find each other"
\* (session_registry.py:4-6).
Rendezvous ==
  \A c, d \in Conns :
    /\ Sole(c) /\ Sole(d) /\ Listed(c) /\ Listed(d)
    /\ SessionOf[c] = SessionOf[d] /\ PeerOf[c] # PeerOf[d]
    => PeerOf[d] \in knows[c] \/ PeerOf[c] \in knows[d]

\* Somebody connected as peer p of session s.
Present(p, s) == \E c \in Conns : PeerOf[c] = p /\ SessionOf[c] = s /\ client[c] = "open"

\* When a participant has gone, every other that was told of it, has its own id to itself
\* and sends heartbeats is told so, "so they can tear down the RTCPeerConnection"
\* (signaling_server.py:202), unless the participant comes back, or the other leaves too
\* or loses its id to another connection.
FarewellIsHeard ==
  \A d \in {c \in Conns : PeerOf[c] \in Heartbeaters} : \A p \in Peers \ {PeerOf[d]} :
    (Sole(d) /\ p \in knows[d] /\ ~Present(p, SessionOf[d]))
      ~> (p \notin knows[d] \/ ~Sole(d) \/ Present(p, SessionOf[d]))

(* What the documentation says and the code does not do *)

\* A client that has joined and is still there can be reached: it has its place
\* in the registry, where broadcasts look (signaling_server.py:190), and the hub
\* has its socket.
LivePeerReachable ==
  \A c \in Conns : Live(c) => hub[PeerOf[c]] = c /\ Listed(c)

\* What a client publishes is sent to its own session: "The server broadcasts each to the
\* other peers in the same session" (ws_transport.py:14).
PublishStaysInSession ==
  \A c \in Conns : sock[c] # NoConn /\ frame[c] \in Kinds => SessionOf[sock[c]] = SessionOf[c]
=============================================================================
