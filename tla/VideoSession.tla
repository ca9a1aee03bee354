---------------------------- MODULE VideoSession ----------------------------
(***************************************************************************)
(* How a browser gets the follower's video, and how it gets it back:       *)
(* VideoPublisher of src/teleop/video/publisher.py on the robot, and the   *)
(* SignalingClient, VideoViewer and page of src/ui in the browser.         *)
(*                                                                         *)
(* They negotiate through the signaling server, which passes frames on in  *)
(* order and tells a participant of those who come and go (Relay.tla); a   *)
(* frame for someone who is not connected is lost, and so is what was on   *)
(* its way when a connection broke.  The server notices a departure before *)
(* the participant is back.  The publisher stays in the server's registry  *)
(* while it is connected.  ICE is not modelled: two ends that agree find   *)
(* each other, and an end whose other end has gone finds that out.         *)
(*                                                                         *)
(* The viewer makes the offers, and numbers them here: <<v, k>> is the     *)
(* k-th offer of v, and the connection that is negotiated with it, which   *)
(* has one RTCPeerConnection at each end.                                  *)
(***************************************************************************)
EXTENDS Naturals, Sequences

CONSTANTS
  Viewers,
  MaxBreaks,   \* bound on the failures: of a websocket, or of the publisher's process
  Prompt       \* frames and handlers take less than the second or two that pass before
               \* a participant is back: the others are then done with what it sent

ASSUME VideoAssumption == MaxBreaks \in Nat /\ Prompt \in BOOLEAN

MaxOffers == MaxBreaks + 1
Offers == Viewers \X (1..MaxOffers)
Panels == {"global", "wrist"}
None == 0

VARIABLES
  \* the publisher
  plink,     \* its websocket: "up" or "down"
  inbox,     \* the frames on their way to it
  busy,      \* the offers it has started to answer: one, or none
  table,     \* _pcs: the connection of each viewer
  pub,       \* the state of its RTCPeerConnections
  callbacks, \* those whose connectionstatechange is still to be handled
  \* the browser of each viewer
  vlink,     \* its websocket: "up", "down", or "closed" for good
  mail,      \* the frames on their way to it
  offers,    \* the number of offers made
  current,   \* pc of the VideoViewer that the page refers to
  view,      \* the state of its RTCPeerConnections
  started,   \* the viewers whose VideoViewer has tracks
  panels,    \* the connections whose tracks the page shows, by panel
  \* the world
  breaks,    \* failures so far
  earlier    \* history: connections the publisher still had when it last joined

pubVars == <<plink, busy, table, pub, callbacks>>
viewVars == <<vlink, offers, current, view, started, panels>>
worldVars == <<breaks, earlier>>
vars == <<pubVars, inbox, viewVars, mail, worldVars>>

ToPublisher == [kind : {"offer", "peer-left"}, from : Viewers, k : 0..MaxOffers]
ToViewer == [kind : {"joined", "joined-follower", "peer-joined", "answer"}, k : 0..MaxOffers]

TypeOK ==
  /\ plink \in {"up", "down"}
  /\ inbox \in Seq(ToPublisher)
  /\ busy \subseteq Offers
  /\ table \in [Viewers -> 0..MaxOffers]
  /\ pub \in [Offers -> {"none", "new", "answered", "connected", "failed", "closed"}]
  /\ callbacks \subseteq Offers
  /\ vlink \in [Viewers -> {"up", "down", "closed"}]
  /\ mail \in [Viewers -> Seq(ToViewer)]
  /\ offers \in [Viewers -> 0..MaxOffers]
  /\ current \in [Viewers -> 0..MaxOffers]
  /\ view \in [Offers -> {"none", "offered", "answered", "mismatched", "connected",
                          "failed", "closed"}]
  /\ started \subseteq Viewers
  /\ panels \in [Viewers -> [Panels -> 0..MaxOffers]]
  /\ breaks \in 0..MaxBreaks
  /\ earlier \subseteq Offers

Init ==
  /\ plink = "down" /\ inbox = <<>> /\ busy = {} /\ callbacks = {}
  /\ table = [v \in Viewers |-> None]
  /\ pub = [o \in Offers |-> "none"]
  /\ vlink = [v \in Viewers |-> "down"]
  /\ mail = [v \in Viewers |-> <<>>]
  /\ offers = [v \in Viewers |-> 0]
  /\ current = [v \in Viewers |-> None]
  /\ view = [o \in Offers |-> "none"]
  /\ started = {} /\ panels = [v \in Viewers |-> [p \in Panels |-> None]]
  /\ breaks = 0 /\ earlier = {}

OffersOf(v) == {v} \X (1..MaxOffers)
-----------------------------------------------------------------------------
(* The signaling server *)

Frame(kind, v, k) == [kind |-> kind, from |-> v, k |-> k]
Letter(kind, k) == [kind |-> kind, k |-> k]

TellPublisher(frame) ==
  inbox' = IF plink = "up" THEN Append(inbox, frame) ELSE inbox

\* What the viewers in vs are told next, those of them that are connected.
Tell(vs, letter) ==
  mail' = [v \in Viewers |->
             IF v \in vs /\ vlink[v] = "up" THEN Append(mail[v], letter) ELSE mail[v]]
-----------------------------------------------------------------------------
(* The publisher: _session *)

\* The websocket connects, at first and after the back-off; the frames are handled one
\* by one, so a handler that was under way when the old one broke has ended.
PubJoin ==
  /\ plink = "down" /\ busy = {}
  /\ Prompt => \A v \in Viewers : mail[v] = <<>>
  /\ plink' = "up"
  /\ Tell(Viewers, Letter("peer-joined", 0))
  /\ earlier' = {o \in Offers : pub[o] \notin {"none", "closed"}}
  /\ UNCHANGED <<busy, table, pub, callbacks, inbox, viewVars, breaks>>

Handling(kind) == plink = "up" /\ busy = {} /\ inbox # <<>> /\ Head(inbox).kind = kind

\* _on_offer up to its first await: a connection the table has for the viewer already
\* is replaced, and not closed.
OnOffer ==
  /\ Handling("offer")
  /\ LET m == Head(inbox) IN
       /\ busy' = {<<m.from, m.k>>}
       /\ table' = [table EXCEPT ![m.from] = m.k]
       /\ pub' = [pub EXCEPT ![<<m.from, m.k>>] = "new"]
  /\ inbox' = Tail(inbox)
  /\ UNCHANGED <<plink, callbacks, viewVars, mail, worldVars>>

\* The rest of it: the local description is set, and the answer sent.  On a websocket
\* that has broken the send raises, and the handler of frames goes on with the next.
Answer ==
  \E o \in busy :
    /\ pub' = [pub EXCEPT ![o] = "answered"]
    /\ busy' = {}
    /\ IF plink = "up" THEN Tell({o[1]}, Letter("answer", o[2])) ELSE UNCHANGED mail
    /\ UNCHANGED <<plink, table, callbacks, inbox, viewVars, worldVars>>

\* Mutant: the entry is removed, and the connection is not closed.
OnPeerLeftForgetting ==
  /\ Handling("peer-left")
  /\ table' = [table EXCEPT ![Head(inbox).from] = None]
  /\ inbox' = Tail(inbox)
  /\ UNCHANGED <<plink, busy, pub, callbacks, viewVars, mail, worldVars>>

\* Closing a connection calls its connectionstatechange handler, in a task.
OnPeerLeft ==
  /\ Handling("peer-left")
  /\ LET v == Head(inbox).from  gone == {<<v, table[v]>>} \cap Offers IN
       /\ table' = [table EXCEPT ![v] = None]
       /\ pub' = [o \in Offers |-> IF o \in gone THEN "closed" ELSE pub[o]]
       /\ callbacks' = callbacks \cup gone
  /\ inbox' = Tail(inbox)
  /\ UNCHANGED <<plink, busy, viewVars, mail, worldVars>>

\* _on_state for a connection that has failed or was closed takes the viewer's entry
\* out of the table, whichever connection that is by now.
OnState(o) ==
  /\ o \in callbacks
  /\ callbacks' = callbacks \ {o}
  /\ table' = [table EXCEPT ![o[1]] = None]
  /\ UNCHANGED <<plink, busy, pub, inbox, viewVars, mail, worldVars>>

Publisher == PubJoin \/ OnOffer \/ Answer \/ OnPeerLeft \/ \E o \in Offers : OnState(o)
-----------------------------------------------------------------------------
(* The browser *)

Settled(v) ==
  /\ \A i \in 1..Len(inbox) : inbox[i].from # v
  /\ (busy \cup callbacks) \cap OffersOf(v) = {}

\* SignalingClient.connect: the server replies with the peers that are there.
ViewerJoin(v) ==
  /\ vlink[v] = "down"
  /\ Prompt => Settled(v)
  /\ vlink' = [vlink EXCEPT ![v] = "up"]
  /\ mail' = [mail EXCEPT ![v] =
               << Letter(IF plink = "up" THEN "joined-follower" ELSE "joined", 0) >>]
  /\ UNCHANGED <<pubVars, inbox, offers, current, view, started, panels, worldVars>>

Opens(v, kinds) == vlink[v] = "up" /\ mail[v] # <<>> /\ Head(mail[v]).kind \in kinds
Read(v) == mail' = [mail EXCEPT ![v] = Tail(@)]

\* VideoViewer.connectTo: the RTCPeerConnection it had is left as it is.
ConnectTo(v) ==
  LET k == offers[v] + 1 IN
  /\ offers' = [offers EXCEPT ![v] = k]
  /\ current' = [current EXCEPT ![v] = k]
  /\ view' = [view EXCEPT ![<<v, k>>] = "offered"]
  /\ TellPublisher(Frame("offer", v, k))

\* Mutant: the page connects whether or not the reply lists a follower.
OnJoinedConnecting(v) ==
  /\ Opens(v, {"joined"})
  /\ ConnectTo(v)
  /\ started' = started \ {v}
  /\ Read(v)
  /\ UNCHANGED <<pubVars, vlink, panels, worldVars>>

\* Mutant: the page connects once, and not to a follower that is back.
OnFollowerOnce(v) ==
  /\ Opens(v, {"joined-follower", "peer-joined"})
  /\ \/ current[v] = None /\ ConnectTo(v)
     \/ current[v] # None /\ UNCHANGED <<offers, current, view, inbox>>
  /\ started' = IF Opens(v, {"peer-joined"}) THEN started ELSE started \ {v}
  /\ Read(v)
  /\ UNCHANGED <<pubVars, vlink, panels, worldVars>>

\* The page makes a new VideoViewer on every join, and connects it when the reply
\* lists a follower; one that joins later is connected to by the same VideoViewer.
OnJoined(v) ==
  /\ Opens(v, {"joined"})
  /\ current' = [current EXCEPT ![v] = None]
  /\ started' = started \ {v}
  /\ Read(v)
  /\ UNCHANGED <<pubVars, inbox, vlink, offers, view, panels, worldVars>>

OnFollower(v) ==
  /\ Opens(v, {"joined-follower", "peer-joined"})
  /\ ConnectTo(v)
  /\ started' = IF Opens(v, {"peer-joined"}) THEN started ELSE started \ {v}
  /\ Read(v)
  /\ UNCHANGED <<pubVars, vlink, panels, worldVars>>

\* The two tracks of a connection: the first that the VideoViewer gets is the global
\* camera's, and every other goes to the wrist panel, where the last one stays.
OnTracks(v) ==
  /\ started' = started \cup {v}
  /\ panels' = [panels EXCEPT ![v] =
                 [p \in Panels |-> IF p = "global" /\ v \in started THEN @[p] ELSE current[v]]]

\* An answer is taken for the answer to the offer made last.  A connection that has
\* an answer already refuses another.
OnAnswer(v) ==
  /\ Opens(v, {"answer"})
  /\ LET o == <<v, current[v]>> IN
       \/ /\ current[v] # None /\ view[o] = "offered"
          /\ view' = [view EXCEPT ![o] =
                       IF Head(mail[v]).k = current[v] THEN "answered" ELSE "mismatched"]
          /\ OnTracks(v)
       \/ /\ current[v] = None \/ view[o] # "offered"
          /\ UNCHANGED <<view, started, panels>>
  /\ Read(v)
  /\ UNCHANGED <<pubVars, inbox, vlink, offers, current, worldVars>>

Departs(v) ==
  /\ mail' = [mail EXCEPT ![v] = <<>>]
  /\ IF vlink[v] = "up" THEN TellPublisher(Frame("peer-left", v, 0)) ELSE UNCHANGED inbox

\* The page lets go of its session, as when ?session= names another: it closes the
\* RTCPeerConnection that it refers to.
CloseSession(v) ==
  /\ vlink[v] # "closed"
  /\ Departs(v)
  /\ vlink' = [vlink EXCEPT ![v] = "closed"]
  /\ view' = [o \in Offers |-> IF o = <<v, current[v]>> THEN "closed" ELSE view[o]]
  /\ current' = [current EXCEPT ![v] = None]
  /\ UNCHANGED <<pubVars, offers, started, panels, breaks, earlier>>

Viewer(v) == ViewerJoin(v) \/ OnJoined(v) \/ OnFollower(v) \/ OnAnswer(v)
-----------------------------------------------------------------------------
(* Failures, and WebRTC *)

Fail == breaks < MaxBreaks /\ breaks' = breaks + 1

ViewerBreak(v) ==
  /\ vlink[v] = "up" /\ Fail
  /\ Departs(v)
  /\ vlink' = [vlink EXCEPT ![v] = "down"]
  /\ UNCHANGED <<pubVars, offers, current, view, started, panels, earlier>>

PubBreak ==
  /\ plink = "up" /\ Fail
  /\ plink' = "down" /\ inbox' = <<>>
  /\ UNCHANGED <<busy, table, pub, callbacks, viewVars, mail, earlier>>

\* The process ends, and is started again.
PubCrash ==
  /\ plink = "up" /\ Fail
  /\ plink' = "down" /\ inbox' = <<>> /\ busy' = {} /\ callbacks' = {}
  /\ table' = [v \in Viewers |-> None]
  /\ pub' = [o \in Offers |-> IF pub[o] = "none" THEN "none" ELSE "closed"]
  /\ UNCHANGED <<viewVars, mail, earlier>>

Establish(o) ==
  /\ view[o] = "answered" /\ pub[o] = "answered"
  /\ view' = [view EXCEPT ![o] = "connected"]
  /\ pub' = [pub EXCEPT ![o] = "connected"]
  /\ UNCHANGED <<plink, busy, table, callbacks, inbox, vlink, offers, current, started, panels, mail, worldVars>>

Fails(o, failed) ==
  \/ failed = "pub" /\ pub' = [pub EXCEPT ![o] = "failed"] /\ callbacks' = callbacks \cup {o}
     /\ UNCHANGED view
  \/ failed = "view" /\ view' = [view EXCEPT ![o] = "failed"] /\ UNCHANGED <<pub, callbacks>>

\* An end that was connected hears no more of the other.
ConsentExpires(o) ==
  /\ \/ pub[o] = "connected" /\ view[o] # "connected" /\ Fails(o, "pub")
     \/ view[o] = "connected" /\ pub[o] # "connected" /\ Fails(o, "view")
  /\ UNCHANGED <<plink, busy, table, inbox, vlink, offers, current, started, panels, mail, worldVars>>

AnswerIsComing(o) == \E i \in 1..Len(mail[o[1]]) : mail[o[1]][i] = Letter("answer", o[2])

\* An end that was never connected to anything gives up, sooner or later or not at all:
\* also one whose answer was lost, or found nobody.
GiveUp(o) ==
  /\ \/ pub[o] = "answered" /\ view[o] # "answered" /\ ~AnswerIsComing(o) /\ Fails(o, "pub")
     \/ view[o] = "mismatched" /\ Fails(o, "view")
     \/ view[o] = "answered" /\ pub[o] # "answered" /\ Fails(o, "view")
  /\ UNCHANGED <<plink, busy, table, inbox, vlink, offers, current, started, panels, mail, worldVars>>

WebRTC(o) == Establish(o) \/ ConsentExpires(o)
-----------------------------------------------------------------------------
Next == \/ Publisher \/ PubBreak \/ PubCrash
        \/ \E v \in Viewers : Viewer(v) \/ ViewerBreak(v) \/ CloseSession(v)
        \/ \E o \in Offers : WebRTC(o) \/ GiveUp(o)

Spec == Init /\ [][Next]_vars

\* Both ends keep trying to reach the server and handle what arrives; a network that
\* can connect two ends that agree does so, and silence is noticed.
FairSpec == /\ Spec
            /\ WF_vars(PubJoin) /\ WF_vars(OnOffer \/ OnPeerLeft) /\ WF_vars(Answer)
            /\ \A v \in Viewers : WF_vars(Viewer(v))
            /\ \A o \in Offers : WF_vars(WebRTC(o)) /\ WF_vars(OnState(o))
-----------------------------------------------------------------------------
(* Properties *)

Streams(o) == view[o] = "connected" /\ pub[o] = "connected"
Playing(v, panel) == LET o == <<v, panels[v][panel]>> IN o \in Offers /\ Streams(o)

\* Once the failures have stopped, every viewer that has not gone gets the video, whatever
\* was under way when a websocket broke or the publisher's process died: an offer that
\* was lost, an answer that found nobody, a connection only one end believes in.
\* (The wrist panel gets it.  Once the publisher's process has been replaced, both new
\* tracks go there and the global panel keeps a dead one: page.tsx:53, webrtc.ts:28.)
ViewerGetsVideo ==
  \A v \in Viewers :
    <>[](vlink[v] = "closed" \/ (Playing(v, "wrist") /\ panels[v]["wrist"] = current[v]))

Serves(o) == pub[o] \in {"new", "answered", "connected"}

\* The publisher serves at most one connection per viewer: the offer of a viewer that is
\* back finds the earlier connection closed or failed, if handlers are Prompt.  (Unless the
\* publisher still had a connection of the viewer when it last joined: then it has two, since
\* an offer replaces the viewer's entry in the table and closes nothing, publisher.py:208.)
OneConnectionPerSession ==
  \A v \in Viewers : OffersOf(v) \cap earlier = {} =>
    \A o, p \in OffersOf(v) : Serves(o) /\ Serves(p) => o = p

\* When a viewer has gone for good, the publisher stops serving it, unless it had a
\* connection of the viewer when it last joined: one that it had before may outlive the
\* viewer's page, which does not refer to it any more.
ViewerIsLetGo ==
  \A v \in Viewers : vlink[v] = "closed" ~>
    OffersOf(v) \cap earlier # {} \/ \A o \in OffersOf(v) : ~Serves(o)
=============================================================================
