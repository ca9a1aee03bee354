# Formal models of the 6-DoF teleoperation system

A leader (a human with a keyboard or a leader arm) drives a six-axis follower
arm over the Internet. This directory holds TLA+ models of the parts of the
system where concurrency, loss and order matter, TLC configurations that check
them on small instances, and proofs of their invariants for every instance.

    tlc -workers 2 -config MCFollower.cfg MCFollower     # a run
    tlapm FollowerProofs.tla                             # the proofs

## The system

| Component (`src/teleop/...`) | State | Operations | Reached by |
|---|---|---|---|
| follower controller (`follower/controller.py`) | last command and number, holding flag, statistics | `_on_command` (transport thread), `_tick` and `_publish_feedback` (control thread, 100 Hz) | transport |
| safety controller (`follower/safety.py`) | E-stop latch, time of last command | `validate`, `comms_lost`, `trigger_estop`, `reset_estop` | follower controller, both threads |
| mock arm (`sim/mock_arm.py`) | positions, targets, gripper, status | `apply_command`, `hold`, `estop`, `step`, `read_state` | control thread only |
| leader node (`leader/teleop_node.py`) | sequence number, last follower state | `_loop`, `_on_state`, `_on_status` | transport, input source |
| network monitor (`network/monitor.py`) | RTT window, sent, acknowledged, last stamp | `on_command_sent` (leader thread), `on_feedback` (transport thread), `telemetry` (feed thread) | leader node, operator feed |
| transports (`transport/`) | subscribers, queue or socket | `publish`, `subscribe`, dispatch, `close` | everybody |
| session registry (`cloud/session_registry.py`) | peers of each session, when last seen | `join`, `leave`, `heartbeat`, `peers`, `prune` | signaling server |
| signaling server (`cloud/signaling_server.py`) | hub: socket and session of each peer id | one handler per connection; `GET /sessions` prunes | clients over websockets |
| operator feed (`cloud/telemetry_relay.py`) | last guidance | 10 Hz feed task, guidance task, reconnection | signaling server |
| supervisor (`agent/supervisor.py`) | none | `supervise` (rules), `guidance` (LLM) | operator feed |
| recorder (`recording/recorder.py`) | current episode | `start`, `record`, `stop` | callers |
| video publisher (`video/publisher.py`) | a peer connection per viewer | offer, candidate, peer-left, state callback | signaling server, WebRTC |
| operator UI (`ui/`) | signaling client, viewer | connect, heartbeat, reconnect, negotiate | signaling server, publisher |
| ROS 2 bridge (`ros2_ws/src/teleop_bridge`) | leader: number; follower: names heard last, its own controller | `_on_joints`; `_on_command`, `__init__`, `destroy_node` | ROS topics, websocket transport |
| scripts | keyboard targets | jog, hold, wiring | leader, follower |

What is hard in it:

- the follower's two threads share the last command, its number, the holding
  flag and the E-stop latch, and only part of the accesses are under the lock;
- the link loses, delays and reorders commands, and the leader may restart and
  number its commands from 1 again;
- the watchdog races the command that ends the silence it has noticed;
- every handler of the server can be suspended in a send while peers leave, are
  pruned and reconnect; hub and registry are updated in different places;
- the video publisher and the viewer replace connections under callbacks of old
  ones; the websocket transport is driven from three threads;
- a recording consists of two files, and writing either may fail;
- the ROS 2 follower takes commands on two paths, through its controller and past it,
  while it is being started and stopped.

For each component, what makes it correct:

- follower: never past the soft limits; frozen while it holds and after a breach;
  nothing from before a loss moves the arm after it; a lost link ends in a hold;
  an accepted command is acted on;
- relay: hub and registry name only who is there; a participant that is there can be
  reached; participants find each other and are told of departures;
- monitor: latency, loss and "connected" say what the link does;
- websocket transport: nothing is sent twice, what one connection carries keeps
  its order, messages are lost to disconnections only, and `close` leaves no thread;
- operator feed: what the operator sees belongs together; guidance catches up
  after a reconnection;
- supervisor: loss of connection is the most severe advisory and reaches the operator;
- recorder: what was saved stays, its files agree, no episode vanishes unnoticed;
- video session: a viewer gets the video again after any failure, and leaves no connection
  behind;
- ROS 2 bridge: what it publishes is in order and known to the controller beside it.

## Modules

| Module | Models | How |
|---|---|---|
| `MockArm` | `sim/mock_arm.py` | operators on a record, called where the controller calls the methods |
| `SafetyController` | the decision of `follower/safety.py` | `Validate` and the operators it is made of; latch and watchdog clock are variables of `Follower` |
| `Follower` | `follower/controller.py` with arm and safety controller, a leader and a link | see below |
| `MotionGate` | what the follower promises of the commands it lets through | abstract specification; `Follower` refines it |
| `Relay` | `cloud/session_registry.py`, `cloud/signaling_server.py` and their clients | see below |
| `NetworkMonitor` | `network/monitor.py` | operators on a record |
| `RuleEngine` | the rules of `agent/supervisor.py`, the offline guidance | pure operators |
| `OperatorFeed` | `cloud/telemetry_relay.py` with monitor, rules and the leader's feedback handlers | see below |
| `WsTransport` | `transport/ws_transport.py`: the ws-tx thread, the publishing and the closing one | see below |
| `LossyLink` | what a transport promises | abstract specification; `WsTransport` refines it, and the link of `Follower` is one |
| `VideoSession` | `video/publisher.py` with `ui/lib/signaling.ts`, `ui/lib/webrtc.ts` and the page | see below |
| `Recorder` | `recording/recorder.py` | see below |
| `RosBridge` | `leader_bridge.py` and `follower_bridge.py` of `ros2_ws`, with the link between them | see below |
| `MCFollower`, `MCRelay`, `MCOperatorFeed`, `MCWsTransport`, `MCVideoSession`, `MCRecorder`, `MCRosBridge` | constants for TLC | |
| `FollowerProofs`, `RelayProofs`, `OperatorFeedProofs`, `WsTransportProofs`, `VideoSessionProofs`, `RecorderProofs`, `RosBridgeProofs` | theorems | |

Definitions that end a comment "Mutant of ..." are wrong variants of the
definition below them. No specification uses them; putting one in the place of
the original shows that a property notices the error.

### Follower

One tick of the control thread is the sequence `watch`, `hold`, `gate`, `fetch`,
`validate`, `act`, `publish`, the values of `pc`. Each step makes at most one
access to state that the other thread writes:

| Code | Action |
|---|---|
| `comms_lost()` (`controller.py:101`) | `WatchAlive`, `WatchLost` |
| `and not self._holding`, `arm.hold()`, `_holding = True` (101-104) | `EnterHold` |
| the gate (106-108) | `GateClosed`, `GateOpen` |
| `with self._lock: cmd = self._latest` (110-114) | `Fetch`, `FetchNone`, which wait for the lock |
| `safety.validate(cmd)` (116) | `ValidateCommand` |
| the verdict and `arm.step` (117-130) | `Act` |
| `_publish_feedback` (132-144) | `PublishFeedback` |

`_on_command` runs under the lock and is two steps: `OnCommand` accepts
(numbers, command, time stamp) and `ExitHold` clears the flag, because the
control thread reads time stamp and flag without the lock. Commands that do not
parse or are not newer are discarded by `OnMalformed` and `OnStale`.

`EnterHold` reads the flag and sets it in one step, and the gate reads flag and
latch in one. Both are coarser than the code; between these reads the other thread can
only clear the flag, which leads to the state of clearing it before or after the
step (for `EnterHold` the window is that of `arm.hold()`).

Time is an age of the last command that stops just past the timeout.
`ClockTick` is not taken between the time stamp of a command and the end of
`_on_command`, unless the follower is holding: then a log call lies between
them, which may block. Without that assumption the transport thread could sleep
through the timeout inside its critical section and clear a hold that
began in between. The guard says that a few bytecodes take less than the 0.5 s
of the timeout; `ExitIsFresh` in the invariant is where it is needed.

A command that arrives after the watchdog has found the link lost and before it enters
the hold clears a flag that is not set yet: the hold begins after it, and lasts until the
next command. `CommandIsJudged` leaves that command out.

Three variables are history only: `vetted`, the number of the command executed
last, `lossSeq`, the newest number at the last loss, and `tripped`, which is set
when validation answers with an E-stop and cleared by the reset.

Left out: statistics counters, velocities (no decision depends on them),
contents of log lines, time stamps other than the leader's. `Workspace` is the
set of configurations whose forward kinematics lies in the volume. Angles are
integers; that `step` reaches a target within 1e-4 is exact here.

### Relay

The state of a connection's handler is `pc`: waiting for a frame (`receive`),
waiting for its reply to a join to be written (`reply`), sending a frame to the
peers in `pending` one at a time (`send`), or the same from its `finally`
(`farewell`). Handlers run on one event loop, so what lies between two awaits is
one action; `BeginSend` looks up the socket, and `Delivered`, `LostInBuffer` or
`Unreachable` end the await. The exception handler of `hub.send` looks the peer
id up again, after the await, as in the code. `Prune` and `GoStale` model
`GET /sessions` and silence for the TTL; peers in `Heartbeaters` are
not silent while they are connected.

Clients connect at most once per member of `Conns`. A participant has one
connection at a time, and when that has gone it may be back at once, before the
server has noticed anything. Participants of different sessions may have the
same peer id (`Namesakes`), for which the hub, keyed by peer id, has one place.
`OnRelayed` sends a frame that names an addressee to that peer id, of whichever
session, and does not ask whether the sender has ever heard of it
(`signaling_server.py:186-188`).

`alone` is history: the connections that have had their peer id to themselves.
When such a one was opened, whatever was left of earlier ones had been cleaned up
(`Forgotten`), and none of its id has been opened since. `Sole` is such a client that
has joined and is still there. `knows` is history as well: whom a client has been told of
and not been told since that it left.

Left out: roles, ICE servers, `/health`, frames that are not JSON, clients that
join twice on one connection (none does).

Frames of a kind that is not in `RelayedKinds` are logged and dropped, as in the
code. The operator feed sends one such kind, `guidance`
(`telemetry_relay.py:115`), though `README.md:110-112` of the repository
promises it to the operator.

### OperatorFeed

The chain from the follower's echo to the operator's screen: the leader's loop
counts commands, the transport thread hands feedback to `_on_state` and
`_on_status`, the event loop runs the feed task and the guidance task.

| Code | Action |
|---|---|
| `_publish` (`teleop_node.py:88-98`) | `SendCommand` |
| the echo of the follower, `_on_status`, `_on_state` | `FollowerAccept`, `OnStatus`, `OnState` |
| `websockets.connect` ... `ensure_future` (`telemetry_relay.py:59-69`) | `Connect` |
| reading the providers and the rules in `_broadcast` (84-86) | `Sample` |
| its three sends | `SendState`, `SendTelemetry`, `SendAdvisory`; `SendRaises` |
| `_guidance_loop` up to `run_in_executor`, and after it | `Ask`, `Answer` |

The link is the weakest that the transports can be: a command that was sent may
be accepted at any time or never, and whatever the follower has ever reported
may arrive at any time and repeatedly. With `PriorStamps` the follower may still
echo a stamp of an earlier run of the leader. A stamp is the position of its
command in the order of sending; its age is in `elapsed`. Figures are reduced
to what the rules ask of them. State and telemetry are read in one step: no
rule relates the two. Advisories of several joints are one.

`RuleEngine` keeps the two calls of the offline guidance apart: `Guidance` is
`Supervisor.guidance`, `Complete` the answer of `MockLLM`. `Triage` sorts by severity, as
the code's stable sort with two severities does: the critical advisories in their
order, then the others. `Only`, which picks either kind, is a recursive function.

Left out: `stop()`, the rate of the tasks, `report_video_latency` (nobody calls
it), the Ollama backend.

### WsTransport

| Code (`ws_transport.py`) | Action |
|---|---|
| `_main`: connect, receive, the two ways a connection ends, the back-off | `ConnectOk`, `ConnectFails`, `ReceiveEnds`, `ReceiveRaises`, `Wake` |
| the end of `_run_loop` and of the thread | `StopLoop`, `CloseLoop`, `ThreadEnds` |
| `publish`: the read of `_ws`; `run_coroutine_threadsafe`; the task | `PublishRead`, `PublishSchedule`, `RunSend` |
| `close` | `Close`, `Post`, `Result`, `Join`, `ForceStop`, `Rejoin` |
| `_shutdown` | `ShutdownStarts`, `Handshake`, `ShutdownEnds` |
| server and network | `Break`, `Notice`, `Arrive`, `LoseRest` |

A connection is `open`, `cut` (it looks open, but the network has gone; its
keepalive fails later, `Notice`), closed cleanly, or broken. The difference
matters: after a clean close `_main` connects again at once, without back-off,
and `_ws` keeps the closed socket meanwhile; after an exception `_ws` is `None`.
`publish` reads `_ws` in one step and schedules the send in another, so the
socket may be an old one when the task runs; the task then raises, and the
message is lost.

`close()` may raise. When the thread is alive at the first join and closes its
loop before `call_soon_threadsafe`, that call raises, and nothing catches it.
`CloseEnds` counts that as an end: the thread is gone in either case.

Left out: the inbound half (`_dispatch`, `subscribe`), which shares no state
with this one, and topics.

### VideoSession

The viewer makes an offer when it learns of a follower: from the reply to its
join, or when one joins later. The publisher makes an `RTCPeerConnection` for
each offer and answers it. A connection is named by viewer and number of the
offer; `pub` and `view` are the states of its two ends, `table` is `_pcs` and
`current` the `pc` of the viewer the page refers to.

| Code | Action |
|---|---|
| `_session`, `run` of the publisher | `PubJoin`, `PubBreak`, `PubCrash` |
| `_on_offer` up to its first await, and after the last | `OnOffer`, `Answer` |
| `peer-left` in `_handle`; the handler of `connectionstatechange` | `OnPeerLeft`, `OnState` |
| `SignalingClient.connect`, `joined`, `peer-joined` | `ViewerJoin`, `OnJoined`, `OnFollower` |
| `VideoViewer.connectTo`, `onAnswer`, `ontrack` | `ConnectTo`, `OnAnswer`, `OnTracks` |
| the page lets go of a session | `CloseSession` |
| what WebRTC does by itself | `Establish`, `ConsentExpires`, `GiveUp` |

The signaling server is taken as `Relay` shows it: it keeps the order of frames
and notices departures before the peer is back. `OnState` removes whatever
connection the table has for the viewer, as in the code; `OnFollower` opens
a new connection without closing the earlier one; an answer is taken for the
answer to the newest offer; and the second track of a viewer that has tracks
already goes to the wrist panel.

`Prompt` says that a frame and its handler take less than the one or two seconds
after which a client reconnects. Without it `ViewerGetsVideo` fails: the answer
to an offer made before the reconnection is taken for the answer to the
offer made after it, and the real one is refused. The connection then fails, and
nothing makes the page offer again. The runs have `Prompt = TRUE`.

When only the publisher's websocket breaks, its connections go on. A viewer that is
told of it again makes a second offer, which overwrites the viewer's entry in `_pcs`
and closes nothing: it then has two connections, and when the first fails, its
callback takes the second out of the table. `earlier` is history: the
connections the publisher had when it last joined. The two properties that count
connections are about viewers that had none then, so they do not catch this case: that
the publisher keeps one connection per viewer (`publisher.py:5`) is not true of it.

`GiveUp` is for an end that was never connected: the publisher's after an answer that
nobody has taken or will take, the viewer's after one that did not match or whose
sender's end has failed or closed. An answer that is still on its way keeps the
publisher's end waiting (`AnswerIsComing`), because ICE waits longer than a frame takes.

Left out: ICE candidates, camera sources, the statistics poll, the publisher's
`close()` (it runs when the process ends, and the model has the process end
without it).

### Recorder

`Stop` forgets the episode and begins to write it, `WriteMeta`, `WriteParquet`
and `WriteJsonl` write the files, whole, in part or not at all; an exception
outside of the Parquet writer is the caller's (`Raises`). `start()` while an episode is
recorded is `Stop(TRUE)`: it finishes that episode first, and starts nothing
if writing raises. `Crash` ends the process; the files stay. A frame is a
number in a count; the file of an episode is named by the second of its start
(`Stamps`), as the wall clock has it. The clock may be set back and two episodes may
start within a second, so any start may come in any second: also in one of an earlier
episode, whose files it then takes. `Overtaken(e)` says that this has happened to `e`.
`saved` and `lost` are history: the episodes for which `stop()` returned, and the others
that have ended.

### RosBridge

| Code | Action |
|---|---|
| `LeaderBridge._on_joints`, or `LeaderNode._publish` | `OnJoints` |
| another leader process; the transport's reconnection | `RestartLeader`, `Reconnect` |
| `WebSocketTransport._dispatch`: the handlers are listed, then called | `Dispatch` |
| `FollowerController._on_command`, `FollowerBridge._on_command` | `Accept`, `Republish` |
| `FollowerBridge.__init__`: `controller.start()`, then `subscribe` | `StartController`, `Subscribe` |
| `destroy_node`: `controller.stop()`, then `tx.close()` | `StopController`, `CloseTransport` |
| `validate` latching the E-stop | `Validate` |
| the node is launched again | `Launch` |

The transport's thread handles one command at a time and calls those handlers that
were subscribed when it began; the node's main thread may subscribe or stop the
controller between any two calls. A stopped controller stays subscribed. The
controller's loop, its watchdog and the arm are those of `Follower`; here
it only latches its E-stop, on a command that breaches a hard limit.

A command is told apart by whether it has positions (the node publishes none that has
not) and whether one of them breaches a hard limit. A reconnection leaves frames of the
old connection on the way, so a command of it may come after newer ones.

Left out: the names of the joints. The node publishes the names it heard last
(`follower_bridge.py:68-72`), so after a leader bridge has been replaced by a `LeaderNode`,
which sends none, positions go out under the names of the other's joints; that is one
assignment and one read in the same handler, and a property of it would restate them.
Also left out: the mirrors of state, status and diagnostics, which keep nothing (those of
the follower never get a frame: the server sends none back to its sender,
`signaling_server.py:190`); the gripper, which the leader bridge sends as one more
position and the follower cuts off (`safety.py:82`); and the camera bridge.

## Runs

| Run | Configuration | Checks | Shows |
|---|---|---|---|
| `follower` | `MCFollower.cfg` | `TypeOK`, `HoldFreezesJoints`, `WithinSoftLimits`, `ResumesOnFresh`, `LoopInv`, `TargetsVetted`, `BreachFreezesJoints`, `ImplementsGate`, `LossIsHeld`, `CommandIsJudged` | safety in all interleavings of the two threads, with E-stops triggered and reset from outside; a lost link ends in a hold, and an accepted command is judged unless it is overtaken, times out or is stopped (229 thousand states) |
| `relay` | `MCRelay.cfg` | `TypeOK`, `NoGhosts`, `SoleIsReachable`, `Rendezvous`, `FarewellIsHeard` | a leader that leaves and comes back whenever it likes and sends no heartbeats, a follower that sends them, frames to all and to one, and sessions listed at any time (424 thousand) |
| `feed_safety` | `MCOperatorFeed_safety.cfg` | `TypeOK`, `CountedOnce`, `FeedConsistent` | nothing is acknowledged twice, a broadcast is consistent (1.2 million) |
| `feed_live` | `MCOperatorFeed_live.cfg` | `CutIsReported`, `GuidanceCatchesUp` | a cut link reaches the operator (168 thousand) |
| `ws_transport` | `MCWsTransport.cfg` | `TypeOK`, `OrderKept`, `ImplementsLink`, `LostOnlyWhenDown`, `CloseEnds`, `BackOnLine` | what publishing over three connections loses and keeps, reconnection, and `close()` at any moment (78 thousand) |
| `video` | `MCVideoSession.cfg` | `TypeOK`, `OneConnectionPerSession`, `ViewerGetsVideo`, `ViewerIsLetGo` | the video comes back after three failures at any point of the negotiations; a viewer that has gone is let go, and one that comes back finds no connection of its own still open, unless the publisher rejoined with it (73 thousand) |
| `recorder` | `MCRecorder.cfg` | `TypeOK`, `SavedStays`, `Accounted`, `CountsAgree` | three episodes, some with the same file names, with any write failing and the process ending anywhere (1.06 million) |
| `ros_bridge` | `MCRosBridge.cfg` | `TypeOK`, `OfferedFirst`, `InOrder` | four commands of leaders that reconnect and restart, and a node that starts, stops and is launched again (192 thousand) |

Runs that end in a counterexample, each against a sentence of the documentation
or of a comment (quoted in `PROJECT.json`, "findings"):

| Run | Configuration | Violates | What happens |
|---|---|---|---|
| `estop_status` | `MCFollower_status.cfg` | `StopIsReported` | the watchdog's hold replaces the ESTOP status of the arm, whose gripper then moves again |
| `relay_reconnect` | `MCRelay_reconnect.cfg` | `LivePeerReachable` | the old connection's handler removes the new connection |
| `relay_namesakes` | `MCRelay_namesakes.cfg` | `PublishStaysInSession` | the follower of another session takes the place of this one's in the hub, and gets what is published here |
| `ros_stop` | `MCRosBridge_stop.cfg` | `StoppedIsSilent` | the ROS 2 node publishes commands after its own controller has latched the E-stop on one |

So some of the properties that hold say less than one would wish, because the code does
not do more:

- `SoleIsReachable` and `Rendezvous` are about clients that had their peer id to
  themselves; `relay_reconnect` and `relay_namesakes` show what befalls others. A
  place in the registry is promised to clients that send heartbeats only, and `Rendezvous` and
  `FarewellIsHeard` are about clients that are listed or send them. The browser does; the
  control transport, the operator feed and the publisher send none, and one `GET /sessions`
  removes them from the registry 30 seconds after they joined.
- `CommandIsJudged` leaves out a command that arrives while the watchdog is about to
  begin a hold, above.
- `TargetsVetted`: commands carry no pose of their own; one that does is judged by
  the pose and not by its joints. No leader of the repository sends poses.
- `SavedStays` and `CountsAgree` except an episode after which another was started in the
  same second of the clock: that one writes to the same names.
- `ViewerGetsVideo`: `Prompt`, above. It is about the wrist panel: once the publisher's
  process has been replaced, both new tracks go there, and the global panel keeps
  a dead one, because the page counts tracks from the first negotiation on
  (`webrtc.ts:28`, `page.tsx:53`).
- `OneConnectionPerSession` and `ViewerIsLetGo`: `Prompt`, and the publisher had no
  connection of the viewer when it last joined. In that other case a viewer has two
  streams from one broken websocket on.
- `OfferedFirst` counts a controller that has been stopped but is still subscribed: what
  comes between `stop()` and `close()` is offered to it and never validated.
- `InOrder` is about one connection: the node compares no numbers, so a command that was
  still on its way over an earlier connection is published after newer ones.
- `CutIsReported` is about a follower that has answered once: before, `connected` is
  always true (`monitor.py:58`).
- `BackOnLine`: attempts to connect stop failing.

`NoGhosts`, `CountedOnce`, `FeedConsistent`, `Accounted`, `OrderKept`, `ImplementsLink`,
`LostOnlyWhenDown` and the safety properties of the follower but `TargetsVetted` hold
without any such limit.

Reading shows two more limits. A hold ends when a command arrives, not when it was
validated (`controller.py:86`), so one that is then rejected ends it, other than
the header of that file says; `ResumesOnFresh` is what remains true. And a
restarted leader counts from 1 again while the follower compares numbers only
(`controller.py:77`): it is ignored until it has passed the old number.

### Bounds

- `follower`. One joint: the joints do not interact except in `Validate`, where a command
  is judged by its worst joint; that is proved for any set of joints. Soft range
  -2..2, hard range -3..3, speed 1: a motion takes several ticks. Of these configurations
  only 2 is out of the workspace, so that a command for 3 is in the workspace as it was
  given and out of it once it is clamped: the code must judge the clamped one. Each verdict
  has a command that causes it (seven kinds of commands). `MaxSends = 2`: one command before
  a loss, or delayed through it, and one after it; one of a leader and one of the restarted
  leader. That more commands do nothing new is what the proofs show.
  `CommandTimeout = 1` unit: fresh, at the limit, past it.
- `relay`: two connections of the leader, so that it reconnects early or late, and
  one of the follower. `relay_namesakes`: a leader and a follower in one session, and a
  follower of the same peer id in the other.
- `MCOperatorFeed`: one command beside one of an earlier run, so that a repeat, a
  late echo and one of a previous life meet; an average over one round trip,
  ages of at most 1 with limits 0 and 1, so that latency is fine or worth a
  warning; `AckTimeout = 0`: connected is lost with the first unit of silence.
  One state of the robot, with an advisory of its own.
- `ws_transport`: two messages, so that one can overtake another, and three
  connections, so that a task scheduled for one can run under the next and
  that one break again. The last connection does not break, or liveness would
  end with the bound.
- `video`: three failures, enough for the viewer's websocket, the publisher's
  and its process to fail once each, in any order. One viewer: viewers share only
  the publisher's inbox.
- `ros_bridge`: two connections, so that the second can be a reconnection or another
  leader with frames of the first still on the way; four commands, so that each
  connection can carry two, one of them handled while one waits and one was published.
  The node is launched any number of times.
- `recorder`: three episodes, two frames and one intervention, so that there are frames
  to miss, and two seconds to start in: two of three episodes share their names, or all do.

`MCRosBridge` has no deadlock: the node can always be stopped or launched again.
The runs of `MCRelay`, `MCWsTransport`, `MCVideoSession` and `MCRecorder` switch deadlock
checking off: when every connection has been used and closed, every message published,
every viewer closed or every episode recorded, the model has nothing left to do.

### Fairness

- `Follower`: weak fairness of the control thread and of the end of `_on_command`:
  threads of one process that wait for nothing but a lock held for a few statements.
  Nothing is assumed of leader, link, E-stop and its reset, nor of time: a command must
  be judged however little time passes. `LossIsHeld` assumes, in its premise, that
  delivery ends and time goes on.
- `Relay`: weak fairness of sends, which end one way or the other, strong
  fairness of `OnDisconnect`: the server pings its clients, so a closed
  connection is noticed after the finitely many frames that had arrived on
  it. Strong, because handling these frames disables it again and again.
  Clients need not do anything.
- `OperatorFeed`: weak fairness of the two tasks and of time, strong fairness of
  `SendRaises`: the library pings, so a broken connection is found out, though
  not always by the send that is next. That feedback stops and the feed's own
  connection stays in the end are premises of the properties.
- `WsTransport`: weak fairness of the loop and its tasks, of `loop.stop` once it is
  scheduled, of the keepalive, and of the thread inside `close()`, whose waits all have
  timeouts. Nobody has to publish, to close or to break anything.
- `VideoSession`: weak fairness of both ends' handlers and reconnections, which
  have no limit of attempts, and of WebRTC for two ends that agree on an offer and answer.
  `GiveUp` and everything a failure does is not fair.
- `RosBridge` states none: its properties are safety only.

## Proofs

`FollowerProofs` proves of every set of joints, limits, workspace, commands,
timeout and any number of sends:

- `LoopInvariant`: `Spec => []LoopInv`, and from it `TypeCorrect`,
  `HoldIsFrozen`, `SoftLimitsHold` and `ResumptionIsFresh`;
- `FollowerImplementsGate`: every step of the follower is a step of `MotionGate`
  or leaves its variables alone;
- `BreachIsFrozen`, with E-stops triggered and reset from outside at any time;
- `TargetsAreVetted`: if no command carries a pose of its own.

`LoopInv` is needed because no property above is inductive. `HoldFreezesJoints`
needs that a hold cannot begin between gate and act (`GatedByHold`: only the
control thread begins one). `ResumesOnFresh` needs that a hold ends only with a
command newer than the loss that began it: the thread about to end it has just
accepted one (`ExitIsFresh`), and while it has not, either the hold lasts or the
watchdog is about to begin it (`Resumable`). The refinement needs in addition that numbers
executed are never ahead of numbers accepted (`HistoryBehind`) and that the
fetched command was the newest when it was fetched (`FetchedIsFresh`).

`RelayProofs` proves, for any peers, sessions, connections and reconnections:

- `RelayTypeCorrect` and `NoGhostsEver`, without conditions. `NoGhosts` is
  inductive together with `TypeOK`: entries are only added for a connection whose
  handler is serving it, and a handler that stops serving removes what its
  connection may stand for.
- `SoleClientsAreReachable`, also without conditions: ids may be shared, clients come
  back whenever they like, and any of them may be silent. `ReachInv` says that nothing is
  left of the other connections of a client that has its id to itself, neither a handler
  that has yet to clean up nor a send that has yet to fail; so whoever removes an entry
  of the hub or the registry removes that of another peer id, or of a client that has gone.
- `RendezvousHolds`: the one that joins later finds the other in its reply, since that is
  listed and stays so; and only a handler that cleans up for the other's peer id
  says that it has left (`FrameInv`), which there is none of while it has that id to itself.

`OperatorFeedProofs` proves `CommandsCountOnce` for every window and number of
commands (all stamps echoed so far are at most the newest one counted, so a
stamp above it is new), and `OperatorSeesConsistently` (a connection that is up
has been up since the feed connected, so the earlier frames of the broadcast
have arrived). `FeedTypeCorrect`, the type invariant, needs that the sort of the
advisories makes sequences of rules. `Only`, which picks one severity, is a
recursive function, and the library's induction theorems cannot be used here. The proof
is by a least counterexample instead: `LeastNat` takes it from the
well-foundedness of `<` on the naturals, which is a statement about sets, and
`SelectsExist` and `SelectsTyped` apply it to the set of lengths at which the
function would not exist, or have a value of another type.

`WsTransportProofs` proves `TransportTypeCorrect`, `OrderIsKept` and
`TransportImplementsLink` for any number of connections and messages. `OrderInv`:
what waits in the tasks of the loop is in the order of publishing and newer than all that
was written, so what is written to one connection is in order, and no number
exists twice. `LostToDisconnectionOnly` proves the action property `LostOnlyWhenDown`
from `RunInv`: until `close()` is called the loop runs, so what is scheduled on it is not
refused, and while `_main` receives, `_ws` is its connection, so `publish` drops nothing
then. A task that is dropped was for a connection that is broken. `Follower` allows its link more than
`LossyLink` does, by letting a restarted leader use numbers again.

`RecorderProofs` proves `RecorderTypeCorrect`, `NoneDisappears`, `SavedForGood` and
`CountsAlwaysAgree`, for any clock. `FilesInv` says that the episode in hand is the latest of
all, that a whole table is of an episode that has ended or is being written, and that the
meta data was written before the table. So a write can only take the files of an episode that
was started earlier in the same second, which is what `Overtaken` says of it from then
on (`OvertakenStays`).

`VideoSessionProofs` proves `VideoTypeCorrect`, for any viewers and any number of failures.
The type invariant is not inductive: that an offer has a number left takes counting. A
viewer offers once for each time it finds the publisher or is found by it, so
the offers made and the invitations in its mail are at most the failures so far,
plus one while both are there (`BudgetInv`).

`RosBridgeProofs` proves, for any number of connections and commands:

- `BridgeTypeCorrect` and `OfferedBeforePublished`, without conditions. `HandlersOk`
  says that when only the node's handler is left to call, the controller has had the
  number of the command, also while the node is being started or stopped.
- `PublishedInOrder`. The node compares nothing, so the invariant is about the wire: a
  command that was taken from a connection, is in hand or was published, came before
  whatever that connection still carries (`Past`, `WireOk`).

Every invariant and every action property that a passing run checks is a theorem, but for
`OneConnectionPerSession`: it holds under `Prompt`, which the code does not establish, so
a theorem would say no more than the run. Only model-checked are, besides, the liveness
properties, which are out of reach of the prover: `LossIsHeld`, `CommandIsJudged`,
`FarewellIsHeard`, `CutIsReported`, `GuidanceCatchesUp`, `CloseEnds`, `BackOnLine`,
`ViewerGetsVideo` and `ViewerIsLetGo`; and, being false, the properties of the runs that
end in a counterexample. `TargetsAreVetted` is proved under the condition that no command
carries a pose; no other theorem has one, but for the types and ranges of the constants.

## Not modelled

- Cameras and the leader's keyboard: device input; a keyboard thread sets values
  that the loop reads, and no step depends on two of them. The soft-stop key sets a
  flag that nothing reads (`run_leader.py:76`).
- The Zenoh transport: a wrapper around a library session without state of its own.
- Loading of YAML, logging, `/health`, `/ice`: no state.
- Of the ROS 2 bridge, the names of the joints, the mirrors of state and status and the camera node: see above. What
  subscribers of `/joint_commands` do is outside the repository.
- Ollama backend and prompt: an external service; the answer of the offline backend
  stands for any text.
- ICE candidates, rendering, and what the page displays of telemetry.
- `close()` and `stop()` of the publisher, the feed and the leader node: the process ends
  with them. The inbound half of the websocket transport: see above.
- Statistics counters: nothing depends on them.
- Exceptions in the control thread: they need a payload with non-numbers in it, which
  no leader here sends.

## Plan

1. `VideoSession` without `Prompt`: what remains true of a viewer whose frames are slow, and a
   run that shows the two connections of a viewer that offers again.
2. The leader's loop and keyboard beside the follower: what a jog that winds a target up
   past the limits does, and that a target which is sent again makes up for loss.
3. Proofs: the safety core of the liveness properties, above all that a follower whose link
   is cut has no other way than into its hold.
