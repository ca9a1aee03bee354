------------------------------ MODULE RosBridge ------------------------------
(***************************************************************************)
(* A leader and the ROS 2 node of the follower, of leader_bridge.py and    *)
(* follower_bridge.py in ros2_ws/src/teleop_bridge, with the link between  *)
(* them.                                                                   *)
(*                                                                         *)
(* The leader is the leader bridge, which forwards the joint states it     *)
(* hears, or a LeaderNode, which numbers its commands alike.  On the       *)
(* follower's side the transport's thread calls, for every command, the    *)
(* handlers that are subscribed when it arrives: the controller's and the  *)
(* node's own, which publishes it on /joint_commands.  The node's main     *)
(* thread starts and stops the controller and subscribes, and the          *)
(* controller's own thread validates the last command.                     *)
(*                                                                         *)
(* A command is told apart by its connection and number, by whether it has *)
(* positions, and by whether one of them breaches a hard limit.  The names *)
(* of the joints, which the node remembers from one command to another,    *)
(* are left out.  The watchdog, the soft limits and the arm are in         *)
(* Follower.tla.                                                           *)
(***************************************************************************)
EXTENDS Integers, Sequences

CONSTANTS
  MaxConns,   \* bound on the connections the leaders open
  MaxSends    \* bound on the commands sent

ASSUME BridgeAssumption == MaxConns \in Nat \ {0} /\ MaxSends \in Nat

VARIABLES
  conn,          \* the connection of the leader
  seq, sends,    \* LeaderBridge._seq, and all commands sent so far
  wire,          \* what each connection of a leader still carries
  stage,         \* the node: its main thread between __init__ and destroy_node
  frame, todo,   \* the transport's thread: the command and the handlers it has yet to call
  lastSeq,       \* FollowerController._last_seq
  latest,        \* FollowerController._latest, as a sequence of at most one
  estopped,      \* SafetyController._estopped
  issued         \* what the node has published on /joint_commands

leaderVars == <<conn, seq, sends>>
rxVars == <<frame, todo>>
ctlVars == <<lastSeq, latest, estopped>>
vars == <<leaderVars, wire, stage, rxVars, ctlVars, issued>>

Conns == 1..MaxConns
Commands == [conn : Conns, seq : Nat \ {0}, empty : BOOLEAN, breach : BOOLEAN]
Handlers == {"controller", "node"}

TypeOK ==
  /\ conn \in Conns
  /\ seq \in Nat /\ sends \in 0..MaxSends
  /\ wire \in [Conns -> Seq(Commands)]
  /\ stage \in {"made", "controlled", "up", "stopped", "closed"}
  /\ frame \in Seq(Commands) /\ Len(frame) <= 1
  /\ todo \in Seq(Handlers)
  /\ lastSeq \in Nat \cup {-1} /\ latest \in Seq(Commands) /\ Len(latest) <= 1
  /\ estopped \in BOOLEAN
  /\ issued \in Seq(Commands)

Init ==
  /\ conn = 1 /\ seq = 0 /\ sends = 0
  /\ wire = [c \in Conns |-> <<>>]
  /\ stage = "made" /\ frame = <<>> /\ todo = <<>>
  /\ lastSeq = -1 /\ latest = <<>> /\ estopped = FALSE
  /\ issued = <<>>
-----------------------------------------------------------------------------
(* The leader and the link. *)

\* Mutant: the number is taken before it is counted up.
OnJointsUncounted(empty, breach) ==
  /\ sends < MaxSends /\ ~(empty /\ breach)
  /\ sends' = sends + 1 /\ seq' = IF seq = 0 THEN 1 ELSE seq
  /\ wire' = [wire EXCEPT ![conn] =
       Append(@, [conn |-> conn, seq |-> seq', empty |-> empty, breach |-> breach])]
  /\ UNCHANGED <<conn, stage, rxVars, ctlVars, issued>>

OnJoints(empty, breach) ==
  /\ sends < MaxSends /\ ~(empty /\ breach)
  /\ sends' = sends + 1 /\ seq' = seq + 1
  /\ wire' = [wire EXCEPT ![conn] =
       Append(@, [conn |-> conn, seq |-> seq', empty |-> empty, breach |-> breach])]
  /\ UNCHANGED <<conn, stage, rxVars, ctlVars, issued>>

Reconnect ==
  /\ conn < MaxConns /\ conn' = conn + 1
  /\ UNCHANGED <<seq, sends, wire, stage, rxVars, ctlVars, issued>>

\* Another process, of the same program or of the other one, numbers from 1 again.
RestartLeader ==
  /\ conn < MaxConns /\ conn' = conn + 1
  /\ seq' = 0
  /\ UNCHANGED <<sends, wire, stage, rxVars, ctlVars, issued>>

\* A command may be lost on the way, or sent while there is no connection at all.
Lose(c) ==
  /\ wire[c] # <<>>
  /\ wire' = [wire EXCEPT ![c] = Tail(@)]
  /\ UNCHANGED <<leaderVars, stage, rxVars, ctlVars, issued>>

Leader == (\E empty, breach \in BOOLEAN : OnJoints(empty, breach))
          \/ Reconnect \/ RestartLeader \/ \E c \in Conns : Lose(c)
-----------------------------------------------------------------------------
(* The transport's thread: _dispatch, and the two handlers. *)

\* Mutant: the node subscribes before it starts the controller.
SubscribedNodeFirst == IF stage = "made" THEN <<>>
                       ELSE IF stage = "controlled" THEN <<"node">>
                       ELSE <<"node", "controller">>

\* controller.start() subscribes the controller, and the node itself comes after it.
Subscribed == IF stage = "made" THEN <<>>
              ELSE IF stage = "controlled" THEN <<"controller">>
              ELSE <<"controller", "node">>

\* The handlers are listed once, before the first is called.
Dispatch(c) ==
  /\ stage # "closed" /\ frame = <<>> /\ wire[c] # <<>>
  /\ wire' = [wire EXCEPT ![c] = Tail(@)]
  /\ todo' = Subscribed
  /\ frame' = IF Subscribed = <<>> THEN <<>> ELSE <<Head(wire[c])>>
  /\ UNCHANGED <<leaderVars, stage, ctlVars, issued>>

Called == /\ todo' = Tail(todo)
          /\ frame' = IF Len(todo) = 1 THEN <<>> ELSE frame

\* Mutant: commands are kept until they have been validated.
AcceptAll ==
  /\ frame # <<>> /\ Head(todo) = "controller"
  /\ Called
  /\ IF frame[1].seq > lastSeq
       THEN lastSeq' = frame[1].seq /\ latest' = latest \o frame
       ELSE UNCHANGED <<lastSeq, latest>>
  /\ UNCHANGED <<leaderVars, wire, stage, estopped, issued>>

\* FollowerController._on_command.
Accept ==
  /\ frame # <<>> /\ Head(todo) = "controller"
  /\ Called
  /\ IF frame[1].seq > lastSeq
       THEN lastSeq' = frame[1].seq /\ latest' = frame
       ELSE UNCHANGED <<lastSeq, latest>>
  /\ UNCHANGED <<leaderVars, wire, stage, estopped, issued>>

\* FollowerBridge._on_command: raw, past the controller, if there is anything in it.
Republish ==
  /\ frame # <<>> /\ Head(todo) = "node"
  /\ Called
  /\ issued' = IF frame[1].empty THEN issued ELSE Append(issued, frame[1])
  /\ UNCHANGED <<leaderVars, wire, stage, ctlVars>>

Transport == (\E c \in Conns : Dispatch(c)) \/ Accept \/ Republish
-----------------------------------------------------------------------------
(* The controller's thread, and the node's main thread. *)

Validate ==
  /\ stage \in {"controlled", "up"}
  /\ latest # <<>> /\ ~estopped /\ latest[1].breach
  /\ estopped' = TRUE
  /\ UNCHANGED <<leaderVars, wire, stage, rxVars, lastSeq, latest, issued>>

Goes(from, to) ==
  /\ stage = from /\ stage' = to
  /\ UNCHANGED <<leaderVars, wire, rxVars, ctlVars, issued>>

StartController == Goes("made", "controlled")
Subscribe == Goes("controlled", "up")
StopController == Goes("up", "stopped")
\* The transport's thread closes the socket when it is in no handler.
CloseTransport == frame = <<>> /\ Goes("stopped", "closed")

\* The node is launched again.
Launch ==
  /\ stage = "closed" /\ stage' = "made"
  /\ lastSeq' = -1 /\ latest' = <<>> /\ estopped' = FALSE
  /\ issued' = <<>>
  /\ UNCHANGED <<leaderVars, wire, rxVars>>

Node == StartController \/ Subscribe \/ StopController \/ CloseTransport \/ Launch

Next == Leader \/ Transport \/ Validate \/ Node

Spec == Init /\ [][Next]_vars
-----------------------------------------------------------------------------
(* Properties. *)

\* The node publishes nothing the controller has not been offered: the watchdog and the
\* count of the controller know of every command that has left for the robot, whenever
\* in the start of the node it came (follower_bridge.py:56-62).  Whether the controller
\* still runs, and what it makes of the command, is another matter.
OfferedFirst == \A i \in DOMAIN issued : issued[i].seq <= lastSeq

\* The node compares no numbers, yet what a leader sent over one connection is never
\* published twice or out of order by one process, whatever was lost and whenever the
\* node subscribed (leader_bridge.py:53-62, follower_bridge.py:67-78).  Over several
\* connections it can be.
InOrder ==
  \A i, j \in DOMAIN issued :
    i < j /\ issued[i].conn = issued[j].conn => issued[i].seq < issued[j].seq

\* "runs them through the independent FollowerController (safety + watchdog + arm driver),
\* and republishes the resulting commands" (follower_bridge.py:3-6): once a command has
\* latched the emergency stop, nothing results from it or from a later one.
StoppedIsSilent == [][estopped /\ estopped' => issued' = issued]_vars
=============================================================================
