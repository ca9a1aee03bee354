---------------------------- MODULE WsTransport ----------------------------
(***************************************************************************)
(* WebSocketTransport of src/teleop/transport/ws_transport.py: the client  *)
(* end of the control link of leader and follower.                         *)
(*                                                                         *)
(* Three threads share it.  The ws-tx thread runs an event loop with the   *)
(* coroutine _main (connect, receive, reconnect) and the tasks that were   *)
(* scheduled on the loop from outside.  A thread of the program publishes: *)
(* it reads _ws, and then schedules ws.send on the loop; the two steps are *)
(* apart, and the send runs later still.  Another thread calls close().    *)
(*                                                                         *)
(* Connections are numbered in the order they open.  A connection that is  *)
(* "cut" looks open to this end until its keepalive fails.  Waits with a   *)
(* timeout may end at any time; the length of the back-off does not matter *)
(* here.  Receiving (_dispatch, subscribe) changes none of this state.     *)
(***************************************************************************)
EXTENDS Naturals, Sequences

CONSTANTS
  MaxConns,   \* bound on the connections opened; the last one does not break
  MaxMsgs     \* bound on the messages published

ASSUME WsAssumption == MaxConns \in Nat \ {0} /\ MaxMsgs \in Nat

VARIABLES
  running,   \* _running
  ref,       \* _ws: the number of a connection, 0 for None
  main,      \* the ws-tx thread
  conn,      \* what this end knows of each connection
  nconn,     \* the connections opened so far
  nextMsg,   \* the message to be published next
  held,      \* publish() between its read of _ws and the scheduling
  tasks,     \* the ws.send tasks scheduled on the loop
  wire,      \* what was written to each connection and not yet read
  got,       \* what the server has read, and from which connection
  closer,    \* the thread in close()
  shut,      \* the coroutine _shutdown
  stopReq    \* loop.stop was scheduled

linkVars == <<nextMsg, held, tasks, wire, got>>
connVars == <<ref, main, conn, nconn>>
closeVars == <<running, closer, shut, stopReq>>
vars == <<linkVars, connVars, closeVars>>

Conns == 1..MaxConns
Packets == [conn : Conns, msg : 1..MaxMsgs]
None == 0

LoopRuns == main \in {"connecting", "receiving", "sleeping"}
LoopOpen == main \notin {"closed", "dead"}
LooksOpen(c) == conn[c] \in {"open", "cut"}

TypeOK ==
  /\ running \in BOOLEAN
  /\ ref \in Conns \cup {None}
  /\ main \in {"connecting", "receiving", "sleeping", "returned", "closed", "dead"}
  /\ conn \in [Conns -> {"none", "open", "cut", "clean", "error"}]
  /\ nconn \in 0..MaxConns
  /\ nextMsg \in 1..(MaxMsgs + 1)
  /\ held \in Seq(Packets) /\ Len(held) <= 1
  /\ tasks \in Seq(Packets)
  /\ wire \in [Conns -> Seq(Packets)]
  /\ got \in Seq(Packets)
  /\ closer \in {"idle", "post", "result", "join", "stop", "rejoin", "returned", "raised"}
  /\ shut \in {"none", "scheduled", "closing", "done"}
  /\ stopReq \in BOOLEAN

Init ==
  /\ running = TRUE /\ ref = None /\ main = "connecting"
  /\ conn = [c \in Conns |-> "none"] /\ nconn = 0
  /\ nextMsg = 1 /\ held = <<>> /\ tasks = <<>>
  /\ wire = [c \in Conns |-> <<>>] /\ got = <<>>
  /\ closer = "idle" /\ shut = "none" /\ stopReq = FALSE
-----------------------------------------------------------------------------
(* The coroutine _main. *)

ConnectOk ==
  /\ main = "connecting" /\ nconn < MaxConns
  /\ nconn' = nconn + 1
  /\ conn' = [conn EXCEPT ![nconn + 1] = "open"]
  /\ ref' = nconn + 1
  /\ main' = "receiving"
  /\ UNCHANGED <<linkVars, closeVars>>

\* Mutant: the exception ends the thread.
Uncaught == ref' = None /\ main' = "raised"

\* An exception ends the attempt or the connection: forget the socket, and back off
\* unless close() was called.
Except == /\ ref' = None
          /\ main' = IF running THEN "sleeping" ELSE "returned"

ConnectFails ==
  /\ main = "connecting"
  /\ Except
  /\ UNCHANGED <<conn, nconn, linkVars, closeVars>>

\* Mutant: only an error makes the transport connect again.
ReceiveEndsForGood ==
  /\ main = "receiving" /\ conn[nconn] = "clean"
  /\ main' = "returned" /\ ref' = None
  /\ UNCHANGED <<conn, nconn, linkVars, closeVars>>

\* The server closed with a normal code: the loop over the frames just ends, and _ws
\* keeps the closed socket until the next connection is open.
ReceiveEnds ==
  /\ main = "receiving" /\ conn[nconn] = "clean"
  /\ \/ running /\ main' = "connecting" /\ UNCHANGED ref
     \/ ~running /\ main' = "returned" /\ ref' = None
  /\ UNCHANGED <<conn, nconn, linkVars, closeVars>>

ReceiveRaises ==
  /\ main = "receiving" /\ conn[nconn] = "error"
  /\ Except
  /\ UNCHANGED <<conn, nconn, linkVars, closeVars>>

Wake ==
  /\ main = "sleeping"
  /\ main' = IF running THEN "connecting" ELSE "returned"
  /\ UNCHANGED <<ref, conn, nconn, linkVars, closeVars>>

\* loop.stop, wherever _main is waiting: run_until_complete raises.
StopLoop ==
  /\ stopReq /\ LoopRuns
  /\ main' = "returned"
  /\ UNCHANGED <<ref, conn, nconn, linkVars, closeVars>>

CloseLoop == /\ main = "returned" /\ main' = "closed"
             /\ UNCHANGED <<ref, conn, nconn, linkVars, closeVars>>
ThreadEnds == /\ main = "closed" /\ main' = "dead"
              /\ UNCHANGED <<ref, conn, nconn, linkVars, closeVars>>

Main == ConnectOk \/ ConnectFails \/ ReceiveEnds \/ ReceiveRaises \/ Wake
        \/ StopLoop \/ CloseLoop \/ ThreadEnds
-----------------------------------------------------------------------------
(* The network and the server. *)

\* The server closes the connection or dies, or the network between them goes.
Break ==
  /\ 0 < nconn /\ nconn < MaxConns /\ conn[nconn] = "open"
  /\ \E s \in {"clean", "error", "cut"} : conn' = [conn EXCEPT ![nconn] = s]
  /\ UNCHANGED <<ref, main, nconn, linkVars, closeVars>>

\* The keepalive of the connection times out.
Notice ==
  /\ LoopRuns
  /\ \E c \in Conns : conn[c] = "cut" /\ conn' = [conn EXCEPT ![c] = "error"]
  /\ UNCHANGED <<ref, main, nconn, linkVars, closeVars>>

Arrive(c) ==
  /\ wire[c] # <<>>
  /\ wire' = [wire EXCEPT ![c] = Tail(@)]
  /\ got' = Append(got, Head(wire[c]))
  /\ UNCHANGED <<nextMsg, held, tasks, connVars, closeVars>>

\* What a broken connection still carried is lost with it.
LoseRest(c) ==
  /\ wire[c] # <<>> /\ conn[c] # "open"
  /\ wire' = [wire EXCEPT ![c] = <<>>]
  /\ UNCHANGED <<nextMsg, held, tasks, got, connVars, closeVars>>

Network == Break \/ Notice \/ (\E c \in Conns : Arrive(c) \/ LoseRest(c))
-----------------------------------------------------------------------------
(* publish(), and the task it schedules. *)

PublishRead ==
  /\ held = <<>> /\ nextMsg <= MaxMsgs
  /\ nextMsg' = nextMsg + 1
  /\ held' = IF ref = None THEN <<>> ELSE << [conn |-> ref, msg |-> nextMsg] >>
  /\ UNCHANGED <<tasks, wire, got, connVars, closeVars>>

\* Mutant: a message is dropped while an earlier one has not been sent.
PublishScheduleIdle ==
  /\ held # <<>>
  /\ tasks' = IF LoopOpen /\ tasks = <<>> THEN held ELSE tasks
  /\ held' = <<>>
  /\ UNCHANGED <<nextMsg, wire, got, connVars, closeVars>>

\* A closed loop refuses the task; publish() swallows the exception.
PublishSchedule ==
  /\ held # <<>>
  /\ tasks' = IF LoopOpen THEN tasks \o held ELSE tasks
  /\ held' = <<>>
  /\ UNCHANGED <<nextMsg, wire, got, connVars, closeVars>>

\* Mutant: the newest task is run first.
RunSendNewest ==
  /\ LoopRuns /\ tasks # <<>>
  /\ tasks' = SubSeq(tasks, 1, Len(tasks) - 1)
  /\ LET p == tasks[Len(tasks)] IN
       wire' = IF LooksOpen(p.conn) THEN [wire EXCEPT ![p.conn] = Append(@, p)] ELSE wire
  /\ UNCHANGED <<nextMsg, held, got, connVars, closeVars>>

\* Mutant: a send on a connection whose network has gone is scheduled once more.
RunSendAgain ==
  /\ LoopRuns /\ tasks # <<>>
  /\ LET p == Head(tasks) IN
       /\ tasks' = IF conn[p.conn] = "cut" THEN Tail(tasks) \o << [p EXCEPT !.conn = nconn] >>
                   ELSE Tail(tasks)
       /\ wire' = IF LooksOpen(p.conn) THEN [wire EXCEPT ![p.conn] = Append(@, p)] ELSE wire
  /\ UNCHANGED <<nextMsg, held, got, connVars, closeVars>>

\* ws.send on a connection known to be closed raises in a task nobody looks at.
RunSend ==
  /\ LoopRuns /\ tasks # <<>>
  /\ tasks' = Tail(tasks)
  /\ LET p == Head(tasks) IN
       wire' = IF LooksOpen(p.conn) THEN [wire EXCEPT ![p.conn] = Append(@, p)] ELSE wire
  /\ UNCHANGED <<nextMsg, held, got, connVars, closeVars>>

Publisher == PublishRead \/ PublishSchedule \/ RunSend
-----------------------------------------------------------------------------
(* close(), and the coroutine _shutdown it schedules. *)

Close ==
  /\ closer = "idle"
  /\ running' = FALSE /\ closer' = "post"
  /\ UNCHANGED <<shut, stopReq, linkVars, connVars>>

Post ==
  /\ closer = "post"
  /\ \/ LoopOpen /\ shut' = "scheduled" /\ closer' = "result"
     \/ ~LoopOpen /\ closer' = "join" /\ UNCHANGED shut
  /\ UNCHANGED <<running, stopReq, linkVars, connVars>>

\* A socket that is closed already, or None, needs no closing.
ShutdownStarts ==
  /\ shut = "scheduled" /\ LoopRuns
  /\ shut' = IF ref # None /\ LooksOpen(ref) THEN "closing" ELSE "done"
  /\ UNCHANGED <<running, closer, stopReq, linkVars, connVars>>

\* The closing handshake, or its timeout when nobody answers.
Handshake ==
  /\ shut = "closing" /\ LoopRuns /\ LooksOpen(nconn)
  /\ conn' = [conn EXCEPT ![nconn] = IF @ = "open" THEN "clean" ELSE "error"]
  /\ UNCHANGED <<ref, main, nconn, linkVars, closeVars>>

ShutdownEnds ==
  /\ shut = "closing" /\ LoopRuns /\ ~LooksOpen(nconn)
  /\ shut' = "done"
  /\ UNCHANGED <<running, closer, stopReq, linkVars, connVars>>

\* fut.result returns, or gives up after two seconds.
Result ==
  /\ closer = "result" /\ closer' = "join"
  /\ UNCHANGED <<running, shut, stopReq, linkVars, connVars>>

\* Mutant: close() leaves a thread that is still alive to itself.
JoinOnce ==
  /\ closer = "join" /\ closer' = "returned"
  /\ UNCHANGED <<running, shut, stopReq, linkVars, connVars>>

\* The first join of the thread, which gives up after three seconds.
Join ==
  /\ closer = "join"
  /\ closer' = IF main = "dead" THEN "returned" ELSE "stop"
  /\ UNCHANGED <<running, shut, stopReq, linkVars, connVars>>

\* The loop may be closed by now, although the thread was alive: call_soon_threadsafe
\* then raises, and nothing catches it.
ForceStop ==
  /\ closer = "stop"
  /\ \/ LoopOpen /\ stopReq' = TRUE /\ closer' = "rejoin"
     \/ ~LoopOpen /\ closer' = "raised" /\ UNCHANGED stopReq
  /\ UNCHANGED <<running, shut, linkVars, connVars>>

Rejoin ==
  /\ closer = "rejoin" /\ closer' = "returned"
  /\ UNCHANGED <<running, shut, stopReq, linkVars, connVars>>

Closer == Post \/ Result \/ Join \/ ForceStop \/ Rejoin
Shutdown == ShutdownStarts \/ Handshake \/ ShutdownEnds
-----------------------------------------------------------------------------
Next == Main \/ Network \/ Publisher \/ Close \/ Closer \/ Shutdown

Spec == Init /\ [][Next]_vars

\* The threads run and the waits end.  Nobody has to publish or to call close().
FairSpec == /\ Spec
            /\ WF_vars(Main) /\ WF_vars(StopLoop) /\ WF_vars(Notice)
            /\ WF_vars(RunSend) /\ WF_vars(Closer) /\ WF_vars(Shutdown)
-----------------------------------------------------------------------------
Elems(s) == {s[i] : i \in 1..Len(s)}
Numbers(s) == {s[i].msg : i \in 1..Len(s)}
InFlight == Elems(held) \cup Elems(tasks) \cup UNION {Elems(wire[c]) : c \in Conns}
-----------------------------------------------------------------------------
\* Seen from outside, the transport is a link that may lose messages and reorder them but
\* neither repeats nor invents one: no send is retried, over however many connections.
Link == INSTANCE LossyLink WITH
          Msgs <- 1..MaxMsgs, sent <- 1..(nextMsg - 1),
          net <- {p.msg : p \in InFlight}, got <- Numbers(got)
ImplementsLink == Link!Spec

\* Messages that came over the same connection came in the order they were published,
\* although publish() only schedules the sending and another thread performs it.  (Over
\* two connections they may not: the follower's sequence check is there for that.)
OrderKept ==
  \A i, j \in 1..Len(got) :
    i < j /\ got[i].conn = got[j].conn => got[i].msg < got[j].msg

\* Commands are lost to a disconnection and to nothing else: before close() is called, what
\* was handed to a connection is dropped only once that connection is broken, and publish()
\* drops a message at once only while _main has no connection.
LostOnlyWhenDown ==
  [][running =>
       /\ \A p \in InFlight : p \in InFlight' \cup Elems(got') \/ conn[p.conn] # "open"
       /\ nextMsg' # nextMsg /\ held' = <<>> => main # "receiving"]_vars

\* close() cannot hang, and does away with the thread, whatever _main was doing, a connection
\* that opens after _shutdown looked for one included.  (It may raise: see ForceStop.)
CloseEnds ==
  closer # "idle" ~> main = "dead" /\ closer \in {"returned", "raised"}

\* Once attempts to connect stop failing and connections stop breaking, the transport is
\* connected for good and publishes to that connection, unless close() was called.
BackOnLine ==
  <>[][~ConnectFails]_vars =>
    <>[](running => /\ main = "receiving" /\ ref = nconn
                    /\ conn[nconn] = "open")
=============================================================================
