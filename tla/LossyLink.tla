----------------------------- MODULE LossyLink -----------------------------
(***************************************************************************)
(* What a control transport promises its users, whatever carries it        *)
(* (src/teleop/transport): a message published once may be lost, may be    *)
(* late and may overtake another, but it is not delivered twice and not    *)
(* invented.  Follower.tla is written over a link of this kind: its        *)
(* variable net is the net of this module.                                 *)
(***************************************************************************)
CONSTANT Msgs

VARIABLES
  sent,   \* the messages published so far
  net,    \* those in flight
  got     \* those delivered

vars == <<sent, net, got>>

Init == sent = {} /\ net = {} /\ got = {}

\* A link that is down takes the message and drops it at once.
Publish(m) == /\ m \notin sent
              /\ sent' = sent \cup {m}
              /\ net' \in {net, net \cup {m}}
              /\ UNCHANGED got

Deliver(m) == /\ m \in net
              /\ net' = net \ {m}
              /\ got' = got \cup {m}
              /\ UNCHANGED sent

\* A connection takes all it carries with it.
Lose == net' \subseteq net /\ UNCHANGED <<sent, got>>

Next == (\E m \in Msgs : Publish(m) \/ Deliver(m)) \/ Lose

Spec == Init /\ [][Next]_vars
=============================================================================
