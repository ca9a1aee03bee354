----------------------------- MODULE MotionGate -----------------------------
(***************************************************************************)
(* What the follower promises about the commands it lets through to the    *)
(* arm, without threads, clocks, joints or the network:                    *)
(*                                                                         *)
(*   - sequence numbers are accepted in increasing order;                  *)
(*   - commands are executed in the order of their sequence numbers, and   *)
(*     only accepted ones;                                                 *)
(*   - after a loss of communication nothing is executed that was accepted *)
(*     before it ("Disable command execution. Wait for reconnection.",     *)
(*     Failure Recovery, ctx.txt);                                         *)
(*   - nothing is passed while the emergency stop is latched.              *)
(*                                                                         *)
(* A command may be executed again: the controller repeats the last one in *)
(* every control period.  Sequence number -1 stands for "none yet".        *)
(***************************************************************************)
EXTENDS Integers

VARIABLES
  accepted,   \* the newest sequence number accepted
  executed,   \* the sequence number executed last
  floor,      \* the newest sequence number accepted before the last loss
  latched     \* the emergency stop

vars == <<accepted, executed, floor, latched>>

Init == accepted = -1 /\ executed = -1 /\ floor = -1 /\ latched = FALSE

Accept == /\ accepted' \in Nat /\ accepted' > accepted
          /\ UNCHANGED <<executed, floor, latched>>

LoseComms == /\ floor' = accepted
             /\ UNCHANGED <<accepted, executed, latched>>

Execute == /\ ~latched
           /\ executed' \in Nat
           /\ executed' > floor /\ executed' >= executed /\ executed' <= accepted
           /\ UNCHANGED <<accepted, floor, latched>>

Latch == latched' = TRUE /\ UNCHANGED <<accepted, executed, floor>>
Reset == latched' = FALSE /\ UNCHANGED <<accepted, executed, floor>>

Next == Accept \/ LoseComms \/ Execute \/ Latch \/ Reset

Spec == Init /\ [][Next]_vars
=============================================================================
