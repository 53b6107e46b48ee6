--------------------------- MODULE SerialExecutor ---------------------------
(***************************************************************************)
(* What the asynchronous mode of Glog promises to its callers: an accepted *)
(* message becomes part of one line of work, and the work is done one      *)
(* message at a time, in the order of acceptance, each message at most     *)
(* once.  Glog.h puts it as "async mode will put every write action into a *)
(* FIFO queue".  MessageQueue implements this specification.               *)
(***************************************************************************)
EXTENDS Naturals, Sequences

CONSTANT Messages

VARIABLES accepted,   \* the messages accepted so far, in order of acceptance
          started,    \* the messages the worker has begun, in order
          finished    \* the messages the worker is through with, in order

vars == <<accepted, started, finished>>

Init == /\ accepted = <<>>
        /\ started = <<>>
        /\ finished = <<>>

Accept(m) == /\ \A i \in 1 .. Len(accepted) : accepted[i] # m
             /\ accepted' = Append(accepted, m)
             /\ UNCHANGED <<started, finished>>

Start == /\ started = finished
         /\ Len(started) < Len(accepted)
         /\ started' = Append(started, accepted[Len(started) + 1])
         /\ UNCHANGED <<accepted, finished>>

Finish == /\ finished # started
          /\ finished' = started
          /\ UNCHANGED <<accepted, started>>

Next == (\E m \in Messages : Accept(m)) \/ Start \/ Finish

Spec == Init /\ [][Next]_vars
=============================================================================
