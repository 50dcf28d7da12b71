------------------------------- MODULE Channel -------------------------------
(***************************************************************************)
(* What one direction of the channel between two threads promises: every   *)
(* message that is sent is received, once and in order, until the receiver *)
(* is closed. Queues, wakeups and locks do not appear.                     *)
(***************************************************************************)
EXTENDS Naturals, Sequences

CONSTANT Msg

VARIABLES sent, received, closed

vars == <<sent, received, closed>>

Init == sent = <<>> /\ received = <<>> /\ closed = FALSE

Send(m) == /\ sent' = Append(sent, m)
           /\ UNCHANGED <<received, closed>>

Receive == /\ ~closed
           /\ Len(received) < Len(sent)
           /\ received' = Append(received, sent[Len(received) + 1])
           /\ UNCHANGED <<sent, closed>>

Close == /\ closed' = TRUE
         /\ UNCHANGED <<sent, received>>

Next == (\E m \in Msg : Send(m)) \/ Receive \/ Close

SafeSpec == Init /\ [][Next]_vars

Spec == SafeSpec /\ WF_vars(Receive)
=============================================================================
