---------------------------- MODULE ThreadClaims -----------------------------
(***************************************************************************)
(* What the README says of the end of a thread, where the code does        *)
(* otherwise: a run finds the schedule that refutes it.                    *)
(***************************************************************************)
EXTENDS Thread

EndDelivered == \E i \in 1 .. Len(upGot) : upGot[i].kind = "end"

(* README.md:247: when the script in a thread is at its end, `end` always  *)
(* triggers. For threads that compile, that says: the main thread removes  *)
(* its end of the channel only after the end was delivered. But libuv may  *)
(* have visited main_event before the end was sent, and visits del_event   *)
(* after.                                                                  *)
EndNotOvertaken == mscan = "closed" => EndDelivered
=============================================================================
