------------------------------ MODULE WaitNotify ------------------------------
(***************************************************************************)
(* thread.wait() and handle.notify(): j_wait on the worker thread, j_notify *)
(* on the main thread, and the WaitThread object between them (main.cc,    *)
(* tools.h), with what lib/main-warp.js and lib/context.js do to the data. *)
(*                                                                         *)
(* lock() and unlock() are one step each: both hold the mutex throughout,  *)
(* and uv_cond_wait gives it up in the step that starts to wait. is_locked, *)
(* setData and getData do not take the mutex and are steps of their own.   *)
(***************************************************************************)
EXTENDS Naturals, Sequences

CONSTANTS
    Values,      \* arguments of notify that arrive as they are
    MaxWait,     \* bound on the calls of wait
    MaxNotify    \* bound on the calls of notify

(* The other arguments of notify: none, a falsy value that is no string,   *)
(* and the empty string.                                                   *)
NoArg == "undefined"
Falsy == "zero"
Empty == "empty"
Args  == Values \cup {NoArg, Falsy, Empty}

ASSUME WaitAssumption ==
    /\ MaxWait \in Nat /\ MaxNotify \in Nat
    /\ Values \cap {NoArg, Falsy, Empty, "null", "true", "false", "throws"} = {}

VARIABLES
    (* WaitThread *)
    locked, data,
    signalled,   \* uv_cond_broadcast found the worker waiting
    (* the worker *)
    wpc, waits, returned,
    (* the main thread *)
    npc, arg, heard, calls,
    granted,     \* arguments of the calls of notify that released a wait
    stopped,     \* stop was called
    (* environment and history *)
    spurious,    \* uv_cond_wait returned without a broadcast
    fault        \* "none", "throw": a C++ exception crosses JavaScript
                 \* frames, "freed": the ReqData is used after its deletion

waiter == <<locked, data, signalled>>
worker == <<wpc, waits, returned>>
main   == <<npc, arg, heard, calls, granted, stopped>>
vars   == <<waiter, worker, main, spurious, fault>>

TypeOK ==
    /\ locked \in BOOLEAN /\ signalled \in BOOLEAN /\ spurious \in BOOLEAN
    /\ data \in Values \cup {"null", Empty}
    /\ wpc \in {"js", "send", "lock", "wait", "get", "ended"}
    /\ npc \in {"none", "read", "set", "unlock"}
    /\ arg \in Args
    /\ waits \in 0 .. MaxWait
    /\ heard \in 0 .. MaxWait /\ calls \in 0 .. MaxNotify
    /\ granted \in Seq(Args)
    /\ returned \in Seq(Values \cup {"true", "false", "throws"})
    /\ stopped \in BOOLEAN
    /\ fault \in {"none", "throw", "freed"}

Init ==
    /\ locked = FALSE /\ data = "null" /\ signalled = FALSE
    /\ wpc = "js" /\ waits = 0 /\ returned = <<>>
    /\ npc = "none" /\ arg = NoArg /\ heard = 0 /\ calls = 0
    /\ granted = <<>> /\ stopped = FALSE
    /\ spurious = FALSE /\ fault = "none"

Crash(how) == fault' = how /\ UNCHANGED <<waiter, worker, main, spurious>>
-----------------------------------------------------------------------------
(* The worker thread *)

(* bool canwait = !req->wait.is_locked() *)
WaitCall ==
    /\ wpc = "js" /\ waits < MaxWait
    /\ waits' = waits + 1
    /\ IF locked
       THEN wpc' = "js" /\ returned' = Append(returned, "false")
       ELSE wpc' = "send" /\ returned' = returned
    /\ UNCHANGED <<waiter, main, spurious, fault>>

(* RecvEventData::sendEvent(req->main_event, eventdata): from here on the  *)
(* main thread may hear of the wait, which has not begun.                  *)
WaitSend ==
    /\ wpc = "send"
    /\ wpc' = "lock"
    /\ UNCHANGED <<waiter, waits, returned, main, spurious, fault>>

(* WaitThread::lock *)
Lock ==
    /\ wpc = "lock"
    /\ IF locked THEN Crash("throw")
       ELSE /\ locked' = TRUE /\ signalled' = FALSE
            /\ wpc' = "wait"
            /\ UNCHANGED <<data, waits, returned, main, spurious, fault>>

(* uv_cond_wait returns after a broadcast, or without one. *)
Wake ==
    /\ wpc = "wait" /\ signalled
    /\ wpc' = "get"
    /\ UNCHANGED <<waiter, waits, returned, main, spurious, fault>>

WakeSpuriously ==
    /\ wpc = "wait" /\ ~signalled
    /\ wpc' = "get" /\ spurious' = TRUE
    /\ UNCHANGED <<waiter, waits, returned, main, fault>>

(* What wait of context.js makes of the result of _wait: JSON.parse of a   *)
(* string, which fails for the empty one.                                  *)
Result(d) == CASE d = "null" -> "true" [] d = Empty -> "throws"
               [] OTHER -> d

\* Mutant: data = 0 is forgotten.
GetDataKeeps ==
    /\ wpc = "get"
    /\ IF locked THEN Crash("throw")
       ELSE /\ returned' = Append(returned, Result(data))
            /\ wpc' = "js"
            /\ UNCHANGED <<waiter, waits, main, spurious, fault>>

(* WaitThread::getData and the return of wait *)
GetData ==
    /\ wpc = "get"
    /\ IF locked THEN Crash("throw")
       ELSE /\ returned' = Append(returned, Result(data))
            /\ data' = "null"
            /\ wpc' = "js"
            /\ UNCHANGED <<locked, signalled, waits, main, spurious, fault>>

(* The script ends, or is terminated, and the thread leaves the pool; its  *)
(* ReqData is deleted then or later.                                       *)
End ==
    /\ wpc = "js"
    /\ wpc' = "ended"
    /\ UNCHANGED <<waiter, waits, returned, main, spurious, fault>>
-----------------------------------------------------------------------------
(* The main thread *)

(* Its loop hands the event of a wait to a listener. *)
Hear ==
    /\ npc = "none"
    /\ heard < IF wpc = "send" THEN waits - 1 ELSE waits
    /\ heard' = heard + 1
    /\ UNCHANGED <<waiter, worker, npc, arg, calls, granted, stopped,
                   spurious, fault>>

(* CHECK_REQ_DATA: a thread that has ended is not notified. *)
NotifyCall ==
    /\ npc = "none" /\ wpc /= "ended" /\ calls < MaxNotify
    /\ npc' = "read" /\ arg' \in Args /\ calls' = calls + 1
    /\ UNCHANGED <<waiter, worker, heard, granted, stopped, spurious, fault>>

\* Mutant: notify does not look whether the worker waits.
NotifyReadBlind ==
    /\ npc = "read"
    /\ npc' = IF arg \in {NoArg, Falsy} THEN "unlock" ELSE "set"
    /\ UNCHANGED <<waiter, worker, arg, heard, calls, granted, stopped,
                   spurious, fault>>

(* bool locked = req->wait.is_locked(); only a string becomes data, and    *)
(* main-warp.js makes a string of every truthy argument. The thread may    *)
(* have ended since its id was checked.                                    *)
NotifyRead ==
    /\ npc = "read"
    /\ \/ /\ npc' = IF ~locked THEN "none"
                    ELSE IF arg \in {NoArg, Falsy} THEN "unlock" ELSE "set"
          /\ UNCHANGED <<waiter, worker, arg, heard, calls, granted, stopped,
                         spurious, fault>>
       \/ wpc = "ended" /\ Crash("freed")

(* WaitThread::setData *)
NotifySet ==
    /\ npc = "set"
    /\ IF ~locked THEN Crash("throw")
       ELSE /\ data' = arg
            /\ npc' = "unlock"
            /\ UNCHANGED <<locked, signalled, worker, arg, heard, calls,
                           granted, stopped, spurious, fault>>

\* Mutant: no uv_cond_broadcast.
UnlockSilently ==
    /\ npc = "unlock"
    /\ IF ~locked THEN Crash("throw")
       ELSE /\ locked' = FALSE
            /\ npc' = "none"
            /\ granted' = Append(granted, arg)
            /\ UNCHANGED <<data, signalled, worker, arg, heard, calls,
                           stopped, spurious, fault>>

\* Mutant: locked stays set.
UnlockKeeps ==
    /\ npc = "unlock"
    /\ IF ~locked THEN Crash("throw")
       ELSE /\ signalled' = (wpc = "wait")
            /\ npc' = "none"
            /\ granted' = Append(granted, arg)
            /\ UNCHANGED <<locked, data, worker, arg, heard, calls, stopped,
                           spurious, fault>>

(* WaitThread::unlock; notify returns true. *)
NotifyUnlock ==
    /\ npc = "unlock"
    /\ IF ~locked THEN Crash("throw")
       ELSE /\ locked' = FALSE
            /\ signalled' = (wpc = "wait")
            /\ npc' = "none"
            /\ granted' = Append(granted, arg)
            /\ UNCHANGED <<data, worker, arg, heard, calls, stopped,
                           spurious, fault>>

(* j_stop: it terminates JavaScript and wakes the loop, not the wait. *)
Stop ==
    /\ npc = "none" /\ ~stopped /\ wpc /= "ended"
    /\ stopped' = TRUE
    /\ UNCHANGED <<waiter, worker, npc, arg, heard, calls, granted,
                   spurious, fault>>
-----------------------------------------------------------------------------
WorkerStep == WaitSend \/ Lock \/ Wake \/ GetData
MainStep   == NotifyRead \/ NotifySet \/ NotifyUnlock \/ Hear

Next == /\ fault = "none"
        /\ \/ WaitCall \/ WaitSend \/ Lock \/ Wake \/ WakeSpuriously
           \/ GetData \/ End
           \/ Hear \/ NotifyCall \/ NotifyRead \/ NotifySet \/ NotifyUnlock
           \/ Stop

(* Both threads are scheduled; nobody has to call notify or wait, and the  *)
(* script of the worker need not end.                                      *)
Fairness == /\ WF_vars(fault = "none" /\ WorkerStep)
            /\ WF_vars(fault = "none" /\ MainStep)

Spec == Init /\ [][Next]_vars /\ Fairness
-----------------------------------------------------------------------------
(* Every wait that returns was released by a notify of its own, and        *)
(* returns what that notify carried, never the data of an earlier one.     *)
WaitReturnsItsNotify ==
    /\ Len(returned) <= Len(granted)
    /\ Len(granted) <= Len(returned) + 1
    /\ \A i \in 1 .. Len(returned) :
           returned[i] = CASE granted[i] \in {NoArg, Falsy} -> "true"
                           [] granted[i] = Empty -> "throws"
                           [] OTHER -> granted[i]

(* No release is lost: a worker that waits although nobody holds it        *)
(* locked has been signalled.                                              *)
NoLostRelease == wpc = "wait" /\ ~locked => signalled

(* The checks of WaitThread that throw, where nothing can catch it, are    *)
(* reached only when uv_cond_wait returns without a broadcast.             *)
ThrowsOnlyIfSpurious == fault = "throw" => spurious

(* A notify that found the worker waiting does not outlive it: the ReqData *)
(* it goes on to use exists until it has returned.                         *)
NotifyHoldsWorker == npc \in {"set", "unlock"} => wpc \in {"wait", "get"}

(* A notify that returned true makes the wait it found return. *)
NotifyWakes == \A k \in 1 .. MaxWait :
    Len(granted) >= k ~> Len(returned) >= k \/ fault /= "none"
-----------------------------------------------------------------------------
(* README.md:84 and README.md:162 ask for a call of notify once the event  *)
(* of a wait was received, and say that it wakes the thread. Refuted: the  *)
(* event is sent before the wait begins.                                   *)
NotifyAfterEventWakes == \A k \in 1 .. MaxWait :
    npc = "read" /\ heard = k /\ waits = k
      ~> Len(returned) >= k \/ fault /= "none"
=============================================================================
