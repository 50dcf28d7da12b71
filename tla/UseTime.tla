-------------------------------- MODULE UseTime --------------------------------
(***************************************************************************)
(* use_time: the worker notes in begin_time and end_time when it enters    *)
(* and leaves its script and each turn of its loop (TimeHandle, data.h),   *)
(* the main thread reads both, and the loop of the worker, without a lock  *)
(* (usedTime). Each action is one access to what the threads share.        *)
(***************************************************************************)
EXTENDS Integers

CONSTANTS MaxTime,    \* bound on the clock
          MaxTurns    \* bound on the turns of the loop

ASSUME UseTimeAssumption == MaxTime \in Nat \ {0} /\ MaxTurns \in Nat

VARIABLES
    clock,            \* uv_hrtime, in milliseconds
    (* ReqData *)
    begin_time, end_time,
    loop_time,        \* what uv_now(sub_loop) returns
    registered,       \* thread_id is in id_pool
    (* the worker *)
    wpc,              \* see Phases
    turns,            \* turns of the loop, the script is the first
    (* the main thread in j_use_time *)
    mpc,              \* the next access
    end_read, now,    \* what it has read
    used,             \* what it returns, before the cast to uint32_t
    (* history *)
    entered, left,    \* clock of the last turn: at its start and its end
    began, ended,     \* a turn began or ended during the call
    called_at,        \* the clock when the call began
    called_in,        \* the phase of the worker then
    fault             \* the loop or ReqData were used while they do not exist

req    == <<begin_time, end_time, loop_time, registered>>
worker == <<wpc, turns, entered, left>>
call   == <<called_at, called_in>>
main   == <<mpc, end_read, now, used, call>>
vars   == <<clock, req, worker, main, began, ended, fault>>

(* do_script: before sub_loop, before TimeHandle, in it, in a turn, with   *)
(* the loop's time at hand, between turns, in free_sub_loop, and after.    *)
Phases == {"setup", "idle", "entering", "turn", "leaving", "ending", "gone"}
Calls  == {"idle", "end", "end again", "update", "now", "begin"}

HasLoop == wpc \notin {"setup", "gone"}
Inside  == wpc \in {"turn", "leaving"}

TypeOK ==
    /\ {clock, begin_time, end_time, loop_time, now, entered, left, called_at}
            \subseteq 0 .. MaxTime
    /\ end_read \in 0 .. MaxTime /\ used \in -MaxTime .. MaxTime
    /\ {wpc, called_in} \subseteq Phases /\ turns \in 0 .. MaxTurns
    /\ mpc \in Calls /\ {registered, began, ended, fault} \subseteq BOOLEAN

Init ==
    /\ clock = 1 /\ begin_time = 0 /\ end_time = 0 /\ loop_time = 0
    /\ registered = TRUE /\ wpc = "setup" /\ turns = 0
    /\ mpc = "idle" /\ end_read = 0 /\ now = 0 /\ used = 0
    /\ entered = 0 /\ left = 0 /\ began = FALSE /\ ended = FALSE
    /\ called_at = 0 /\ called_in = "setup" /\ fault = FALSE

Pass ==
    /\ clock < MaxTime /\ clock' = clock + 1
    /\ UNCHANGED <<req, worker, main, began, ended, fault>>
-----------------------------------------------------------------------------
(* The worker *)

(* uv_loop_init, and sub_loop is set. *)
CreateLoop ==
    /\ wpc = "setup" /\ wpc' = "idle"
    /\ loop_time' = clock
    /\ UNCHANGED <<clock, begin_time, end_time, registered, turns, entered,
                   left, main, began, ended, fault>>

(* TimeHandle::init *)
EnterBegin ==
    /\ wpc = "idle" /\ turns < MaxTurns
    /\ wpc' = "entering" /\ turns' = turns + 1
    /\ begin_time' = loop_time /\ entered' = loop_time
    /\ began' = TRUE
    /\ UNCHANGED <<clock, end_time, loop_time, registered, left, main, ended,
                   fault>>

\* Mutant: end_time is only reset once.
EnterEndOnce ==
    /\ wpc = "entering" /\ wpc' = "turn"
    /\ end_time' = IF turns = 1 THEN 0 ELSE end_time
    /\ began' = TRUE
    /\ UNCHANGED <<clock, begin_time, loop_time, registered, turns, entered,
                   left, main, ended, fault>>

EnterEnd ==
    /\ wpc = "entering" /\ wpc' = "turn"
    /\ end_time' = 0 /\ began' = TRUE
    /\ UNCHANGED <<clock, begin_time, loop_time, registered, turns, entered,
                   left, main, ended, fault>>

(* th.update after the script. In a turn of the loop uv_run updates the    *)
(* time as it begins and when it has polled; so does the uv_run without    *)
(* waiting that follows if there is no listener, which th measures, too.   *)
WorkerUpdate ==
    /\ wpc = "turn" /\ loop_time' = clock
    /\ wpc' \in IF turns = 1 THEN {"leaving"} ELSE {"turn", "leaving"}
    /\ UNCHANGED <<clock, begin_time, end_time, registered, turns, entered,
                   left, main, began, ended, fault>>

(* ~TimeHandle, at the end of the script, of the turn or at a break. What   *)
(* ran since the last update is not counted.                               *)
Leave ==
    /\ wpc = "leaving" /\ wpc' = "idle"
    /\ end_time' = loop_time /\ left' = loop_time
    /\ ended' = TRUE
    /\ UNCHANGED <<clock, begin_time, loop_time, registered, turns, entered,
                   main, began, fault>>

\* Mutant: the id is freed after the loop.
FreeIdLate ==
    /\ wpc = "idle" /\ turns > 0 /\ wpc' = "ending"
    /\ UNCHANGED <<clock, req, turns, entered, left, main, began, ended, fault>>

(* free_sub_loop: the id first. *)
FreeId ==
    /\ wpc = "idle" /\ turns > 0 /\ wpc' = "ending"
    /\ registered' = FALSE
    /\ UNCHANGED <<clock, begin_time, end_time, loop_time, turns, entered,
                   left, main, began, ended, fault>>

(* uv_run until the handles are closed. *)
RunClosing ==
    /\ wpc = "ending" /\ loop_time' = clock
    /\ UNCHANGED <<clock, begin_time, end_time, registered, worker, main,
                   began, ended, fault>>

(* DEL_LOOP, and ReqData goes with the thread. *)
Free ==
    /\ wpc = "ending" /\ wpc' = "gone" /\ registered' = FALSE
    /\ UNCHANGED <<clock, begin_time, end_time, loop_time, turns, entered,
                   left, main, began, ended, fault>>
-----------------------------------------------------------------------------
(* j_use_time *)

Return(value) == mpc' = "idle" /\ used' = value

(* notfree, which lets the call in *)
Call ==
    /\ mpc = "idle" /\ registered /\ mpc' = "end"
    /\ began' = (wpc = "entering") /\ ended' = FALSE
    /\ called_at' = clock /\ called_in' = wpc
    /\ UNCHANGED <<clock, req, worker, end_read, now, used, fault>>

Crash == fault' = TRUE /\ UNCHANGED <<clock, req, worker, main, began, ended>>

ReadEnd ==
    /\ mpc = "end"
    /\ IF wpc = "gone" THEN Crash
       ELSE /\ end_read' = end_time
            /\ mpc' = IF end_time > 0 THEN "end again" ELSE "update"
            /\ UNCHANGED <<clock, req, worker, now, used, call, began, ended,
                           fault>>

(* end_time is named twice: a build reads it again, or keeps what it has.  *)
ReadEndAgain ==
    /\ mpc = "end again"
    /\ IF wpc = "gone" THEN Crash
       ELSE /\ now' \in {end_read, end_time} /\ mpc' = "begin"
            /\ UNCHANGED <<clock, req, worker, end_read, used, call,
                           began, ended, fault>>

(* uv_update_time(sub_loop), on the wrong thread *)
MainUpdate ==
    /\ mpc = "update"
    /\ IF ~HasLoop THEN Crash
       ELSE /\ loop_time' = clock /\ mpc' = "now"
            /\ UNCHANGED <<clock, begin_time, end_time, registered, worker,
                           end_read, now, used, call, began, ended,
                           fault>>

ReadNow ==
    /\ mpc = "now"
    /\ IF ~HasLoop THEN Crash
       ELSE /\ now' = loop_time /\ mpc' = "begin"
            /\ UNCHANGED <<clock, req, worker, end_read, used, call,
                           began, ended, fault>>

Used(end, begin) == end - begin

ReadBegin ==
    /\ mpc = "begin"
    /\ IF wpc = "gone" THEN Crash
       ELSE /\ Return(Used(now, begin_time))
            /\ UNCHANGED <<clock, req, worker, end_read, now, call,
                           began, ended, fault>>
-----------------------------------------------------------------------------
WorkerStep == CreateLoop \/ EnterBegin \/ EnterEnd \/ WorkerUpdate \/ Leave
              \/ FreeId \/ RunClosing \/ Free
MainStep   == Call \/ ReadEnd \/ ReadEndAgain \/ MainUpdate \/ ReadNow \/ ReadBegin

Next == ~fault /\ (Pass \/ WorkerStep \/ MainStep)
Spec == Init /\ [][Next]_vars
-----------------------------------------------------------------------------
Returned == mpc = "idle" /\ called_at > 0

(* README.md:120-122: the time of the last turn, or of the one that runs.  *)
(* It is exact when no turn begins or ends during the call: the length of  *)
(* the last turn, or what has passed of the current one since the loop     *)
(* knows, until some moment of the call. And it underflows only if a turn  *)
(* began during the call: begin_time is then newer than what it is         *)
(* subtracted from.                                                        *)
ExactIfAlone ==
    /\ Returned /\ ~began /\ ~ended /\ wpc \in {"idle", "turn", "leaving"}
                /\ turns > 0 =>
        IF Inside THEN called_at - entered <= used /\ used <= clock - entered
                  ELSE used = left - entered
    /\ Returned /\ used < 0 => began

(* A call crashes only if it comes before the loop was made, or before the *)
(* thread began to end: what it uses is then deleted while it runs. One    *)
(* that comes later is refused.                                            *)
CrashesAtEdges == fault => called_in \notin {"ending", "gone"}
=============================================================================
