-------------------------------- MODULE Timers --------------------------------
(***************************************************************************)
(* The timers of a plain worker thread: Timer and TimerPool (timeImpl.cc)  *)
(* under the loop of do_script (main.cc). Everything runs on one thread;   *)
(* what interleaves are the callbacks of libuv and the JavaScript they     *)
(* call, which makes and clears timers while C++ frames below it still     *)
(* hold the Timer that is being called.                                    *)
(*                                                                         *)
(* Time is abstracted: a started uv_timer_t may be due at any moment.      *)
(***************************************************************************)
EXTENDS Integers, Sequences

CONSTANT MaxTimers   \* bound on the timers a thread makes

ASSUME TimersAssumption == MaxTimers \in Nat

VARIABLES
    (* TimerPool *)
    id,           \* the last timer_id
    pool,         \* the ids that the map holds
    tick_queue,   \* ids of _next_tick
    tick_event,   \* the uv_async_t: [ref, pending]
    (* the Timer objects *)
    live,         \* those that exist: made and not deleted
    active,       \* those whose uv_timer_t is started
    repeats,      \* those that were started with a period
    (* the stack *)
    pc,           \* what the thread is executing, see Pcs
    firing,       \* the Timer in timeout_one_cb or timeout_repeat_cb, or 0
    ticking,      \* the Timer do_tick calls, or 0
    (* the loop of do_script *)
    listening,    \* what noListener() of the thread's JavaScript denies
    sub_ref,      \* sub_event is referenced
    queued,       \* JavaScript may have left microtasks
    stopped,      \* _stop was called
    (* history *)
    called,       \* the timers whose callback was called
    cleared,      \* the timers a clear function was called with
    fault         \* undefined behaviour was reached: nothing is known after

objects == <<live, active, repeats>>
timers  == <<id, pool, tick_queue, tick_event, objects>>
stack   == <<pc, firing, ticking>>
loop    == <<listening, sub_ref, queued, stopped>>
vars    == <<timers, stack, loop, called, cleared, fault>>

Ids  == 2 .. MaxTimers + 1     \* TimerPool starts with id(1)
Made == 2 .. id

(* JavaScript runs in the script, in a message listener, in the callback   *)
(* of a timer or of a tick, and in microtasks. "tick" is the head of the   *)
(* while loop of do_tick, "poll" is uv_run. A thread without a listener    *)
(* after its script is "skipped": it never gets to uv_run.                 *)
JsPcs == {"script", "listener", "timerjs", "tickjs", "micro"}
Pcs   == JsPcs \cup {"tick", "poll", "ended", "skipped"}

TypeOK ==
    /\ id \in 1 .. MaxTimers + 1
    /\ pool \subseteq Made /\ live \subseteq Made
    /\ active \subseteq Made /\ repeats \subseteq Made
    /\ called \subseteq Made /\ cleared \subseteq Made
    /\ tick_queue \in Seq(Made)
    /\ tick_event \in [ref : BOOLEAN, pending : BOOLEAN]
    /\ pc \in Pcs /\ firing \in {0} \cup Made /\ ticking \in {0} \cup Made
    /\ listening \in BOOLEAN /\ sub_ref \in BOOLEAN /\ queued \in BOOLEAN
    /\ stopped \in BOOLEAN /\ fault \in BOOLEAN

(* InitTimerFunctions was called, the script is about to run. *)
Init ==
    /\ id = 1 /\ pool = {} /\ tick_queue = <<>>
    /\ tick_event = [ref |-> FALSE, pending |-> FALSE]
    /\ live = {} /\ active = {} /\ repeats = {}
    /\ pc = "script" /\ firing = 0 /\ ticking = 0
    /\ listening = FALSE /\ sub_ref = TRUE /\ queued = FALSE
    /\ stopped = FALSE /\ called = {} /\ cleared = {} /\ fault = FALSE

Last(seq)       == seq[Len(seq)]
Front(seq)      == SubSeq(seq, 1, Len(seq) - 1)
InQueue(t)      == \E i \in 1 .. Len(tick_queue) : tick_queue[i] = t
Crash           == fault' = TRUE /\ UNCHANGED <<timers, stack, loop, called,
                                                cleared>>
-----------------------------------------------------------------------------
(* What JavaScript may do whenever it runs. *)

InJs == pc \in JsPcs /\ (pc = "micro" => queued)

(* TimerPool::createTimer: new Timer, which joins the pool. *)
CreateTimer(t) ==
    /\ InJs /\ t = id + 1 /\ t \in Ids
    /\ id' = t
    /\ pool' = pool \cup {t}
    /\ live' = live \cup {t}
    /\ UNCHANGED <<stack, loop, called, cleared, fault>>

(* setTimeout, setImmediate, and setInterval, which is as a timeout when   *)
(* its period is 0: Timer::start.                                          *)
SetTimer(t, period) ==
    /\ CreateTimer(t)
    /\ active' = active \cup {t}
    /\ repeats' = IF period = 0 THEN repeats ELSE repeats \cup {t}
    /\ UNCHANGED <<tick_queue, tick_event>>

\* Mutant: push_tick does not reference tick_event.
NextTickUnref(t) ==
    /\ CreateTimer(t)
    /\ tick_queue' = Append(tick_queue, t)
    /\ tick_event' = [tick_event EXCEPT !.pending = TRUE]
    /\ UNCHANGED <<active, repeats>>

(* _next_tick: a Timer that is not started, and push_tick. *)
NextTick(t) ==
    /\ CreateTimer(t)
    /\ tick_queue' = Append(tick_queue, t)
    /\ tick_event' = [ref |-> TRUE, pending |-> TRUE]
    /\ UNCHANGED <<active, repeats>>

(* delete t: ~Timer stops and closes the handle and leaves the pool. *)
Delete(t) ==
    /\ pool' = pool \ {t}
    /\ live' = live \ {t}
    /\ active' = active \ {t}

\* Mutant: the Timer leaves the pool, but is not deleted.
ClearPops(t) ==
    /\ InJs /\ t \in Made
    /\ pool' = pool \ {t}
    /\ cleared' = cleared \cup {t}
    /\ UNCHANGED <<id, tick_queue, tick_event, objects, stack, loop, called,
                   fault>>

(* clearTimeout and its like: what is not in the pool is left alone, what  *)
(* is gets deleted, also if it is the Timer whose callback runs.           *)
Clear(t) ==
    /\ InJs /\ t \in Made
    /\ IF t \in pool THEN Delete(t) ELSE UNCHANGED <<pool, live, active>>
    /\ cleared' = cleared \cup {t}
    /\ UNCHANGED <<id, tick_queue, tick_event, repeats, stack, loop, called,
                   fault>>

(* thread.on and off *)
Listen ==
    /\ InJs
    /\ listening' = ~listening
    /\ UNCHANGED <<timers, stack, sub_ref, queued, stopped, called, cleared,
                   fault>>
-----------------------------------------------------------------------------
(* libuv calls a started timer: a one-shot handle has been stopped before. *)
(* Timer::call runs the queued ticks first.                                *)
Fire(t) ==
    /\ pc = "poll" /\ t \in active
    /\ active' = IF t \in repeats THEN active ELSE active \ {t}
    /\ pc' = "tick" /\ firing' = t
    /\ UNCHANGED <<id, pool, tick_queue, tick_event, live, repeats, ticking,
                   loop, called, cleared, fault>>

(* recv_tick_event *)
TickEvent ==
    /\ pc = "poll" /\ tick_event.pending
    /\ tick_event' = [tick_event EXCEPT !.pending = FALSE]
    /\ pc' = "tick"
    /\ UNCHANGED <<id, pool, tick_queue, objects, firing, ticking, loop,
                   called, cleared, fault>>

\* Mutant: the Timer is looked up and stays in the pool.
TickFind ==
    /\ pc = "tick" /\ tick_queue /= <<>>
    /\ tick_queue' = Front(tick_queue)
    /\ LET t == Last(tick_queue)
       IN  IF t \in pool
           THEN /\ ticking' = t /\ pc' = "tickjs"
                /\ called' = called \cup {t}
           ELSE UNCHANGED <<ticking, pc, called>>
    /\ UNCHANGED <<id, pool, tick_event, objects, firing, loop, cleared,
                   fault>>

(* do_tick, one round: the id queued last, unless it was cleared. *)
Tick ==
    /\ pc = "tick" /\ tick_queue /= <<>>
    /\ tick_queue' = Front(tick_queue)
    /\ LET t == Last(tick_queue)
       IN  /\ pool' = pool \ {t}
           /\ IF t \in pool
              THEN /\ ticking' = t /\ pc' = "tickjs"
                   /\ called' = called \cup {t}
              ELSE UNCHANGED <<ticking, pc, called>>
    /\ UNCHANGED <<id, tick_event, objects, firing, loop, cleared, fault>>

\* Mutant: if instead of while.
TicksOnce ==
    /\ pc = "tick"
    /\ tick_event' = [tick_event EXCEPT !.ref = FALSE]
    /\ IF firing = 0
       THEN pc' = "poll" /\ called' = called
       ELSE pc' = "timerjs" /\ called' = called \cup {firing}
    /\ UNCHANGED <<id, pool, tick_queue, objects, firing, ticking, loop,
                   cleared, fault>>

(* do_tick ends. Timer::call goes on to call the function it holds, which  *)
(* is gone with the Timer if a tick has cleared that.                      *)
TicksDone ==
    /\ pc = "tick" /\ tick_queue = <<>>
    /\ IF firing \in {0} \cup live
       THEN /\ tick_event' = [tick_event EXCEPT !.ref = FALSE]
            /\ IF firing = 0
               THEN pc' = "poll" /\ called' = called
               ELSE pc' = "timerjs" /\ called' = called \cup {firing}
            /\ UNCHANGED <<id, pool, tick_queue, objects, firing, ticking,
                           loop, cleared, fault>>
       ELSE Crash
-----------------------------------------------------------------------------
(* JavaScript returns, or throws, which is reported and changes nothing.   *)

(* to do_tick, which deletes the Timer *)
TickReturn ==
    /\ pc = "tickjs"
    /\ IF ticking \in live
       THEN /\ Delete(ticking)
            /\ pc' = "tick" /\ ticking' = 0 /\ queued' = TRUE
            /\ UNCHANGED <<id, tick_queue, tick_event, repeats, firing,
                           listening, sub_ref, stopped, called, cleared,
                           fault>>
       ELSE Crash

(* to timeout_repeat_cb, or to timeout_one_cb, which deletes the Timer.    *)
(* Cleared by its own callback it is deleted twice; with a period its      *)
(* `target` is read after the delete, which may go well.                   *)
TimerReturn ==
    /\ pc = "timerjs"
    /\ \/ /\ firing \in live \cup repeats
          /\ IF firing \in repeats THEN UNCHANGED <<pool, live, active>>
                                   ELSE Delete(firing)
          /\ pc' = "poll" /\ firing' = 0 /\ queued' = TRUE
          /\ UNCHANGED <<id, tick_queue, tick_event, repeats, ticking,
                         listening, sub_ref, stopped, called, cleared, fault>>
       \/ firing \notin live /\ Crash

(* ~TimerPool *)
EndPool ==
    /\ pool' = {} /\ live' = live \ pool /\ active' = active \ pool
    /\ tick_queue' = <<>>
    /\ tick_event' = [ref |-> FALSE, pending |-> FALSE]
    /\ UNCHANGED <<id, repeats>>

(* script->Run() is over: without a listener the loop is not entered. *)
ScriptReturn ==
    /\ pc = "script"
    /\ queued' = TRUE
    /\ IF listening
       THEN pc' = "poll" /\ UNCHANGED timers
       ELSE pc' = "skipped" /\ EndPool
    /\ UNCHANGED <<firing, ticking, listening, sub_ref, stopped, called,
                   cleared, fault>>

ListenerReturn ==
    /\ pc = "listener"
    /\ pc' = "poll" /\ queued' = TRUE
    /\ UNCHANGED <<timers, firing, ticking, listening, sub_ref, stopped,
                   called, cleared, fault>>

(* RunMicrotasks has returned, and noListener() decides over sub_event. *)
MicroReturn ==
    /\ pc = "micro"
    /\ pc' = "poll" /\ queued' = FALSE /\ sub_ref' = listening
    /\ UNCHANGED <<timers, firing, ticking, listening, stopped, called,
                   cleared, fault>>

Return == \/ TickReturn \/ TimerReturn \/ ScriptReturn \/ ListenerReturn
          \/ MicroReturn
-----------------------------------------------------------------------------
(* The loop of do_script *)

Message ==
    /\ pc = "poll" /\ listening
    /\ pc' = "listener"
    /\ UNCHANGED <<timers, firing, ticking, loop, called, cleared, fault>>

(* uv_run returns to the loop, which runs the microtasks. *)
Micro ==
    /\ pc = "poll"
    /\ pc' = "micro"
    /\ UNCHANGED <<timers, firing, ticking, loop, called, cleared, fault>>

Stop ==
    /\ ~stopped /\ pc \notin {"ended", "skipped"}
    /\ stopped' = TRUE
    /\ UNCHANGED <<timers, stack, listening, sub_ref, queued, called, cleared,
                   fault>>

LoopAlive == active /= {} \/ tick_event.ref \/ sub_ref

\* Mutant: ticks do not count.
EndIgnoresTicks ==
    /\ pc = "poll"
    /\ stopped \/ (active = {} /\ ~sub_ref)
    /\ pc' = "ended"
    /\ EndPool
    /\ UNCHANGED <<firing, ticking, loop, called, cleared, fault>>

(* The loop is left and timepool.reset() deletes what is in the pool. *)
End ==
    /\ pc = "poll"
    /\ stopped \/ ~LoopAlive
    /\ pc' = "ended"
    /\ EndPool
    /\ UNCHANGED <<firing, ticking, loop, called, cleared, fault>>

Over == pc \in {"ended", "skipped"} \/ fault
-----------------------------------------------------------------------------
Js == \E t \in Ids : SetTimer(t, 0) \/ SetTimer(t, 1) \/ NextTick(t)
                     \/ Clear(t)

DoTick == Tick \/ TicksDone

Next == /\ ~fault
        /\ \/ Js \/ Listen
           \/ \E t \in Ids : Fire(t)
           \/ TickEvent \/ DoTick \/ Return
           \/ Message \/ Micro \/ Stop \/ End

(* JavaScript returns to the loop, which polls its handles again and again *)
(* and visits each one that is ready.                                      *)
Fairness == /\ WF_vars(~fault /\ (DoTick \/ Return))
            /\ SF_vars(~fault /\ TickEvent)
            /\ \A t \in Ids : SF_vars(~fault /\ Fire(t))

Spec == Init /\ [][Next]_vars /\ Fairness
-----------------------------------------------------------------------------
(* Who owns a Timer: every one that exists is in the pool, or is the one   *)
(* do_tick has taken out to call; and nothing in the pool was deleted. So  *)
(* none is leaked and none is deleted twice by ~TimerPool.                 *)
Owned == live = pool \cup ({ticking} \ {0})

(* No timer in the pool is forgotten: libuv will call it, it waits in      *)
(* tick_queue, or it is being called.                                      *)
CanRun == \A t \in pool : t \in active \/ InQueue(t) \/ t = firing

(* A queued tick keeps the loop alive and has woken it, although do_tick   *)
(* unreferences tick_event from inside the callback of another handle.     *)
TickHoldsLoop == tick_queue /= <<>> =>
    tick_event.ref /\ (tick_event.pending \/ pc \in {"tick", "tickjs"})

(* A thread that entered its loop and was not stopped has called every     *)
(* timer it did not clear, when it ends.                                   *)
EndLosesNothing == pc = "ended" /\ ~stopped => Made \subseteq called \cup cleared

(* Memory is only misused by a timer that is cleared while it is called:   *)
(* by its own callback, or by a tick that runs on its stack. Ticks may be  *)
(* cleared at any time.                                                    *)
SafeUnlessClearedInCall == fault => firing \in cleared \ live

(* A Timer on the stack, and what has become of it. Every timer that was   *)
(* made is in the pool, was called or was cleared, as long as the thread   *)
(* runs. The proofs rest on it.                                            *)
Stack ==
    /\ ticking /= 0 <=> pc = "tickjs"
    /\ ticking \notin pool \cup ({firing} \ {0}) /\ active \subseteq pool
    /\ firing /= 0 => pc \in {"tick", "tickjs", "timerjs"}
    /\ pc = "timerjs" => firing \in called
    /\ firing \in live \cup cleared \cup {0}
    /\ firing \in pool \cap repeats => firing \in active
    /\ \A t \in Made : InQueue(t) => t \notin active \cup repeats \cup {firing}
    /\ Made \subseteq pool \cup called \cup cleared
          \/ pc \in {"ended", "skipped"}
-----------------------------------------------------------------------------
(* Until undefined behaviour, what JavaScript sees are the timers it asked *)
(* for: called while due, one at a time, and each in the end.              *)
Due == IF fault THEN {}
       ELSE pool \ (IF pc = "timerjs" /\ firing \notin repeats THEN {firing}
                    ELSE {})
Calling == IF fault THEN {}
           ELSE IF pc = "timerjs" THEN {firing}
           ELSE IF pc = "tickjs" THEN {ticking} ELSE {}

Abstract == INSTANCE TimerSet WITH
    Timer <- Ids, made <- Made, due <- Due, calling <- Calling,
    dropped <- Over
RefinesTimerSet == Abstract!Spec

(* The part of it that is safety. *)
StepsAsTimerSet == Abstract!Init /\ [][Abstract!Next]_(Abstract!vars)
=============================================================================
