----------------------------- MODULE TimersProofs -----------------------------
(***************************************************************************)
(* Proofs about Timers, for every number of timers. The invariant says     *)
(* where a Timer can be: in the pool and on its way to be called, or taken *)
(* out of it by do_tick; and what the C++ frames below JavaScript hold.    *)
(***************************************************************************)
EXTENDS Timers, SequenceTheorems, TLAPS

IInv == /\ TypeOK /\ Owned /\ CanRun /\ TickHoldsLoop /\ Stack
        /\ EndLosesNothing /\ SafeUnlessClearedInCall

Holds == Owned /\ CanRun /\ TickHoldsLoop /\ Stack /\ EndLosesNothing
           /\ SafeUnlessClearedInCall
-----------------------------------------------------------------------------
(* tick_queue as a stack: what it holds after a push and after a pop. *)
LEMMA Pushed ==
    ASSUME NEW S, NEW q \in Seq(S), NEW x \in S
    PROVE  /\ Append(q, x) \in Seq(S) /\ Append(q, x) /= <<>>
           /\ \A t : (\E i \in 1 .. Len(Append(q, x)) : Append(q, x)[i] = t)
                       <=> (\E i \in 1 .. Len(q) : q[i] = t) \/ t = x
<1> DEFINE r == Append(q, x)
<1>1. r \in Seq(S) /\ Len(r) = Len(q) + 1 /\ Len(q) \in Nat
  OBVIOUS
<1>2. (\A i \in 1 .. Len(q) : r[i] = q[i]) /\ r[Len(q) + 1] = x
  OBVIOUS
<1> HIDE DEF r
<1>3. r /= <<>>
  BY <1>1
<1>4. ASSUME NEW t, NEW i \in 1 .. Len(q), q[i] = t
      PROVE  \E j \in 1 .. Len(r) : r[j] = t
  <2>1. i \in 1 .. Len(r) /\ r[i] = t
    BY <1>1, <1>2, <1>4
  <2> QED BY <2>1
<1>5. \E j \in 1 .. Len(r) : r[j] = x
  <2>1. Len(q) + 1 \in 1 .. Len(r)
    BY <1>1
  <2> QED BY <1>2, <2>1
<1>6. ASSUME NEW t, NEW i \in 1 .. Len(r), r[i] = t
      PROVE  (\E j \in 1 .. Len(q) : q[j] = t) \/ t = x
  <2>1. i \in 1 .. Len(q) \/ i = Len(q) + 1
    BY <1>1
  <2> QED BY <1>2, <1>6, <2>1
<1>7. \A t : (\E i \in 1 .. Len(r) : r[i] = t)
               <=> (\E i \in 1 .. Len(q) : q[i] = t) \/ t = x
  BY <1>4, <1>5, <1>6
<1> QED BY <1>1, <1>3, <1>7 DEF r

LEMMA Popped ==
    ASSUME NEW S, NEW q \in Seq(S), q /= <<>>
    PROVE  /\ Front(q) \in Seq(S) /\ Last(q) \in S
           /\ \E i \in 1 .. Len(q) : q[i] = Last(q)
           /\ \A t : t /= Last(q) /\ (\E i \in 1 .. Len(q) : q[i] = t)
                       => \E i \in 1 .. Len(Front(q)) : Front(q)[i] = t
           /\ \A t : (\E i \in 1 .. Len(Front(q)) : Front(q)[i] = t)
                       => \E i \in 1 .. Len(q) : q[i] = t
<1>1. Len(q) \in Nat \ {0}
  OBVIOUS
<1>2. Last(q) \in S /\ Len(q) \in 1 .. Len(q) /\ q[Len(q)] = Last(q)
  BY <1>1 DEF Last
<1>3. Front(q) \in Seq(S) /\ Len(Front(q)) = Len(q) - 1
      /\ \A i \in 1 .. Len(q) - 1 : Front(q)[i] = q[i]
  <2>1. 1 \in Int /\ Len(q) - 1 \in Int /\ \A i \in 1 .. Len(q) - 1 : q[i] \in S
    BY <1>1
  <2>2. /\ Front(q) \in Seq(S)
        /\ Len(Front(q)) = IF 1 <= Len(q) - 1 THEN Len(q) - 1 - 1 + 1 ELSE 0
        /\ \A i \in 1 .. Len(q) - 1 - 1 + 1 : Front(q)[i] = q[1 + i - 1]
    BY <2>1, SubSeqProperties DEF Front
  <2>3. /\ Len(q) - 1 - 1 + 1 = Len(q) - 1
        /\ \A i \in 1 .. Len(q) - 1 : 1 + i - 1 = i
    BY <1>1
  <2>4. Len(Front(q)) = Len(q) - 1
    <3>1. ASSUME NEW k \in Nat \ {0}
          PROVE  (IF 1 <= k - 1 THEN k - 1 - 1 + 1 ELSE 0) = k - 1
      OBVIOUS
    <3> QED BY <1>1, <2>2, <3>1
  <2>5. ASSUME NEW i \in 1 .. Len(q) - 1 PROVE Front(q)[i] = q[i]
    <3>1. i \in 1 .. Len(q) - 1 - 1 + 1 /\ 1 + i - 1 = i
      BY <2>3
    <3> QED BY <2>2, <3>1
  <2> QED BY <2>2, <2>4, <2>5
<1>4. ASSUME NEW t, t /= Last(q), NEW i \in 1 .. Len(q), q[i] = t
      PROVE  \E j \in 1 .. Len(Front(q)) : Front(q)[j] = t
  <2>1. i \in 1 .. Len(Front(q)) /\ Front(q)[i] = t
    BY <1>1, <1>3, <1>4 DEF Last
  <2> QED BY <2>1
<1>5. ASSUME NEW t, NEW i \in 1 .. Len(Front(q)), Front(q)[i] = t
      PROVE  \E j \in 1 .. Len(q) : q[j] = t
  <2>1. i \in 1 .. Len(q) /\ q[i] = t
    BY <1>1, <1>3, <1>5
  <2> QED BY <2>1
<1>6. \E i \in 1 .. Len(q) : q[i] = Last(q)
  BY <1>2
<1> QED BY <1>2, <1>3, <1>4, <1>5, <1>6

LEMMA TypeInIds == TypeOK => Made \subseteq Ids
  BY TimersAssumption DEF TypeOK, Made, Ids

LEMMA WiderQueue ==
    ASSUME NEW S, NEW T, S \subseteq T, NEW q \in Seq(S)
    PROVE  q \in Seq(T)
  OBVIOUS
-----------------------------------------------------------------------------
LEMMA InitInv == Init => IInv
<1> SUFFICES ASSUME Init PROVE IInv
  OBVIOUS
<1> USE TimersAssumption DEF Init
<1>1. TypeOK
  <2>1. /\ listening \in BOOLEAN /\ sub_ref \in BOOLEAN /\ queued \in BOOLEAN
        /\ stopped \in BOOLEAN /\ fault \in BOOLEAN
    BY Zenon
  <2>2. tick_event \in [ref : BOOLEAN, pending : BOOLEAN]
    OBVIOUS
  <2>3. tick_queue \in Seq(Made)
    OBVIOUS
  <2>4. id \in 1 .. MaxTimers + 1 /\ pc \in Pcs
    BY DEF Pcs, JsPcs
  <2> QED BY <2>1, <2>2, <2>3, <2>4 DEF TypeOK
<1>2. Holds
  BY DEF Holds, Owned, CanRun, TickHoldsLoop, Stack, Made, EndLosesNothing,
         SafeUnlessClearedInCall
<1> QED BY <1>1, <1>2 DEF IInv, Holds

(* A new Timer: the pool and the objects grow by t. *)
LEMMA CreateType ==
    ASSUME TypeOK, NEW t, CreateTimer(t)
    PROVE  /\ id' \in 1 .. MaxTimers + 1 /\ Made' = Made \cup {t}
           /\ t \notin Made /\ t \in Nat \ {0}
           /\ pool' \subseteq Made' /\ live' \subseteq Made'
           /\ called' \subseteq Made' /\ cleared' \subseteq Made'
           /\ pc' \in Pcs /\ firing' \in {0} \cup Made'
           /\ ticking' \in {0} \cup Made'
           /\ listening' \in BOOLEAN /\ sub_ref' \in BOOLEAN
           /\ queued' \in BOOLEAN /\ stopped' \in BOOLEAN
           /\ fault' \in BOOLEAN
<1>1. /\ id' \in 1 .. MaxTimers + 1 /\ Made' = Made \cup {t}
      /\ t \notin Made /\ t \in Nat \ {0}
  BY TimersAssumption DEF TypeOK, CreateTimer, Ids, Made
<1>2. /\ listening' \in BOOLEAN /\ sub_ref' \in BOOLEAN
      /\ queued' \in BOOLEAN /\ stopped' \in BOOLEAN /\ fault' \in BOOLEAN
  BY Zenon DEF TypeOK, CreateTimer, loop
<1> QED BY <1>1, <1>2 DEF TypeOK, CreateTimer, stack

LEMMA NextType == IInv /\ [Next]_vars => TypeOK'
<1> SUFFICES ASSUME TypeOK, Owned, Stack, [Next]_vars PROVE TypeOK'
  BY DEF IInv
<1>1. ASSUME NEW t \in Ids, NEW period \in {0, 1}, SetTimer(t, period)
      PROVE  TypeOK'
  <2>1. CreateTimer(t)
    BY <1>1 DEF SetTimer
  <2>2. tick_queue' \in Seq(Made')
    BY <1>1, <2>1, CreateType, WiderQueue DEF SetTimer, TypeOK
  <2>3. active' \subseteq Made' /\ repeats' \subseteq Made'
        /\ tick_event' \in [ref : BOOLEAN, pending : BOOLEAN]
    BY <1>1, <2>1, CreateType DEF SetTimer, TypeOK
  <2> QED BY <2>1, <2>2, <2>3, CreateType DEF TypeOK
<1>2. ASSUME NEW t \in Ids, NextTick(t) PROVE TypeOK'
  <2>1. CreateTimer(t)
    BY <1>2 DEF NextTick
  <2>2. tick_queue \in Seq(Made') /\ t \in Made'
    BY <2>1, CreateType, WiderQueue DEF TypeOK
  <2>3. tick_queue' \in Seq(Made')
    BY <1>2, <2>2, Pushed DEF NextTick
  <2>4. active' \subseteq Made' /\ repeats' \subseteq Made'
        /\ tick_event' \in [ref : BOOLEAN, pending : BOOLEAN]
    BY <1>2, <2>1, CreateType DEF NextTick, TypeOK
  <2> QED BY <2>1, <2>3, <2>4, CreateType DEF TypeOK
<1>3. ASSUME NEW t \in Ids, Clear(t) PROVE TypeOK'
  BY <1>3 DEF TypeOK, Clear, Delete, Made, stack, loop
<1>4. CASE Listen
  <2>1. listening' \in BOOLEAN
    BY <1>4, Zenon DEF Listen, TypeOK
  <2> QED BY <1>4, <2>1 DEF TypeOK, Listen, Made, timers, objects, stack
<1>5. ASSUME NEW t \in Ids, Fire(t) PROVE TypeOK'
  BY <1>5 DEF TypeOK, Fire, Made, loop, Pcs, JsPcs
<1>6. CASE TickEvent
  <2>1. tick_event' \in [ref : BOOLEAN, pending : BOOLEAN]
    BY <1>6 DEF TickEvent, TypeOK
  <2> QED BY <1>6, <2>1 DEF TypeOK, TickEvent, Made, objects, loop, Pcs, JsPcs
<1>7. CASE Tick
  <2>1. tick_queue' \in Seq(Made') /\ Last(tick_queue) \in Made
        /\ Made' = Made
    BY <1>7, Popped DEF Tick, TypeOK, Made
  <2>2. /\ called' \subseteq Made' /\ pool' \subseteq Made'
        /\ ticking' \in {0} \cup Made' /\ pc' \in Pcs
    BY <1>7, <2>1 DEF Tick, TypeOK, Pcs, JsPcs
  <2> QED BY <1>7, <2>1, <2>2 DEF TypeOK, Tick, objects, loop
<1>8. CASE TicksDone
  <2>1. CASE Crash
    BY <2>1 DEF TypeOK, Crash, timers, objects, stack, loop, Made
  <2>2. CASE ~Crash
    <3>1. /\ tick_event' = [tick_event EXCEPT !.ref = FALSE]
          /\ firing \in {0} \cup live
          /\ called' = called \/ (firing /= 0 /\ called' = called \cup {firing})
          /\ pc' \in {"poll", "timerjs"}
          /\ UNCHANGED <<id, pool, tick_queue, objects, firing, ticking, loop,
                         cleared, fault>>
      BY <1>8, <2>2 DEF TicksDone
    <3>2. tick_event' \in [ref : BOOLEAN, pending : BOOLEAN]
          /\ called' \subseteq Made' /\ Made' = Made /\ pc' \in Pcs
      BY <3>1 DEF TypeOK, Made, Pcs, JsPcs
    <3> QED BY <3>1, <3>2 DEF TypeOK, objects, loop
  <2> QED BY <2>1, <2>2
<1>9. CASE TickReturn
  <2>1. ticking \in live
    BY <1>9 DEF TickReturn, Owned, Stack
  <2>2. queued' \in BOOLEAN
    BY <1>9, <2>1, Zenon DEF TickReturn
  <2> QED BY <1>9, <2>1, <2>2 DEF TypeOK, TickReturn, Delete, Made, Pcs, JsPcs
<1>10. CASE TimerReturn
  <2>1. queued' \in BOOLEAN /\ fault' \in BOOLEAN
    BY <1>10, Zenon DEF TimerReturn, Crash, TypeOK, loop
  <2> QED BY <1>10, <2>1 DEF TypeOK, TimerReturn, Delete, Crash, timers,
                             objects, stack, loop, Made, Pcs, JsPcs
<1>11. CASE ScriptReturn
  <2>1. queued' \in BOOLEAN
    BY <1>11, Zenon DEF ScriptReturn
  <2>2. CASE listening
    BY <1>11, <2>1, <2>2 DEF TypeOK, ScriptReturn, timers, objects, Made, Pcs,
                             JsPcs
  <2>3. CASE ~listening
    <3>1. EndPool /\ Made' = Made
      BY <1>11, <2>3 DEF ScriptReturn, EndPool, Made
    <3>2. tick_event' \in [ref : BOOLEAN, pending : BOOLEAN]
          /\ tick_queue' \in Seq(Made')
      BY <3>1 DEF EndPool
    <3> QED BY <1>11, <2>1, <2>3, <3>1, <3>2
            DEF TypeOK, ScriptReturn, EndPool, Made, Pcs, JsPcs
  <2> QED BY <2>2, <2>3
<1>12. CASE ListenerReturn \/ MicroReturn
  <2>1. queued' \in BOOLEAN /\ sub_ref' \in BOOLEAN
    BY <1>12, Zenon DEF ListenerReturn, MicroReturn, TypeOK
  <2> QED BY <1>12, <2>1 DEF TypeOK, ListenerReturn, MicroReturn, timers,
                             objects, Made, Pcs, JsPcs
<1>13. CASE Message \/ Micro
  BY <1>13 DEF TypeOK, Message, Micro, timers, objects, loop, Made, Pcs, JsPcs
<1>14. CASE Stop
  <2>1. stopped' \in BOOLEAN
    BY <1>14, Zenon DEF Stop
  <2> QED BY <1>14, <2>1 DEF TypeOK, Stop, timers, objects, stack, Made
<1>15. CASE End
  <2>1. tick_event' \in [ref : BOOLEAN, pending : BOOLEAN]
        /\ tick_queue' \in Seq(Made')
    BY <1>15 DEF End, EndPool
  <2> QED BY <1>15, <2>1 DEF TypeOK, End, EndPool, Made, loop, Pcs, JsPcs
<1>16. CASE UNCHANGED vars
  BY <1>16 DEF TypeOK, vars, timers, objects, stack, loop, Made
<1> QED
  BY <1>1, <1>2, <1>3, <1>4, <1>5, <1>6, <1>7, <1>8, <1>9, <1>10, <1>11,
     <1>12, <1>13, <1>14, <1>15, <1>16
     DEF Next, Js, DoTick, Return
-----------------------------------------------------------------------------
LEMMA NextHolds == IInv /\ [Next]_vars => Holds'
<1> SUFFICES ASSUME TypeOK, Owned, CanRun, TickHoldsLoop, Stack,
                    EndLosesNothing, SafeUnlessClearedInCall, [Next]_vars
             PROVE  Holds'
  BY DEF IInv
<1> USE DEF Holds, Owned, TickHoldsLoop, Stack, EndLosesNothing,
            SafeUnlessClearedInCall
<1>0. (fault => UNCHANGED vars) /\ 0 \notin Made \cup pool \cup called \cup cleared
  BY DEF Next, TypeOK, Made
<1>1. ASSUME NEW t \in Ids, NEW period \in {0, 1}, SetTimer(t, period)
      PROVE  Holds'
  <2>1. CreateTimer(t) /\ UNCHANGED <<stack, loop, called, cleared, fault>>
    BY <1>1 DEF SetTimer, CreateTimer
  <2>2. /\ Made' = Made \cup {t} /\ t \notin Made /\ t \in Nat \ {0}
        /\ pool' = pool \cup {t} /\ live' = live \cup {t}
        /\ InJs
    BY <2>1, CreateType DEF CreateTimer
  <2>3. /\ active' = active \cup {t} /\ tick_queue' = tick_queue
        /\ tick_event' = tick_event
        /\ repeats' \cap Made = repeats
    BY <1>1, <2>2 DEF SetTimer, TypeOK
  <2>4. CanRun'
    BY <2>1, <2>2, <2>3 DEF CanRun, InQueue, stack
  <2>5. \A s : InQueue(s)' => InQueue(s) /\ s \in Made
    BY <2>3 DEF InQueue, TypeOK
  <2> QED
    BY <2>1, <2>2, <2>3, <2>4, <2>5 DEF TypeOK, InJs, JsPcs, stack, loop
<1>2. ASSUME NEW t \in Ids, NextTick(t) PROVE Holds'
  <2>1. CreateTimer(t) /\ UNCHANGED <<stack, loop, called, cleared, fault>>
    BY <1>2 DEF NextTick, CreateTimer
  <2>2. /\ Made' = Made \cup {t} /\ t \notin Made /\ t \in Nat \ {0}
        /\ pool' = pool \cup {t} /\ live' = live \cup {t}
        /\ InJs
    BY <2>1, CreateType DEF CreateTimer
  <2>3. /\ tick_queue \in Seq(Made') /\ t \in Made'
        /\ tick_queue' = Append(tick_queue, t)
    BY <1>2, <2>2, WiderQueue DEF NextTick, TypeOK
  <2>4. \A s : InQueue(s)' <=> InQueue(s) \/ s = t
    BY <2>3, Pushed DEF InQueue
  <2>5. /\ active' = active /\ repeats' = repeats
        /\ tick_event'.ref /\ tick_event'.pending
    BY <1>2 DEF NextTick
  <2>6. CanRun'
    BY <2>1, <2>2, <2>4, <2>5 DEF CanRun, stack
  <2> QED BY <2>1, <2>2, <2>4, <2>5, <2>6 DEF TypeOK, InJs, JsPcs, stack, loop
<1>3. ASSUME NEW t \in Ids, Clear(t) PROVE Holds'
  <2>1. CanRun'
    BY <1>3 DEF Clear, Delete, CanRun, InQueue, stack
  <2>2. Made' = Made /\ (\A s : InQueue(s)' <=> InQueue(s))
    BY <1>3 DEF Clear, Made, InQueue
  <2> QED BY <1>3, <2>1, <2>2 DEF Clear, Delete, stack, loop
<1>4. CASE Listen
  BY <1>4 DEF Listen, CanRun, InQueue, Made, timers, objects, stack
<1>5. ASSUME NEW t \in Ids, Fire(t) PROVE Holds'
  <2>1. CanRun' /\ Made' = Made /\ (\A s : InQueue(s)' <=> InQueue(s))
    BY <1>5 DEF Fire, CanRun, InQueue, Made
  <2>2. t \in Made /\ t /= 0 /\ t \in pool /\ 0 \notin cleared
        /\ ticking = 0 /\ firing = 0 /\ pc = "poll"
    BY <1>5 DEF Fire, TypeOK, Made
  <2>3. /\ pc' = "tick" /\ firing' = t /\ t \in active
        /\ t \in repeats => active' = active
        /\ active' \subseteq active
        /\ UNCHANGED <<pool, live, tick_queue, tick_event, repeats, ticking,
                       called, cleared, fault>>
    BY <1>5 DEF Fire
  <2> QED BY <2>1, <2>2, <2>3
<1>6. CASE TickEvent
  <2>1. tick_event'.ref = tick_event.ref
    BY <1>6 DEF TickEvent, TypeOK
  <2> QED BY <1>6, <2>1 DEF TickEvent, CanRun, InQueue, Made, objects, loop
<1>7. CASE Tick
  <2> DEFINE t == Last(tick_queue)
  <2>0. /\ tick_queue \in Seq(Made) /\ tick_queue /= <<>>
        /\ tick_queue' = Front(tick_queue) /\ id' = id
    BY <1>7 DEF Tick, TypeOK
  <2>1. /\ t \in Made /\ Made' = Made /\ InQueue(t)
        /\ \A s : InQueue(s) /\ s /= t => InQueue(s)'
        /\ \A s : InQueue(s)' => InQueue(s)
    <3>1. Made' = Made
      BY <2>0 DEF Made
    <3>2. t \in Made /\ InQueue(t)
      BY <2>0, Popped DEF InQueue
    <3>3. ASSUME NEW s, InQueue(s), s /= t PROVE InQueue(s)'
      BY <2>0, <3>3, Popped DEF InQueue
    <3>4. ASSUME NEW s, InQueue(s)' PROVE InQueue(s)
      <4>1. \E i \in 1 .. Len(Front(tick_queue)) : Front(tick_queue)[i] = s
        BY <2>0, <3>4 DEF InQueue
      <4> QED BY <2>0, <4>1, Popped DEF InQueue
    <3> QED BY <3>1, <3>2, <3>3, <3>4
  <2>2. /\ pc = "tick" /\ pool' = pool \ {t} /\ tick_queue /= <<>>
        /\ UNCHANGED <<tick_event, objects, firing, loop, cleared, fault>>
        /\ IF t \in pool
           THEN ticking' = t /\ pc' = "tickjs" /\ called' = called \cup {t}
           ELSE UNCHANGED <<ticking, pc, called>>
    BY <1>7 DEF Tick
  <2> HIDE DEF t
  <2>3. CanRun'
    BY <2>1, <2>2 DEF CanRun, objects
  <2>4. t /= 0 /\ t \notin active \cup {firing}
    BY <2>1 DEF Made
  <2> QED BY <2>1, <2>2, <2>3, <2>4 DEF objects, loop
<1>8. CASE TicksDone
  <2>1. CanRun' /\ Made' = Made /\ (\A s : InQueue(s)' <=> InQueue(s))
    BY <1>8 DEF TicksDone, Crash, timers, objects, stack, CanRun, InQueue,
                Made
  <2> QED BY <1>8, <2>1 DEF TicksDone, Crash, timers, objects, stack, loop
<1>9. CASE TickReturn
  <2>1. CanRun' /\ Made' = Made /\ (\A s : InQueue(s)' <=> InQueue(s))
    BY <1>9 DEF TickReturn, Crash, Delete, timers, objects, stack, CanRun,
                InQueue, Made
  <2>2. ticking \in live /\ ticking \notin pool /\ ticking /= 0
        /\ ticking /= firing
    BY <1>9 DEF TickReturn
  <2>3. /\ pool' = pool /\ live' = pool /\ active' = active
        /\ pc' = "tick" /\ ticking' = 0
        /\ UNCHANGED <<tick_queue, tick_event, repeats, firing, stopped, called,
                       cleared, fault>>
    BY <1>9, <2>2 DEF TickReturn, Delete
  <2> QED BY <1>0, <2>1, <2>2, <2>3
<1>10. CASE TimerReturn
  <2>1. Made' = Made /\ (\A s : InQueue(s)' <=> InQueue(s))
    BY <1>10 DEF TimerReturn, Crash, Delete, timers, objects, stack, InQueue,
                 Made
  <2>2. CASE firing \notin live /\ Crash
    BY <1>0, <1>10, <2>1, <2>2 DEF TimerReturn, Crash, timers, objects, stack,
                                   loop, CanRun
  <2>3. CASE ~(firing \notin live /\ Crash)
    <3>1. /\ firing \in live \cup repeats /\ pc = "timerjs" /\ ticking = 0
          /\ IF firing \in repeats THEN UNCHANGED <<pool, live, active>>
                                   ELSE Delete(firing)
          /\ pc' = "poll" /\ firing' = 0
          /\ UNCHANGED <<tick_queue, tick_event, repeats, ticking, stopped,
                         called, cleared, fault>>
      BY <1>10, <2>3 DEF TimerReturn
    <3>2. CanRun'
      BY <2>1, <3>1 DEF Delete, CanRun
    <3>3. firing \in called /\ 0 \notin Made /\ ~fault
      BY <1>0, <1>10, <3>1 DEF TimerReturn, vars, stack
    <3> QED BY <2>1, <3>1, <3>2, <3>3 DEF Delete
  <2> QED BY <2>2, <2>3
<1>11. CASE ScriptReturn
  <2>1. CanRun' /\ Made' = Made
    BY <1>11 DEF ScriptReturn, EndPool, timers, objects, CanRun, InQueue, Made
  <2>2. firing = 0 /\ ticking = 0
    BY <1>11 DEF ScriptReturn
  <2>3. \A s : InQueue(s)' => InQueue(s)
    BY <1>11 DEF ScriptReturn, EndPool, timers, InQueue
  <2> QED BY <1>11, <2>1, <2>2, <2>3 DEF ScriptReturn, EndPool, timers, objects
<1>12. CASE ListenerReturn \/ MicroReturn
  BY <1>12 DEF ListenerReturn, MicroReturn, timers, objects, CanRun, InQueue,
               Made
<1>13. CASE Message \/ Micro
  BY <1>13 DEF Message, Micro, timers, objects, loop, CanRun, InQueue, Made
<1>14. CASE Stop
  BY <1>14 DEF Stop, timers, objects, stack, CanRun, InQueue, Made
<1>15. CASE End
  <2>1. CanRun' /\ Made' = Made /\ (\A s : ~InQueue(s)')
    BY <1>15 DEF End, EndPool, CanRun, InQueue, Made
  <2>2. firing = 0 /\ ticking = 0
    BY <1>15 DEF End
  <2>3. ~stopped => pool = {}
    <3>1. ASSUME ~stopped PROVE tick_queue = <<>> /\ active = {}
      BY <1>15, <3>1 DEF End, LoopAlive
    <3>2. ASSUME ~stopped, NEW t \in pool PROVE FALSE
      BY <2>2, <3>1, <3>2 DEF CanRun, InQueue, TypeOK, Made
    <3> QED BY <3>2
  <2> QED BY <1>15, <2>1, <2>2, <2>3 DEF End, EndPool, loop
<1>16. CASE UNCHANGED vars
  BY <1>16 DEF vars, timers, objects, stack, loop, CanRun, InQueue, Made
<1> QED
  BY <1>1, <1>2, <1>3, <1>4, <1>5, <1>6, <1>7, <1>8, <1>9, <1>10, <1>11,
     <1>12, <1>13, <1>14, <1>15, <1>16
     DEF Next, Js, DoTick, Return

LEMMA NextInv == IInv /\ [Next]_vars => IInv'
  BY NextType, NextHolds DEF IInv, Holds

LEMMA Invariant == Spec => []IInv
  BY InitInv, NextInv, PTL DEF Spec
-----------------------------------------------------------------------------
(* Every variable of a thread's timers stays in its type. *)
THEOREM TypeCorrect == Spec => []TypeOK
<1>1. IInv => TypeOK
  BY DEF IInv
<1> QED BY <1>1, Invariant, PTL

(* No Timer is leaked, and ~TimerPool deletes none that do_tick, a timer's *)
(* callback or a clear function deletes too.                               *)
THEOREM OneOwner == Spec => []Owned
<1>1. IInv => Owned
  BY DEF IInv
<1> QED BY <1>1, Invariant, PTL

(* No timer in the pool is forgotten by libuv and by tick_queue. *)
THEOREM NoneForgotten == Spec => []CanRun
<1>1. IInv => CanRun
  BY DEF IInv
<1> QED BY <1>1, Invariant, PTL

(* A queued tick keeps the loop alive and awake. *)
THEOREM TicksHold == Spec => []TickHoldsLoop
<1>1. IInv => TickHoldsLoop
  BY DEF IInv
<1> QED BY <1>1, Invariant, PTL

(* What do_tick, the callbacks and the clear functions hold of a Timer     *)
(* while JavaScript runs on their stack.                                   *)
THEOREM StackSound == Spec => []Stack
<1>1. IInv => Stack
  BY DEF IInv
<1> QED BY <1>1, Invariant, PTL

(* A thread that ends by itself after its loop ran has called every timer  *)
(* that was not cleared.                                                   *)
THEOREM EndComplete == Spec => []EndLosesNothing
<1>1. IInv => EndLosesNothing
  BY DEF IInv
<1> QED BY <1>1, Invariant, PTL

(* Only a timer that is cleared while it is being called leads to          *)
(* undefined behaviour.                                                    *)
THEOREM OnlyClearedInCall == Spec => []SafeUnlessClearedInCall
<1>1. IInv => SafeUnlessClearedInCall
  BY DEF IInv
<1> QED BY <1>1, Invariant, PTL
-----------------------------------------------------------------------------
LEMMA InitAbstract == Init => Abstract!Init
  BY DEF Init, Abstract!Init, Due, Calling, Over, Made

LEMMA NextAbstract ==
    IInv /\ IInv' /\ [Next]_vars => [Abstract!Next]_(Abstract!vars)
<1> SUFFICES ASSUME TypeOK, Owned, Stack, [Next]_vars
             PROVE  [Abstract!Next]_(Abstract!vars)
  BY DEF IInv
<1> USE DEF Abstract!vars, Due, Calling, Over
<1>0. 0 \notin Made \cup pool \cup called \cup cleared
  BY DEF TypeOK, Made
<1>1. CASE UNCHANGED vars
  BY <1>1 DEF vars, timers, objects, stack, Made
<1> SUFFICES ASSUME Next, ~fault PROVE [Abstract!Next]_(Abstract!vars)
  BY <1>1 DEF Next
<1>2. ASSUME NEW t \in Ids, NEW period \in {0, 1}, SetTimer(t, period)
      PROVE  Abstract!Make(t, TRUE) \/ Abstract!Make(t, FALSE)
  <2>1. CreateTimer(t) /\ UNCHANGED <<stack, fault>>
    BY <1>2 DEF SetTimer, CreateTimer
  <2>2. /\ Made' = Made \cup {t} /\ t \notin Made /\ InJs
        /\ pool' = pool \cup {t}
    BY <2>1, CreateType DEF CreateTimer
  <2>3. /\ ~Over /\ ~Over' /\ Calling' = Calling
        /\ pc = "timerjs" => firing \in Made
    BY <2>1, <2>2 DEF InJs, JsPcs, stack, Stack, TypeOK
  <2>4. repeats' = repeats \/ repeats' = repeats \cup {t}
    BY <1>2 DEF SetTimer
  <2>5. t \notin repeats
    BY <2>2 DEF TypeOK
  <2>6. Due' = Due \cup {t}
    BY <2>1, <2>2, <2>3, <2>4 DEF stack
  <2> QED BY <2>2, <2>3, <2>4, <2>6 DEF Abstract!Make
<1>3. ASSUME NEW t \in Ids, NextTick(t) PROVE Abstract!Make(t, FALSE)
  <2>1. CreateTimer(t) /\ UNCHANGED <<stack, repeats, fault>>
    BY <1>3 DEF NextTick, CreateTimer
  <2>2. /\ Made' = Made \cup {t} /\ t \notin Made /\ InJs
        /\ pool' = pool \cup {t}
    BY <2>1, CreateType DEF CreateTimer
  <2>3. /\ ~Over /\ ~Over' /\ Calling' = Calling
        /\ pc = "timerjs" => firing \in Made
    BY <2>1, <2>2 DEF InJs, JsPcs, stack, Stack, TypeOK
  <2>4. Due' = Due \cup {t}
    BY <2>1, <2>2, <2>3 DEF stack
  <2> QED BY <2>1, <2>2, <2>3, <2>4 DEF Abstract!Make
<1>4. ASSUME NEW t \in Ids, Clear(t) PROVE Abstract!Clear(t)
  BY <1>4 DEF Clear, Delete, stack, Abstract!Clear, Made
<1>5. CASE Listen
  BY <1>5 DEF Listen, timers, objects, stack, Made
<1>6. ASSUME NEW t \in Ids, Fire(t) PROVE UNCHANGED Abstract!vars
  BY <1>6 DEF Fire, Made
<1>7. CASE TickEvent
  BY <1>7 DEF TickEvent, objects, Made
<1>8. CASE Tick
  <2> DEFINE t == Last(tick_queue)
  <2>1. t \in Made /\ InQueue(t) /\ Made' = Made
    <3>1. tick_queue \in Seq(Made) /\ tick_queue /= <<>> /\ Made' = Made
      BY <1>8 DEF Tick, TypeOK, Made
    <3> QED BY <3>1, Popped DEF InQueue
  <2>2. /\ pc = "tick" /\ pool' = pool \ {t} /\ ~fault'
        /\ UNCHANGED <<repeats, firing>>
        /\ IF t \in pool THEN ticking' = t /\ pc' = "tickjs"
                         ELSE UNCHANGED <<ticking, pc>>
    BY <1>8 DEF Tick, objects
  <2>3. t \notin repeats
    BY <2>1 DEF Stack
  <2> HIDE DEF t
  <2>4. CASE t \in pool
    <3>1. /\ Due = pool /\ Calling = {} /\ Due' = pool \ {t}
          /\ Calling' = {t} /\ Over' = Over
      BY <2>2, <2>4
    <3>2. Abstract!Call(t)
      BY <2>1, <2>2, <2>3, <2>4, <3>1 DEF Abstract!Call
    <3> QED BY <2>1, <3>2, TypeInIds DEF Abstract!Next
  <2>5. CASE t \notin pool
    BY <2>1, <2>2, <2>5
  <2> QED BY <2>4, <2>5
<1>9. CASE TicksDone
  <2>1. CASE Crash
    BY <2>1 DEF Crash, timers, objects, stack, Made, Abstract!Drop,
                Abstract!Next
  <2>2. CASE ~Crash /\ firing = 0
    BY <1>9, <2>2 DEF TicksDone, objects, Made
  <2>3. CASE ~Crash /\ firing /= 0
    <3>1. /\ firing \in live /\ pc = "tick" /\ pc' = "timerjs" /\ ~fault'
          /\ UNCHANGED <<id, pool, repeats, firing>>
      BY <1>9, <2>3 DEF TicksDone, objects
    <3>2. firing \in pool /\ firing \in Made /\ Made' = Made
      BY <3>1 DEF Owned, Stack, TypeOK, Made
    <3>3. Abstract!Call(firing)
      BY <3>1, <3>2 DEF Abstract!Call
    <3> QED BY <3>2, <3>3, TypeInIds DEF Abstract!Next
  <2> QED BY <2>1, <2>2, <2>3
<1>10. CASE TickReturn
  <2>1. ticking \in live /\ ticking \notin pool
    BY <1>10 DEF TickReturn, Owned, Stack
  <2>2. /\ pool' = pool /\ pc = "tickjs" /\ pc' = "tick" /\ Made' = Made
        /\ UNCHANGED <<repeats, fault>>
    BY <1>10, <2>1 DEF TickReturn, Delete, Made
  <2> QED BY <2>2 DEF Abstract!Return, Abstract!Next
<1>11. CASE TimerReturn
  <2>1. CASE Crash
    BY <2>1 DEF Crash, timers, objects, stack, Made, Abstract!Drop,
                Abstract!Next
  <2>2. CASE ~Crash
    <3>1. /\ pc = "timerjs" /\ pc' = "poll" /\ ~fault' /\ Made' = Made
          /\ pool' = IF firing \in repeats THEN pool ELSE pool \ {firing}
          /\ repeats' = repeats
      BY <1>11, <2>2 DEF TimerReturn, Delete, Made
    <3> QED BY <3>1 DEF Abstract!Return, Abstract!Next
  <2> QED BY <2>1, <2>2
<1>12. CASE ScriptReturn
  <2>1. CASE listening
    BY <1>12, <2>1 DEF ScriptReturn, timers, objects, Made
  <2>2. CASE ~listening
    BY <1>12, <2>2 DEF ScriptReturn, EndPool, Made, Abstract!Drop,
                       Abstract!Next
  <2> QED BY <2>1, <2>2
<1>13. CASE ListenerReturn \/ MicroReturn
  BY <1>13 DEF ListenerReturn, MicroReturn, timers, objects, Made
<1>14. CASE Message \/ Micro
  BY <1>14 DEF Message, Micro, timers, objects, Made
<1>15. CASE Stop
  BY <1>15 DEF Stop, timers, objects, stack, Made
<1>16. CASE End
  BY <1>16 DEF End, EndPool, Made, Abstract!Drop, Abstract!Next
<1> QED
  BY <1>2, <1>3, <1>4, <1>5, <1>6, <1>7, <1>8, <1>9, <1>10, <1>11, <1>12,
     <1>13, <1>14, <1>15, <1>16
     DEF Next, Js, DoTick, Return, Abstract!Next

(* Pool, queue and call stack together behave as a set of timers each of   *)
(* which is only called while it is due, and one at a time.                *)
THEOREM ImplementsTimerSet == Spec => StepsAsTimerSet
  BY InitAbstract, NextAbstract, Invariant, PTL DEF Spec, StepsAsTimerSet
=============================================================================
