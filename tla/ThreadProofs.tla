----------------------------- MODULE ThreadProofs -----------------------------
(***************************************************************************)
(* Invariants of a thread and its channel, for every bound and both kinds  *)
(* of thread.                                                              *)
(***************************************************************************)
EXTENDS Thread, SequenceTheorems, TLAPS
-----------------------------------------------------------------------------
(* Mailboxes: what their operations keep, and the sequence of messages a   *)
(* queue and its receiver make together.                                   *)

(* The two boxes a program starts with are boxes of any kind of message.   *)
LEMMA NewBoxes ==
    ASSUME NEW Msg
    PROVE  NoBox \in Box(Msg) /\ OpenBox \in Box(Msg)
<1>1. <<>> \in Seq(Msg)
  OBVIOUS
<1>. QED  BY <1>1 DEF OpenBox, NoBox, Box, BoxState

(* Every operation on a box gives a box (RecvEventData, uv_async_t).       *)
LEMMA BoxClosed ==
    ASSUME NEW Msg, NEW b \in Box(Msg)
    PROVE  /\ AsyncSend(b) \in Box(Msg)
           /\ ClearPending(b) \in Box(Msg)
           /\ DeleteBox(b) \in Box(Msg)
           /\ Unregister(b) \in Box(Msg)
           /\ \A m \in Msg : SendEvent(b, m) \in Box(Msg)
           /\ b.events /= <<>> => /\ NextEvent(b) \in Box(Msg)
                                  /\ Head(b.events) \in Msg
<1>1. /\ b.state \in BoxState /\ b.events \in Seq(Msg)
      /\ b.pending \in BOOLEAN
      /\ b = [state |-> b.state, events |-> b.events, pending |-> b.pending]
  BY DEF Box
<1>2. AsyncSend(b) \in Box(Msg) /\ ClearPending(b) \in Box(Msg)
  BY <1>1 DEF AsyncSend, ClearPending, Box
<1>3. DeleteBox(b) \in Box(Msg) /\ Unregister(b) \in Box(Msg)
  <2>1. <<>> \in Seq(Msg)
    OBVIOUS
  <2>2. DeleteBox(b) \in Box(Msg)
    BY <1>1, <2>1 DEF DeleteBox, Box, BoxState
  <2>3. Unregister(b) \in Box(Msg)
    BY <1>1 DEF Unregister, Box, BoxState
  <2>. QED  BY <2>2, <2>3
<1>4. ASSUME NEW m \in Msg PROVE SendEvent(b, m) \in Box(Msg)
  <2>1. Append(b.events, m) \in Seq(Msg)
    BY <1>1, AppendProperties
  <2>. QED  BY <1>1, <2>1 DEF SendEvent, AsyncSend, Box
<1>5. ASSUME b.events /= <<>>
      PROVE  NextEvent(b) \in Box(Msg) /\ Head(b.events) \in Msg
  <2>1. Tail(b.events) \in Seq(Msg) /\ Head(b.events) \in Msg
    BY <1>1, <1>5, HeadTailProperties
  <2>. QED  BY <1>1, <2>1 DEF NextEvent, Box
<1>. QED  BY <1>2, <1>3, <1>4, <1>5

(* The fields each operation sets, for a box that is one.                  *)
LEMMA BoxFields ==
    ASSUME NEW Msg, NEW b \in Box(Msg)
    PROVE  /\ AsyncSend(b).state = b.state
           /\ AsyncSend(b).events = b.events
           /\ AsyncSend(b).pending = TRUE
           /\ ClearPending(b).state = b.state
           /\ ClearPending(b).events = b.events
           /\ NextEvent(b).state = b.state
           /\ NextEvent(b).events = Tail(b.events)
           /\ NextEvent(b).pending = b.pending
           /\ DeleteBox(b).state = "dangling"
           /\ DeleteBox(b).events = <<>>
           /\ Unregister(b).state = "gone"
           /\ \A m \in Msg : SendEvent(b, m).state = b.state
           /\ \A m \in Msg : b.state = "live" =>
                 /\ SendEvent(b, m).events = Append(b.events, m)
                 /\ SendEvent(b, m).pending = TRUE
           /\ \A m \in Msg : b.state = "gone" => SendEvent(b, m) = b
BY DEF Box, AsyncSend, ClearPending, NextEvent, DeleteBox, Unregister,
       SendEvent, Registered

(* Moving the head of one sequence to the end of another keeps what the    *)
(* two make together: a message passes from a queue to its receiver.       *)
LEMMA HeadMoves ==
    ASSUME NEW S, NEW s \in Seq(S), NEW t \in Seq(S), t /= <<>>
    PROVE  Append(s, Head(t)) \o Tail(t) = s \o t
<1>1. Head(t) \in S /\ Tail(t) \in Seq(S)
  BY HeadTailProperties
<1>2. t = <<Head(t)>> \o Tail(t)
  BY <1>1
<1>3. Append(s, Head(t)) = s \o <<Head(t)>>
  BY <1>1, AppendIsConcat
<1>4. <<Head(t)>> \in Seq(S)
  BY <1>1
<1>5. (s \o <<Head(t)>>) \o Tail(t) = s \o (<<Head(t)>> \o Tail(t))
  BY <1>1, <1>4, ConcatAssociative
<1>. QED  BY <1>2, <1>3, <1>5

(* Appending behind a concatenation appends to its second part.            *)
LEMMA AppendBehind ==
    ASSUME NEW S, NEW s \in Seq(S), NEW t \in Seq(S), NEW m \in S
    PROVE  s \o Append(t, m) = Append(s \o t, m)
<1>1. s \o t \in Seq(S) /\ <<m>> \in Seq(S)
  BY ConcatProperties
<1>2. Append(t, m) = t \o <<m>> /\ Append(s \o t, m) = (s \o t) \o <<m>>
  BY <1>1, AppendIsConcat
<1>. QED  BY <1>1, <1>2, ConcatAssociative
-----------------------------------------------------------------------------
(* Types *)

(* j_create leaves every variable in its type. *)
LEMMA InitType == Init => TypeOK
<1>. SUFFICES ASSUME Init PROVE TypeOK
  OBVIOUS
<1>1. mainBox \in Box(UpMsg) /\ subBox \in Box(1 .. MaxSend)
  BY NewBoxes DEF Init
<1>2. <<>> \in Seq(1 .. MaxSend) /\ <<>> \in Seq(UpMsg)
  OBVIOUS
<1>3. /\ running \in BOOLEAN /\ terminated \in BOOLEAN /\ inPool \in BOOLEAN
      /\ v8term \in BOOLEAN /\ delPending \in BOOLEAN /\ peer \in BOOLEAN
      /\ notSendLive \in BOOLEAN /\ listeners \in BOOLEAN /\ work \in BOOLEAN
      /\ refd \in BOOLEAN /\ raced \in BOOLEAN /\ fault \in BOOLEAN
  BY Zenon DEF Init
<1>. QED  BY <1>1, <1>2, <1>3, ThreadAssumption
          DEF Init, TypeOK, MainOps, SendOps, Pcs, Startup

(* The boxes a step may make of the two there are.                         *)
LEMMA BoxSteps ==
    ASSUME TypeOK
    PROVE  /\ mainBox \in Box(UpMsg) /\ subBox \in Box(1 .. MaxSend)
           /\ AsyncSend(mainBox) \in Box(UpMsg)
           /\ ClearPending(mainBox) \in Box(UpMsg)
           /\ Unregister(DeleteBox(mainBox)) \in Box(UpMsg)
           /\ \A m \in UpMsg : SendEvent(mainBox, m) \in Box(UpMsg)
           /\ AsyncSend(subBox) \in Box(1 .. MaxSend)
           /\ ClearPending(subBox) \in Box(1 .. MaxSend)
           /\ DeleteBox(subBox) \in Box(1 .. MaxSend)
           /\ Unregister(subBox) \in Box(1 .. MaxSend)
           /\ OpenBox \in Box(1 .. MaxSend)
           /\ \A m \in 1 .. MaxSend : SendEvent(subBox, m) \in Box(1 .. MaxSend)
<1>1. mainBox \in Box(UpMsg) /\ subBox \in Box(1 .. MaxSend)
  BY DEF TypeOK
<1>2. DeleteBox(mainBox) \in Box(UpMsg)
  BY <1>1, BoxClosed
<1>. QED  BY <1>1, <1>2, BoxClosed, NewBoxes

(* Every step of either thread keeps the types; one case per action. *)
LEMMA NextType == TypeOK /\ [Next]_vars => TypeOK'
<1>. SUFFICES ASSUME TypeOK, [Next]_vars PROVE TypeOK'
  OBVIOUS
<1>. USE DEF mainPc, reqVars, boxes, bind, sub, history, MainOps, SendOps,
            StopOps,
            Pcs, Startup, Swapping, Loop, JsPcs, Ending
<1>b. /\ mainBox \in Box(UpMsg) /\ subBox \in Box(1 .. MaxSend)
      /\ AsyncSend(mainBox) \in Box(UpMsg)
      /\ ClearPending(mainBox) \in Box(UpMsg)
      /\ Unregister(DeleteBox(mainBox)) \in Box(UpMsg)
      /\ \A m \in UpMsg : SendEvent(mainBox, m) \in Box(UpMsg)
      /\ AsyncSend(subBox) \in Box(1 .. MaxSend)
      /\ ClearPending(subBox) \in Box(1 .. MaxSend)
      /\ DeleteBox(subBox) \in Box(1 .. MaxSend)
      /\ Unregister(subBox) \in Box(1 .. MaxSend)
      /\ OpenBox \in Box(1 .. MaxSend)
      /\ \A m \in 1 .. MaxSend : SendEvent(subBox, m) \in Box(1 .. MaxSend)
  BY BoxSteps
<1>c. ASSUME Crash PROVE TypeOK'
  <2>1. fault' \in BOOLEAN
    BY <1>c, Zenon DEF Crash
  <2>. QED  BY <1>c, <1>b, <2>1 DEF Crash, TypeOK
<1>e. ASSUME EndOp PROVE TypeOK'
  BY <1>e, <1>b DEF EndOp, TypeOK, MainOps, SendOps
<1>1. CASE SendCall
  BY <1>1, <1>b, ThreadAssumption
  DEF TypeOK, SendCall
<1>2. CASE SendPeer
  BY <1>2, <1>b, ThreadAssumption
  DEF TypeOK, SendPeer
<1>3. CASE SendQueue
  <2>1. CASE Crash
    BY <2>1, <1>c
  <2>3. sends \in 1 .. MaxSend
    BY <1>3, ThreadAssumption DEF SendQueue, TypeOK
  <2>4. Append(notSend, sends) \in Seq(1 .. MaxSend)
    BY <2>3, AppendProperties DEF TypeOK
  <2>5. CASE ~Crash
    <3>1. /\ notSend' = Append(notSend, sends) /\ mop' = "none"
          /\ UNCHANGED <<mscan, reqVars, boxes, peer, notSendLive, spc, sub,
                         history, fault>>
      BY <1>3, <2>5, Zenon DEF SendQueue
    <3>. QED
      BY <1>b, <2>4, <3>1 DEF TypeOK
  <2>. QED  BY <2>1, <2>5
<1>4. CASE SendLookup
  <2>1. CASE Crash
    BY <2>1, <1>c
  <2>2. CASE EndOp
    BY <2>2, <1>e
  <2>3. CASE ~Crash /\ ~EndOp
    BY <1>4, <1>b, <2>3 DEF TypeOK, SendLookup
  <2>. QED  BY <2>1, <2>2, <2>3
<1>5. CASE SendPush
  <2>1. CASE Crash
    BY <2>1, <1>c
  <2>2. CASE EndOp
    BY <2>2, <1>e
  <2>3. sends \in 1 .. MaxSend
    BY <1>5, ThreadAssumption DEF SendPush, TypeOK
  <2>4. CASE ~Crash /\ ~EndOp
    <3>1. raced' \in BOOLEAN
      BY <1>5, <2>4, Zenon DEF SendPush
    <3>. QED
      BY <1>5, <1>b, <2>3, <2>4, <3>1 DEF TypeOK, SendPush
  <2>. QED  BY <2>1, <2>2, <2>4
<1>6. CASE StopCall
  BY <1>6, <1>b, ThreadAssumption
  DEF TypeOK, StopCall
<1>7. CASE StopRunning
  <2>1. running' \in BOOLEAN
    BY <1>7, Zenon DEF TypeOK, StopRunning
  <2>. QED
    BY <1>7, <1>b, <2>1, ThreadAssumption
    DEF TypeOK, StopRunning
<1>8. CASE StopAlive
  BY <1>8, <1>b, ThreadAssumption
  DEF TypeOK, StopAlive
<1>9. CASE StopTerminate
  BY <1>9, <1>b, ThreadAssumption
  DEF TypeOK, StopTerminate
<1>10. CASE StopWake
  <2>1. CASE Crash
    BY <2>1, <1>c
  <2>2. CASE EndOp
    BY <2>2, <1>e
  <2>3. CASE ~Crash /\ ~EndOp
    BY <1>10, <1>b, <2>3 DEF TypeOK, StopWake
  <2>. QED  BY <2>1, <2>2, <2>3
<1>11. CASE StopFreed
  BY <1>11, <1>c DEF StopFreed
<1>12. CASE ScanMain
  BY <1>12, <1>b, ThreadAssumption
  DEF TypeOK, ScanMain
<1>13. CASE Deliver
  <2>1. NextEvent(mainBox) \in Box(UpMsg) /\ Head(mainBox.events) \in UpMsg
    BY <1>b, BoxClosed, <1>13 DEF Deliver
  <2>2. Append(upGot, Head(mainBox.events)) \in Seq(UpMsg)
    BY <2>1, AppendProperties DEF TypeOK
  <2>. QED
    BY <1>13, <1>b, <2>1, <2>2, ThreadAssumption
    DEF TypeOK, Deliver
<1>14. CASE DeliverDone
  BY <1>14, <1>b, ThreadAssumption
  DEF TypeOK, DeliverDone
<1>15. CASE ScanDel
  BY <1>15, <1>b, ThreadAssumption
  DEF TypeOK, ScanDel
<1>16. CASE CompileOk
  BY <1>16, <1>b, ThreadAssumption
  DEF TypeOK, CompileOk, Goto
<1>17. CASE CompileFail
  <2>1. [kind |-> "error", n |-> 0] \in UpMsg
    BY ThreadAssumption DEF UpMsg
  <2>2. Append(upSent, [kind |-> "error", n |-> 0]) \in Seq(UpMsg)
    BY <2>1, AppendProperties DEF TypeOK
  <2>. QED
    BY <1>17, <1>b, <2>1, <2>2, ThreadAssumption
    DEF TypeOK, CompileFail, Post, Goto
<1>18. CASE Catch
  <2>1. [kind |-> "error", n |-> 0] \in UpMsg
    BY ThreadAssumption DEF UpMsg
  <2>2. Append(upSent, [kind |-> "error", n |-> 0]) \in Seq(UpMsg)
    BY <2>1, AppendProperties DEF TypeOK
  <2>3. inPool' \in BOOLEAN
    BY <1>18, Zenon DEF TypeOK, Catch, Post, Goto
  <2>. QED
    BY <1>18, <1>b, <2>1, <2>2, <2>3, ThreadAssumption
    DEF TypeOK, Catch, Post, Goto
<1>19. CASE MakeLoop
  BY <1>19, <1>b, ThreadAssumption
  DEF TypeOK, MakeLoop, Goto
<1>20. CASE Load
  BY <1>20, <1>b, ThreadAssumption
  DEF TypeOK, Load, Goto
<1>21. CASE CreateAsync
  BY <1>21, <1>b, ThreadAssumption
  DEF TypeOK, CreateAsync, Goto
<1>22. CASE Bind
  BY <1>22, <1>b, ThreadAssumption
  DEF TypeOK, Bind, Goto
<1>23. CASE SwapBegin
  BY <1>23, <1>b, ThreadAssumption
  DEF TypeOK, SwapBegin, Goto
<1>24. CASE MoveOne
  <2>1. Head(notSend) \in 1 .. MaxSend /\ Tail(notSend) \in Seq(1 .. MaxSend)
    BY <1>24, HeadTailProperties DEF MoveOne, TypeOK
  <2>2. [subBox EXCEPT !.events = Append(@, Head(notSend))]
          \in Box(1 .. MaxSend)
    BY <1>b, <2>1, AppendProperties DEF Box
  <2>. QED
    BY <1>24, <1>b, <2>1, <2>2, ThreadAssumption
    DEF TypeOK, MoveOne
<1>25. CASE MoveEnd
  BY <1>25, <1>b, ThreadAssumption
  DEF TypeOK, MoveEnd, Goto
<1>26. CASE Unlink
  <2>1. <<>> \in Seq(1 .. MaxSend)
    OBVIOUS
  <2>2. notSendLive' \in BOOLEAN /\ raced' \in BOOLEAN
    BY <1>26, Zenon DEF TypeOK, Unlink, Goto
  <2>. QED
    BY <1>26, <1>b, <2>1, <2>2, ThreadAssumption
    DEF TypeOK, Unlink, Goto
<1>27. CASE StartScript
  <2>1. v8term' \in BOOLEAN
    BY <1>27, Zenon DEF TypeOK, StartScript, Goto
  <2>. QED
    BY <1>27, <1>b, <2>1, ThreadAssumption
    DEF TypeOK, StartScript, Goto
<1>28. CASE First
  <2>1. v8term' \in BOOLEAN
    BY <1>28, Zenon DEF TypeOK, First, Goto
  <2>. QED
    BY <1>28, <1>b, <2>1, ThreadAssumption
    DEF TypeOK, First, Goto
<1>29. CASE While
  BY <1>29, <1>b, ThreadAssumption
  DEF TypeOK, While, Goto
<1>30. CASE PollAsync
  BY <1>30, <1>b, ThreadAssumption
  DEF TypeOK, PollAsync, RunAsync, Goto
<1>31. CASE PollIdle
  BY <1>31, <1>b, ThreadAssumption
  DEF TypeOK, PollIdle, Goto
<1>32. CASE Drain
  <2>1. /\ NextEvent(subBox) \in Box(1 .. MaxSend)
        /\ Head(subBox.events) \in 1 .. MaxSend
    BY <1>b, BoxClosed, <1>32 DEF Drain
  <2>2. Append(got, Head(subBox.events)) \in Seq(1 .. MaxSend)
    BY <2>1, AppendProperties DEF TypeOK
  <2>. QED
    BY <1>32, <1>b, <2>1, <2>2, ThreadAssumption
    DEF TypeOK, Drain, Goto
<1>33. CASE DrainDone
  BY <1>33, <1>b, ThreadAssumption
  DEF TypeOK, DrainDone, RunEnd, Goto
<1>34. CASE After
  BY <1>34, <1>b, ThreadAssumption
  DEF TypeOK, After, Goto
<1>35. CASE RefStep
  <2>1. v8term' \in BOOLEAN /\ refd' \in BOOLEAN
    BY <1>35, Zenon DEF TypeOK, RefStep, Goto
  <2>. QED
    BY <1>35, <1>b, <2>1, ThreadAssumption
    DEF TypeOK, RefStep, Goto
<1>36. CASE NoWait
  BY <1>36, <1>b, ThreadAssumption
  DEF TypeOK, NoWait
<1>37. CASE More
  BY <1>37, <1>b, ThreadAssumption
  DEF TypeOK, More, Goto
<1>38. CASE Exit
  BY <1>38, <1>b, ThreadAssumption
  DEF TypeOK, Exit, Goto
<1>39. CASE SendEnd
  <2>1. [kind |-> "end", n |-> 0] \in UpMsg
    BY ThreadAssumption DEF UpMsg
  <2>2. Append(upSent, [kind |-> "end", n |-> 0]) \in Seq(UpMsg)
    BY <2>1, AppendProperties DEF TypeOK
  <2>. QED
    BY <1>39, <1>b, <2>1, <2>2, ThreadAssumption
    DEF TypeOK, SendEnd, Post, Goto
<1>40. CASE FreeId
  <2>1. inPool' \in BOOLEAN
    BY <1>40, Zenon DEF TypeOK, FreeId, Goto
  <2>. QED
    BY <1>40, <1>b, <2>1, ThreadAssumption
    DEF TypeOK, FreeId, Goto
<1>41. CASE DelBox
  BY <1>41, <1>b, ThreadAssumption
  DEF TypeOK, DelBox, Goto
<1>42. CASE RmBox
  BY <1>42, <1>b, ThreadAssumption
  DEF TypeOK, RmBox, Goto
<1>43. CASE Close
  BY <1>43, <1>b, ThreadAssumption
  DEF TypeOK, Close, Goto
<1>44. CASE DelSend
  BY <1>44, <1>b, ThreadAssumption
  DEF TypeOK, DelSend, Goto
<1>45. CASE Closed
  BY <1>45, <1>b, ThreadAssumption
  DEF TypeOK, Closed
<1>46. CASE CloseDone
  BY <1>46, <1>b, ThreadAssumption
  DEF TypeOK, CloseDone, Goto
<1>47. CASE JsSend
  <2>1. [kind |-> "data", n |-> Len(upSent) + 1] \in UpMsg
    BY <1>47, ThreadAssumption, LenProperties DEF JsSend, TypeOK, UpMsg
  <2>2. Append(upSent, [kind |-> "data", n |-> Len(upSent) + 1]) \in Seq(UpMsg)
    BY <2>1, AppendProperties DEF TypeOK
  <2>. QED
    BY <1>47, <1>b, <2>1, <2>2, ThreadAssumption
    DEF TypeOK, JsSend, Post
<1>48. CASE JsReturn
  BY <1>48, <1>b, ThreadAssumption
  DEF TypeOK, JsReturn, JsLeave, JsNext, RunEnd
<1>49. CASE JsAbort
  <2>1. v8term' \in BOOLEAN
    BY <1>49, Zenon DEF TypeOK, JsAbort, JsLeave, JsNext, RunEnd
  <2>. QED
    BY <1>49, <1>b, <2>1, ThreadAssumption
    DEF TypeOK, JsAbort, JsLeave, JsNext, RunEnd
<1>50. CASE PollWork
  BY <1>50, <1>b, ThreadAssumption
  DEF TypeOK, PollWork, RunWork, Goto
<1>51. CASE CloseWork
  BY <1>51, <1>b, ThreadAssumption
  DEF TypeOK, CloseWork, RunWork, Goto
<1>52. CASE UNCHANGED vars
  BY <1>52 DEF TypeOK, vars
<1>. QED
  BY <1>1, <1>2, <1>3, <1>4, <1>5, <1>6, <1>7, <1>8, <1>9, <1>10, <1>11,
     <1>12, <1>13, <1>14, <1>15, <1>16, <1>17, <1>18, <1>19, <1>20, <1>21,
     <1>22, <1>23, <1>24, <1>25, <1>26, <1>27, <1>28, <1>29, <1>30, <1>31,
     <1>32, <1>33, <1>34, <1>35, <1>36, <1>37, <1>38, <1>39, <1>40, <1>41,
     <1>42, <1>43, <1>44, <1>45, <1>46, <1>47, <1>48, <1>49, <1>50, <1>51,
     <1>52
  DEF Next, MainOp, MainLoop, WorkerStep, StartupStep, LoopStep, ShutdownStep

(* TypeOK is the type invariant of the run safety: the states of do_script *)
(* and of the native calls, and everything they share.                     *)
THEOREM TypeCorrect == Spec => []TypeOK
<1>. QED  BY InitType, NextType, PTL DEF Spec
-----------------------------------------------------------------------------
(* What the operations leave in the two boxes, for the steps below. *)
LEMMA BoxEffects ==
    ASSUME TypeOK
    PROVE  /\ AsyncSend(mainBox).state = mainBox.state
           /\ ClearPending(mainBox).state = mainBox.state
           /\ NextEvent(mainBox).state = mainBox.state
           /\ Unregister(DeleteBox(mainBox)).state = "gone"
           /\ \A m \in UpMsg : SendEvent(mainBox, m).state = mainBox.state
           /\ AsyncSend(subBox).state = subBox.state
           /\ ClearPending(subBox).state = subBox.state
           /\ NextEvent(subBox).state = subBox.state
           /\ DeleteBox(subBox).state = "dangling"
           /\ Unregister(subBox).state = "gone"
           /\ OpenBox.state = "live"
           /\ \A m \in 1 .. MaxSend : SendEvent(subBox, m).state = subBox.state
           /\ subBox.state \in BoxState
<1>1. DeleteBox(mainBox) \in Box(UpMsg)
  BY BoxSteps, BoxClosed
<1>2. OpenBox.state = "live" /\ subBox.state \in BoxState
  BY BoxSteps DEF OpenBox, Box
<1>3. /\ AsyncSend(mainBox).state = mainBox.state
      /\ ClearPending(mainBox).state = mainBox.state
      /\ NextEvent(mainBox).state = mainBox.state
      /\ \A m \in UpMsg : SendEvent(mainBox, m).state = mainBox.state
  <2>1. mainBox \in Box(UpMsg)
    BY BoxSteps
  <2>. QED  BY <2>1, BoxFields
<1>4. Unregister(DeleteBox(mainBox)).state = "gone"
  BY <1>1, BoxFields
<1>5. /\ AsyncSend(subBox).state = subBox.state
      /\ ClearPending(subBox).state = subBox.state
      /\ NextEvent(subBox).state = subBox.state
      /\ DeleteBox(subBox).state = "dangling"
      /\ Unregister(subBox).state = "gone"
      /\ \A m \in 1 .. MaxSend : SendEvent(subBox, m).state = subBox.state
  <2>1. subBox \in Box(1 .. MaxSend)
    BY BoxSteps
  <2>. QED  BY <2>1 DEF Box, AsyncSend, ClearPending, NextEvent, DeleteBox,
                        Unregister, SendEvent, Registered
<1>. QED  BY <1>2, <1>3, <1>4, <1>5

(* The messages there are. *)
LEMMA UpMessages ==
    ASSUME TypeOK
    PROVE  /\ [kind |-> "error", n |-> 0] \in UpMsg
           /\ [kind |-> "end", n |-> 0] \in UpMsg
           /\ JsSend => [kind |-> "data", n |-> Len(upSent) + 1] \in UpMsg
BY ThreadAssumption, LenProperties DEF TypeOK, UpMsg, JsSend

(* Every step keeps what exists in step with how far the threads are. *)
LEMMA PhaseStep == TypeOK /\ Phases /\ [Next]_vars => Phases'
<1>. SUFFICES ASSUME TypeOK, Phases, [Next]_vars PROVE Phases'
  OBVIOUS
<1>. USE DEF mainPc, reqVars, boxes, bind, sub, history, MainOps, SendOps,
             StopOps, Pcs, Startup, Swapping, Loop, JsPcs, Ending, BoxState
<1>f. /\ AsyncSend(mainBox).state = mainBox.state
      /\ ClearPending(mainBox).state = mainBox.state
      /\ NextEvent(mainBox).state = mainBox.state
      /\ Unregister(DeleteBox(mainBox)).state = "gone"
      /\ AsyncSend(subBox).state = subBox.state
      /\ ClearPending(subBox).state = subBox.state
      /\ NextEvent(subBox).state = subBox.state
      /\ DeleteBox(subBox).state = "dangling"
      /\ Unregister(subBox).state = "gone"
      /\ OpenBox.state = "live"
      /\ subBox.state \in BoxState
      /\ SendEvent(mainBox, [kind |-> "error", n |-> 0]).state = mainBox.state
      /\ SendEvent(mainBox, [kind |-> "end", n |-> 0]).state = mainBox.state
      /\ JsSend =>
           SendEvent(mainBox,
                     [kind |-> "data", n |-> Len(upSent) + 1]).state
                     = mainBox.state
  BY BoxEffects, UpMessages
<1>s. mop = "push" => SendEvent(subBox, sends).state = subBox.state
  <2>1. mop = "push" => sends \in 1 .. MaxSend
    BY ThreadAssumption DEF TypeOK
  <2>. QED  BY <2>1, BoxEffects
<1>m. [subBox EXCEPT !.events = Append(@, Head(notSend))].state = subBox.state
  BY BoxSteps DEF Box
<1>t. spc \in Pcs /\ mop \in MainOps /\ sends \in Nat
  BY ThreadAssumption DEF TypeOK
<1>1. CASE SendCall \/ StopCall
  BY <1>1, <1>t DEF Phases, SendCall, StopCall
<1>2. CASE MainOp
  BY <1>2, <1>f, <1>s, <1>t DEF Phases, MainOp, SendPeer, SendQueue, SendLookup,
      SendPush, StopRunning, StopAlive, StopTerminate, StopWake, StopFreed,
      EndOp, Crash, Registered
<1>3. CASE MainLoop
  BY <1>3, <1>f, <1>t DEF Phases, MainLoop, ScanMain, Deliver, DeliverDone,
      ScanDel
<1>4. CASE StartupStep
  <2>1. CASE CompileFail \/ Catch
    BY <2>1, <1>f, <1>t DEF Phases, CompileFail, Catch, Goto, Post
  <2>2. CASE CompileOk \/ MakeLoop \/ Load \/ StartScript
    BY <2>2, <1>t DEF Phases, CompileOk, MakeLoop, Load, StartScript, Goto
  <2>3. CASE CreateAsync
    BY <2>3, <1>f, <1>t DEF Phases, CreateAsync, Goto
  <2>4. CASE Bind \/ SwapBegin \/ MoveEnd \/ Unlink
    BY <2>4, <1>f, <1>t DEF Phases, Bind, SwapBegin, MoveEnd, Unlink, Goto
  <2>5. CASE MoveOne
    BY <2>5, <1>m, <1>t DEF Phases, MoveOne
  <2>. QED  BY <1>4, <2>1, <2>2, <2>3, <2>4, <2>5 DEF StartupStep
<1>5. CASE LoopStep
  BY <1>5, <1>f, <1>t DEF Phases, LoopStep, First, While, PollAsync, RunAsync,
      PollIdle, Drain, DrainDone, After, RefStep, NoWait, More, Goto, RunEnd
<1>6. CASE ShutdownStep
  BY <1>6, <1>f, <1>t DEF Phases, ShutdownStep, Exit, SendEnd, FreeId, DelBox,
      RmBox, Close, DelSend, Closed, CloseDone, Goto, Post
<1>7. CASE JsSend \/ JsReturn \/ JsAbort \/ PollWork \/ CloseWork
  BY <1>7, <1>f, <1>t DEF Phases, JsSend, JsReturn, JsAbort, JsLeave, JsNext,
      RunEnd, PollWork, CloseWork, RunWork, Goto, Post
<1>8. CASE UNCHANGED vars
  BY <1>8 DEF vars, Phases
<1>. QED  BY <1>1, <1>2, <1>3, <1>4, <1>5, <1>6, <1>7, <1>8
          DEF Next, WorkerStep

(* A thread that was just created has a mailbox on one side only. *)
LEMMA InitPhases == Init => Phases
BY DEF Init, Phases, OpenBox, NoBox, SendOps, Startup, Swapping, Loop, JsPcs

(* Phases is inductive beside the types: how far each thread is decides    *)
(* which of the shared objects exist.                                      *)
THEOREM PhasesHold == Spec => []Phases
<1>. QED  BY TypeCorrect, InitPhases, PhaseStep, PTL DEF Spec

(* The main thread's RecvEventData outlives the uses its own _send and the *)
(* worker make of it.                                                      *)
THEOREM MainBoxSafe == Spec => []MainBoxOutlivesUse
<1>1. Phases => MainBoxOutlivesUse
  BY DEF Phases, MainBoxOutlivesUse, SendOps
<1>. QED  BY <1>1, PhasesHold, PTL
-----------------------------------------------------------------------------
(* Only these steps touch the direction to the main thread. *)
LEMMA UpFrame ==
    Next => \/ ScanMain \/ Deliver \/ DeliverDone \/ ScanDel
            \/ CompileFail \/ Catch \/ JsSend \/ SendEnd \/ After
            \/ UNCHANGED <<mainBox, mscan, upSent, upGot>>
<1>. USE DEF mainPc, reqVars, boxes, bind, sub, history
<1>1. CASE SendCall \/ StopCall \/ MainOp
  BY <1>1 DEF SendCall, StopCall, MainOp, SendPeer, SendQueue, SendLookup,
              SendPush, StopRunning, StopAlive, StopTerminate, StopWake,
              StopFreed, EndOp, Crash
<1>2. CASE StartupStep
  BY <1>2 DEF StartupStep, CompileOk, MakeLoop, Load, CreateAsync, Bind,
              SwapBegin, MoveOne, MoveEnd, Unlink, StartScript
<1>3. CASE LoopStep
  BY <1>3 DEF LoopStep, First, While, PollAsync, RunAsync, PollIdle, Drain,
              DrainDone, RefStep, NoWait, More
<1>4. CASE ShutdownStep
  BY <1>4 DEF ShutdownStep, Exit, FreeId, DelBox, RmBox, Close, DelSend,
              Closed, CloseDone
<1>5. CASE JsReturn \/ JsAbort \/ PollWork \/ CloseWork
  BY <1>5 DEF JsReturn, JsAbort, PollWork, CloseWork, RunWork
<1>. QED  BY <1>1, <1>2, <1>3, <1>4, <1>5 DEF Next, MainLoop, WorkerStep

(* sendEvent(main_event, m) extends both what was sent and what is queued, *)
(* or finds no mailbox.                                                    *)
LEMMA PostStep ==
    ASSUME TypeOK, Phases, UpExactlyOnce, UpWakeup,
           NEW m \in UpMsg, Post(m), upGot' = upGot, mscan' = mscan
    PROVE  UpExactlyOnce' /\ UpWakeup'
<1>1. mainBox \in Box(UpMsg) /\ upGot \in Seq(UpMsg)
  BY BoxSteps DEF TypeOK
<1>2. CASE mainBox.state = "live"
  <2>1. /\ mainBox'.events = Append(mainBox.events, m)
        /\ mainBox'.pending = TRUE
    BY <1>1, <1>2, BoxFields DEF Post
  <2>2. mainBox.events \in Seq(UpMsg)
    BY <1>1 DEF Box
  <2>3. upGot \o Append(mainBox.events, m) = Append(upGot \o mainBox.events, m)
    BY <1>1, <2>2, AppendBehind
  <2>4. UpExactlyOnce'
    BY <1>2, <2>1, <2>3 DEF UpExactlyOnce, UpFlow, Post
  <2>. QED  BY <2>1, <2>4 DEF UpWakeup
<1>3. CASE mainBox.state = "gone"
  <2>1. mainBox' = mainBox
    BY <1>3 DEF Post, SendEvent, Registered
  <2>. QED  BY <1>3, <2>1 DEF UpExactlyOnce, UpWakeup
<1>. QED  BY <1>2, <1>3 DEF Phases

(* No step loses, doubles or strands a message to the main thread. *)
LEMMA UpStep ==
    TypeOK /\ Phases /\ UpExactlyOnce /\ UpWakeup /\ [Next]_vars
      => UpExactlyOnce' /\ UpWakeup'
<1>. SUFFICES ASSUME TypeOK, Phases, UpExactlyOnce, UpWakeup, [Next]_vars
              PROVE  UpExactlyOnce' /\ UpWakeup'
  OBVIOUS
<1>. USE DEF mainPc, history
<1>b. mainBox \in Box(UpMsg) /\ upGot \in Seq(UpMsg)
  BY BoxSteps DEF TypeOK
<1>f. /\ AsyncSend(mainBox).state = mainBox.state
      /\ AsyncSend(mainBox).events = mainBox.events
      /\ AsyncSend(mainBox).pending = TRUE
      /\ ClearPending(mainBox).state = mainBox.state
      /\ ClearPending(mainBox).events = mainBox.events
      /\ NextEvent(mainBox).state = mainBox.state
      /\ NextEvent(mainBox).events = Tail(mainBox.events)
      /\ mainBox.events \in Seq(UpMsg)
  BY <1>b DEF Box, AsyncSend, ClearPending, NextEvent
<1>1. CASE ScanMain
  BY <1>1, <1>f DEF ScanMain, UpExactlyOnce, UpFlow, UpWakeup
<1>2. CASE Deliver
  <2>1. upGot' \o mainBox'.events = upGot \o mainBox.events
    BY <1>2, <1>b, <1>f, HeadMoves DEF Deliver
  <2>. QED  BY <1>2, <1>f, <2>1 DEF Deliver, UpExactlyOnce, UpFlow, UpWakeup
<1>3. CASE DeliverDone
  BY <1>3 DEF DeliverDone, boxes, UpExactlyOnce, UpFlow, UpWakeup
<1>4. CASE ScanDel
  <2>1. Unregister(DeleteBox(mainBox)).state = "gone"
    BY BoxEffects
  <2>. QED  BY <1>4, <2>1 DEF ScanDel, UpExactlyOnce, UpFlow, UpWakeup
<1>5. CASE CompileFail \/ Catch \/ JsSend \/ SendEnd
  <2>1. PICK m \in UpMsg : Post(m) /\ upGot' = upGot /\ mscan' = mscan
    BY <1>5, UpMessages DEF CompileFail, Catch, JsSend, SendEnd
  <2>. QED  BY <2>1, PostStep
<1>6. CASE After
  BY <1>6, <1>f DEF After, UpExactlyOnce, UpFlow, UpWakeup
<1>7. CASE UNCHANGED <<mainBox, mscan, upSent, upGot>>
  BY <1>7 DEF UpExactlyOnce, UpFlow, UpWakeup
<1>8. CASE UNCHANGED vars
  BY <1>7, <1>8 DEF vars, boxes
<1>. QED  BY <1>1, <1>2, <1>3, <1>4, <1>5, <1>6, <1>7, <1>8, UpFrame

(* Nothing was sent to the main thread yet. *)
LEMMA InitUp == Init => UpExactlyOnce /\ UpWakeup
<1>1. <<>> \o <<>> = <<>>
  OBVIOUS
<1>. QED  BY <1>1 DEF Init, OpenBox, UpExactlyOnce, UpFlow, UpWakeup

(* The channel to the main thread loses, duplicates and reorders nothing   *)
(* while the main thread's end of it exists.                               *)
THEOREM UpReliable == Spec => []UpExactlyOnce
<1>. QED  BY TypeCorrect, PhasesHold, InitUp, UpStep, PTL DEF Spec

(* No wakeup of the main thread is lost, although uv_async_send coalesces. *)
THEOREM UpNeverAsleep == Spec => []UpWakeup
<1>. QED  BY TypeCorrect, PhasesHold, InitUp, UpStep, PTL DEF Spec

(* Nothing but undefined behaviour changes fault. *)
LEMMA CrashOnly == Next => (MainOp /\ Crash) \/ fault' = fault
<1>. USE DEF mainPc, reqVars, boxes, bind, sub, history
<1>1. CASE SendCall \/ StopCall \/ MainOp
  BY <1>1 DEF SendCall, StopCall, MainOp, SendPeer, SendQueue, SendLookup,
              SendPush, StopRunning, StopAlive, StopTerminate, StopWake,
              StopFreed, EndOp
<1>2. CASE MainLoop
  BY <1>2 DEF MainLoop, ScanMain, Deliver, DeliverDone, ScanDel
<1>3. CASE StartupStep
  BY <1>3 DEF StartupStep, CompileOk, CompileFail, Catch, MakeLoop, Load,
              CreateAsync, Bind, SwapBegin, MoveOne, MoveEnd, Unlink,
              StartScript
<1>4. CASE LoopStep
  BY <1>4 DEF LoopStep, First, While, PollAsync, RunAsync, PollIdle, Drain,
              DrainDone, After, RefStep, NoWait, More
<1>5. CASE ShutdownStep
  BY <1>5 DEF ShutdownStep, Exit, SendEnd, FreeId, DelBox, RmBox, Close,
              DelSend, Closed, CloseDone
<1>6. CASE JsSend \/ JsReturn \/ JsAbort \/ PollWork \/ CloseWork
  BY <1>6 DEF JsSend, JsReturn, JsAbort, PollWork, CloseWork, RunWork
<1>. QED  BY <1>1, <1>2, <1>3, <1>4, <1>5, <1>6 DEF Next, WorkerStep

(* The step of the code that receives is the step of the channel: what is  *)
(* at the head of the queue is the next message that was not received.     *)
LEMMA ReceivesNext ==
    ASSUME TypeOK, Phases, UpExactlyOnce, Deliver
    PROVE  /\ mscan /= "closed"
           /\ Len(upGot) < Len(upSent)
           /\ Head(mainBox.events) = upSent[Len(upGot) + 1]
<1>1. /\ mscan = "drain" /\ mainBox.events /= <<>>
      /\ mainBox.events \in Seq(UpMsg) /\ upGot \in Seq(UpMsg)
  BY BoxSteps DEF Deliver, TypeOK, Box
<1>2. upSent = upGot \o mainBox.events
  BY <1>1 DEF Phases, UpExactlyOnce, UpFlow
<1>3. /\ Len(upGot) \in Nat
      /\ Len(mainBox.events) \in Nat \ {0}
      /\ Head(mainBox.events) = mainBox.events[1]
  BY <1>1
<1>4. /\ Len(upSent) = Len(upGot) + Len(mainBox.events)
      /\ \A i \in 1 .. Len(upGot) + Len(mainBox.events) :
            upSent[i] = IF i <= Len(upGot) THEN upGot[i]
                        ELSE mainBox.events[i - Len(upGot)]
  BY <1>1, <1>2, ConcatProperties
<1>. QED  BY <1>1, <1>3, <1>4

(* The direction to the main thread, seen as what was sent and what was    *)
(* received, is the reliable channel of module Channel (its safety part).  *)
THEOREM UpImplementsChannel == Spec => Up!SafeSpec
<1>1. Init => Up!Init
  BY DEF Init, Up!Init
<1>2. TypeOK /\ Phases /\ UpExactlyOnce /\ [Next]_vars
        => [Up!Next]_(Up!vars)
  <2>. SUFFICES ASSUME TypeOK, Phases, UpExactlyOnce, [Next]_vars
                PROVE  [Up!Next]_(Up!vars)
    OBVIOUS
  <2>. USE DEF mainPc, history
  <2>1. CASE CompileFail \/ Catch \/ JsSend \/ SendEnd
    <3>1. PICK m \in UpMsg : /\ Post(m)
                             /\ UNCHANGED <<upGot, mscan, fault>>
      BY <2>1, UpMessages DEF CompileFail, Catch, JsSend, SendEnd
    <3>2. Up!Send(m)
      BY <3>1 DEF Post, Up!Send
    <3>. QED  BY <3>2 DEF Up!Next
  <2>2. CASE Deliver /\ ~fault
    <3>1. ~(mscan = "closed" \/ fault)
      BY <2>2, ReceivesNext
    <3>2. (mscan = "closed" \/ fault)' = (mscan = "closed" \/ fault)
      BY <2>2 DEF Deliver
    <3>3. /\ Len(upGot) < Len(upSent)
          /\ upGot' = Append(upGot, upSent[Len(upGot) + 1])
          /\ upSent' = upSent
      BY <2>2, ReceivesNext DEF Deliver
    <3>4. Up!Receive
      BY <3>1, <3>2, <3>3, Zenon DEF Up!Receive
    <3>. QED  BY <3>4 DEF Up!Next
  <2>3. CASE ScanDel
    <3>1. Up!Close \/ UNCHANGED Up!vars
      BY <2>3 DEF ScanDel, Up!Close, Up!vars
    <3>. QED  BY <3>1 DEF Up!Next
  <2>4. CASE Crash
    <3>1. Up!Close
      BY <2>4 DEF Crash, Up!Close
    <3>. QED  BY <3>1 DEF Up!Next
  <2>5. CASE ScanMain \/ DeliverDone \/ After
    <3>1. UNCHANGED Up!vars
      BY <2>5 DEF ScanMain, DeliverDone, After, Up!vars
    <3>. QED  BY <3>1
  <2>6. CASE UNCHANGED <<mainBox, mscan, upSent, upGot>> /\ ~Crash /\ Next
    <3>1. fault' = fault
      BY <2>6, CrashOnly
    <3>. QED  BY <2>6, <3>1 DEF Up!vars
  <2>7. CASE UNCHANGED vars
    BY <2>7 DEF vars, Up!vars
  <2>. QED
    BY <2>1, <2>2, <2>3, <2>4, <2>5, <2>6, <2>7, UpFrame DEF Next
<1>. QED
  BY <1>1, <1>2, TypeCorrect, PhasesHold, UpReliable, PTL
  DEF Spec, Up!SafeSpec
-----------------------------------------------------------------------------
(* No step leaves a message in the worker's queue without a wakeup. *)
LEMMA DownStep ==
    TypeOK /\ Phases /\ DownWakeup /\ [Next]_vars => DownWakeup'
<1>. SUFFICES ASSUME TypeOK, Phases, DownWakeup, [Next]_vars
              PROVE  DownWakeup'
  OBVIOUS
<1>. USE DEF mainPc, reqVars, boxes, bind, sub, history, DownWakeup
<1>f. /\ AsyncSend(subBox).state = subBox.state
      /\ AsyncSend(subBox).events = subBox.events
      /\ AsyncSend(subBox).pending = TRUE
      /\ ClearPending(subBox).state = subBox.state
      /\ ClearPending(subBox).events = subBox.events
      /\ NextEvent(subBox).state = subBox.state
      /\ NextEvent(subBox).pending = subBox.pending
      /\ DeleteBox(subBox).state = "dangling"
      /\ Unregister(subBox).state = "gone"
      /\ OpenBox.events = <<>>
      /\ subBox.state = "live" => SendEvent(subBox, sends).pending = TRUE
  <2>1. subBox \in Box(1 .. MaxSend)
    BY BoxSteps
  <2>. QED  BY <2>1 DEF Box, AsyncSend, ClearPending, NextEvent, DeleteBox,
                        Unregister, SendEvent, Registered, OpenBox
<1>t. spc \in Pcs
  BY DEF TypeOK
<1>1. CASE SendCall \/ StopCall \/ MainOp
  BY <1>1, <1>f DEF SendCall, StopCall, MainOp, SendPeer, SendQueue,
     SendLookup, SendPush, StopRunning, StopAlive, StopTerminate, StopWake,
     StopFreed, EndOp, Crash
<1>2. CASE MainLoop
  BY <1>2 DEF MainLoop, ScanMain, Deliver, DeliverDone, ScanDel
<1>3. CASE StartupStep
  BY <1>3, <1>f DEF StartupStep, CompileOk, CompileFail, Catch, MakeLoop,
     Load, CreateAsync, Bind, SwapBegin, MoveOne, MoveEnd, Unlink,
     StartScript, Goto
<1>4. CASE LoopStep
  BY <1>4, <1>f DEF LoopStep, First, While, PollAsync, RunAsync, PollIdle,
     Drain, DrainDone, After, RefStep, NoWait, More, Goto, RunEnd
<1>5. CASE ShutdownStep
  BY <1>5, <1>f DEF ShutdownStep, Exit, SendEnd, FreeId, DelBox, RmBox, Close,
     DelSend, Closed, CloseDone, Goto
<1>6. CASE JsSend \/ JsReturn \/ JsAbort \/ PollWork \/ CloseWork
  BY <1>6, <1>f DEF JsSend, JsReturn, JsAbort, JsLeave, JsNext, RunEnd, JsPcs,
     PollWork, CloseWork, RunWork, Goto
<1>7. CASE UNCHANGED vars
  BY <1>7 DEF vars
<1>. QED  BY <1>1, <1>2, <1>3, <1>4, <1>5, <1>6, <1>7 DEF Next, WorkerStep

(* No wakeup of the worker is lost, over the binding and every run of its  *)
(* loop: a message in its queue is announced.                              *)
THEOREM DownNeverAsleep == Spec => []DownWakeup
<1>1. Init => DownWakeup
  BY DEF Init, NoBox, DownWakeup
<1>. QED  BY <1>1, TypeCorrect, PhasesHold, DownStep, PTL DEF Spec

(* No step puts a stopped worker to sleep without a wakeup. *)
LEMMA StopStep ==
    TypeOK /\ Phases /\ StopWakesPoll /\ [Next]_vars => StopWakesPoll'
<1>. SUFFICES ASSUME TypeOK, Phases, StopWakesPoll, [Next]_vars
              PROVE  StopWakesPoll'
  OBVIOUS
<1>. USE DEF mainPc, reqVars, boxes, bind, sub, history, StopWakesPoll,
             LoopAlive, StopOps
<1>f. /\ AsyncSend(subBox).pending = TRUE
      /\ NextEvent(subBox).pending = subBox.pending
      /\ subBox.pending => SendEvent(subBox, sends).pending = TRUE
      /\ spc = "poll" => handle = "open"
  <2>1. subBox \in Box(1 .. MaxSend)
    BY BoxSteps
  <2>. QED  BY <2>1 DEF Box, AsyncSend, NextEvent, SendEvent, Registered,
                        Phases, Loop
<1>t. spc \in Pcs /\ mop \in MainOps
  BY DEF TypeOK
<1>1. CASE SendCall \/ StopCall \/ MainOp
  BY <1>1, <1>f DEF SendCall, StopCall, MainOp, SendPeer, SendQueue,
     SendLookup, SendPush, StopRunning, StopAlive, StopTerminate, StopWake,
     StopFreed, EndOp, Crash
<1>2. CASE MainLoop
  BY <1>2 DEF MainLoop, ScanMain, Deliver, DeliverDone, ScanDel
<1>3. CASE StartupStep
  BY <1>3, <1>f DEF StartupStep, CompileOk, CompileFail, Catch, MakeLoop,
     Load, CreateAsync, Bind, SwapBegin, MoveOne, MoveEnd, Unlink,
     StartScript, Goto
<1>4. CASE LoopStep
  BY <1>4, <1>f DEF LoopStep, First, While, PollAsync, RunAsync, PollIdle,
     Drain, DrainDone, After, RefStep, NoWait, More, Goto, RunEnd
<1>5. CASE ShutdownStep
  BY <1>5, <1>f DEF ShutdownStep, Exit, SendEnd, FreeId, DelBox, RmBox, Close,
     DelSend, Closed, CloseDone, Goto
<1>6. CASE JsSend \/ JsReturn \/ JsAbort \/ PollWork \/ CloseWork
  BY <1>6, <1>f DEF JsSend, JsReturn, JsAbort, JsLeave, JsNext, RunEnd, JsPcs,
     PollWork, CloseWork, RunWork, Goto
<1>7. CASE UNCHANGED vars
  BY <1>7 DEF vars
<1>. QED  BY <1>1, <1>2, <1>3, <1>4, <1>5, <1>6, <1>7 DEF Next, WorkerStep

(* After stop() has returned no worker sleeps in uv_run without a wakeup.  *)
THEOREM StopNeverSleeps == Spec => []StopWakesPoll
<1>1. Init => StopWakesPoll
  BY DEF Init, StopWakesPoll
<1>. QED  BY <1>1, TypeCorrect, PhasesHold, StopStep, PTL DEF Spec
-----------------------------------------------------------------------------
(* No step reaches undefined behaviour outside the two races. *)
LEMMA FaultStep ==
    TypeOK /\ Phases /\ SafeWhileServing /\ [Next]_vars => SafeWhileServing'
<1>. SUFFICES ASSUME TypeOK, Phases, SafeWhileServing, [Next]_vars
              PROVE  SafeWhileServing'
  OBVIOUS
<1>. USE DEF mainPc, reqVars, boxes, bind, sub, history
<1>1. CASE Next /\ fault' = fault
  BY <1>1 DEF Next, SafeWhileServing
<1>2. CASE Next /\ ~(fault' = fault)
  <2>1. fault' /\ ~fault
    <3>1. fault \in BOOLEAN /\ fault' \in BOOLEAN
      BY NextType DEF TypeOK
    <3>. QED  BY <1>2, <3>1, Zenon DEF Next
  <2>2. MainOp
    BY <1>2, CrashOnly
  <2>3. handle = "freed" => ~inPool
    BY DEF Phases
  <2>4. mop = "push" /\ subBox.state /= "live" => ~inPool
    BY BoxSteps DEF Phases, Box, BoxState
  <2>5. spc = "done" => ~inPool
    BY DEF Phases
  <2>6. Crash /\ (mop = "queue" \/ ~inPool)
    BY <2>1, <2>2, <2>3, <2>4, <2>5
    DEF MainOp, SendPeer, SendQueue, SendLookup, SendPush, StopRunning,
        StopAlive, StopTerminate, StopWake, StopFreed, EndOp
  <2>. QED  BY <2>6 DEF Crash, SafeWhileServing
<1>3. CASE UNCHANGED vars
  BY <1>3 DEF vars, SafeWhileServing
<1>. QED  BY <1>1, <1>2, <1>3

(* Undefined behaviour needs a send during the binding, or a call that     *)
(* passed its id check before the thread left the pool.                    *)
THEOREM FaultsOnlyInRaces == Spec => []SafeWhileServing
<1>1. Init => SafeWhileServing
  BY DEF Init, SafeWhileServing
<1>. QED  BY <1>1, TypeCorrect, PhasesHold, FaultStep, PTL DEF Spec
-----------------------------------------------------------------------------
(* Once the end was sent, do_script is past free_sub_loop's first line. *)
EndPhase == Ended => spc \in {"freeid", "delbox", "rmbox", "close", "delsend",
                              "closing", "closejs", "done"}

(* No step sends a message after the end. *)
LEMMA EndStep ==
    TypeOK /\ Phases /\ EndPhase /\ EndIsLast /\ [Next]_vars
      => EndPhase' /\ EndIsLast'
<1>. SUFFICES ASSUME TypeOK, Phases, EndPhase, EndIsLast, [Next]_vars
              PROVE  EndPhase' /\ EndIsLast'
  OBVIOUS
<1>. USE DEF mainPc, reqVars, boxes, bind, sub, history
<1>1. CASE CompileFail \/ Catch \/ JsSend \/ SendEnd
  <2>1. ~Ended
    BY <1>1 DEF EndPhase, CompileFail, Catch, JsSend, SendEnd, Goto, JsPcs,
                Phases
  <2>2. PICK m \in UpMsg : /\ upSent' = Append(upSent, m)
                           /\ m.kind = "end" => spc' = "freeid"
    BY <1>1, UpMessages DEF CompileFail, Catch, JsSend, SendEnd, Goto, Post
  <2>3. /\ Len(upSent') = Len(upSent) + 1
        /\ \A i \in 1 .. Len(upSent) : upSent'[i] = upSent[i]
        /\ upSent'[Len(upSent) + 1] = m
        /\ Len(upSent) \in Nat
    BY <2>2, AppendProperties, LenProperties DEF TypeOK
  <2>4. \A i \in 1 .. Len(upSent') :
            upSent'[i].kind = "end" => i = Len(upSent') /\ spc' = "freeid"
    <3>. SUFFICES ASSUME NEW i \in 1 .. Len(upSent'), upSent'[i].kind = "end"
                  PROVE  i = Len(upSent') /\ spc' = "freeid"
      OBVIOUS
    <3>1. CASE i \in 1 .. Len(upSent)
      BY <2>1, <2>3, <3>1 DEF Ended
    <3>2. CASE i = Len(upSent) + 1
      BY <2>2, <2>3, <3>2
    <3>. QED  BY <2>3, <3>1, <3>2
  <2>. QED  BY <2>4 DEF EndPhase, EndIsLast, Ended
<1>2. CASE Next /\ upSent' = upSent
  <2>1. EndIsLast' /\ Ended' = Ended
    BY <1>2 DEF EndIsLast, Ended
  <2>2. SUFFICES ASSUME Ended PROVE EndPhase'
    BY <2>1 DEF EndPhase
  <2>3. spc \in {"freeid", "delbox", "rmbox", "close", "delsend", "closing",
                 "closejs", "done"}
    BY <2>2 DEF EndPhase
  <2>4. spc' \in {"freeid", "delbox", "rmbox", "close", "delsend", "closing",
                  "closejs", "done"}
    <3>1. CASE SendCall \/ StopCall \/ MainOp
      BY <2>3, <3>1 DEF SendCall, StopCall, MainOp, SendPeer, SendQueue,
         SendLookup, SendPush, StopRunning, StopAlive, StopTerminate,
         StopWake, StopFreed, EndOp, Crash
    <3>2. CASE MainLoop
      BY <2>3, <3>2 DEF MainLoop, ScanMain, Deliver, DeliverDone, ScanDel
    <3>3. CASE StartupStep
      BY <2>3, <3>3 DEF StartupStep, CompileOk, CompileFail, Catch, MakeLoop,
         Load, CreateAsync, Bind, SwapBegin, MoveOne, MoveEnd, Unlink,
         StartScript, Goto
    <3>4. CASE LoopStep
      BY <2>3, <3>4 DEF LoopStep, First, While, PollAsync, RunAsync, PollIdle,
         Drain, DrainDone, After, RefStep, NoWait, More, Goto
    <3>5. CASE ShutdownStep
      BY <2>3, <3>5 DEF ShutdownStep, Exit, SendEnd, FreeId, DelBox, RmBox,
         Close, DelSend, Closed, CloseDone, Goto
    <3>6. CASE JsSend \/ JsReturn \/ JsAbort \/ PollWork \/ CloseWork
      BY <2>3, <3>6 DEF JsSend, JsReturn, JsAbort, JsLeave, JsNext, JsPcs,
         PollWork, CloseWork, RunWork, Goto
    <3>. QED  BY <1>2, <3>1, <3>2, <3>3, <3>4, <3>5, <3>6 DEF Next, WorkerStep
  <2>. QED  BY <2>4 DEF EndPhase
<1>3. CASE UNCHANGED vars
  BY <1>3 DEF vars, EndPhase, EndIsLast, Ended
<1>4. Next => \/ CompileFail \/ Catch \/ JsSend \/ SendEnd
              \/ upSent' = upSent
  BY UpFrame DEF ScanMain, Deliver, DeliverDone, ScanDel, After
<1>. QED  BY <1>1, <1>2, <1>3, <1>4

(* The end is the last message of a thread, whatever its JavaScript does   *)
(* while the loop is torn down.                                            *)
THEOREM EndComesLast == Spec => []EndIsLast
<1>1. Init => EndPhase /\ EndIsLast
  BY DEF Init, EndPhase, Ended, EndIsLast
<1>. QED  BY <1>1, TypeCorrect, PhasesHold, EndStep, PTL DEF Spec
-----------------------------------------------------------------------------
(* The direction to the worker, as three sequences one after the other:    *)
(* what it has got, its queue, and what waits in not_send. Settled is how  *)
(* many sends are no longer in the hands of the main thread's _send.       *)
Settled == IF mop \in SendOps THEN sends - 1 ELSE sends

Ascends(s)   == \A i, j \in 1 .. Len(s) : i < j => s[i] < s[j]
Before(s, t) == \A i \in 1 .. Len(s) : \A j \in 1 .. Len(t) : s[i] < t[j]
UpTo(s, n)   == \A i \in 1 .. Len(s) : s[i] <= n

DownSorted ==
    /\ Ascends(got) /\ Ascends(subBox.events) /\ Ascends(notSend)
    /\ Before(got, subBox.events) /\ Before(got, notSend)
    /\ Before(subBox.events, notSend)
    /\ UpTo(got, Settled) /\ UpTo(subBox.events, Settled)
    /\ UpTo(notSend, Settled)

Queued == Len(subBox.events)

DownCounted ==
    Len(got) + Queued + Len(notSend) = Settled

(* A send that found `peer` set finds a mailbox, too, and that was empty   *)
(* when it was made.                                                       *)
DownBound ==
    /\ peer \/ mop = "lookup" => subBox.state /= "none"
    /\ subBox.state = "none" => subBox.events = <<>>

DownInv == /\ DownBound
           /\ ~raced => DownSorted
           /\ ~raced /\ inPool => DownCounted

(* A message behind all others keeps their order.                          *)
LEMMA AscendsAppend ==
    ASSUME NEW s \in Seq(Nat), NEW m \in Nat, Ascends(s), UpTo(s, m - 1)
    PROVE  Ascends(Append(s, m)) /\ UpTo(Append(s, m), m)
<1>1. /\ Len(s) \in Nat /\ Len(Append(s, m)) = Len(s) + 1
      /\ \A i \in 1 .. Len(s) : Append(s, m)[i] = s[i] /\ s[i] \in Nat
      /\ Append(s, m)[Len(s) + 1] = m
  BY AppendProperties, LenProperties, ElementOfSeq
<1>. QED  BY <1>1 DEF Ascends, UpTo

LEMMA BeforeAppend ==
    ASSUME NEW s \in Seq(Nat), NEW t \in Seq(Nat), NEW m \in Nat,
           Before(s, t), UpTo(s, m - 1)
    PROVE  Before(s, Append(t, m))
<1>1. /\ Len(t) \in Nat /\ Len(Append(t, m)) = Len(t) + 1
      /\ \A i \in 1 .. Len(t) : Append(t, m)[i] = t[i] /\ t[i] \in Nat
      /\ Append(t, m)[Len(t) + 1] = m
  BY AppendProperties, LenProperties, ElementOfSeq
<1>2. \A i \in 1 .. Len(s) : s[i] \in Nat /\ s[i] < m
  <2>. SUFFICES ASSUME NEW i \in 1 .. Len(s) PROVE s[i] \in Nat /\ s[i] < m
    OBVIOUS
  <2>1. s[i] \in Nat
    BY ElementOfSeq
  <2>. QED  BY <2>1 DEF UpTo
<1>. QED  BY <1>1, <1>2 DEF Before

(* Nor does it disturb them when the oldest message of t goes to the end   *)
(* of s, which is in front of t.                                           *)
LEMMA HeadAppends ==
    ASSUME NEW s \in Seq(Nat), NEW t \in Seq(Nat), t /= <<>>,
           Ascends(s), Ascends(t), Before(s, t)
    PROVE  /\ Ascends(Append(s, Head(t))) /\ Ascends(Tail(t))
           /\ Before(Append(s, Head(t)), Tail(t))
           /\ Len(Append(s, Head(t))) + Len(Tail(t)) = Len(s) + Len(t)
           /\ \A n \in Nat : UpTo(s, n) /\ UpTo(t, n) =>
                 UpTo(Append(s, Head(t)), n) /\ UpTo(Tail(t), n)
           /\ \A u \in Seq(Nat) : /\ Before(s, u) /\ Before(t, u) =>
                                     /\ Before(Append(s, Head(t)), u)
                                     /\ Before(Tail(t), u)
                                  /\ Before(u, s) /\ Before(u, t) =>
                                     /\ Before(u, Append(s, Head(t)))
                                     /\ Before(u, Tail(t))
<1>1. /\ Head(t) = t[1] /\ Head(t) \in Nat /\ Len(t) \in Nat \ {0}
      /\ Len(Tail(t)) = Len(t) - 1
      /\ \A i \in 1 .. Len(t) - 1 : Tail(t)[i] = t[i + 1]
      /\ \A i \in 1 .. Len(t) : t[i] \in Nat
  BY HeadTailProperties, LenProperties, ElementOfSeq, EmptySeq
<1>2. /\ Len(s) \in Nat /\ Len(Append(s, Head(t))) = Len(s) + 1
      /\ \A i \in 1 .. Len(s) : Append(s, Head(t))[i] = s[i] /\ s[i] \in Nat
      /\ Append(s, Head(t))[Len(s) + 1] = t[1]
  BY <1>1, AppendProperties, LenProperties, ElementOfSeq
<1>3. /\ Ascends(Append(s, Head(t))) /\ Ascends(Tail(t))
      /\ Before(Append(s, Head(t)), Tail(t))
  BY <1>1, <1>2 DEF Ascends, Before
<1>4. \A n \in Nat : UpTo(s, n) /\ UpTo(t, n) =>
                UpTo(Append(s, Head(t)), n) /\ UpTo(Tail(t), n)
  BY <1>1, <1>2 DEF UpTo
<1>5. ASSUME NEW u \in Seq(Nat)
      PROVE  /\ Before(s, u) /\ Before(t, u) =>
                    Before(Append(s, Head(t)), u) /\ Before(Tail(t), u)
             /\ Before(u, s) /\ Before(u, t) =>
                    Before(u, Append(s, Head(t))) /\ Before(u, Tail(t))
  <2>1. ASSUME Before(s, u), Before(t, u)
        PROVE  Before(Append(s, Head(t)), u) /\ Before(Tail(t), u)
    <3>1. \A i \in 1 .. Len(s) + 1 : \A j \in 1 .. Len(u) :
                Append(s, Head(t))[i] < u[j]
      BY <1>1, <1>2, <2>1 DEF Before
    <3>2. \A i \in 1 .. Len(t) - 1 : \A j \in 1 .. Len(u) :
                Tail(t)[i] < u[j]
      BY <1>1, <2>1 DEF Before
    <3>. QED  BY <1>1, <1>2, <3>1, <3>2 DEF Before
  <2>2. ASSUME Before(u, s), Before(u, t)
        PROVE  Before(u, Append(s, Head(t))) /\ Before(u, Tail(t))
    <3>1. \A j \in 1 .. Len(u) : \A i \in 1 .. Len(s) + 1 :
                u[j] < Append(s, Head(t))[i]
      BY <1>1, <1>2, <2>2 DEF Before
    <3>2. \A j \in 1 .. Len(u) : \A i \in 1 .. Len(t) - 1 :
                u[j] < Tail(t)[i]
      BY <1>1, <2>2 DEF Before
    <3>. QED  BY <1>1, <1>2, <3>1, <3>2 DEF Before
  <2>. QED  BY <2>1, <2>2
<1>. QED  BY <1>1, <1>2, <1>3, <1>4, <1>5

(* Only these steps touch the direction to the worker.                     *)
DownSame ==
    /\ UNCHANGED <<peer, notSend, got, sends, raced>>
    /\ subBox'.events = subBox.events /\ subBox'.state = subBox.state
    /\ mop' = mop \/ (mop \notin SendOps /\ mop' \notin SendOps)
    /\ inPool' => inPool

LEMMA DownFrame ==
    ASSUME TypeOK, Next
    PROVE  \/ SendCall \/ SendPeer \/ SendQueue \/ SendLookup \/ SendPush
           \/ CreateAsync \/ Bind \/ MoveOne \/ Unlink \/ Drain
           \/ DelBox \/ RmBox \/ DownSame
<1>. USE DEF mainPc, reqVars, boxes, bind, sub, history, SendOps, DownSame
<1>f. /\ AsyncSend(subBox).state = subBox.state
      /\ AsyncSend(subBox).events = subBox.events
      /\ ClearPending(subBox).state = subBox.state
      /\ ClearPending(subBox).events = subBox.events
  <2>1. subBox \in Box(1 .. MaxSend)
    BY BoxSteps
  <2>. QED  BY <2>1, BoxFields
<1>1. CASE StopCall \/ StopRunning \/ StopAlive \/ StopTerminate
           \/ StopWake \/ StopFreed
  BY <1>1, <1>f DEF StopCall, StopRunning, StopAlive, StopTerminate, StopWake,
     StopFreed, EndOp, Crash
<1>2. CASE MainLoop
  BY <1>2 DEF MainLoop, ScanMain, Deliver, DeliverDone, ScanDel
<1>3. CASE StartupStep
  BY <1>3, <1>f DEF StartupStep, CompileOk, CompileFail, Catch, MakeLoop,
     Load, SwapBegin, MoveEnd, StartScript, Goto
<1>4. CASE LoopStep
  BY <1>4, <1>f DEF LoopStep, First, While, PollAsync, RunAsync, PollIdle,
     DrainDone, After, RefStep, NoWait, More, Goto, RunEnd
<1>5. CASE ShutdownStep
  BY <1>5, <1>f DEF ShutdownStep, Exit, SendEnd, FreeId, Close, DelSend,
     Closed, CloseDone, Goto
<1>6. CASE JsSend \/ JsReturn \/ JsAbort \/ PollWork \/ CloseWork
  BY <1>6, <1>f DEF JsSend, JsReturn, JsAbort, JsLeave, PollWork, CloseWork,
     RunWork, Goto
<1>. QED  BY <1>1, <1>2, <1>3, <1>4, <1>5, <1>6 DEF Next, WorkerStep, MainOp

(* The three sequences are of numbers, and settled sends are counted.      *)
LEMMA DownTypes ==
    ASSUME TypeOK
    PROVE  /\ got \in Seq(Nat) /\ subBox.events \in Seq(Nat)
           /\ notSend \in Seq(Nat) /\ sends \in Nat /\ Settled \in Nat
           /\ Len(got) \in Nat /\ Queued \in Nat
           /\ Len(notSend) \in Nat
           /\ mop \in SendOps => Settled = sends - 1
<1>1. got \in Seq(1 .. MaxSend) /\ notSend \in Seq(1 .. MaxSend)
      /\ subBox.events \in Seq(1 .. MaxSend)
  BY BoxSteps DEF TypeOK, Box
<1>2. ASSUME NEW s \in Seq(1 .. MaxSend)
      PROVE  s \in Seq(Nat) /\ Len(s) \in Nat
  <2>1. 1 .. MaxSend \subseteq Nat
    BY ThreadAssumption
  <2>. QED  BY <2>1, LenProperties, SeqMonotonic
<1>. QED  BY <1>1, <1>2, ThreadAssumption DEF TypeOK, Settled, Queued

(* A step that takes no message, nor adds one, keeps what there is.        *)
LEMMA DownKept ==
    ASSUME TypeOK, DownInv, UNCHANGED <<notSend, got>>,
           subBox'.events = subBox.events,
           raced => raced',
           Settled' = Settled, inPool' => inPool, DownBound'
    PROVE  DownInv'
BY DEF DownInv, DownSorted, DownCounted, Queued

(* Every step keeps the messages in order and complete.                    *)
LEMMA DownInvStep ==
    TypeOK /\ Phases /\ DownInv /\ [Next]_vars => DownInv'
<1>. SUFFICES ASSUME TypeOK, Phases, DownInv, [Next]_vars PROVE DownInv'
  OBVIOUS
<1>t. TypeOK'
  BY NextType
<1>b. /\ subBox \in Box(1 .. MaxSend)
      /\ mop \in SendOps => sends \in 1 .. MaxSend
  BY BoxSteps, ThreadAssumption DEF TypeOK
<1>d. /\ got \in Seq(Nat) /\ subBox.events \in Seq(Nat)
      /\ notSend \in Seq(Nat) /\ sends \in Nat /\ Settled \in Nat
      /\ Len(got) \in Nat /\ Queued \in Nat
      /\ Len(notSend) \in Nat
      /\ mop \in SendOps => Settled = sends - 1
  BY DownTypes
<1>. USE DEF mainPc, reqVars, boxes, bind, sub, history
<1>1. CASE UNCHANGED vars \/ DownSame
  <2>1. DownBound'
    BY <1>1 DEF vars, DownSame, DownInv, DownBound, SendOps
  <2>2. Settled' = Settled
    BY <1>1 DEF vars, DownSame, Settled
  <2>. QED  BY <1>1, <2>1, <2>2, DownKept DEF vars, DownSame
<1>2. CASE SendCall \/ SendPeer \/ Bind
  <2>1. Settled' = Settled
    BY <1>2, <1>d DEF SendCall, SendPeer, Bind, Settled, SendOps
  <2>2. DownBound'
    BY <1>2 DEF SendCall, SendPeer, Bind, DownInv, DownBound, Goto, Phases
  <2>. QED  BY <1>2, <2>1, <2>2, DownKept DEF SendCall, SendPeer, Bind
<1>m. \A s \in Seq(Nat) : UpTo(s, Settled) => UpTo(s, Settled + 1)
  <2>. SUFFICES ASSUME NEW s \in Seq(Nat), UpTo(s, Settled)
                PROVE  UpTo(s, Settled + 1)
    OBVIOUS
  <2>1. \A i \in 1 .. Len(s) : s[i] \in Nat
    BY ElementOfSeq
  <2>. QED  BY <1>d, <2>1 DEF UpTo
<1>3. CASE SendQueue
  <2>1. CASE Crash
    <3>1. Settled' = Settled /\ DownBound'
      BY <2>1 DEF Crash, Settled, DownBound, DownInv
    <3>. QED  BY <2>1, <3>1, DownKept DEF Crash
  <2>2. CASE ~Crash
    <3>1. /\ notSend' = Append(notSend, sends) /\ mop = "queue"
          /\ UNCHANGED <<subBox, got, raced, inPool, peer>>
          /\ mop' = "none" /\ sends' = sends
      BY <1>3, <2>2 DEF SendQueue
    <3>2. Settled = sends - 1 /\ Settled' = sends
      BY <1>d, <3>1 DEF Settled, SendOps
    <3>3. DownBound'
      BY <3>1 DEF DownBound, DownInv
    <3>4. ASSUME ~raced PROVE DownSorted'
      <4>1. DownSorted
        BY <3>4 DEF DownInv
      <4>2. Ascends(notSend') /\ UpTo(notSend', sends)
        BY <1>d, <3>1, <3>2, <4>1, AscendsAppend DEF DownSorted
      <4>3. Before(got, notSend') /\ Before(subBox.events, notSend')
        BY <1>d, <3>1, <3>2, <4>1, BeforeAppend DEF DownSorted
      <4>4. UpTo(got, sends) /\ UpTo(subBox.events, sends)
        BY <1>d, <1>m, <3>2, <4>1 DEF DownSorted
      <4>. QED  BY <3>1, <3>2, <4>1, <4>2, <4>3, <4>4 DEF DownSorted
    <3>5. Len(notSend') = Len(notSend) + 1
      BY <1>d, <3>1, AppendProperties
    <3>7. Queued' = Queued
      BY <3>1 DEF Queued
    <3>6. ASSUME ~raced, inPool PROVE DownCounted'
      <4>1. DownCounted
        BY <3>6 DEF DownInv
      <4>. QED  BY <1>d, <3>1, <3>2, <3>5, <3>7, <4>1 DEF DownCounted
    <3>. QED  BY <3>1, <3>3, <3>4, <3>6, Zenon DEF DownInv
  <2>. QED  BY <2>1, <2>2
<1>e. ASSUME EndOp, mop \in SendOps, ~inPool PROVE DownInv'
  <2>1. Settled' = Settled + 1
    BY <1>d, <1>e DEF EndOp, Settled, SendOps
  <2>2. DownBound'
    BY <1>e DEF EndOp, DownBound, DownInv
  <2>3. ~raced' => DownSorted'
    BY <1>d, <1>e, <1>m, <2>1 DEF EndOp, DownInv, DownSorted
  <2>. QED  BY <1>e, <2>2, <2>3 DEF EndOp, DownInv
<1>c. ASSUME Crash PROVE DownInv'
  <2>1. Settled' = Settled /\ DownBound'
    BY <1>c DEF Crash, Settled, DownBound, DownInv
  <2>. QED  BY <1>c, <2>1, DownKept DEF Crash
<1>4. CASE SendLookup
  <2>1. CASE EndOp
    <3>1. subBox.state /= "none" /\ mop \in SendOps
      BY <1>4 DEF SendLookup, DownInv, DownBound, SendOps
    <3>2. handle = "freed" \/ ~Registered(subBox) => ~inPool
      BY <1>b, <3>1 DEF Phases, Registered, Box, BoxState
    <3>3. handle = "freed" \/ ~Registered(subBox)
      BY <1>4, <2>1 DEF SendLookup, EndOp, Crash
    <3>. QED  BY <1>e, <2>1, <3>1, <3>2, <3>3
  <2>2. CASE mop' = "push" /\ ~Crash
    <3>1. /\ UNCHANGED <<subBox, notSend, got, raced, inPool, peer, sends>>
          /\ mop = "lookup" /\ mop' = "push"
      BY <1>4, <2>2 DEF SendLookup, EndOp
    <3>2. Settled' = Settled /\ DownBound'
      BY <3>1 DEF Settled, SendOps, DownBound, DownInv
    <3>. QED  BY <3>1, <3>2, DownKept
  <2>. QED  BY <1>4, <1>c, <2>1, <2>2 DEF SendLookup
<1>5. CASE SendPush
  <2>1. CASE EndOp /\ subBox.state /= "live"
    <3>1. mop \in SendOps /\ ~inPool
      BY <1>5, <1>b, <2>1 DEF SendPush, SendOps, Phases, Box, BoxState
    <3>. QED  BY <1>e, <2>1, <3>1
  <2>2. CASE /\ subBox.state = "live" /\ subBox' = SendEvent(subBox, sends)
             /\ raced' = (raced \/ notSend /= <<>>) /\ mop' = "none"
             /\ UNCHANGED <<notSend, got, inPool, peer, sends>>
    <3>1. /\ subBox'.events = Append(subBox.events, sends)
          /\ subBox'.state = "live" /\ mop \in SendOps
      BY <1>5, <1>b, <2>2, BoxFields DEF SendPush, SendOps
    <3>2. Settled = sends - 1 /\ Settled' = sends
      BY <1>d, <2>2, <3>1 DEF Settled, SendOps
    <3>3. DownBound'
      BY <2>2, <3>1 DEF DownBound
    <3>4. ASSUME ~raced' PROVE DownSorted'
      <4>1. DownSorted /\ notSend = <<>>
        BY <2>2, <3>4, Zenon DEF DownInv
      <4>2. /\ Ascends(subBox'.events) /\ UpTo(subBox'.events, sends)
            /\ Before(got, subBox'.events)
        BY <1>d, <3>1, <3>2, <4>1, AscendsAppend, BeforeAppend DEF DownSorted
      <4>3. UpTo(got, sends) /\ UpTo(notSend, sends)
        <5>1. sends = Settled + 1
          BY <1>d, <3>2
        <5>. QED  BY <1>d, <1>m, <4>1, <5>1, Zenon DEF DownSorted
      <4>4. Before(subBox'.events, notSend)
        BY <4>1, EmptySeq DEF Before
      <4>. QED  BY <2>2, <3>2, <4>1, <4>2, <4>3, <4>4 DEF DownSorted
    <3>5. Queued' = Queued + 1
      BY <1>d, <3>1, AppendProperties DEF Queued
    <3>6. ~raced' => ~raced
      BY <2>2, Zenon
    <3>. QED  BY <1>d, <2>2, <3>2, <3>3, <3>4, <3>5, <3>6
              DEF DownInv, DownCounted
  <2>. QED  BY <1>5, <1>c, <2>1, <2>2 DEF SendPush
<1>6. CASE CreateAsync
  <2>1. subBox.events = <<>> /\ OpenBox.events = <<>> /\ OpenBox.state = "live"
    BY <1>6 DEF CreateAsync, Goto, Phases, Startup, DownInv, DownBound, OpenBox
  <2>2. subBox'.events = subBox.events /\ subBox'.state = "live"
    BY <1>6, <2>1 DEF CreateAsync
  <2>3. Settled' = Settled /\ DownBound'
    BY <1>6, <2>2 DEF CreateAsync, Settled, DownBound
  <2>. QED  BY <1>6, <2>2, <2>3, DownKept DEF CreateAsync
<1>7. CASE MoveOne
  <2>1. /\ subBox'.events = Append(subBox.events, Head(notSend))
        /\ subBox'.state = subBox.state
        /\ notSend' = Tail(notSend) /\ notSend /= <<>>
        /\ UNCHANGED <<mop, got, raced, inPool, peer, sends>>
    BY <1>7, <1>b DEF MoveOne, Box
  <2>2. Settled' = Settled
    BY <2>1 DEF Settled
  <2>3. DownBound'
    BY <1>7, <2>1 DEF DownInv, DownBound, MoveOne, Phases, Swapping
  <2>4. ~raced' => DownSorted'
    BY <1>d, <2>1, <2>2, HeadAppends DEF DownInv, DownSorted
  <2>5. Queued' = Queued + 1 /\ Len(notSend') = Len(notSend) - 1
    BY <1>d, <2>1, AppendProperties, HeadTailProperties DEF Queued
  <2>6. ASSUME ~raced', inPool' PROVE DownCounted'
    <3>1. DownCounted
      BY <2>1, <2>6 DEF DownInv
    <3>2. Len(got') = Len(got)
      BY <2>1
    <3>3. Len(got) + (Queued + 1) + (Len(notSend) - 1) = Settled
      BY <1>d, <3>1 DEF DownCounted
    <3>. QED  BY <2>2, <2>5, <3>2, <3>3 DEF DownCounted
  <2>. QED  BY <2>3, <2>4, <2>6, Zenon DEF DownInv
<1>8. CASE Unlink
  <2>1. Settled' = Settled /\ DownBound'
    BY <1>8 DEF Unlink, Settled, DownInv, DownBound
  <2>2. CASE notSend = <<>>
    BY <1>8, <2>1, <2>2, DownKept DEF Unlink
  <2>3. CASE notSend /= <<>>
    BY <1>8, <2>1, <2>3 DEF Unlink, DownInv
  <2>. QED  BY <2>2, <2>3
<1>9. CASE Drain
  <2>1. /\ got' = Append(got, Head(subBox.events))
        /\ subBox'.events = Tail(subBox.events) /\ subBox.events /= <<>>
        /\ subBox'.state = subBox.state
        /\ UNCHANGED <<mop, notSend, raced, inPool, peer, sends>>
    BY <1>9, <1>b, BoxFields DEF Drain
  <2>2. Settled' = Settled
    BY <2>1 DEF Settled
  <2>3. DownBound'
    BY <2>1 DEF DownInv, DownBound
  <2>4. ~raced' => DownSorted'
    BY <1>d, <2>1, <2>2, HeadAppends DEF DownInv, DownSorted
  <2>5. /\ Len(got') = Len(got) + 1
        /\ Queued' = Queued - 1
    BY <1>d, <2>1, AppendProperties, HeadTailProperties DEF Queued
  <2>6. ASSUME ~raced', inPool' PROVE DownCounted'
    <3>1. DownCounted
      BY <2>1, <2>6 DEF DownInv
    <3>. QED  BY <1>d, <2>1, <2>2, <2>5, <3>1 DEF DownCounted
  <2>. QED  BY <2>3, <2>4, <2>6, Zenon DEF DownInv
<1>10. CASE DelBox \/ RmBox
  <2>1. /\ ~inPool /\ subBox'.events \in {<<>>, subBox.events}
        /\ subBox'.state \in {"dangling", "gone"}
        /\ UNCHANGED <<mop, notSend, got, raced, inPool, peer, sends>>
    BY <1>10, <1>b DEF DelBox, RmBox, Goto, Phases, Unregister, DeleteBox, Box
  <2>2. Settled' = Settled
    BY <2>1 DEF Settled
  <2>3. DownBound'
    BY <2>1 DEF DownBound
  <2>4. ~raced' => DownSorted'
    BY <2>1, <2>2, EmptySeq DEF DownInv, DownSorted, Ascends, Before, UpTo
  <2>. QED  BY <2>1, <2>3, <2>4 DEF DownInv
<1>. QED  BY <1>1, <1>2, <1>3, <1>4, <1>5, <1>6, <1>7, <1>8, <1>9, <1>10,
             DownFrame

LEMMA InitDown == Init => DownInv
<1>. SUFFICES ASSUME Init PROVE DownInv
  OBVIOUS
<1>1. got = <<>> /\ notSend = <<>> /\ subBox.events = <<>> /\ Settled = 0
  BY DEF Init, NoBox, Settled, SendOps
<1>2. DownBound
  BY DEF Init, NoBox, DownBound
<1>3. DownSorted
  BY <1>1, EmptySeq DEF DownSorted, Ascends, Before, UpTo
<1>4. DownCounted
  BY <1>1, EmptySeq DEF DownCounted, Queued
<1>. QED  BY <1>2, <1>3, <1>4 DEF DownInv

LEMMA DownHolds == Spec => [](TypeOK /\ DownInv)
BY InitType, InitDown, TypeCorrect, PhasesHold, DownInvStep, PTL DEF Spec

(* Three ascending sequences, each before the next, ascend as one.         *)
LEMMA AscendingChain ==
    ASSUME NEW s \in Seq(Nat), NEW t \in Seq(Nat),
           Ascends(s), Ascends(t), Before(s, t)
    PROVE  /\ Ascends(s \o t)
           /\ \A u \in Seq(Nat) :
                 Before(s, u) /\ Before(t, u) => Before(s \o t, u)
<1>1. /\ Len(s) \in Nat /\ Len(t) \in Nat
      /\ \A i \in 1 .. Len(s) : s[i] \in Nat
      /\ \A i \in 1 .. Len(t) : t[i] \in Nat
  BY LenProperties, ElementOfSeq
<1>2. /\ Len(s \o t) = Len(s) + Len(t)
      /\ \A i \in 1 .. Len(s \o t) :
            \/ i \in 1 .. Len(s) /\ (s \o t)[i] = s[i]
            \/ /\ i > Len(s) /\ i - Len(s) \in 1 .. Len(t)
               /\ (s \o t)[i] = t[i - Len(s)]
  BY <1>1, ConcatProperties
<1>3. Ascends(s \o t)
  <2>. SUFFICES ASSUME NEW i \in 1 .. Len(s \o t),
                       NEW j \in 1 .. Len(s \o t), i < j
                PROVE  (s \o t)[i] < (s \o t)[j]
    BY DEF Ascends
  <2>1. CASE j \in 1 .. Len(s)
    BY <1>1, <1>2, <2>1 DEF Ascends
  <2>2. CASE i \in 1 .. Len(s) /\ j > Len(s)
    BY <1>1, <1>2, <2>2 DEF Before
  <2>3. CASE i > Len(s)
    <3>1. /\ i - Len(s) \in 1 .. Len(t) /\ (s \o t)[i] = t[i - Len(s)]
          /\ j - Len(s) \in 1 .. Len(t) /\ (s \o t)[j] = t[j - Len(s)]
          /\ i - Len(s) < j - Len(s)
      BY <1>1, <1>2, <2>3
    <3>. QED  BY <3>1, Zenon DEF Ascends
  <2>. QED  BY <1>1, <1>2, <2>1, <2>2, <2>3
<1>4. ASSUME NEW u \in Seq(Nat), Before(s, u), Before(t, u)
      PROVE  Before(s \o t, u)
  <2>1. Len(u) \in Nat
    BY LenProperties
  <2>. SUFFICES ASSUME NEW i \in 1 .. Len(s \o t), NEW j \in 1 .. Len(u)
                PROVE  (s \o t)[i] < u[j]
    BY DEF Before
  <2>. QED  BY <1>1, <1>2, <1>4, <2>1 DEF Before
<1>. QED  BY <1>3, <1>4

(* Messages to a worker keep their order: none overtakes another at the    *)
(* move from not_send to the queue, as long as no send runs into it.       *)
THEOREM DownOrdered == Spec => []DownInOrder
<1>1. TypeOK /\ DownInv => DownInOrder
  <2>. SUFFICES ASSUME TypeOK, DownInv, ~raced PROVE Ascends(DownFlow)
    BY DEF DownInOrder, Ascends
  <2>1. /\ got \in Seq(Nat) /\ subBox.events \in Seq(Nat)
        /\ notSend \in Seq(Nat)
    BY DownTypes
  <2>2. DownSorted
    BY DEF DownInv
  <2>3. /\ got \o subBox.events \in Seq(Nat)
        /\ Ascends(got \o subBox.events)
        /\ Before(got \o subBox.events, notSend)
    BY <2>1, <2>2, AscendingChain, ConcatProperties DEF DownSorted
  <2>. QED  BY <2>1, <2>2, <2>3, AscendingChain DEF DownSorted, DownFlow
<1>. QED  BY <1>1, DownHolds, PTL

(* And none of them is lost or duplicated while the id is in the pool:     *)
(* before the binding they wait in not_send, after it in the queue.        *)
THEOREM DownReliable == Spec => []DownComplete
<1>1. TypeOK /\ DownInv => DownComplete
  <2>. SUFFICES ASSUME TypeOK, DownInv, ~raced, inPool
                PROVE  Len(DownFlow) = Settled
    BY DEF DownComplete, Settled
  <2>1. /\ got \in Seq(Nat) /\ subBox.events \in Seq(Nat)
        /\ notSend \in Seq(Nat)
    BY DownTypes
  <2>2. Len(got \o subBox.events) = Len(got) + Queued
        /\ got \o subBox.events \in Seq(Nat)
    BY <2>1, ConcatProperties DEF Queued
  <2>3. Len(DownFlow) = Len(got \o subBox.events) + Len(notSend)
    BY <2>1, <2>2, ConcatProperties DEF DownFlow
  <2>. QED  BY <2>2, <2>3 DEF DownInv, DownCounted
<1>. QED  BY <1>1, DownHolds, PTL
=============================================================================
