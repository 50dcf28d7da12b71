----------------------------- MODULE UseTimeProofs -----------------------------
(***************************************************************************)
(* What use_time returns, proved for every bound on the clock and on the   *)
(* turns of the loop.                                                      *)
(***************************************************************************)
EXTENDS UseTime, TLAPS

(* The time of the loop is behind the clock, and a turn behind the loop.   *)
Clocks ==
    /\ clock > 0 /\ loop_time <= clock /\ (HasLoop => loop_time > 0)
    /\ entered <= loop_time /\ left <= loop_time
    /\ called_at <= clock /\ (mpc /= "idle" => called_at > 0)

(* What ReqData says of the turns: begin_time is the start of the last     *)
(* one, end_time its end, and 0 while it lasts.                            *)
Measured ==
    /\ begin_time = entered
    /\ wpc = "setup" => turns = 0
    /\ wpc \notin {"setup", "idle"} => turns > 0
    /\ turns = 0 => entered = 0 /\ left = 0 /\ end_time = 0
    /\ Inside => end_time = 0
    /\ wpc \in {"idle", "ending", "gone"} =>
           /\ end_time = left
           /\ turns > 0 => entered <= left /\ 0 < left

(* FreeId and Free. *)
Listed == registered = (wpc \notin {"ending", "gone"})
Entry  == called_in \notin {"ending", "gone"}

(* What the call has read, if no turn has begun since it was let in ...    *)
Unbegun ==
    ~began =>
        /\ called_at > 0 => wpc /= "entering"
        /\ mpc = "end again" => /\ wpc \in {"idle", "ending", "gone"}
                                /\ turns > 0 /\ end_read = left
        /\ mpc = "begin" => entered <= now
        /\ Returned => 0 <= used

(* ... and if none has ended either. *)
Alone == ~began /\ ~ended /\ wpc \in {"idle", "turn", "leaving"} /\ turns > 0

Undisturbed ==
    Alone =>
        /\ mpc = "end again" => ~Inside /\ end_read = left
        /\ mpc = "update" => Inside
        /\ mpc = "now" => Inside /\ called_at <= loop_time
        /\ mpc = "begin" /\ Inside => called_at <= now /\ now <= clock
        /\ mpc = "begin" /\ ~Inside => now = left
        /\ Returned /\ Inside => /\ called_at - entered <= used
                                 /\ used <= clock - entered
        /\ Returned /\ ~Inside => used = left - entered

Inv == Clocks /\ Measured /\ Listed /\ Entry /\ Unbegun /\ Undisturbed
-----------------------------------------------------------------------------
(* Types *)

(* TypeOK, one variable at a time. *)
Times ==
    /\ clock \in 0 .. MaxTime /\ begin_time \in 0 .. MaxTime
    /\ end_time \in 0 .. MaxTime /\ loop_time \in 0 .. MaxTime
    /\ now \in 0 .. MaxTime /\ entered \in 0 .. MaxTime
    /\ left \in 0 .. MaxTime /\ called_at \in 0 .. MaxTime
    /\ end_read \in 0 .. MaxTime /\ used \in -MaxTime .. MaxTime
    /\ turns \in 0 .. MaxTurns

Control ==
    /\ wpc \in Phases /\ called_in \in Phases /\ mpc \in Calls
    /\ registered \in BOOLEAN /\ began \in BOOLEAN /\ ended \in BOOLEAN
    /\ fault \in BOOLEAN

LEMMA Flat == TypeOK <=> Times /\ Control
BY DEF TypeOK, Times, Control

LEMMA TypesKept == TypeOK /\ [Next]_vars => TypeOK'
<1>. SUFFICES ASSUME Times, Control, [Next]_vars PROVE Times' /\ Control'
  BY Flat, PTL
<1>. USE UseTimeAssumption
<1>1. Times'
  <2>. USE DEF Times, req, worker, main, call
  <2>1. CASE UNCHANGED vars
    BY <2>1 DEF vars
  <2>2. CASE Pass
    BY <2>2 DEF Pass
  <2>3. CASE CreateLoop
    BY <2>3 DEF CreateLoop
  <2>4. CASE EnterBegin
    BY <2>4 DEF EnterBegin
  <2>5. CASE EnterEnd
    BY <2>5 DEF EnterEnd
  <2>6. CASE WorkerUpdate
    BY <2>6 DEF WorkerUpdate
  <2>7. CASE Leave
    BY <2>7 DEF Leave
  <2>8. CASE RunClosing
    BY <2>8 DEF RunClosing
  <2>9. CASE FreeId
    BY <2>9 DEF FreeId
  <2>10. CASE Free
    BY <2>10 DEF Free
  <2>11. CASE Call
    BY <2>11 DEF Call
  <2>12. CASE ReadEnd
    BY <2>12 DEF ReadEnd, Crash
  <2>13. CASE ReadEndAgain
    BY <2>13 DEF ReadEndAgain, Crash
  <2>14. CASE MainUpdate
    BY <2>14 DEF MainUpdate, Crash
  <2>15. CASE ReadNow
    BY <2>15 DEF ReadNow, Crash
  <2>16. CASE ReadBegin
    BY <2>16 DEF ReadBegin, Crash, Return, Used
  <2>. QED  BY <2>1, <2>2, <2>3, <2>4, <2>5, <2>6, <2>7, <2>8,
               <2>9, <2>10, <2>11, <2>12, <2>13, <2>14, <2>15, <2>16
               DEF Next, WorkerStep, MainStep
<1>2. Control'
  <2>. USE DEF Control, req, worker, main, call, Phases, Calls
  <2>1. CASE UNCHANGED vars
    BY <2>1 DEF vars
  <2>2. CASE Pass
    BY <2>2 DEF Pass
  <2>3. CASE CreateLoop
    BY <2>3 DEF CreateLoop
  <2>4. CASE EnterBegin
    BY <2>4 DEF EnterBegin
  <2>5. CASE EnterEnd
    BY <2>5 DEF EnterEnd
  <2>6. CASE WorkerUpdate
    BY <2>6 DEF WorkerUpdate
  <2>7. CASE Leave
    BY <2>7 DEF Leave
  <2>8. CASE RunClosing
    BY <2>8 DEF RunClosing
  <2>9. CASE FreeId
    BY <2>9 DEF FreeId
  <2>10. CASE Free
    BY <2>10 DEF Free
  <2>11. CASE Call
    BY <2>11 DEF Call
  <2>12. CASE ReadEnd
    BY <2>12 DEF ReadEnd, Crash
  <2>13. CASE ReadEndAgain
    BY <2>13 DEF ReadEndAgain, Crash
  <2>14. CASE MainUpdate
    BY <2>14 DEF MainUpdate, Crash
  <2>15. CASE ReadNow
    BY <2>15 DEF ReadNow, Crash
  <2>16. CASE ReadBegin
    BY <2>16 DEF ReadBegin, Crash, Return, Used
  <2>. QED  BY <2>1, <2>2, <2>3, <2>4, <2>5, <2>6, <2>7, <2>8,
               <2>9, <2>10, <2>11, <2>12, <2>13, <2>14, <2>15, <2>16
               DEF Next, WorkerStep, MainStep
<1>. QED  BY <1>1, <1>2

(* Every variable keeps its type: a difference of two times does not leave *)
(* the range of the clock.                                                 *)
THEOREM TypeCorrect == Spec => []TypeOK
<1>1. Init => TypeOK
  <2>. SUFFICES ASSUME Init PROVE Times /\ Control
    BY Flat
  <2>1. Times
    BY UseTimeAssumption DEF Init, Times
  <2>2. Control
    BY DEF Init, Control, Phases, Calls
  <2>. QED  BY <2>1, <2>2
<1>. QED  BY <1>1, TypesKept, PTL DEF Spec
-----------------------------------------------------------------------------
(* The invariant *)

Numeric ==
    /\ clock \in Int /\ begin_time \in Int /\ end_time \in Int /\ loop_time \in Int
    /\ now \in Int /\ entered \in Int /\ left \in Int /\ called_at \in Int
    /\ end_read \in Int /\ used \in Int /\ turns \in Int /\ turns >= 0

LEMMA Numbers == TypeOK => Numeric
BY Flat, UseTimeAssumption DEF Times, Numeric

LEMMA Later ==
    Numeric => /\ now <= clock => now <= clock + 1
               /\ used <= clock - entered => used <= (clock + 1) - entered
BY DEF Numeric

(* What ReadEnd reads is the end of the last turn, ... *)
LEMMA EndOfLast ==
    ASSUME Numeric, Control, Measured, Unbegun, called_at > 0, mpc = "end", ~began,
           end_time > 0
    PROVE  end_time = left /\ turns > 0 /\ wpc \in {"idle", "ending", "gone"}
<1>1. \/ wpc = "setup" \/ wpc = "idle" \/ wpc = "entering" \/ wpc = "turn"
      \/ wpc = "leaving" \/ wpc = "ending" \/ wpc = "gone"
  BY DEF Control, Phases
<1>. QED  BY <1>1 DEF Numeric, Measured, Unbegun, Inside

LEMMA InvKept == TypeOK /\ Inv /\ [Next]_vars => Inv'
<1>. SUFFICES ASSUME TypeOK, Inv, [Next]_vars PROVE Inv'
  OBVIOUS
<1>t. Numeric /\ Numeric'
  BY TypesKept, Numbers, PTL
<1>p. \/ wpc = "setup" \/ wpc = "idle" \/ wpc = "entering" \/ wpc = "turn"
      \/ wpc = "leaving" \/ wpc = "ending" \/ wpc = "gone"
  BY Flat DEF Control, Phases
<1>c. Control
  BY Flat
<1>. USE <1>t DEF Inv, Numeric
<1>1. Clocks'
  <2>. USE DEF Clocks, HasLoop, req, worker, main, call
  <2>1. CASE UNCHANGED vars
    BY <2>1 DEF vars
  <2>2. CASE Pass
    BY <2>2 DEF Pass
  <2>3. CASE CreateLoop
    BY <2>3 DEF CreateLoop
  <2>4. CASE EnterBegin
    BY <2>4 DEF EnterBegin
  <2>5. CASE EnterEnd
    BY <2>5 DEF EnterEnd
  <2>6. CASE WorkerUpdate
    BY <2>6 DEF WorkerUpdate
  <2>7. CASE Leave
    BY <2>7 DEF Leave
  <2>8. CASE RunClosing
    BY <2>8 DEF RunClosing
  <2>9. CASE FreeId
    BY <2>9 DEF FreeId
  <2>10. CASE Free
    BY <2>10 DEF Free
  <2>11. CASE Call
    BY <2>11 DEF Call
  <2>12. CASE ReadEnd
    BY <2>12 DEF ReadEnd, Crash
  <2>13. CASE ReadEndAgain
    BY <2>13 DEF ReadEndAgain, Crash
  <2>14. CASE MainUpdate
    BY <2>14 DEF MainUpdate, Crash
  <2>15. CASE ReadNow
    BY <2>15 DEF ReadNow, Crash
  <2>16. CASE ReadBegin
    BY <2>16 DEF ReadBegin, Crash, Return, Used
  <2>. QED  BY <2>1, <2>2, <2>3, <2>4, <2>5, <2>6, <2>7, <2>8,
               <2>9, <2>10, <2>11, <2>12, <2>13, <2>14, <2>15, <2>16
               DEF Next, WorkerStep, MainStep
<1>2. Measured'
  <2>. USE DEF Measured, Clocks, HasLoop, Inside, req, worker, main, call
  <2>1. CASE UNCHANGED vars
    BY <2>1 DEF vars
  <2>2. CASE Pass
    BY <2>2 DEF Pass
  <2>3. CASE CreateLoop
    BY <2>3 DEF CreateLoop
  <2>4. CASE EnterBegin
    BY <2>4 DEF EnterBegin
  <2>5. CASE EnterEnd
    BY <2>5 DEF EnterEnd
  <2>6. CASE WorkerUpdate
    BY <2>6 DEF WorkerUpdate
  <2>7. CASE Leave
    BY <2>7 DEF Leave
  <2>8. CASE RunClosing
    BY <2>8 DEF RunClosing
  <2>9. CASE FreeId
    BY <2>9 DEF FreeId
  <2>10. CASE Free
    BY <2>10 DEF Free
  <2>11. CASE Call
    BY <2>11 DEF Call
  <2>12. CASE ReadEnd
    BY <2>12 DEF ReadEnd, Crash
  <2>13. CASE ReadEndAgain
    BY <2>13 DEF ReadEndAgain, Crash
  <2>14. CASE MainUpdate
    BY <2>14 DEF MainUpdate, Crash
  <2>15. CASE ReadNow
    BY <2>15 DEF ReadNow, Crash
  <2>16. CASE ReadBegin
    BY <2>16 DEF ReadBegin, Crash, Return, Used
  <2>. QED  BY <2>1, <2>2, <2>3, <2>4, <2>5, <2>6, <2>7, <2>8,
               <2>9, <2>10, <2>11, <2>12, <2>13, <2>14, <2>15, <2>16
               DEF Next, WorkerStep, MainStep
<1>3. Listed' /\ Entry'
  <2>. USE DEF Listed, Entry, req, worker, main, call
  <2>1. CASE UNCHANGED vars
    BY <2>1 DEF vars
  <2>2. CASE Pass
    BY <2>2 DEF Pass
  <2>3. CASE CreateLoop
    BY <2>3 DEF CreateLoop
  <2>4. CASE EnterBegin
    BY <2>4 DEF EnterBegin
  <2>5. CASE EnterEnd
    BY <2>5 DEF EnterEnd
  <2>6. CASE WorkerUpdate
    BY <2>6 DEF WorkerUpdate
  <2>7. CASE Leave
    BY <2>7 DEF Leave
  <2>8. CASE RunClosing
    BY <2>8 DEF RunClosing
  <2>9. CASE FreeId
    BY <2>9 DEF FreeId
  <2>10. CASE Free
    BY <2>10 DEF Free
  <2>11. CASE Call
    BY <2>11 DEF Call
  <2>12. CASE ReadEnd
    BY <2>12 DEF ReadEnd, Crash
  <2>13. CASE ReadEndAgain
    BY <2>13 DEF ReadEndAgain, Crash
  <2>14. CASE MainUpdate
    BY <2>14 DEF MainUpdate, Crash
  <2>15. CASE ReadNow
    BY <2>15 DEF ReadNow, Crash
  <2>16. CASE ReadBegin
    BY <2>16 DEF ReadBegin, Crash, Return, Used
  <2>. QED  BY <2>1, <2>2, <2>3, <2>4, <2>5, <2>6, <2>7, <2>8,
               <2>9, <2>10, <2>11, <2>12, <2>13, <2>14, <2>15, <2>16
               DEF Next, WorkerStep, MainStep
<1>4. Unbegun'
  <2>. USE DEF Unbegun, Measured, Clocks, Inside, HasLoop, Returned,
               req, worker, main, call
  <2>1. CASE UNCHANGED vars
    BY <2>1 DEF vars
  <2>2. CASE Pass
    BY <2>2 DEF Pass
  <2>3. CASE CreateLoop
    BY <2>3 DEF CreateLoop
  <2>4. CASE EnterBegin
    BY <2>4 DEF EnterBegin
  <2>5. CASE EnterEnd
    BY <2>5 DEF EnterEnd
  <2>6. CASE WorkerUpdate
    BY <2>6 DEF WorkerUpdate
  <2>7. CASE Leave
    BY <2>7 DEF Leave
  <2>8. CASE RunClosing
    BY <2>8 DEF RunClosing
  <2>9. CASE FreeId
    BY <2>9 DEF FreeId
  <2>10. CASE Free
    BY <2>10 DEF Free
  <2>11. CASE Call
    BY <2>11 DEF Call
  <2>12. CASE ReadEnd
    <3>1. CASE wpc = "gone"
      BY <2>12, <3>1 DEF ReadEnd, Crash
    <3>2. CASE wpc /= "gone" /\ end_time > 0
      <4>1. /\ mpc = "end" /\ mpc' = "end again" /\ end_read' = end_time
            /\ UNCHANGED <<began, ended, wpc, turns, left, called_at>>
        BY <2>12, <3>2 DEF ReadEnd
      <4>2. called_at > 0
        BY <4>1 DEF Clocks
      <4>. HIDE DEF Numeric
      <4>. HIDE DEF Measured, Clocks
      <4>3. ~began => end_time = left /\ turns > 0
                      /\ wpc \in {"idle", "ending", "gone"}
        BY <1>c, <3>2, <4>1, <4>2, EndOfLast
      <4>. QED  BY <4>1, <4>3 DEF Returned, Unbegun
    <3>3. CASE wpc /= "gone" /\ ~(end_time > 0)
      BY <1>p, <2>12, <3>3 DEF ReadEnd
    <3>. QED  BY <3>1, <3>2, <3>3
  <2>13. CASE ReadEndAgain
    BY <2>13 DEF ReadEndAgain, Crash
  <2>14. CASE MainUpdate
    BY <2>14 DEF MainUpdate, Crash
  <2>15. CASE ReadNow
    BY <2>15 DEF ReadNow, Crash
  <2>16. CASE ReadBegin
    <3>1. CASE wpc = "gone"
      BY <2>16, <3>1 DEF ReadBegin, Crash
    <3>2. CASE wpc /= "gone"
      BY <2>16, <3>2 DEF ReadBegin, Return, Used
    <3>. QED  BY <3>1, <3>2
  <2>. QED  BY <2>1, <2>2, <2>3, <2>4, <2>5, <2>6, <2>7, <2>8,
               <2>9, <2>10, <2>11, <2>12, <2>13, <2>14, <2>15, <2>16
               DEF Next, WorkerStep, MainStep
<1>5. Undisturbed'
  <2>. USE DEF Undisturbed, Alone, Unbegun, Measured, Clocks, Inside, HasLoop,
               Returned, req, worker, main, call
  <2>1. CASE UNCHANGED vars
    BY <2>1 DEF vars
  <2>2. CASE Pass
    <3>1. UNCHANGED <<Alone, Inside, Returned, mpc, end_read, left, called_at,
                      loop_time, now, used, entered>>
      BY <2>2 DEF Pass
    <3>2. clock' = clock + 1
      BY <2>2 DEF Pass
    <3>. QED  BY <3>1, <3>2, Later
  <2>3. CASE CreateLoop
    <3>1. Measured
      OBVIOUS
    <3>2. ~Alone'
      <4>. HIDE DEF Inv, Undisturbed, Unbegun, Clocks, Measured
      <4>. QED  BY <2>3, <3>1 DEF CreateLoop, Measured
    <3>. QED  BY <3>2
  <2>4. CASE EnterBegin
    BY <2>4 DEF EnterBegin
  <2>5. CASE EnterEnd
    BY <2>5 DEF EnterEnd
  <2>6. CASE WorkerUpdate
    BY <2>6 DEF WorkerUpdate
  <2>7. CASE Leave
    BY <2>7 DEF Leave
  <2>8. CASE RunClosing
    BY <2>8 DEF RunClosing
  <2>9. CASE FreeId
    BY <2>9 DEF FreeId
  <2>10. CASE Free
    BY <2>10 DEF Free
  <2>11. CASE Call
    BY <2>11 DEF Call
  <2>12. CASE ReadEnd
    <3>1. CASE wpc = "gone"
      BY <2>12, <3>1 DEF ReadEnd, Crash
    <3>2. CASE wpc /= "gone" /\ end_time > 0
      <4>1. /\ mpc = "end" /\ mpc' = "end again" /\ end_read' = end_time
            /\ UNCHANGED <<began, ended, wpc, turns, left, called_at>>
        BY <2>12, <3>2 DEF ReadEnd
      <4>2. called_at > 0
        BY <4>1 DEF Clocks
      <4>. HIDE DEF Numeric
      <4>. HIDE DEF Measured, Clocks, Unbegun
      <4>3. ~began => end_time = left /\ ~Inside
        BY <1>c, <3>2, <4>1, <4>2, EndOfLast DEF Inside
      <4>. QED  BY <4>1, <4>3 DEF Returned, Undisturbed, Alone, Inside
    <3>3. CASE wpc /= "gone" /\ ~(end_time > 0)
      BY <1>p, <2>12, <3>3 DEF ReadEnd
    <3>. QED  BY <3>1, <3>2, <3>3
  <2>13. CASE ReadEndAgain
    BY <2>13 DEF ReadEndAgain, Crash
  <2>14. CASE MainUpdate
    BY <2>14 DEF MainUpdate, Crash
  <2>15. CASE ReadNow
    BY <2>15 DEF ReadNow, Crash
  <2>16. CASE ReadBegin
    <3>1. CASE wpc = "gone"
      BY <2>16, <3>1 DEF ReadBegin, Crash
    <3>2. CASE wpc /= "gone"
      BY <2>16, <3>2 DEF ReadBegin, Return, Used
    <3>. QED  BY <3>1, <3>2
  <2>. QED  BY <2>1, <2>2, <2>3, <2>4, <2>5, <2>6, <2>7, <2>8,
               <2>9, <2>10, <2>11, <2>12, <2>13, <2>14, <2>15, <2>16
               DEF Next, WorkerStep, MainStep
<1>. QED  BY <1>1, <1>2, <1>3, <1>4, <1>5

LEMMA InvHolds == Spec => [](TypeOK /\ Inv)
<1>1. Init => Inv
  <2>. SUFFICES ASSUME Init PROVE Inv
    OBVIOUS
  <2>1. Clocks /\ Measured
    BY DEF Init, Clocks, Measured, HasLoop, Inside
  <2>2. Listed /\ Entry
    BY Zenon DEF Init, Listed, Entry
  <2>3. Unbegun
    BY DEF Init, Unbegun, Returned
  <2>4. Undisturbed
    BY DEF Init, Undisturbed, Alone
  <2>. QED  BY <2>1, <2>2, <2>3, <2>4 DEF Inv
<1>. QED  BY <1>1, TypeCorrect, InvKept, PTL DEF Spec

(* A time that use_time returns is that of the last turn, or of the one    *)
(* that runs, unless a turn begins or ends during the call; and it is not  *)
(* negative unless one begins.                                             *)
THEOREM Exact == Spec => []ExactIfAlone
<1>1. TypeOK /\ Inv => ExactIfAlone
  <2>. SUFFICES ASSUME Numeric, Unbegun, Undisturbed PROVE ExactIfAlone
    BY Numbers DEF Inv
  <2>1. Returned /\ used < 0 => began
    <3>1. Returned /\ ~began => 0 <= used
      BY DEF Unbegun
    <3>2. 0 <= used => ~(used < 0)
      BY DEF Numeric
    <3>. QED  BY <3>1, <3>2
  <2>2. CASE Inside
    BY <2>1, <2>2 DEF Undisturbed, Alone, ExactIfAlone
  <2>3. CASE ~Inside
    BY <2>1, <2>3 DEF Undisturbed, Alone, ExactIfAlone
  <2>. QED  BY <2>2, <2>3
<1>. QED  BY <1>1, InvHolds, PTL

(* A call that comes once the thread began to end does not touch what is   *)
(* gone: only one that came before the loop was made or before the end can *)
(* crash.                                                                  *)
THEOREM CrashesOnlyAtEdges == Spec => []CrashesAtEdges
<1>1. Inv => CrashesAtEdges
  BY DEF Inv, Entry, CrashesAtEdges
<1>. QED  BY <1>1, InvHolds, PTL
=============================================================================
