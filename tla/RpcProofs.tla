------------------------------- MODULE RpcProofs -------------------------------
(***************************************************************************)
(* Proofs about Rpc: a pending callback keeps its worker, the main thread  *)
(* is thrown at only for calls nobody waits for, and callbacks hear the    *)
(* answers to their own call, in order and none twice.                     *)
(***************************************************************************)
EXTENDS Rpc, SequenceTheorems, TLAPS

(* The id of an answer names the call it belongs to. *)
Numbered == id = Len(calls) /\ \A c \in Made : calls[c].rid = c

(* Nothing waits when noListener() ends the listening, so a callback that  *)
(* is mounted then or later is one of a later call.                        *)
Sampling ==
    pc \in {"none", "nowait"} \/ (pc = "ended" /\ ~stopped)
        => \A c \in mounted : c > sampled

\* Nothing runs after the loop.
Calm == pc = "ended" => ~js

Thrown == crashed /= 0 => pc = "ended"

(* The answers to a call that is still mounted are those its callback has  *)
(* heard and, in their order, those on the way to it.                      *)
InTransit ==
    /\ \A i \in 1 .. Len(down) : /\ down[i].rid = down[i].of
                                 /\ down[i].n <= answers[down[i].of]
    /\ \A i, j \in 1 .. Len(down) :
          i < j /\ down[i].of = down[j].of => down[i].n < down[j].n
    /\ \A c \in mounted :
          /\ \A i \in 1 .. Len(down) :
                down[i].of = c => down[i].n > Len(heard[c])
          /\ \A k \in (Len(heard[c]) + 1) .. answers[c] :
                \E i \in 1 .. Len(down) : down[i].of = c /\ down[i].n = k
    /\ \A c \in CallIds : Len(heard[c]) <= answers[c]

\* Nothing was heard from calls that were not made.
Unmade == \A c \in CallIds \ Made : answers[c] = 0

Inv == Numbered /\ Sampling /\ Calm /\ Thrown /\ InTransit /\ Unmade
-----------------------------------------------------------------------------
(* Type correctness *)

LEMMA InitType == Init => TypeOK
<1>. SUFFICES ASSUME Init PROVE TypeOK
  OBVIOUS
<1>1. /\ calls \in Seq([rid : Nat, mult : BOOLEAN, known : BOOLEAN])
      /\ up \in Seq(Made) /\ down \in Seq([rid : Nat, of : Made, n : Nat])
      /\ Len(calls) = 0
  BY EmptySeq DEF Init
<1>2. heard \in [CallIds -> Seq(CallIds \X Nat)]
  BY EmptySeq DEF Init
<1>3. Len(calls) <= MaxCalls /\ sampled \in 0 .. Len(calls)
  BY <1>1, RpcAssumption DEF Init
<1>4. answers \in [CallIds -> Nat]
  BY DEF Init
<1>5. /\ setup \in [node : BOOLEAN, hears : BOOLEAN]
      /\ pc \in Pcs /\ js \in BOOLEAN /\ id \in Nat /\ mounted \subseteq Made
      /\ listening \in BOOLEAN /\ timers \in BOOLEAN /\ stopped \in BOOLEAN
      /\ received \subseteq Made /\ crashed \in {0} \cup Made
  BY DEF Init, Pcs
<1>. QED  BY <1>1, <1>2, <1>3, <1>4, <1>5 DEF TypeOK

(* What a call adds keeps its type although there is a call more.          *)
LEMMA CallTypes ==
    ASSUME TypeOK, Len(calls) < MaxCalls,
           NEW mult \in BOOLEAN, NEW known \in BOOLEAN, MakeCall(mult, known)
    PROVE  /\ Len(calls') = Len(calls) + 1 /\ Len(calls) \in Nat
           /\ calls' \in Seq([rid : Nat, mult : BOOLEAN, known : BOOLEAN])
           /\ \A c \in Made : calls'[c] = calls[c]
           /\ calls'[Len(calls) + 1]
                = [rid |-> Rid, mult |-> mult, known |-> known]
           /\ Made' = Made \cup {Len(calls) + 1} /\ Made' \subseteq CallIds
<1>1. calls \in Seq([rid : Nat, mult : BOOLEAN, known : BOOLEAN])
      /\ Rid \in Nat
  BY DEF TypeOK, Rid
<1>2. [rid |-> Rid, mult |-> mult, known |-> known]
        \in [rid : Nat, mult : BOOLEAN, known : BOOLEAN]
  BY <1>1
<1>3. calls' = Append(calls, [rid |-> Rid, mult |-> mult, known |-> known])
  BY DEF MakeCall
<1>4. Len(calls) \in Nat
  BY <1>1, LenProperties
<1>5. /\ Len(calls') = Len(calls) + 1
      /\ calls' \in Seq([rid : Nat, mult : BOOLEAN, known : BOOLEAN])
      /\ \A c \in Made : calls'[c] = calls[c]
      /\ calls'[Len(calls) + 1]
           = [rid |-> Rid, mult |-> mult, known |-> known]
  BY <1>1, <1>2, <1>3, AppendProperties DEF Made
<1>. QED  BY <1>4, <1>5, RpcAssumption DEF Made, CallIds
(* Every step keeps the types.                                             *)
LEMMA NextType == TypeOK /\ [Next]_vars => TypeOK'
<1>. SUFFICES ASSUME TypeOK, [Next]_vars PROVE TypeOK'
  OBVIOUS
<1>. USE DEF worker, main, history
<1>p. Handling => /\ pc' = IF pc = "poll" THEN "polled" ELSE pc
                  /\ pc' \in Pcs
  BY DEF Handling, Pcs
<1>l. /\ Len(calls) \in Nat /\ Made \subseteq CallIds
      /\ \A c \in Made : calls[c].rid \in Nat
  <2>1. /\ calls \in Seq([rid : Nat, mult : BOOLEAN, known : BOOLEAN])
        /\ Len(calls) <= MaxCalls
    BY DEF TypeOK
  <2>2. Len(calls) \in Nat
    BY <2>1, LenProperties
  <2>3. Made \subseteq CallIds
    BY <2>1, <2>2, RpcAssumption DEF Made, CallIds
  <2>4. \A c \in Made :
            calls[c] \in [rid : Nat, mult : BOOLEAN, known : BOOLEAN]
    BY <2>1, ElementOfSeq DEF Made
  <2>. QED  BY <2>2, <2>3, <2>4
<1>1. CASE UNCHANGED vars
  BY <1>1 DEF TypeOK, vars, Made
<1>2. CASE \E mult, known \in BOOLEAN : MakeCall(mult, known)
  <2>1. PICK mult \in BOOLEAN, known \in BOOLEAN : MakeCall(mult, known)
    BY <1>2
  <2>2. Len(calls) < MaxCalls
    BY <2>1 DEF MakeCall
  <2>3. /\ Len(calls') = Len(calls) + 1 /\ Len(calls) \in Nat
        /\ calls' \in Seq([rid : Nat, mult : BOOLEAN, known : BOOLEAN])
        /\ Made' = Made \cup {Len(calls) + 1} /\ Made' \subseteq CallIds
    BY <2>1, <2>2, CallTypes
  <2>4. up' \in Seq(Made')
    <3>1. up \in Seq(Made') /\ Len(calls) + 1 \in Made'
      BY <2>3, SeqMonotonic DEF TypeOK
    <3>. QED  BY <2>1, <3>1, AppendProperties DEF MakeCall
  <2>5. down' \in Seq([rid : Nat, of : Made', n : Nat])
    <3>1. [rid : Nat, of : Made, n : Nat] \subseteq [rid : Nat, of : Made', n : Nat]
      BY <2>3
    <3>. QED  BY <2>1, <3>1, SeqMonotonic DEF MakeCall, TypeOK
  <2>6. Len(calls') <= MaxCalls /\ sampled' \in 0 .. Len(calls') /\ id' \in Nat
    BY <2>1, <2>2, <2>3, RpcAssumption DEF MakeCall, TypeOK
  <2>7. mounted' \subseteq Made' /\ received' \subseteq Made'
        /\ crashed' \in {0} \cup Made'
    BY <2>1, <2>3 DEF MakeCall, TypeOK
  <2>8. UNCHANGED <<setup, pc, js, listening, timers, stopped, answers, heard>>
    BY <2>1 DEF MakeCall
  <2>. QED  BY <2>3, <2>4, <2>5, <2>6, <2>7, <2>8 DEF TypeOK
<1>3. CASE (\E c \in CallIds : Unbind(c)) \/ OffAll \/ Listen \/ SetTimer
  BY <1>3 DEF Unbind, OffAll, Listen, SetTimer, TypeOK, Made
<1>4. CASE JsReturn
  <2>1. js' \in BOOLEAN /\ pc' \in Pcs
    BY <1>4 DEF JsReturn, TypeOK, Pcs
  <2>2. sampled' \in 0 .. Len(calls)
    <3>1. sampled' = Len(calls) \/ sampled' = sampled
      BY <1>4 DEF JsReturn
    <3>. QED  BY <1>l, <3>1 DEF TypeOK
  <2>3. UNCHANGED <<setup, worker, stopped, up, down, main, heard>>
    BY <1>4 DEF JsReturn
  <2>. QED  BY <2>1, <2>2, <2>3 DEF TypeOK, Made
<1>5. CASE RecvAnswer
  <2>. DEFINE msg    == Head(down)
              called == {c \in mounted : calls[c].rid = msg.rid}
  <2>1. /\ down \in Seq([rid : Nat, of : Made, n : Nat]) /\ down /= <<>>
        /\ Hear(called, msg) /\ down' = Tail(down) /\ Handling
        /\ js' = (called /= {})
        /\ UNCHANGED <<setup, id, calls, listening, timers, stopped, up, main,
                       sampled>>
    BY <1>5 DEF RecvAnswer, TypeOK
  <2>2. /\ msg \in [rid : Nat, of : Made, n : Nat]
        /\ down' \in Seq([rid : Nat, of : Made, n : Nat])
    BY <2>1, HeadTailProperties
  <2>3. <<msg.of, msg.n>> \in CallIds \X Nat
    BY <2>2, <1>l
  <2>4. heard' \in [CallIds -> Seq(CallIds \X Nat)]
    <3>1. \A c \in CallIds :
             /\ heard[c] \in Seq(CallIds \X Nat)
             /\ Append(heard[c], <<msg.of, msg.n>>) \in Seq(CallIds \X Nat)
      BY <2>3, AppendProperties DEF TypeOK
    <3>2. heard' = [c \in CallIds |-> IF c \in called
                      THEN Append(heard[c], <<msg.of, msg.n>>) ELSE heard[c]]
      BY <2>1 DEF Hear
    <3>. HIDE DEF msg, called
    <3>. QED  BY <3>1, <3>2
  <2>5. mounted' \subseteq Made /\ pc' \in Pcs /\ js' \in BOOLEAN
    BY <2>1, <1>p DEF Hear, TypeOK
  <2>. HIDE DEF msg, called
  <2>. QED  BY <2>1, <2>2, <2>4, <2>5 DEF TypeOK, Made
<1>6. CASE Event \/ Microtasks \/ LoopStep \/ Stop \/ EndStopped
  <2>. USE DEF Event, Microtasks, LoopStep, Sample, RunOnce, RunNoWait, Leave,
               Stop, EndStopped
  <2>1. pc' \in Pcs
    BY <1>6, <1>p DEF TypeOK, Pcs
  <2>2. sampled' \in 0 .. Len(calls)
    BY <1>6, <1>l DEF TypeOK
  <2>3. js' \in BOOLEAN /\ timers' \in BOOLEAN /\ stopped' \in BOOLEAN
    BY <1>6 DEF TypeOK
  <2>4. UNCHANGED <<setup, id, calls, mounted, listening, up, down, main, heard>>
    BY <1>6
  <2>. QED  BY <2>1, <2>2, <2>3, <2>4 DEF TypeOK, Made
<1>7. ASSUME NEW c \in Made, Reply(c)
      PROVE  /\ down' \in Seq([rid : Nat, of : Made, n : Nat])
             /\ answers' \in [CallIds -> Nat] /\ crashed' \in {0} \cup Made
  <2>1. /\ answers[c] + 1 \in Nat /\ calls[c].rid \in Nat
        /\ down \in Seq([rid : Nat, of : Made, n : Nat])
        /\ answers \in [CallIds -> Nat] /\ c \in CallIds
    BY <1>l DEF TypeOK
  <2>2. Append(down, [rid |-> calls[c].rid, of |-> c, n |-> answers[c] + 1])
          \in Seq([rid : Nat, of : Made, n : Nat])
    BY <2>1, AppendProperties
  <2>3. [answers EXCEPT ![c] = answers[c] + 1] \in [CallIds -> Nat]
    BY <2>1
  <2>. QED  BY <1>7, <2>1, <2>2, <2>3 DEF Reply
<1>8. CASE RecvCall
  <2>1. up \in Seq(Made) /\ up /= <<>>
    BY <1>8 DEF RecvCall, TypeOK
  <2>2. Head(up) \in Made /\ Tail(up) \in Seq(Made)
    BY <2>1, HeadTailProperties
  <2>3. /\ down' \in Seq([rid : Nat, of : Made, n : Nat])
        /\ answers' \in [CallIds -> Nat] /\ crashed' \in {0} \cup Made
        /\ received' \subseteq Made
    BY <1>7, <1>8, <2>2 DEF RecvCall, TypeOK
  <2>. QED  BY <1>8, <2>2, <2>3 DEF RecvCall, TypeOK, Made
<1>9. CASE \E c \in CallIds : Answer(c)
  <2>1. PICK c \in CallIds : Answer(c)
    BY <1>9
  <2>2. c \in Made
    BY <2>1 DEF Answer, TypeOK
  <2>. QED  BY <1>7, <2>1, <2>2 DEF Answer, TypeOK, Made
<1>. QED  BY <1>1, <1>2, <1>3, <1>4, <1>5, <1>6, <1>8, <1>9 DEF Next, Js
THEOREM TypeCorrect == Spec => []TypeOK
BY InitType, NextType, PTL DEF Spec
-----------------------------------------------------------------------------
(* The inductive invariant *)

LEMMA InitInv == Init => Inv
<1>. SUFFICES ASSUME Init PROVE Inv
  OBVIOUS
<1>1. /\ Len(calls) = 0 /\ Len(down) = 0 /\ Made = {} /\ mounted = {}
      /\ \A c \in CallIds : heard[c] = <<>> /\ answers[c] = 0
  BY EmptySeq DEF Init, Made
<1>2. Numbered /\ Sampling /\ Calm /\ Thrown /\ Unmade
  BY <1>1 DEF Init, Numbered, Sampling, Calm, Thrown, Unmade
<1>3. InTransit
  BY <1>1, EmptySeq DEF InTransit
<1>. QED  BY <1>2, <1>3 DEF Inv

(* What the types say of the parts of the state.                           *)
LEMMA Parts ==
    ASSUME TypeOK
    PROVE  /\ Len(calls) \in Nat /\ Len(down) \in Nat
           /\ Made = 1 .. Len(calls) /\ Made \subseteq CallIds
           /\ \A i \in 1 .. Len(down) :
                 down[i] \in [rid : Nat, of : Made, n : Nat]
           /\ \A c \in CallIds : /\ Len(heard[c]) \in Nat /\ answers[c] \in Nat
                                 /\ heard[c] \in Seq(CallIds \X Nat)
<1>1. /\ calls \in Seq([rid : Nat, mult : BOOLEAN, known : BOOLEAN])
      /\ down \in Seq([rid : Nat, of : Made, n : Nat])
      /\ Len(calls) <= MaxCalls
  BY DEF TypeOK
<1>2. Len(calls) \in Nat /\ Len(down) \in Nat
  BY <1>1, LenProperties
<1>3. \A i \in 1 .. Len(down) : down[i] \in [rid : Nat, of : Made, n : Nat]
  BY <1>1, ElementOfSeq
<1>4. \A c \in CallIds : /\ heard[c] \in Seq(CallIds \X Nat)
                         /\ answers[c] \in Nat
  BY DEF TypeOK
<1>5. \A c \in CallIds : Len(heard[c]) \in Nat
  BY <1>4, LenProperties
<1>. QED  BY <1>1, <1>2, <1>3, <1>4, <1>5, RpcAssumption DEF Made, CallIds

(* An answer on its way is the next one for its callback, if it waits.     *)
LEMMA NextForCallback ==
    ASSUME TypeOK, Numbered, InTransit, down /= <<>>,
           NEW msg, msg = Head(down),
           NEW called, called = {c \in mounted : calls[c].rid = msg.rid}
    PROVE  /\ msg = down[1] /\ 1 \in 1 .. Len(down)
           /\ msg.of \in Made /\ msg.n \in Nat /\ msg.rid = msg.of
           /\ called = IF msg.of \in mounted THEN {msg.of} ELSE {}
           /\ msg.of \in mounted => /\ msg.n = Len(heard[msg.of]) + 1
                                    /\ msg.n <= answers[msg.of]
<1>1. /\ msg = down[1] /\ 1 \in 1 .. Len(down)
  <2>1. down \in Seq([rid : Nat, of : Made, n : Nat])
    BY DEF TypeOK
  <2>. QED  BY <2>1, HeadTailProperties, EmptySeq, LenProperties
<1>2. msg.of \in Made /\ msg.n \in Nat /\ msg.rid = msg.of
  BY <1>1, Parts DEF InTransit
<1>3. called = IF msg.of \in mounted THEN {msg.of} ELSE {}
  BY <1>2 DEF Numbered, TypeOK
<1>4. ASSUME msg.of \in mounted
      PROVE  msg.n = Len(heard[msg.of]) + 1 /\ msg.n <= answers[msg.of]
  <2>. DEFINE c == msg.of
              k == Len(heard[c]) + 1
  <2>1. c \in CallIds /\ k \in Nat /\ answers[c] \in Nat /\ Len(heard[c]) \in Nat
    BY <1>2, Parts
  <2>2. msg.n > Len(heard[c]) /\ msg.n <= answers[c]
    BY <1>1, <1>4 DEF InTransit
  <2>3. k \in (Len(heard[c]) + 1) .. answers[c]
    BY <1>2, <2>1, <2>2
  <2>4. PICK i \in 1 .. Len(down) : down[i].of = c /\ down[i].n = k
    BY <1>4, <2>3 DEF InTransit
  <2>5. i /= 1 => msg.n < k
    <3>1. i \in Nat /\ (i /= 1 => 1 < i)
      BY <2>4, Parts
    <3>. QED  BY <1>1, <2>4, <3>1 DEF InTransit
  <2>. QED  BY <1>1, <1>2, <2>1, <2>2, <2>4, <2>5
<1>. QED  BY <1>1, <1>2, <1>3, <1>4

(* Only these steps touch the answers, and what they do to the rest.       *)
LEMMA Frame ==
    ASSUME TypeOK, Next
    PROVE  \/ (\E mult, known \in BOOLEAN : MakeCall(mult, known))
           \/ RecvAnswer
           \/ \E c \in Made : Reply(c) /\ UNCHANGED <<setup, pc, js, worker,
                                                     stopped, history>>
           \/ UNCHANGED <<down, answers, heard>> /\ mounted' \subseteq mounted
              /\ UNCHANGED <<id, calls>>
<1>. USE DEF worker, main, history
<1>1. CASE RecvCall
  <2>1. up \in Seq(Made) /\ up /= <<>>
    BY <1>1 DEF RecvCall, TypeOK
  <2>2. Head(up) \in Made
    BY <2>1, HeadTailProperties
  <2>. QED  BY <1>1, <2>2 DEF RecvCall
<1>2. CASE \E c \in CallIds : Answer(c)
  BY <1>2 DEF Answer, TypeOK
<1>3. CASE (\E c \in CallIds : Unbind(c)) \/ OffAll \/ Listen \/ SetTimer
  BY <1>3 DEF Unbind, OffAll, Listen, SetTimer
<1>4. CASE JsReturn \/ Event \/ Microtasks \/ LoopStep \/ Stop \/ EndStopped
  BY <1>4 DEF JsReturn, Event, Microtasks, LoopStep, Sample, RunOnce,
              RunNoWait, Leave, Stop, EndStopped
<1>. QED  BY <1>1, <1>2, <1>3, <1>4 DEF Next, Js
LEMMA NumberedStep ==
    TypeOK /\ Numbered /\ Unmade /\ [Next]_vars => Numbered' /\ Unmade'
<1>. SUFFICES ASSUME TypeOK, Numbered, Unmade, [Next]_vars
              PROVE  Numbered' /\ Unmade'
  OBVIOUS
<1>. USE DEF worker, main, history
<1>1. ASSUME NEW mult \in BOOLEAN, NEW known \in BOOLEAN, MakeCall(mult, known)
      PROVE  Numbered' /\ Unmade'
  <2>1. Len(calls) < MaxCalls /\ id' = id + 1 /\ answers' = answers
    BY <1>1 DEF MakeCall
  <2>2. /\ Len(calls') = Len(calls) + 1 /\ Len(calls) \in Nat
        /\ \A c \in Made : calls'[c] = calls[c]
        /\ calls'[Len(calls) + 1]
             = [rid |-> Rid, mult |-> mult, known |-> known]
        /\ Made' = Made \cup {Len(calls) + 1}
    BY <1>1, <2>1, CallTypes
  <2>3. Rid = Len(calls) + 1
    BY DEF Numbered, Rid
  <2>. QED  BY <2>1, <2>2, <2>3 DEF Numbered, Unmade
<1>2. ASSUME NEW c \in Made, Reply(c), UNCHANGED worker
      PROVE  Numbered' /\ Unmade'
  <2>1. \A d \in CallIds \ Made : answers'[d] = answers[d]
    BY <1>2 DEF Reply, TypeOK
  <2>. QED  BY <1>2, <2>1 DEF Numbered, Unmade, Made
<1>3. CASE RecvAnswer
  BY <1>3 DEF RecvAnswer, Numbered, Unmade, Made
<1>4. CASE UNCHANGED vars
  BY <1>4 DEF vars, Numbered, Unmade, Made
<1>5. CASE UNCHANGED <<id, calls, answers>>
  BY <1>5 DEF Numbered, Unmade, Made
<1>. QED  BY <1>1, <1>2, <1>3, <1>4, <1>5, Frame

(* A wait for an answer keeps the worker: noListener() sees every callback *)
(* that is mounted.                                                        *)
LEMMA SamplingStep ==
    TypeOK /\ Sampling /\ Calm /\ [Next]_vars => Sampling'
<1>. SUFFICES ASSUME TypeOK, Sampling, Calm, [Next]_vars PROVE Sampling'
  OBVIOUS
<1>. USE DEF worker, main, history, Sampling
<1>1. CASE \E mult, known \in BOOLEAN : MakeCall(mult, known)
  <2>1. sampled \in 0 .. Len(calls) /\ Len(calls) \in Nat
    BY Parts DEF TypeOK
  <2>. QED  BY <1>1, <2>1 DEF MakeCall
<1>2. CASE (\E c \in CallIds : Unbind(c)) \/ OffAll \/ Listen \/ SetTimer
  BY <1>2 DEF Unbind, OffAll, Listen, SetTimer
<1>3. CASE JsReturn
  <2>1. CASE pc = "script" /\ NoListener
    BY <1>3, <2>1 DEF JsReturn, NoListener
  <2>2. CASE pc = "script" /\ ~NoListener
    <3>1. pc' = "poll"
      BY <1>3, <2>2 DEF JsReturn
    <3>. QED  BY <3>1
  <2>3. CASE pc /= "script"
    <3>1. pc' = pc /\ pc /= "ended" /\ UNCHANGED <<mounted, stopped, sampled>>
      BY <1>3, <2>3 DEF JsReturn, Calm
    <3>. QED  BY <3>1
  <2>. QED  BY <2>1, <2>2, <2>3
<1>4. CASE RecvAnswer
  BY <1>4 DEF RecvAnswer, Handling, Hear
<1>5. CASE Event \/ Microtasks \/ Stop \/ EndStopped
  BY <1>5 DEF Event, Handling, Microtasks, Stop, EndStopped
<1>6. CASE LoopStep
  <2>1. CASE Sample
    <3>1. CASE NoListener
      BY <2>1, <3>1 DEF Sample, NoListener
    <3>2. CASE ~NoListener
      BY <2>1, <3>2 DEF Sample
    <3>. QED  BY <3>1, <3>2
  <2>2. CASE RunOnce \/ RunNoWait \/ Leave
    BY <2>2 DEF RunOnce, RunNoWait, Leave
  <2>. QED  BY <1>6, <2>1, <2>2 DEF LoopStep
<1>7. CASE RecvCall \/ \E c \in CallIds : Answer(c)
  BY <1>7 DEF RecvCall, Answer
<1>8. CASE UNCHANGED vars
  BY <1>8 DEF vars
<1>. QED  BY <1>1, <1>2, <1>3, <1>4, <1>5, <1>6, <1>7, <1>8 DEF Next, Js

(* Whoever leaves the loop leaves JavaScript.                              *)
LEMMA CalmStep == Calm /\ [Next]_vars => Calm'
<1>. SUFFICES ASSUME Calm, [Next]_vars PROVE Calm'
  OBVIOUS
<1>. USE DEF worker, main, history, Calm
<1>1. CASE UNCHANGED <<pc, js>>
  BY <1>1
<1>2. CASE RecvAnswer \/ Event \/ Microtasks \/ JsReturn
  BY <1>2 DEF RecvAnswer, Event, Handling, Microtasks, JsReturn
<1>3. CASE LoopStep \/ EndStopped
  BY <1>3 DEF LoopStep, Sample, RunOnce, RunNoWait, Leave, EndStopped
<1>4. Next => \/ UNCHANGED <<pc, js>>
              \/ RecvAnswer \/ Event \/ Microtasks \/ JsReturn
              \/ LoopStep \/ EndStopped
  BY DEF Next, Js, MakeCall, Unbind, OffAll, Listen, SetTimer, Stop, RecvCall,
         Answer
<1>. QED  BY <1>1, <1>2, <1>3, <1>4 DEF vars

LEMMA ThrownStep == Thrown /\ [Next]_vars => Thrown'
<1>. SUFFICES ASSUME Thrown, [Next]_vars PROVE Thrown'
  OBVIOUS
<1>. USE DEF worker, main, history, Thrown
<1>1. CASE UNCHANGED vars
  BY <1>1 DEF vars
<1>2. CASE RecvCall \/ \E c \in CallIds : Answer(c)
  BY <1>2 DEF RecvCall, Answer, Reply, Next
<1>3. CASE crashed = 0 /\ crashed' = crashed
  BY <1>3
<1>4. Next => RecvCall \/ (\E c \in CallIds : Answer(c))
              \/ (crashed = 0 /\ crashed' = crashed)
  BY DEF Next, Js, MakeCall, Unbind, OffAll, Listen, SetTimer, JsReturn,
         RecvAnswer, Event, Microtasks, LoopStep, Sample, RunOnce, RunNoWait,
         Leave, Stop, EndStopped
<1>. QED  BY <1>1, <1>2, <1>3, <1>4
(* An answer joins the ones on their way as the last.                      *)
LEMMA TransitReply ==
    ASSUME TypeOK, Numbered, InTransit, NEW c \in Made, Reply(c),
           UNCHANGED worker, UNCHANGED history
    PROVE  InTransit'
<1>. USE DEF worker, history
<1>1. calls[c].rid = c /\ c > 0
  BY Parts DEF Numbered
<1>2. CASE UNCHANGED <<down, answers>>
  BY <1>2 DEF InTransit
<1>3. CASE /\ answers' = [answers EXCEPT ![c] = answers[c] + 1]
           /\ down' = Append(down, [rid |-> c, of |-> c, n |-> answers[c] + 1])
  <2>. DEFINE L == Len(down)
              n == answers[c] + 1
              m == [rid |-> c, of |-> c, n |-> n]
  <2>1. /\ L \in Nat /\ c \in CallIds /\ n \in Nat /\ m.of = c /\ m.n = n
        /\ m.rid = c /\ Len(down') = L + 1 /\ down'[L + 1] = m
        /\ \A i \in 1 .. L : down'[i] = down[i]
    <3>1. /\ L \in Nat /\ c \in CallIds /\ answers[c] \in Nat
          /\ down \in Seq([rid : Nat, of : Made, n : Nat])
      BY Parts DEF TypeOK
    <3>2. m \in [rid : Nat, of : Made, n : Nat]
      BY <1>1, <3>1, Parts
    <3>. QED  BY <1>3, <3>1, <3>2, AppendProperties
  <2>2. \A d \in CallIds : /\ answers'[d] = IF d = c THEN n ELSE answers[d]
                           /\ answers[d] \in Nat /\ Len(heard[d]) \in Nat
    BY <1>3, Parts DEF TypeOK
  <2>3. \A i \in 1 .. L : /\ down[i].of \in CallIds /\ down[i].n \in Nat
                          /\ down[i].rid = down[i].of
                          /\ down[i].n <= answers[down[i].of]
    BY Parts DEF InTransit
  <2>. HIDE DEF L, n, m
  <2>4. \A i \in 1 .. Len(down') : /\ down'[i].rid = down'[i].of
                                   /\ down'[i].n <= answers'[down'[i].of]
    <3>1. ASSUME NEW i \in 1 .. L
          PROVE  down'[i].rid = down'[i].of /\ down'[i].n <= answers'[down'[i].of]
      <4>1. answers[down[i].of] <= answers'[down[i].of]
        BY <2>2, <2>3 DEF n
      <4>. QED  BY <2>1, <2>2, <2>3, <4>1
    <3>2. m.n <= answers'[m.of]
      BY <2>1, <2>2
    <3>. QED  BY <2>1, <3>1, <3>2
  <2>5. \A i, j \in 1 .. Len(down') :
            i < j /\ down'[i].of = down'[j].of => down'[i].n < down'[j].n
    <3>1. ASSUME NEW i \in 1 .. L, NEW j \in 1 .. L, i < j,
                 down[i].of = down[j].of
          PROVE  down[i].n < down[j].n
      BY <3>1 DEF InTransit, L
    <3>2. ASSUME NEW i \in 1 .. L, down[i].of = c PROVE down[i].n < n
      BY <2>1, <2>2, <2>3, <3>2 DEF n
    <3>. QED  BY <2>1, <3>1, <3>2
  <2>6. ASSUME NEW d \in mounted'
        PROVE  /\ \A i \in 1 .. Len(down') :
                     down'[i].of = d => down'[i].n > Len(heard'[d])
               /\ \A k \in (Len(heard'[d]) + 1) .. answers'[d] :
                     \E i \in 1 .. Len(down') : down'[i].of = d /\ down'[i].n = k
    <3>1. d \in mounted /\ d \in CallIds /\ heard'[d] = heard[d]
      BY Parts DEF TypeOK
    <3>2. n > Len(heard[c])
      BY <2>1, <2>2 DEF InTransit, n
    <3>3. ASSUME NEW i \in 1 .. L, down[i].of = d
          PROVE  down[i].n > Len(heard[d])
      BY <3>1, <3>3 DEF InTransit, L
    <3>4. ASSUME NEW k \in (Len(heard[d]) + 1) .. answers'[d]
          PROVE  \E i \in 1 .. Len(down') : down'[i].of = d /\ down'[i].n = k
      <4>1. CASE k \in (Len(heard[d]) + 1) .. answers[d]
        <5>1. PICK i \in 1 .. L : down[i].of = d /\ down[i].n = k
          BY <3>1, <4>1 DEF InTransit, L
        <5>2. i \in 1 .. Len(down') /\ down'[i].of = d /\ down'[i].n = k
          BY <2>1, <5>1
        <5>. QED  BY <5>2
      <4>2. CASE k \notin (Len(heard[d]) + 1) .. answers[d]
        <5>1. d = c /\ k = n
          BY <2>1, <2>2, <3>1, <4>2 DEF n
        <5>2. L + 1 \in 1 .. Len(down')
          BY <2>1
        <5>. QED  BY <2>1, <5>1, <5>2
      <4>. QED  BY <4>1, <4>2
    <3>. QED  BY <2>1, <3>1, <3>2, <3>3, <3>4
  <2>7. \A d \in CallIds : Len(heard'[d]) <= answers'[d]
    BY <2>1, <2>2 DEF InTransit, n
  <2>. QED  BY <2>4, <2>5, <2>6, <2>7 DEF InTransit
<1>. QED  BY <1>1, <1>2, <1>3 DEF Reply

(* The oldest answer leaves, and a callback that waits for it hears it.    *)
LEMMA TransitRecv ==
    ASSUME TypeOK, Numbered, InTransit, RecvAnswer
    PROVE  InTransit'
<1>. USE DEF worker, main
<1>. DEFINE msg    == Head(down)
            called == {c \in mounted : calls[c].rid = msg.rid}
            L      == Len(down)
<1>1. /\ down /= <<>> /\ down' = Tail(down) /\ Hear(called, msg)
      /\ answers' = answers
  BY DEF RecvAnswer
<1>2. /\ msg = down[1] /\ 1 \in 1 .. L
      /\ msg.of \in Made /\ msg.n \in Nat
      /\ called = IF msg.of \in mounted THEN {msg.of} ELSE {}
      /\ msg.of \in mounted => /\ msg.n = Len(heard[msg.of]) + 1
                               /\ msg.n <= answers[msg.of]
  BY <1>1, NextForCallback
<1>3. /\ L \in Nat /\ Len(down') = L - 1
      /\ \A i \in 1 .. L - 1 : down'[i] = down[i + 1] /\ i + 1 \in 1 .. L
  <2>1. down \in Seq([rid : Nat, of : Made, n : Nat]) /\ L \in Nat
    BY Parts DEF TypeOK
  <2>. QED  BY <1>1, <1>2, <2>1, HeadTailProperties
<1>4. /\ mounted' \subseteq mounted
      /\ \A c \in CallIds :
            /\ Len(heard[c]) \in Nat /\ answers[c] \in Nat
            /\ Len(heard'[c]) = IF c = msg.of /\ c \in mounted THEN msg.n
                                                   ELSE Len(heard[c])
  <2>1. ASSUME NEW c \in CallIds
        PROVE  Len(heard'[c]) = IF c = msg.of /\ c \in mounted THEN msg.n
                                                   ELSE Len(heard[c])
    <3>1. heard'[c] = IF c \in called
                      THEN Append(heard[c], <<msg.of, msg.n>>) ELSE heard[c]
      BY <1>1 DEF Hear
    <3>2. <<msg.of, msg.n>> \in CallIds \X Nat
      BY <1>2, Parts
    <3>3. Len(Append(heard[c], <<msg.of, msg.n>>)) = Len(heard[c]) + 1
      BY <3>2, Parts, AppendProperties
    <3>. QED  BY <1>2, <3>1, <3>3
  <2>. QED  BY <1>1, <2>1, Parts DEF Hear
<1>. HIDE DEF msg, called, L
<1>5. \A i \in 1 .. L - 1 : /\ down[i + 1].of \in CallIds
                            /\ down[i + 1].n \in Nat
  BY <1>3, Parts DEF L
<1>6. \A i \in 1 .. L - 1 : /\ down[i + 1].rid = down[i + 1].of
                            /\ down[i + 1].n <= answers[down[i + 1].of]
  BY <1>3 DEF InTransit, L
<1>7. ASSUME NEW i \in 1 .. L - 1, NEW j \in 1 .. L - 1, i < j,
             down[i + 1].of = down[j + 1].of
      PROVE  down[i + 1].n < down[j + 1].n
  <2>1. i + 1 \in 1 .. L /\ j + 1 \in 1 .. L /\ i + 1 < j + 1
    BY <1>3, <1>7
  <2>. QED  BY <1>7, <2>1, Zenon DEF InTransit, L
<1>8. ASSUME NEW c \in mounted'
      PROVE  /\ \A i \in 1 .. L - 1 :
                   down[i + 1].of = c => down[i + 1].n > Len(heard'[c])
             /\ \A k \in (Len(heard'[c]) + 1) .. answers[c] :
                   \E i \in 1 .. L - 1 : down[i + 1].of = c /\ down[i + 1].n = k
  <2>1. c \in mounted /\ c \in CallIds
    BY <1>4, Parts DEF TypeOK
  <2>2. ASSUME NEW i \in 1 .. L - 1, down[i + 1].of = c
        PROVE  down[i + 1].n > Len(heard'[c])
    <3>1. i + 1 \in 1 .. L /\ 1 < i + 1
      BY <1>3
    <3>2. CASE c = msg.of
      <4>1. down[1].n < down[i + 1].n
        BY <1>2, <2>2, <3>1, <3>2, Zenon DEF InTransit, L
      <4>. QED  BY <1>2, <1>4, <1>5, <2>1, <3>2, <4>1
    <3>3. CASE c /= msg.of
      BY <1>4, <2>1, <2>2, <3>1, <3>3 DEF InTransit, L
    <3>. QED  BY <3>2, <3>3
  <2>3. ASSUME NEW k \in (Len(heard'[c]) + 1) .. answers[c]
        PROVE  \E i \in 1 .. L - 1 : down[i + 1].of = c /\ down[i + 1].n = k
    <3>1. k \in (Len(heard[c]) + 1) .. answers[c]
      BY <1>2, <1>4, <2>1
    <3>2. PICK j \in 1 .. L : down[j].of = c /\ down[j].n = k
      BY <2>1, <3>1 DEF InTransit, L
    <3>3. j /= 1
      BY <1>2, <1>4, <2>1, <3>2
    <3>4. j - 1 \in 1 .. L - 1 /\ (j - 1) + 1 = j
      BY <1>3, <3>2, <3>3
    <3>. QED  BY <3>2, <3>4
  <2>. QED  BY <2>2, <2>3
<1>9. \A c \in CallIds : Len(heard'[c]) <= answers[c]
  BY <1>2, <1>4 DEF InTransit
<1>. QED  BY <1>1, <1>3, <1>6, <1>7, <1>8, <1>9 DEF InTransit
(* Other steps leave the answers as they are; a new call has none.         *)
LEMMA TransitStep ==
    TypeOK /\ Numbered /\ Unmade /\ InTransit /\ [Next]_vars => InTransit'
<1>. SUFFICES ASSUME TypeOK, Numbered, Unmade, InTransit, [Next]_vars
              PROVE  InTransit'
  OBVIOUS
<1>. USE DEF worker, main, history
<1>1. ASSUME NEW mult \in BOOLEAN, NEW known \in BOOLEAN, MakeCall(mult, known)
      PROVE  InTransit'
  <2>1. /\ UNCHANGED <<down, answers, heard>>
        /\ mounted' = mounted \cup {Len(calls) + 1} /\ Len(calls) < MaxCalls
    BY <1>1 DEF MakeCall
  <2>. DEFINE k == Len(calls) + 1
  <2>2. /\ k \in CallIds /\ k \notin Made /\ answers[k] = 0
        /\ Len(heard[k]) \in Nat
        /\ \A i \in 1 .. Len(down) : down[i].of /= k
    <3>1. k \in CallIds /\ k \notin Made
      BY <2>1, Parts, RpcAssumption DEF CallIds
    <3>. QED  BY <3>1, Parts DEF Unmade
  <2>3. (Len(heard[k]) + 1) .. answers[k] = {}
    BY <2>2
  <2>. HIDE DEF k
  <2>4. mounted' = mounted \cup {k}
    BY <2>1 DEF k
  <2>. QED  BY <2>1, <2>2, <2>3, <2>4 DEF InTransit
<1>2. ASSUME NEW c \in Made, Reply(c),
             UNCHANGED <<setup, pc, js, worker, stopped, history>>
      PROVE  InTransit'
  BY <1>2, TransitReply
<1>3. CASE UNCHANGED <<down, answers, heard>> /\ mounted' \subseteq mounted
  BY <1>3 DEF InTransit
<1>4. CASE UNCHANGED vars
  BY <1>4, <1>3 DEF vars
<1>5. Next => InTransit'
  BY <1>1, <1>2, <1>3, Frame, TransitRecv
<1>. QED  BY <1>4, <1>5

(* The inductive invariant of a worker and the calls it made.              *)
THEOREM CallsInvariant == Spec => []Inv
<1>1. TypeOK /\ Inv /\ [Next]_vars => Inv'
  BY NumberedStep, SamplingStep, CalmStep, ThrownStep, TransitStep DEF Inv
<1>. QED  BY <1>1, InitInv, TypeCorrect, PTL DEF Spec

(* A worker that nobody stopped does not end while a callback waits that   *)
(* was mounted before noListener() last said there is none.                *)
THEOREM PendingHolds == Spec => []PendingHoldsWorker
<1>1. Inv => PendingHoldsWorker
  BY DEF Inv, Sampling, PendingHoldsWorker
<1>. QED  BY <1>1, CallsInvariant, PTL

(* An answer that throws in the main thread is one nobody waits for, but   *)
(* for calls of the loop's last round, and for stopped threads.            *)
THEOREM ThrownForNobody == Spec => []ThrownAtForNobody
<1>1. Inv => ThrownAtForNobody
  BY DEF Inv, Sampling, Thrown, ThrownAtForNobody
<1>. QED  BY <1>1, CallsInvariant, PTL
-----------------------------------------------------------------------------
(* The refinement *)

Repeats == {c \in Made : calls[c].mult}
Waiting == IF Over THEN {} ELSE mounted

LEMMA MakeMaps ==
    ASSUME TypeOK, Inv, crashed = 0,
           NEW mult \in BOOLEAN, NEW known \in BOOLEAN, MakeCall(mult, known)
    PROVE  Abstract!Next
<1>. USE DEF worker, main, history
<1>. DEFINE k == Len(calls) + 1
<1>1. /\ Len(calls) < MaxCalls /\ mounted' = mounted \cup {k}
      /\ UNCHANGED <<pc, crashed, answers, heard>> /\ pc /= "ended"
  BY DEF MakeCall, Inv, Calm
<1>2. /\ \A c \in Made : calls'[c] = calls[c]
      /\ calls'[k] = [rid |-> Rid, mult |-> mult, known |-> known]
      /\ Made' = Made \cup {k} /\ Made' \subseteq CallIds /\ k \notin Made
  BY <1>1, CallTypes, Parts
<1>. HIDE DEF k
<1>3. Waiting' = Waiting \cup {k}
  BY <1>1 DEF Waiting, Over
<1>4. Repeats' = IF mult THEN Repeats \cup {k} ELSE Repeats
  BY <1>2 DEF Repeats
<1>5. Abstract!Make(k, mult)
  BY <1>1, <1>2, <1>3, <1>4 DEF Abstract!Make, Waiting, Repeats
<1>. QED  BY <1>2, <1>5, Zenon DEF Abstract!Next
LEMMA RecvMaps ==
    ASSUME TypeOK, Inv, crashed = 0, RecvAnswer
    PROVE  Abstract!Next \/ UNCHANGED Abstract!vars
<1>. USE DEF worker, main
<1>. DEFINE msg    == Head(down)
            called == {c \in mounted : calls[c].rid = msg.rid}
            c      == msg.of
<1>1. /\ down /= <<>> /\ Hear(called, msg)
      /\ pc /= "ended" /\ pc' /= "ended"
      /\ UNCHANGED <<answers, calls, crashed>>
  BY DEF RecvAnswer, Handling
<1>2. /\ c \in Made /\ msg.n \in Nat
      /\ called = IF c \in mounted THEN {c} ELSE {}
      /\ c \in mounted => /\ msg.n = Len(heard[c]) + 1
                          /\ msg.n <= answers[c]
  BY <1>1, NextForCallback DEF Inv
<1>3. /\ Waiting = mounted /\ Waiting' = mounted'
      /\ UNCHANGED <<Made, Repeats, answers>>
  BY <1>1 DEF Waiting, Over, Made, Repeats
<1>4. heard \in [CallIds -> Seq(CallIds \X Nat)] /\ c \in CallIds
      /\ Len(heard[c]) \in Nat
  BY <1>2, Parts DEF TypeOK
<1>5. heard' = [d \in CallIds |-> IF d \in called
                   THEN Append(heard[d], <<c, msg.n>>) ELSE heard[d]]
      /\ mounted' = mounted \ {d \in called : ~calls[d].mult}
  BY <1>1 DEF Hear
<1>. HIDE DEF msg, c, called
<1>6. CASE c \in mounted
  <2>1. called = {c} /\ Len(heard[c]) < answers[c]
    BY <1>2, <1>4, <1>6, Parts
  <2>2. heard' = [heard EXCEPT ![c] = Append(heard[c], <<c, Len(heard[c]) + 1>>)]
    BY <1>2, <1>4, <1>5, <1>6, <2>1
  <2>3. Waiting' = IF c \in Repeats THEN Waiting ELSE Waiting \ {c}
    BY <1>2, <1>3, <1>5, <2>1 DEF Repeats
  <2>4. Abstract!Hear(c)
    BY <1>3, <1>6, <2>1, <2>2, <2>3 DEF Abstract!Hear, Waiting, Repeats
  <2>. QED  BY <1>4, <2>4, Zenon DEF Abstract!Next
<1>7. CASE c \notin mounted
  <2>1. heard' = heard /\ mounted' = mounted
    BY <1>2, <1>4, <1>5, <1>7
  <2>. QED  BY <1>3, <2>1 DEF Abstract!vars, Waiting, Repeats
<1>. QED  BY <1>6, <1>7

LEMMA ReplyMaps ==
    ASSUME TypeOK, Inv, crashed = 0, NEW c \in Made, Reply(c),
           UNCHANGED <<setup, pc, js, worker, stopped, history>>
    PROVE  Abstract!Next \/ UNCHANGED Abstract!vars
<1>. USE DEF worker, history
<1>1. /\ UNCHANGED <<Made, Repeats, heard, mounted, pc>>
      /\ calls[c].rid > 0 /\ c \in CallIds
  BY Parts DEF Made, Repeats, Inv, Numbered
<1>2. CASE pc = "ended"
  <2>1. Waiting' = Waiting /\ answers' = answers
    BY <1>1, <1>2 DEF Reply, Waiting, Over
  <2>. QED  BY <1>1, <2>1 DEF Abstract!vars, Waiting, Repeats
<1>3. CASE pc /= "ended"
  <2>1. answers' = [answers EXCEPT ![c] = answers[c] + 1] /\ crashed' = 0
    BY <1>3 DEF Reply
  <2>2. Waiting' = Waiting
    BY <1>1, <2>1 DEF Waiting, Over
  <2>3. Abstract!Answer(c)
    BY <1>1, <2>1, <2>2 DEF Abstract!Answer, Waiting, Repeats
  <2>. QED  BY <1>1, <2>3, Zenon DEF Abstract!Next
<1>. QED  BY <1>2, <1>3

(* Whatever else happens closes callbacks, at most.                        *)
LEMMA ElseMaps ==
    ASSUME UNCHANGED <<calls, answers, heard>>, Waiting' \subseteq Waiting
    PROVE  Abstract!Next
<1>1. Waiting' = Waiting \ (Waiting \ Waiting')
  OBVIOUS
<1>2. UNCHANGED <<Made, Repeats>>
  BY DEF Made, Repeats
<1>3. Abstract!Close
  BY <1>1, <1>2 DEF Abstract!Close, Waiting, Repeats
<1>. QED  BY <1>3 DEF Abstract!Next

(* Callbacks hear answers to their own call, in order and none twice, and  *)
(* no more than one unless the function repeats: every step is one of      *)
(* module Calls, or none (its safety part).                                *)
THEOREM ImplementsCalls == Spec => Abstract!SafeSpec
<1>1. Init => Abstract!Init
  <2>. SUFFICES ASSUME Init PROVE Abstract!Init
    OBVIOUS
  <2>1. Made = {}
    BY EmptySeq DEF Init, Made
  <2>. QED  BY <2>1 DEF Init, Abstract!Init, Over
<1>2. TypeOK /\ Inv /\ [Next]_vars => [Abstract!Next]_(Abstract!vars)
  <2>. SUFFICES ASSUME TypeOK, Inv, [Next]_vars
                PROVE  Abstract!Next \/ UNCHANGED Abstract!vars
    OBVIOUS
  <2>. USE DEF worker, main, history
  <2>1. CASE UNCHANGED vars
    BY <2>1 DEF vars, Abstract!vars, Made, Over
  <2>2. CASE Next /\ \E mult, known \in BOOLEAN : MakeCall(mult, known)
    BY <2>2, MakeMaps DEF Next
  <2>3. CASE Next /\ RecvAnswer
    BY <2>3, RecvMaps DEF Next
  <2>4. CASE Next /\ \E c \in Made : Reply(c) /\ UNCHANGED <<setup, pc, js, worker,
                                                     stopped, history>>
    BY <2>4, ReplyMaps DEF Next
  <2>5. CASE Next /\ (RecvCall \/ \E c \in CallIds : Answer(c))
    <3>1. CASE \E c \in Made : Reply(c) /\ UNCHANGED <<setup, pc, js, worker,
                                                      stopped, history>>
      BY <2>4, <2>5, <3>1
    <3>2. CASE UNCHANGED <<pc, calls, mounted, answers, heard, crashed>>
      <4>1. Waiting' \subseteq Waiting
        BY <3>2 DEF Waiting, Over
      <4>. QED  BY <3>2, <4>1, ElseMaps
    <3>3. RecvCall => up \in Seq(Made) /\ up /= <<>> /\ Head(up) \in Made
      BY HeadTailProperties DEF RecvCall, TypeOK
    <3>. QED  BY <2>5, <3>1, <3>2, <3>3 DEF RecvCall, Answer, TypeOK
  <2>6. CASE crashed = 0 /\ ((\E c \in CallIds : Unbind(c)) \/ OffAll \/ Listen
              \/ SetTimer)
    <3>1. UNCHANGED <<calls, answers, heard>> /\ Waiting' \subseteq Waiting
      BY <2>6 DEF Unbind, OffAll, Listen, SetTimer, Waiting, Over
    <3>. QED  BY <3>1, ElseMaps
  <2>7. CASE crashed = 0 /\ (JsReturn \/ Event \/ Microtasks \/ LoopStep
              \/ Stop \/ EndStopped)
    <3>1. UNCHANGED <<calls, answers, heard>> /\ Waiting' \subseteq Waiting
      BY <2>7 DEF JsReturn, Event, Handling, Microtasks, LoopStep, Sample,
                  RunOnce, RunNoWait, Leave, Stop, EndStopped, Waiting, Over
    <3>. QED  BY <3>1, ElseMaps
  <2>. QED  BY <2>1, <2>2, <2>3, <2>4, <2>5, <2>6, <2>7 DEF Next, Js
<1>. QED
  BY <1>1, <1>2, TypeCorrect, CallsInvariant, PTL DEF Spec, Abstract!SafeSpec
=============================================================================
