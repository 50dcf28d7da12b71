---------------------------------- MODULE Rpc ----------------------------------
(***************************************************************************)
(* Remote calls: a function of the main thread's thread_lib, the proxy     *)
(* __createFunctionProxy makes for it on the worker (fn-proxy.js), the     *)
(* listener that serves its calls (bind_function_call, main-warp.js), and  *)
(* the loop of the worker, which a pending callback keeps alive.           *)
(*                                                                         *)
(* The channels are reliable here, which Thread shows with its exceptions. *)
(* Functions without a callback send one message and are left out. Each    *)
(* list of listeners has one member, the case in which Events is exact.    *)
(***************************************************************************)
EXTENDS Integers, Sequences

CONSTANTS MaxCalls,    \* bound on the calls of the worker
          MaxAnswers   \* bound on the answers to one call

ASSUME RpcAssumption == MaxCalls \in Nat /\ MaxAnswers \in Nat

VARIABLES
    setup,      \* [node, hears]: a node thread; main listens for 'error'
    (* the worker *)
    pc,         \* see Pcs
    js,         \* JavaScript runs there
    id,         \* of fn-proxy.js, the last retid
    calls,      \* history: the calls it made, [rid, mult, known]
    mounted,    \* those whose callback is a listener
    listening,  \* the user has a listener
    timers,     \* a handle other than sub_event is active
    stopped,    \* main has called stop
    (* the channels *)
    up,         \* calls on the way to main
    down,       \* answers on the way to the worker, [rid, of, n]
    (* main *)
    received,   \* calls whose function was given its `next`
    crashed,    \* the call whose answer threw where nobody catches, or 0
    (* history *)
    answers,    \* how often each call was answered
    heard,      \* what each callback was called with
    sampled     \* calls made when noListener() last ended the listening

worker  == <<id, calls, mounted, listening, timers>>
main    == <<received, crashed, answers>>
history == <<heard, sampled>>
vars    == <<setup, pc, js, worker, stopped, up, down, main, history>>

(* do_script: the script; in uv_run(UV_RUN_ONCE), which has not handled    *)
(* anything yet, or has; noListener() has answered that there is some, or  *)
(* that there is none; in uv_run(UV_RUN_NOWAIT); and after the loop.       *)
Pcs == {"script", "poll", "polled", "some", "none", "nowait", "ended"}

CallIds == 1 .. MaxCalls
Made    == 1 .. Len(calls)

TypeOK ==
    /\ setup \in [node : BOOLEAN, hears : BOOLEAN]
    /\ pc \in Pcs /\ js \in BOOLEAN /\ id \in Nat
    /\ calls \in Seq([rid : Nat, mult : BOOLEAN, known : BOOLEAN])
    /\ Len(calls) <= MaxCalls /\ mounted \subseteq Made
    /\ listening \in BOOLEAN /\ timers \in BOOLEAN /\ stopped \in BOOLEAN
    /\ up \in Seq(Made) /\ down \in Seq([rid : Nat, of : Made, n : Nat])
    /\ received \subseteq Made /\ crashed \in {0} \cup Made
    /\ answers \in [CallIds -> Nat]
    /\ heard \in [CallIds -> Seq(CallIds \X Nat)]
    /\ sampled \in 0 .. Len(calls)

Init ==
    /\ setup \in [node : BOOLEAN, hears : BOOLEAN]
    /\ pc = "script" /\ js = TRUE /\ id = 0 /\ calls = <<>> /\ mounted = {}
    /\ listening = FALSE /\ timers = FALSE /\ stopped = FALSE
    /\ up = <<>> /\ down = <<>> /\ received = {} /\ crashed = 0
    /\ answers = [c \in CallIds |-> 0] /\ heard = [c \in CallIds |-> <<>>]
    /\ sampled = 0
-----------------------------------------------------------------------------
(* JavaScript of the worker *)

\* Mutant: retid = id++.
RidAfter == id
Rid == id + 1

(* The proxy: a listener of its own for the answer, and the message.       *)
(* `known` is whether main finds the function; one in a nameless namespace *)
(* is called by the namespace null, which libs does not have.              *)
MakeCall(mult, known) ==
    /\ js /\ Len(calls) < MaxCalls
    /\ id' = id + 1
    /\ calls' = Append(calls, [rid |-> Rid, mult |-> mult, known |-> known])
    /\ mounted' = mounted \cup {Len(calls) + 1}
    /\ up' = Append(up, Len(calls) + 1)
    /\ UNCHANGED <<setup, pc, js, listening, timers, stopped, down, main, history>>

(* unbind, which the callback was given. *)
Unbind(c) ==
    /\ js /\ c \in Made /\ heard[c] /= <<>>
    /\ mounted' = mounted \ {c}
    /\ UNCHANGED <<setup, pc, js, id, calls, listening, timers, stopped, up, down,
                   main, history>>

(* thread.offall removes the callbacks of calls, too. *)
OffAll ==
    /\ js
    /\ mounted' = {} /\ listening' = FALSE
    /\ UNCHANGED <<setup, pc, js, id, calls, timers, stopped, up, down, main,
                   history>>

(* thread.on and off; setTimeout and clearTimeout *)
Listen ==
    /\ js /\ listening' = ~listening
    /\ UNCHANGED <<setup, pc, js, id, calls, mounted, timers, stopped, up, down,
                   main, history>>

SetTimer ==
    /\ js /\ timers' = ~timers
    /\ UNCHANGED <<setup, pc, js, id, calls, mounted, listening, stopped, up, down,
                   main, history>>

Js == \/ \E mult, known \in BOOLEAN : MakeCall(mult, known)
      \/ \E c \in CallIds : Unbind(c)
      \/ OffAll \/ Listen \/ SetTimer

\* Mutant: only the listeners of the user count.
NoListenerUser == ~listening
NoListener == ~listening /\ mounted = {}

\* Mutant: the loop is entered for a listener of the user only.
JsReturnEnds ==
    /\ js /\ js' = FALSE
    /\ pc' = IF pc /= "script" THEN pc ELSE IF ~listening THEN "ended" ELSE "poll"
    /\ sampled' = IF pc' = "ended" THEN Len(calls) ELSE sampled
    /\ UNCHANGED <<setup, worker, stopped, up, down, main, heard>>

(* It returns, or throws, which is reported. The loop is entered if the    *)
(* script has left a listener.                                             *)
JsReturn ==
    /\ js /\ js' = FALSE
    /\ pc' = IF pc /= "script" THEN pc ELSE IF NoListener THEN "ended" ELSE "poll"
    /\ sampled' = IF pc' = "ended" THEN Len(calls) ELSE sampled
    /\ UNCHANGED <<setup, worker, stopped, up, down, main, heard>>
-----------------------------------------------------------------------------
(* The loop of the worker *)

(* uv_run handles something, and may then return.                          *)
Handling == /\ ~js /\ pc \in {"poll", "polled", "nowait"}
            /\ pc' = IF pc = "poll" THEN "polled" ELSE pc

\* Mutant: the callback is mounted with on, whatever mult says.
HearKeeps(called, msg) ==
    /\ heard' = [c \in CallIds |-> IF c \in called
                    THEN Append(heard[c], <<msg.of, msg.n>>) ELSE heard[c]]
    /\ mounted' = mounted

(* emit of '__function_back_call_' + rid: a listener of once is removed    *)
(* before it is called.                                                    *)
Hear(called, msg) ==
    /\ heard' = [c \in CallIds |-> IF c \in called
                    THEN Append(heard[c], <<msg.of, msg.n>>) ELSE heard[c]]
    /\ mounted' = mounted \ {c \in called : ~calls[c].mult}

(* An answer that nobody waits for any more goes unnoticed. *)
RecvAnswer ==
    /\ Handling /\ down /= <<>>
    /\ LET msg    == Head(down)
           called == {c \in mounted : calls[c].rid = msg.rid}
       IN  Hear(called, msg) /\ js' = (called /= {})
    /\ down' = Tail(down)
    /\ UNCHANGED <<setup, id, calls, listening, timers, stopped, up, main,
                   sampled>>

(* A message for the user, or one nobody listens for; a timer *)
Event ==
    /\ Handling
    /\ \/ js' = listening /\ timers' = timers
       \/ js' = TRUE /\ timers /\ timers' = FALSE
    /\ UNCHANGED <<setup, id, calls, mounted, listening, stopped, up, down,
                   main, history>>

(* RunMicrotasks before noListener() is called. In a node thread ticks and *)
(* microtasks run in MakeCallback after it, and beforeExit is emitted.     *)
Microtasks ==
    /\ ~js /\ pc \in IF setup.node THEN {"some", "none"} ELSE {"polled"}
    /\ js' = TRUE
    /\ UNCHANGED <<setup, pc, worker, stopped, up, down, main, history>>

(* uv_run has returned, and noListener() is called, once. Without a        *)
(* listener sub_event is unreferenced.                                     *)
Sample ==
    /\ ~js /\ pc = "polled"
    /\ pc' = IF NoListener THEN "none" ELSE "some"
    /\ sampled' = IF NoListener THEN Len(calls) ELSE sampled
    /\ UNCHANGED <<setup, js, worker, stopped, up, down, main, heard>>

(* With sub_event referenced uv_run waits for a message. *)
RunOnce ==
    /\ ~js /\ pc = "some" /\ pc' = "poll"
    /\ UNCHANGED <<setup, js, worker, stopped, up, down, main, history>>

(* uv_run(UV_RUN_NOWAIT) does nothing if no other handle is active. *)
RunNoWait ==
    /\ ~js /\ pc = "none" /\ pc' = IF timers THEN "nowait" ELSE "ended"
    /\ UNCHANGED <<setup, js, worker, stopped, up, down, main, history>>

(* if (!more) break. Otherwise another handle ends the next wait. *)
Leave ==
    /\ ~js /\ pc = "nowait" /\ pc' = IF timers THEN "poll" ELSE "ended"
    /\ UNCHANGED <<setup, js, worker, stopped, up, down, main, history>>

LoopStep == Sample \/ RunOnce \/ RunNoWait \/ Leave

Stop ==
    /\ ~stopped /\ stopped' = TRUE
    /\ UNCHANGED <<setup, pc, js, worker, up, down, main, history>>

(* running and terminated: the script is aborted, or the loop is left. *)
EndStopped ==
    /\ stopped /\ pc /= "ended" /\ pc' = "ended" /\ js' = FALSE
    /\ UNCHANGED <<setup, worker, stopped, up, down, main, history>>
-----------------------------------------------------------------------------
(* The main thread *)

(* next(err, ret): retid 0 is taken for a call without a callback. When    *)
(* the thread has ended, send emits an error, which throws if nobody       *)
(* listens: past _recv, whose own report throws again, or out of the       *)
(* callback from which the function answers.                               *)
Reply(c) ==
    LET n == answers[c] + 1
    IN  IF pc = "ended" /\ calls[c].rid > 0
        THEN /\ crashed' = IF setup.hears THEN 0 ELSE c
             /\ UNCHANGED <<down, answers>>
        ELSE /\ answers' = [answers EXCEPT ![c] = n]
             /\ down' = IF calls[c].rid = 0 THEN down
                        ELSE Append(down, [rid |-> calls[c].rid, of |-> c, n |-> n])
             /\ crashed' = 0

(* __direct_call_obj_func: without a function the answer is an error. *)
RecvCall ==
    /\ up /= <<>> /\ up' = Tail(up)
    /\ IF calls[Head(up)].known
       THEN /\ received' = received \cup {Head(up)}
            /\ UNCHANGED <<down, answers, crashed>>
       ELSE Reply(Head(up)) /\ received' = received
    /\ UNCHANGED <<setup, pc, js, worker, stopped, history>>

(* The function calls next, at once or later and as often as it likes; or  *)
(* it throws, which answers with what was thrown.                          *)
Answer(c) ==
    /\ c \in received /\ answers[c] < MaxAnswers
    /\ Reply(c)
    /\ UNCHANGED <<setup, pc, js, worker, stopped, up, received, history>>
-----------------------------------------------------------------------------
Next == /\ crashed = 0
        /\ \/ Js \/ JsReturn \/ RecvAnswer \/ Event \/ Microtasks \/ LoopStep
           \/ Stop \/ EndStopped \/ RecvCall
           \/ \E c \in CallIds : Answer(c)

(* JavaScript returns, microtasks come to an end, and uv_run visits what   *)
(* is ready and returns when it has handled it.                            *)
Fairness == /\ WF_vars(crashed = 0 /\ JsReturn)
            /\ SF_vars(crashed = 0 /\ RecvAnswer)
            /\ SF_vars(crashed = 0 /\ LoopStep)
            /\ WF_vars(crashed = 0 /\ RecvCall)

Spec == Init /\ [][Next]_vars /\ Fairness
-----------------------------------------------------------------------------
(* A call that waits for its answer keeps its thread: a thread that is not *)
(* stopped ends with a pending callback only if the call was made after    *)
(* the last noListener(), where main.cc:408 says no listener can be        *)
(* mounted, or is associated with the loop again.                          *)
PendingHoldsWorker ==
    pc = "ended" /\ ~stopped => \A c \in mounted : c > sampled

(* The main thread is only thrown at for an answer that came after a stop, *)
(* or that no callback waits for, or one mounted after the last sample.    *)
ThrownAtForNobody ==
    crashed /= 0 => stopped \/ crashed \notin mounted \/ crashed > sampled

Over == pc = "ended" \/ crashed /= 0

Abstract == INSTANCE Calls WITH
    Call <- CallIds, made <- Made,
    repeat <- {c \in Made : calls[c].mult},
    open <- IF Over THEN {} ELSE mounted

(* Callbacks hear what they should, in the end. *)
RefinesCalls == Abstract!Spec

(* A thread that does nothing but wait for calls ends when all of them     *)
(* were answered, those of unknown functions by main's error. But in a     *)
(* node thread the last listener may go after noListener() has said that   *)
(* there is one: sub_event stays referenced, and uv_run waits for ever.    *)
OnlyWaits == /\ ~listening /\ ~timers
             /\ \A c \in Made : ~calls[c].mult
                                /\ (calls[c].known => answers[c] > 0)
GoneUnseen   == setup.node /\ pc \in {"some", "poll"} /\ NoListener
AnsweredEnds == <>[](OnlyWaits /\ ~GoneUnseen) => <>Over
=============================================================================
