-------------------------------- MODULE Context --------------------------------
(***************************************************************************)
(* wrap_context (context.js) on both sides of a thread: the constructors   *)
(* by which an object is rebuilt on the other side, the errors that _recv  *)
(* answers with, and the queue create_node (main-warp.js) keeps until      *)
(* bootnode.js has run the code of a node thread.                          *)
(*                                                                         *)
(* The channels are reliable here, which Thread shows with its exceptions. *)
(***************************************************************************)
EXTENDS Integers, Sequences

CONSTANTS
    Types,          \* names of constructors the code registers
    MaxRegistered,  \* bound on the constructors of a side, Error included
    MaxCalls        \* bound on the calls of send and send_error

\* "none" and "nobody" say that there is no constructor.
ASSUME ContextAssumption ==
    /\ Types \cap {"none", "nobody"} = {}
    /\ MaxRegistered \in Nat /\ MaxCalls \in Nat

VARIABLES
    setup,         \* what is fixed: see Setups
    constructors,  \* type_constructor of each side, as names
    chan,          \* the messages under way to each side
    direct,        \* th.send is _send again
    send_queue,
    boot,          \* bootnode.js: "load", "ready", "eval" or "done"
    sends, errors, \* how often a side called send, both send_error
    got,           \* history: the last message of main that has arrived
    dropped        \* history: the flush of send_queue was left halfway

usage == <<sends, errors>>
vars  == <<setup, constructors, chan, direct, send_queue, boot, usage, got, dropped>>

Sides   == {"main", "worker"}
Other(s) == IF s = "main" THEN "worker" ELSE "main"

(* Plain or node thread; how the code of a node thread ends; whether a     *)
(* side has a listener of 'error', and what that does. One that throws is  *)
(* to main what none is, one that returns is to the worker what none is.   *)
Setups == [node : BOOLEAN,
           code : {"returns", "throws", "throws_custom", "throws_null"},
           main : {"none", "returns"}, worker : {"none", "throws"}]

NoId == -1

(* "n" numbers the sends of main, "as" is the constructor that was asked   *)
(* for, "global" whether data.name names a global of the other side, as it *)
(* does in an error of a standard type.                                    *)
Message(name, cid) == [name |-> name, cid |-> cid, as |-> "none", n |-> 0,
                       global |-> FALSE]
Registrable == Types \cup {"Error"}
Args        == {"none"} \cup Registrable   \* the third argument of send

Names == {"msg", "error", "thread_ready", "eval_code", "code_running"}
Boot  == {"load", "ready", "eval", "done"}

TypeOK ==
    /\ setup \in Setups
    /\ constructors \in [Sides -> Seq(Registrable)]
    /\ chan \in [Sides -> Seq([name : Names, cid : Nat \cup {NoId},
                               as : Args, n : Nat, global : BOOLEAN])]
    /\ direct \in BOOLEAN /\ boot \in Boot /\ dropped \in BOOLEAN
    /\ send_queue \in Seq([name : {"msg", "error"}, arg : Args, n : Nat])
    /\ direct => send_queue = <<>>
    /\ sends \in [Sides -> Nat] /\ errors \in Nat /\ got \in Nat

Init ==
    /\ setup \in {x \in Setups : x.node \/ x.code = "returns"}
    /\ constructors = [s \in Sides |-> <<"Error">>]
    /\ chan = [s \in Sides |-> <<>>]
    /\ direct = ~setup.node /\ send_queue = <<>>
    /\ boot = IF setup.node THEN "load" ELSE "done"
    /\ got = 0 /\ sends = [s \in Sides |-> 0] /\ errors = 0
    /\ dropped = FALSE
-----------------------------------------------------------------------------
(* The code of a side runs: main's always, the worker's when it is booted. *)
Runs(s) == s = "main" \/ boot \in {"eval", "done"}

Positions(s, name) == {i \in 1 .. Len(constructors[s]) : constructors[s][i] = name}

\* Mutant: the id is the length after the push.
IdLate(s, name) ==
    LET ids == Positions(s, name)
    IN  IF ids = {} THEN NoId ELSE CHOOSE i \in ids : \A j \in ids : i <= j

(* CONSTRUCTORS[name]: the id of the first registration. That of the built *)
(* in Error is 0, which is not true: the second Error takes its place.     *)
Id(s, name) ==
    LET ids  == Positions(s, name)
        kept == IF ids \subseteq {1} THEN ids ELSE ids \ {1}
    IN  IF ids = {} THEN NoId
                    ELSE (CHOOSE i \in kept : \A j \in kept : i <= j) - 1

(* reg_constructor. Of a name with an id other than 0 it throws, too late: *)
(* fn is in type_constructor by then.                                      *)
Register(s, name) ==
    /\ Runs(s) /\ Len(constructors[s]) < MaxRegistered
    /\ constructors' = [constructors EXCEPT ![s] = Append(@, name)]
    /\ UNCHANGED <<setup, chan, direct, send_queue, boot, usage, got, dropped>>

(* send takes the name of a constructor that is registered. Of an id it    *)
(* looks up the name, which there is not, and throws as for a wrong name.  *)
Accepts(s, arg) == arg = "none" \/ Id(s, arg) /= NoId

(* What send makes of a call, now. *)
Envelope(s, call) ==
    [Message(call.name, IF call.arg = "none" THEN NoId ELSE Id(s, call.arg))
        EXCEPT !.as = call.arg, !.n = call.n]

CanCall == sends["main"] + sends["worker"] + errors < MaxCalls

Call(name, arg, n) == [name |-> name, arg |-> arg, n |-> n]

Post(s, msg) == chan' = [chan EXCEPT ![Other(s)] = Append(@, msg)]

(* warp.send, which create_node has replaced by save_to_queue for a while. *)
Send(s, arg) ==
    /\ Runs(s) /\ CanCall
    /\ LET call == Call("msg", arg, sends[s] + 1)
       IN  IF s = "main" /\ ~direct
           THEN send_queue' = Append(send_queue, call) /\ chan' = chan
           ELSE /\ Accepts(s, arg)
                /\ Post(s, Envelope(s, call)) /\ send_queue' = send_queue
    /\ sends' = [sends EXCEPT ![s] = @ + 1]
    /\ UNCHANGED <<setup, constructors, direct, boot, errors, got, dropped>>

Error(s, global) == [Message("error", Id(s, "Error")) EXCEPT !.global = global,
                                                             !.as = "Error"]

(* send_error, of an error of a standard or of an own type. It calls send, *)
(* not warp.send: main passes its queue by.                                *)
SendError(s) ==
    /\ Runs(s) /\ CanCall
    /\ \E global \in BOOLEAN : Post(s, Error(s, global))
    /\ errors' = errors + 1
    /\ UNCHANGED <<setup, constructors, direct, send_queue, boot, sends, got, dropped>>
-----------------------------------------------------------------------------
(* _recv *)

(* An error that was caught is answered with warp.send, without an id.     *)
Answer(s, rest) ==
    IF s = "main" /\ ~direct
    THEN /\ send_queue' = Append(send_queue, Call("error", "none", 0))
         /\ chan' = [chan EXCEPT ![s] = rest]
    ELSE /\ chan' = [chan EXCEPT ![s] = rest,
                                 ![Other(s)] = Append(@, Message("error", NoId))]
         /\ UNCHANGED send_queue

(* Who rebuilds the data of a message. *)
Constructor(s, msg) ==
    IF msg.cid \in 0 .. Len(constructors[s]) - 1
    THEN constructors[s][msg.cid + 1] ELSE "nobody"

(* _error_constructor needs a global with the name of the error. One that  *)
(* the code registered, as Error or otherwise, does what it likes.         *)
ConstructorThrows(msg)  == msg.name = "error" /\ msg.cid = 0 /\ ~msg.global
UserConstructs(s, msg) == msg.cid \in 1 .. Len(constructors[s]) - 1

\* Mutant: both emitters throw an error that nobody listens for.
ErrorThrowsBoth(s) ==
    (s = "worker" => boot = "done") /\ setup[s] \in {"throws", "none"}

(* An EventEmitter of node throws an error that nobody listens for, that   *)
(* of events.js does not. Before its code the worker has no listeners.     *)
ErrorThrows(s) == \/ s = "main" /\ setup[s] \in {"throws", "none"}
                  \/ s = "worker" /\ boot = "done" /\ setup[s] = "throws"

Received(s, msg) ==
    /\ got' = IF s = "worker" /\ msg.n > 0 THEN msg.n ELSE got
    /\ UNCHANGED <<setup, constructors, usage>>

(* A message or an error for the code, whose constructor or listener may   *)
(* throw.                                                                  *)
RecvUser(s) ==
    /\ s = "main" \/ boot \notin {"load", "eval"}
    /\ chan[s] /= <<>> /\ Head(chan[s]).name \in {"msg", "error"}
    /\ LET msg  == Head(chan[s])
           rest == Tail(chan[s])
       IN  /\ \/ /\ \/ msg.name = "msg" \/ UserConstructs(s, msg)
                    \/ ConstructorThrows(msg) \/ ErrorThrows(s)
                 /\ Answer(s, rest)
              \/ /\ ~ConstructorThrows(msg)
                 /\ msg.name = "error" => ~ErrorThrows(s)
                 /\ chan' = [chan EXCEPT ![s] = rest] /\ UNCHANGED send_queue
           /\ Received(s, msg)
    /\ UNCHANGED <<direct, boot, dropped>>
-----------------------------------------------------------------------------
(* create_node and bootnode.js *)

(* on_thread_loader: the thread has loaded node. *)
Load ==
    /\ boot = "load" /\ boot' = "ready"
    /\ Post("worker", Message("thread_ready", NoId))
    /\ UNCHANGED <<setup, constructors, direct, send_queue, usage, got, dropped>>

RecvReady ==
    /\ chan["main"] /= <<>> /\ Head(chan["main"]).name = "thread_ready"
    /\ chan' = [chan EXCEPT !["main"] = Tail(@),
                            !["worker"] = Append(@, Message("eval_code", NoId))]
    /\ UNCHANGED <<setup, constructors, direct, send_queue, boot, usage, got, dropped>>

RecvEval ==
    /\ chan["worker"] /= <<>> /\ Head(chan["worker"]).name = "eval_code"
    /\ boot = "ready" /\ boot' = "eval"
    /\ chan' = [chan EXCEPT !["worker"] = Tail(@)]
    /\ UNCHANGED <<setup, constructors, direct, send_queue, usage, got, dropped>>

\* Mutant: code_running is sent inside of the try.
CodeAnswersTry ==
    CASE setup.code = "returns"     -> <<Message("code_running", NoId)>>
      [] setup.code = "throws_null" -> <<Message("error", NoId)>>
      [] OTHER                      -> <<Error("worker", setup.code = "throws")>>

(* The code returns, or throws, which uncaughtException sends. If it       *)
(* throws null, send_error throws in turn and _recv answers.               *)
CodeAnswers ==
    LET running == Message("code_running", NoId)
    IN  CASE setup.code = "returns"     -> <<running>>
          [] setup.code = "throws_null" -> <<Message("error", NoId)>>
          [] OTHER -> <<Error("worker", setup.code = "throws"), running>>

EvalReturns ==
    /\ boot = "eval" /\ boot' = "done"
    /\ chan' = [chan EXCEPT !["main"] = @ \o CodeAnswers]
    /\ UNCHANGED <<setup, constructors, direct, send_queue, usage, got, dropped>>

\* Mutant: the newest call goes first.
FlushedNewest(calls) ==
    [i \in 1 .. Len(calls) |-> Envelope("main", calls[Len(calls) - i + 1])]

Flushed(calls) == [i \in 1 .. Len(calls) |-> Envelope("main", calls[i])]

(* The queue is sent up to the first call that throws, for which _recv     *)
(* then answers. What is behind it is lost: send is _send from here on.    *)
RecvRunning ==
    /\ chan["main"] /= <<>> /\ Head(chan["main"]).name = "code_running"
    /\ LET bad == {i \in 1 .. Len(send_queue) : ~Accepts("main", send_queue[i].arg)}
           end == IF bad = {} THEN Len(send_queue)
                  ELSE (CHOOSE i \in bad : \A j \in bad : i <= j) - 1
       IN  /\ chan' = [chan EXCEPT
                !["main"] = Tail(@),
                !["worker"] = @ \o Flushed(SubSeq(send_queue, 1, end))
                    \o IF bad = {} THEN <<>> ELSE <<Message("error", NoId)>>]
           /\ dropped' = (dropped \/ bad /= {})
    /\ direct' = TRUE /\ send_queue' = <<>>
    /\ UNCHANGED <<setup, constructors, boot, usage, got>>
-----------------------------------------------------------------------------
Recv(s) == RecvUser(s) \/ (s = "main" /\ (RecvReady \/ RecvRunning))
                       \/ (s = "worker" /\ RecvEval)

Next == \/ \E s \in Sides, name \in Registrable : Register(s, name)
        \/ \E s \in Sides, arg \in Args : Send(s, arg)
        \/ \E s \in Sides : SendError(s) \/ Recv(s)
        \/ Load \/ EvalReturns

Spec == Init /\ [][Next]_vars
             /\ WF_vars(Load) /\ WF_vars(EvalReturns)
             /\ \A s \in Sides : WF_vars(Recv(s))
-----------------------------------------------------------------------------
IsPrefix(a, b) == Len(a) <= Len(b) /\ \A i \in 1 .. Len(a) : a[i] = b[i]
Aligned == \/ IsPrefix(constructors["main"], constructors["worker"])
           \/ IsPrefix(constructors["worker"], constructors["main"])

(* The next object that s receives asked for the constructor `by`, or gets *)
(* built by it.                                                            *)
NextAsks(s, by)  == chan[s] /= <<>> /\ Head(chan[s]).as = by
NextBuilt(s, by) == chan[s] /= <<>> /\ Constructor(s, Head(chan[s])) = by

(* The code of s has registered the name, if that of the other side has.   *)
Registered(s, name) == Positions(s, name) \ {1} /= {}
Follows(s, name)    == Registered(Other(s), name) => Registered(s, name)

(* As long as both sides have made the same registrations in the same      *)
(* order, the ones that failed included, however far either is ahead:      *)
(* nothing is rebuilt by a constructor of another name than was asked for, *)
(* and once the receiver has registered the name, everything is. This goes *)
(* for Error as well if the code registers it again: until the other side  *)
(* does the same, errors arrive as plain data.                             *)
RightConstructor ==
    Aligned => \A s \in Sides, by \in Registrable :
        /\ NextBuilt(s, by) => NextAsks(s, by)
        /\ NextAsks(s, by) /\ Follows(s, by) => NextBuilt(s, by)

(* What main has sent and the worker has not received, as the numbers of   *)
(* the sends, with 0 for a message that is none.                           *)
Numbers(seq) == [i \in 1 .. Len(seq) |-> seq[i].n]
Flow == Numbers(chan["worker"]) \o Numbers(send_queue)

(* The queue of create_node neither reorders nor repeats what main sends,  *)
(* and loses nothing: unless one of the queued calls throws.               *)
QueueKeepsOrder ==
    /\ \A i, j \in 1 .. Len(Flow) : i < j /\ Flow[j] > 0 => Flow[i] < Flow[j]
    /\ \A i \in 1 .. Len(Flow) : Flow[i] = 0 \/ Flow[i] > got
    /\ ~dropped => \A k \in got + 1 .. sends["main"] :
                        \E i \in 1 .. Len(Flow) : Flow[i] = k

(* A node thread gets to run with an open channel, whatever the listeners  *)
(* of errors do: unless its code throws null.                              *)
Boots == setup.code /= "throws_null" ~> direct

(* The sides stop to answer errors with errors, if either of them can take *)
(* one: main by a listener that returns, the worker also by having none.   *)
AnswersEnd ==
    setup.main = "returns" \/ setup.worker /= "throws"
        => <>[](\A s \in Sides : chan[s] = <<>>)
=============================================================================
