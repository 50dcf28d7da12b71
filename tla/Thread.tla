-------------------------------- MODULE Thread --------------------------------
(***************************************************************************)
(* One worker thread of threadjs-lib and the main thread that made it,     *)
(* from the return of j_create to the deletion of everything they shared:  *)
(* do_script and the native functions bound to both sides (main.cc,        *)
(* data.h, data.cc).                                                       *)
(*                                                                         *)
(* A step is what one thread does between two points at which the other    *)
(* can see or change the shared memory. JavaScript is the environment: at  *)
(* a point where a thread runs JavaScript it may call any bound function,  *)
(* any number of times, and return.                                        *)
(***************************************************************************)
EXTENDS Mailbox

CONSTANTS
    MaxSend,         \* bound on the _send calls of the main thread
    MaxPost,         \* bound on the messages a worker's JavaScript sends
    MayFailCompile,  \* whether compilerCode may throw
    NodeModes        \* values of the third argument of j_create

ASSUME ThreadAssumption ==
    /\ MaxSend \in Nat
    /\ MaxPost \in Nat
    /\ MayFailCompile \in BOOLEAN
    /\ NodeModes \subseteq BOOLEAN

VARIABLES
    (* the main thread *)
    mop,          \* the native function its JavaScript is inside of
    mscan,        \* where its loop is in a scan of the two async handles
    (* ReqData, shared *)
    running, terminated,
    inPool,       \* thread_id is in id_pool
    v8term,       \* V8::TerminateExecution is pending on sub_iso
    (* the RecvEventData of both sides, and the handles *)
    mainBox,      \* worker to main
    subBox,       \* main to worker
    delPending,   \* uv_async_send(del_event) was called
    peer,         \* mainEve->peer has been set
    notSend,      \* *mainEve->not_send
    notSendLive,  \* mainEve->not_send /= 0
    (* the worker *)
    spc, node, mode, listeners,
    work,         \* the loop has active referenced handles beside sub_event
    handle,       \* sub_event: "null", "open", "closing", "freed"
    refd,         \* sub_event is referenced
    (* history *)
    sends,        \* accepted _send calls; the k-th message is k
    got,          \* what the worker's _recv was called with
    upSent, upGot,\* what was sent to the main thread; what _recv got there
    raced,        \* a send fell into the window of bind_peer_event
    fault         \* undefined behaviour was reached: nothing is known after

mainPc  == <<mop, mscan>>
reqVars == <<running, terminated, inPool, v8term>>
bind    == <<peer, notSend, notSendLive>>
boxes   == <<mainBox, subBox, delPending>>
sub     == <<node, mode, listeners, work, handle, refd>>
history == <<sends, got, upSent, upGot, raced>>
vars    == <<mainPc, reqVars, boxes, bind, spc, sub, history, fault>>

(* Messages of the worker: numbered data from its JavaScript, the error    *)
(* reports of compilerCode and of do_script, and the end.                  *)
UpMsg == [kind : {"data", "error", "end"}, n : 0 .. MaxPost]

SendOps == {"peer", "queue", "lookup", "push"}
StopOps == {"running", "alive", "terminate", "wake"}
MainOps == {"none"} \cup SendOps \cup StopOps
Swapping == {"moving", "unlink"}     \* the worker holds subEve's _lock
JsPcs   == {"user", "handler", "workjs", "micro", "before", "exitjs",
            "closejs"}
Startup == {"compile", "catch", "mkloop", "load", "async", "bind", "swap"}
Loop    == {"script", "first", "while", "poll", "drain", "after", "ref",
            "nowait", "more"}
Ending  == {"exit", "end", "freeid", "delbox", "rmbox", "close", "delsend"}
Pcs     == Startup \cup Swapping \cup Loop \cup JsPcs \cup Ending
             \cup {"closing", "done"}

TypeOK ==
    /\ mop \in MainOps
    /\ mscan \in {"main", "drain", "del", "closed"}
    /\ running \in BOOLEAN /\ terminated \in BOOLEAN
    /\ inPool \in BOOLEAN /\ v8term \in BOOLEAN
    /\ mainBox \in Box(UpMsg)
    /\ subBox \in Box(1 .. MaxSend)
    /\ delPending \in BOOLEAN
    /\ peer \in BOOLEAN
    /\ notSend \in Seq(1 .. MaxSend)
    /\ notSendLive \in BOOLEAN
    /\ spc \in Pcs
    /\ node \in NodeModes
    /\ mode \in {"once", "nowait"}
    /\ listeners \in BOOLEAN /\ work \in BOOLEAN /\ refd \in BOOLEAN
    /\ handle \in {"null", "open", "closing", "freed"}
    /\ sends \in 0 .. MaxSend /\ (mop \in SendOps => sends > 0)
    /\ got \in Seq(1 .. MaxSend)
    /\ upSent \in Seq(UpMsg)
    /\ upGot \in Seq(UpMsg)
    /\ raced \in BOOLEAN
    /\ fault \in BOOLEAN

(* j_create has returned: main_event and del_event are open, the id is in  *)
(* the pool, and the new thread is about to run do_script.                 *)
Init ==
    /\ mop = "none" /\ mscan = "main"
    /\ running = TRUE /\ terminated = FALSE
    /\ inPool = TRUE /\ v8term = FALSE
    /\ mainBox = OpenBox /\ subBox = NoBox /\ delPending = FALSE
    /\ peer = FALSE /\ notSend = <<>> /\ notSendLive = TRUE
    /\ spc = "compile" /\ node \in NodeModes /\ mode = "once"
    /\ listeners = FALSE /\ work = FALSE
    /\ handle = "null" /\ refd = TRUE
    /\ sends = 0 /\ got = <<>> /\ upSent = <<>> /\ upGot = <<>>
    /\ raced = FALSE /\ fault = FALSE

(* uv_loop_alive(sub_loop); a closing handle keeps the loop alive. *)
LoopAlive == \/ work
             \/ handle = "closing"
             \/ handle = "open" /\ refd

(* Undefined behaviour: the process may be gone, so nothing else moves. *)
Crash == /\ fault' = TRUE
         /\ UNCHANGED <<mainPc, reqVars, boxes, bind, spc, sub, history>>
-----------------------------------------------------------------------------
(* The main thread: j_send_event *)

\* Mutant: no look at id_pool.
SendCallUnchecked ==
    /\ mop = "none" /\ sends < MaxSend
    /\ sends' = sends + 1
    /\ mop' = "peer"
    /\ UNCHANGED <<mscan, reqVars, boxes, bind, spc, sub,
                   got, upSent, upGot, raced, fault>>

(* With the id out of the pool the call throws "thread is closed". *)
SendCall ==
    /\ mop = "none" /\ inPool /\ sends < MaxSend
    /\ sends' = sends + 1
    /\ mop' = "peer"
    /\ UNCHANGED <<mscan, reqVars, boxes, bind, spc, sub,
                   got, upSent, upGot, raced, fault>>

(* pushEvent reads peer without a lock, and acts on it in a later step. *)
SendPeer ==
    /\ mop = "peer"
    /\ mop' = IF peer THEN "lookup" ELSE "queue"
    /\ UNCHANGED <<mscan, reqVars, boxes, bind, spc, sub, history, fault>>

\* Mutant: the message after this one is queued.
SendQueueNext ==
    /\ mop = "queue" /\ notSendLive
    /\ notSend' = Append(notSend, sends + 1)
    /\ mop' = "none"
    /\ UNCHANGED <<mscan, reqVars, boxes, peer, notSendLive, spc, sub,
                   history, fault>>

(* not_send->push, without a lock: a null pointer once swap_not_send_peer  *)
(* has deleted the queue, a data race while it empties it.                 *)
SendQueue ==
    /\ mop = "queue"
    /\ \/ /\ notSendLive
          /\ notSend' = Append(notSend, sends)
          /\ mop' = "none"
          /\ UNCHANGED <<mscan, reqVars, boxes, peer, notSendLive, spc, sub,
                         history, fault>>
       \/ /\ ~notSendLive \/ spc \in Swapping
          /\ Crash

EndOp == /\ mop' = "none"
         /\ UNCHANGED <<mscan, reqVars, boxes, bind, spc, sub, history, fault>>

(* object_container.get(rdata, async->data): async is freed memory once    *)
(* the worker's loop has closed the handle.                                *)
SendLookup ==
    /\ mop = "lookup"
    /\ \/ /\ handle /= "freed" /\ Registered(subBox)
          /\ mop' = "push"
          /\ UNCHANGED <<mscan, reqVars, boxes, bind, spc, sub, history,
                         fault>>
       \/ (handle = "freed" \/ ~Registered(subBox)) /\ EndOp
       \/ handle = "freed" /\ Crash

\* Mutant: a set flag is taken for a message that is already there.
SendPushCoalesced ==
    /\ mop = "push"
    /\ spc \notin Swapping
    /\ subBox' = IF subBox.state = "live" /\ ~subBox.pending
                 THEN SendEvent(subBox, sends) ELSE subBox
    /\ raced' = (raced \/ notSend /= <<>>)
    /\ mop' = "none"
    /\ UNCHANGED <<mscan, reqVars, mainBox, delPending, bind, spc, sub,
                   sends, got, upSent, upGot, fault>>

(* With _lock held: events.push and uv_async_send. The worker may have     *)
(* deleted the object since it was found.                                  *)
SendPush ==
    /\ mop = "push"
    /\ spc \notin Swapping
    /\ \/ /\ subBox.state = "live"
          /\ subBox' = SendEvent(subBox, sends)
          /\ raced' = (raced \/ notSend /= <<>>)
          /\ mop' = "none"
          /\ UNCHANGED <<mscan, reqVars, mainBox, delPending, bind, spc, sub,
                         sends, got, upSent, upGot, fault>>
       \/ subBox.state /= "live" /\ EndOp
       \/ subBox.state /= "live" /\ Crash

(* The main thread: j_stop *)

StopCall ==
    /\ mop = "none" /\ inPool
    /\ mop' = "running"
    /\ UNCHANGED <<mscan, reqVars, boxes, bind, spc, sub, history, fault>>

StopRunning ==
    /\ mop = "running"
    /\ running' = FALSE
    /\ mop' = "alive"
    /\ UNCHANGED <<mscan, terminated, inPool, v8term, boxes, bind, spc, sub,
                   history, fault>>

(* sub_loop && uv_loop_alive(sub_loop), without a lock; then terminated.   *)
(* Until create_uv_async there is no loop, or nothing active on it.        *)
StopAlive ==
    /\ mop = "alive"
    /\ terminated' = (terminated \/ LoopAlive)
    /\ mop' = IF LoopAlive THEN "terminate" ELSE "wake"
    /\ UNCHANGED <<mscan, running, inPool, v8term, boxes, bind, spc, sub,
                   history, fault>>

(* V8::TerminateExecution(sub_iso) *)
StopTerminate ==
    /\ mop = "terminate"
    /\ v8term' = TRUE
    /\ mop' = "wake"
    /\ UNCHANGED <<mscan, running, terminated, inPool, boxes, bind, spc, sub,
                   history, fault>>

\* Mutant: else if (req->sub_event) uv_async_send(req->sub_event)
StopWakeElse ==
    /\ mop = "wake"
    /\ subBox' = IF handle = "open" /\ ~terminated
                 THEN AsyncSend(subBox) ELSE subBox
    /\ mop' = "none"
    /\ UNCHANGED <<mscan, reqVars, mainBox, delPending, bind, spc, sub,
                   history, fault>>

(* if (req->sub_event) uv_async_send(req->sub_event) *)
StopWake ==
    /\ mop = "wake"
    /\ \/ /\ handle \in {"open", "closing"}
          /\ subBox' = AsyncSend(subBox)
          /\ mop' = "none"
          /\ UNCHANGED <<mscan, reqVars, mainBox, delPending, bind, spc, sub,
                         history, fault>>
       \/ handle \in {"null", "freed"} /\ EndOp
       \/ handle = "freed" /\ Crash

(* The call looked the id up before ~ReqData and uses req after it. *)
StopFreed == mop \in StopOps /\ spc = "done" /\ Crash
-----------------------------------------------------------------------------
(* The main thread's loop. libuv visits the async handles in the order in  *)
(* which they were initialised: main_event, then del_event.                *)

ScanMain ==
    /\ mop = "none" /\ mscan = "main"
    /\ IF mainBox.pending
       THEN mainBox' = ClearPending(mainBox) /\ mscan' = "drain"
       ELSE mainBox' = mainBox /\ mscan' = "del"
    /\ UNCHANGED <<mop, reqVars, subBox, delPending, bind, spc, sub,
                   history, fault>>

\* Mutant: nextEvent does not pop.
DeliverNoPop ==
    /\ mop = "none" /\ mscan = "drain"
    /\ mainBox.events /= <<>> /\ Len(upGot) <= MaxPost + 2
    /\ upGot' = Append(upGot, Head(mainBox.events))
    /\ UNCHANGED <<mainPc, reqVars, boxes, bind, spc, sub,
                   sends, got, upSent, raced, fault>>

(* recv_other_thread_event on main_event: one message to _recv. *)
Deliver ==
    /\ mop = "none" /\ mscan = "drain"
    /\ mainBox.events /= <<>>
    /\ mainBox' = NextEvent(mainBox)
    /\ upGot' = Append(upGot, Head(mainBox.events))
    /\ UNCHANGED <<mainPc, reqVars, subBox, delPending, bind, spc, sub,
                   sends, got, upSent, raced, fault>>

\* Mutant: if instead of while.
DeliverOnce ==
    /\ mop = "none" /\ mscan = "drain"
    /\ mscan' = "del"
    /\ UNCHANGED <<mop, reqVars, boxes, bind, spc, sub, history, fault>>

(* its while loop ends: nextEvent returned false *)
DeliverDone ==
    /\ mop = "none" /\ mscan = "drain"
    /\ mainBox.events = <<>>
    /\ mscan' = "del"
    /\ UNCHANGED <<mop, reqVars, boxes, bind, spc, sub, history, fault>>

(* recv_delete_event: delete main's RecvEventData, close both handles. *)
ScanDel ==
    /\ mop = "none" /\ mscan = "del"
    /\ IF delPending
       THEN /\ mainBox' = Unregister(DeleteBox(mainBox))
            /\ mscan' = "closed"
       ELSE mainBox' = mainBox /\ mscan' = "main"
    /\ UNCHANGED <<mop, reqVars, subBox, delPending, bind, spc, sub,
                   history, fault>>

MainLoop == ScanMain \/ Deliver \/ DeliverDone \/ ScanDel

(* The steps a native call makes once it was entered. *)
MainOp == \/ SendPeer \/ SendQueue \/ SendLookup \/ SendPush
          \/ StopRunning \/ StopAlive \/ StopTerminate \/ StopWake
          \/ StopFreed
-----------------------------------------------------------------------------
(* The worker thread: do_script up to the script *)

Goto(from, to) == spc = from /\ spc' = to

(* RecvEventData::sendEvent(main_event, m) *)
Post(m) == /\ mainBox' = SendEvent(mainBox, m)
           /\ upSent' = Append(upSent, m)

CompileOk ==
    /\ Goto("compile", "mkloop")
    /\ UNCHANGED <<mainPc, reqVars, boxes, bind, sub, history, fault>>

(* compilerCode sends the exception and throws. *)
CompileFail ==
    /\ MayFailCompile
    /\ Goto("compile", "catch")
    /\ Post([kind |-> "error", n |-> 0])
    /\ UNCHANGED <<mainPc, reqVars, subBox, delPending, bind, sub,
                   sends, got, upGot, raced, fault>>

(* catch (...) sends a second error and do_script returns: ~ReqData frees  *)
(* the id. There is no end and no del_event.                               *)
Catch ==
    /\ Goto("catch", "done")
    /\ Post([kind |-> "error", n |-> 0])
    /\ inPool' = FALSE
    /\ UNCHANGED <<mainPc, running, terminated, v8term, subBox, delPending,
                   bind, sub, sends, got, upGot, raced, fault>>

MakeLoop ==
    /\ Goto("mkloop", IF node THEN "load" ELSE "async")
    /\ UNCHANGED <<mainPc, reqVars, boxes, bind, sub, history, fault>>

(* LoadEnvironment runs the boot file; what it starts keeps the loop. *)
Load ==
    /\ Goto("load", "async")
    /\ work' \in BOOLEAN
    /\ UNCHANGED <<mainPc, reqVars, boxes, bind, node, mode, listeners,
                   handle, refd, history, fault>>

(* create_uv_async(..., data->sub_event, "SUB") *)
CreateAsync ==
    /\ Goto("async", "bind")
    /\ subBox' = OpenBox
    /\ handle' = "open"
    /\ UNCHANGED <<mainPc, reqVars, mainBox, delPending, bind, node, mode,
                   listeners, work, refd, history, fault>>

(* mainEve->peer = data->sub_event: from now on _send finds the worker. *)
Bind ==
    /\ Goto("bind", "swap")
    /\ peer' = TRUE
    /\ UNCHANGED <<mainPc, reqVars, boxes, notSend, notSendLive, sub,
                   history, fault>>

(* swap_not_send_peer takes subEve's _lock, ... *)
SwapBegin ==
    /\ Goto("swap", "moving")
    /\ UNCHANGED <<mainPc, reqVars, boxes, bind, sub, history, fault>>

\* Mutant: the newest message first.
MoveNewest ==
    /\ spc = "moving" /\ notSend /= <<>>
    /\ subBox' = [subBox EXCEPT !.events = Append(@, notSend[Len(notSend)])]
    /\ notSend' = SubSeq(notSend, 1, Len(notSend) - 1)
    /\ UNCHANGED <<mainPc, reqVars, mainBox, delPending, peer, notSendLive,
                   spc, sub, history, fault>>

MoveOne ==
    /\ spc = "moving" /\ notSend /= <<>>
    /\ subBox' = [subBox EXCEPT !.events = Append(@, Head(notSend))]
    /\ notSend' = Tail(notSend)
    /\ UNCHANGED <<mainPc, reqVars, mainBox, delPending, peer, notSendLive,
                   spc, sub, history, fault>>

\* Mutant: no uv_async_send(peer).
MoveEndNoWake ==
    /\ Goto("moving", "unlink")
    /\ notSend = <<>>
    /\ UNCHANGED <<mainPc, reqVars, boxes, bind, sub, history, fault>>

(* ... wakes the worker when the queue is empty ... *)
MoveEnd ==
    /\ Goto("moving", "unlink")
    /\ notSend = <<>>
    /\ subBox' = AsyncSend(subBox)
    /\ UNCHANGED <<mainPc, reqVars, mainBox, delPending, bind, sub, history,
                   fault>>

(* ... and deletes it, with whatever was queued meanwhile. *)
Unlink ==
    /\ Goto("unlink", "script")
    /\ notSend' = <<>>
    /\ notSendLive' = FALSE
    /\ raced' = (raced \/ notSend /= <<>>)
    /\ UNCHANGED <<mainPc, reqVars, boxes, peer, sub, sends, got, upSent,
                   upGot, fault>>
-----------------------------------------------------------------------------
(* The worker thread: JavaScript *)

(* Where a run of the loop goes on after its callbacks. *)
RunEnd == IF mode = "once" THEN "after" ELSE "more"

(* A callback of the loop that ran before the async handles were visited   *)
(* is followed by a visit to sub_event. Microtasks run before noListener() *)
(* is called; in a node thread MakeCallback runs them after it.            *)
JsNext == CASE spc = "user"    -> "first"
            [] spc = "handler" -> "drain"
            [] spc = "workjs"  -> IF subBox.pending THEN "drain" ELSE RunEnd
            [] spc = "micro"   -> IF ~node THEN "ref"
                                  ELSE IF refd THEN "while" ELSE "before"
            [] spc = "before"  -> "nowait"
            [] spc = "exitjs"  -> "end"
            [] spc = "closejs" -> "closing"

(* The pending flag is cleared where the visit takes place. *)
JsLeave ==
    /\ spc' = JsNext
    /\ subBox' = IF spc = "workjs" THEN ClearPending(subBox) ELSE subBox

(* script->Run(): a pending termination prevents it. *)
StartScript ==
    /\ IF v8term THEN Goto("script", "first") /\ v8term' = FALSE
                 ELSE Goto("script", "user") /\ v8term' = v8term
    /\ UNCHANGED <<mainPc, running, terminated, inPool, boxes, bind, sub,
                   history, fault>>

\* Mutant: no look at id_pool.
JsSendUnchecked ==
    /\ spc \in JsPcs /\ ~v8term
    /\ Len(upSent) < MaxPost
    /\ Post([kind |-> "data", n |-> Len(upSent) + 1])
    /\ UNCHANGED <<mainPc, reqVars, subBox, delPending, bind, spc, sub,
                   sends, got, upGot, raced, fault>>

(* _send from the worker: its peer was set before the script ran. Once the *)
(* id is out of the pool it throws.                                        *)
JsSend ==
    /\ spc \in JsPcs /\ ~v8term /\ inPool
    /\ Len(upSent) < MaxPost
    /\ Post([kind |-> "data", n |-> Len(upSent) + 1])
    /\ UNCHANGED <<mainPc, reqVars, subBox, delPending, bind, spc, sub,
                   sends, got, upGot, raced, fault>>

(* JavaScript returns, having mounted or removed listeners and having      *)
(* started or finished other work on the loop.                             *)
JsReturn ==
    /\ spc \in JsPcs /\ ~v8term
    /\ JsLeave
    /\ listeners' \in BOOLEAN
    /\ work' \in BOOLEAN
    /\ UNCHANGED <<mainPc, reqVars, mainBox, delPending, bind, node, mode,
                   handle, refd, history, fault>>

(* A termination unwinds it to the native caller, which spends it. *)
JsAbort ==
    /\ spc \in JsPcs /\ v8term
    /\ JsLeave
    /\ v8term' = FALSE
    /\ UNCHANGED <<mainPc, running, terminated, inPool, mainBox, delPending,
                   bind, sub, history, fault>>
-----------------------------------------------------------------------------
(* The worker thread: the event loop of do_script *)

(* if (!noListener()): a termination makes the call fail, which is false. *)
First ==
    /\ Goto("first", IF listeners \/ v8term THEN "while" ELSE "exit")
    /\ v8term' = FALSE
    /\ UNCHANGED <<mainPc, running, terminated, inPool, boxes, bind, sub,
                   history, fault>>

\* Mutant: while (true), left only when the script was terminated.
WhileTrue ==
    /\ Goto("while", "poll")
    /\ mode' = "once"
    /\ UNCHANGED <<mainPc, reqVars, boxes, bind, node, listeners, work,
                   handle, refd, history, fault>>

While ==
    /\ Goto("while", IF running THEN "poll" ELSE "exit")
    /\ mode' = "once"
    /\ UNCHANGED <<mainPc, reqVars, boxes, bind, node, listeners, work,
                   handle, refd, history, fault>>

(* uv_run(UV_RUN_ONCE) blocks until something is ready, unless the loop is *)
(* not alive; uv_run(UV_RUN_NOWAIT) takes what is ready.                   *)
RunAsync(pc) ==
    /\ LoopAlive /\ subBox.pending
    /\ Goto(pc, "drain")
    /\ subBox' = ClearPending(subBox)
    /\ UNCHANGED <<mainPc, reqVars, mainBox, delPending, bind, sub, history,
                   fault>>

RunWork(pc, js) ==
    /\ work
    /\ Goto(pc, js)
    /\ UNCHANGED <<mainPc, reqVars, boxes, bind, sub, history, fault>>

PollAsync == RunAsync("poll")
PollWork  == RunWork("poll", "workjs")
PollIdle ==
    /\ ~LoopAlive
    /\ Goto("poll", "after")
    /\ UNCHANGED <<mainPc, reqVars, boxes, bind, sub, history, fault>>

(* recv_other_thread_event on sub_event: nextEvent, then _recv. *)
Drain ==
    /\ subBox.events /= <<>>
    /\ Goto("drain", "handler")
    /\ got' = Append(got, Head(subBox.events))
    /\ subBox' = NextEvent(subBox)
    /\ UNCHANGED <<mainPc, reqVars, mainBox, delPending, bind, sub, sends,
                   upSent, upGot, raced, fault>>

\* Mutant: if instead of while.
DrainOnce ==
    /\ Goto("drain", RunEnd)
    /\ UNCHANGED <<mainPc, reqVars, boxes, bind, sub, history, fault>>

DrainDone ==
    /\ subBox.events = <<>>
    /\ Goto("drain", RunEnd)
    /\ UNCHANGED <<mainPc, reqVars, boxes, bind, sub, history, fault>>

(* hasEvent(main_event) reads the queue without its lock, so what it finds *)
(* is arbitrary while the main thread pops; then if (terminated) break.    *)
After ==
    /\ Goto("after", IF terminated THEN "exit"
                     ELSE IF node THEN "ref" ELSE "micro")
    /\ \/ /\ mainBox.events /= <<>> \/ mscan = "drain"
          /\ mainBox' = AsyncSend(mainBox)
       \/ /\ mainBox.events = <<>> \/ mscan = "drain"
          /\ mainBox' = mainBox
    /\ UNCHANGED <<mainPc, reqVars, subBox, delPending, bind, sub, history,
                   fault>>

(* noListener() decides between uv_unref and uv_ref of sub_event, and      *)
(* whether the loop is left when nothing else is active.                   *)
RefStep ==
    LET noListener == ~listeners /\ ~v8term
    IN  /\ Goto("ref", IF node THEN "micro"
                       ELSE IF noListener THEN "nowait" ELSE "while")
        /\ refd' = ~noListener
        /\ v8term' = FALSE
        /\ UNCHANGED <<mainPc, running, terminated, inPool, boxes, bind, node,
                       mode, listeners, work, handle, history, fault>>

(* uv_run(UV_RUN_NOWAIT): sub_event is unreferenced. *)
NoWait ==
    /\ spc = "nowait"
    /\ mode' = "nowait"
    /\ \/ work /\ spc' = "workjs" /\ subBox' = subBox
       \/ /\ work /\ subBox.pending
          /\ spc' = "drain" /\ subBox' = ClearPending(subBox)
       \/ spc' = "more" /\ subBox' = subBox /\ (work => ~subBox.pending)
    /\ UNCHANGED <<mainPc, reqVars, mainBox, delPending, bind, node,
                   listeners, work, handle, refd, history, fault>>

(* if (!more) break *)
More ==
    /\ Goto("more", IF LoopAlive THEN "while" ELSE "exit")
    /\ UNCHANGED <<mainPc, reqVars, boxes, bind, sub, history, fault>>
-----------------------------------------------------------------------------
(* The worker thread: shutdown *)

(* EmitExit, or timepool.reset(), which closes every timer. *)
Exit ==
    /\ Goto("exit", IF node THEN "exitjs" ELSE "end")
    /\ work' = (node /\ work)
    /\ UNCHANGED <<mainPc, reqVars, boxes, bind, node, mode, listeners,
                   handle, refd, history, fault>>

(* ReqData::free_sub_loop, statement by statement *)
SendEnd ==
    /\ Goto("end", "freeid")
    /\ Post([kind |-> "end", n |-> 0])
    /\ UNCHANGED <<mainPc, reqVars, subBox, delPending, bind, sub, sends,
                   got, upGot, raced, fault>>

\* Mutant: the id is left to ~ReqData.
FreeIdLate ==
    /\ Goto("freeid", "delbox")
    /\ UNCHANGED <<mainPc, reqVars, boxes, bind, sub, history, fault>>

FreeId ==
    /\ Goto("freeid", "delbox")
    /\ inPool' = FALSE
    /\ UNCHANGED <<mainPc, running, terminated, v8term, boxes, bind, sub,
                   history, fault>>

(* free_recv_event_from(sub_event): the map is left after the delete. *)
DelBox ==
    /\ Goto("delbox", "rmbox")
    /\ subBox' = DeleteBox(subBox)
    /\ UNCHANGED <<mainPc, reqVars, mainBox, delPending, bind, sub, history,
                   fault>>

RmBox ==
    /\ Goto("rmbox", "close")
    /\ subBox' = Unregister(subBox)
    /\ UNCHANGED <<mainPc, reqVars, mainBox, delPending, bind, sub, history,
                   fault>>

Close ==
    /\ Goto("close", "delsend")
    /\ handle' = "closing"
    /\ UNCHANGED <<mainPc, reqVars, boxes, bind, node, mode, listeners, work,
                   refd, history, fault>>

DelSend ==
    /\ Goto("delsend", "closing")
    /\ delPending' = TRUE
    /\ UNCHANGED <<mainPc, reqVars, mainBox, subBox, bind, sub, history,
                   fault>>

(* uv_run(UV_RUN_DEFAULT): free_when_handle_closed_cb, and in a node       *)
(* thread whatever is still active, until nothing is. Then DEL_LOOP, and   *)
(* ~ReqData when do_script returns.                                        *)
Closed ==
    /\ spc = "closing" /\ handle = "closing"
    /\ handle' = "freed"
    /\ UNCHANGED <<mainPc, reqVars, boxes, bind, spc, node, mode, listeners,
                   work, refd, history, fault>>

CloseWork == RunWork("closing", "closejs")

CloseDone ==
    /\ Goto("closing", "done")
    /\ handle = "freed" /\ ~work
    /\ UNCHANGED <<mainPc, reqVars, boxes, bind, sub, history, fault>>
-----------------------------------------------------------------------------
StartupStep == \/ CompileOk \/ CompileFail \/ Catch \/ MakeLoop \/ Load
               \/ CreateAsync \/ Bind \/ SwapBegin \/ MoveOne \/ MoveEnd
               \/ Unlink \/ StartScript

LoopStep == \/ First \/ While \/ PollAsync \/ PollIdle \/ Drain
            \/ DrainDone \/ After \/ RefStep \/ NoWait \/ More

ShutdownStep == \/ Exit \/ SendEnd \/ FreeId \/ DelBox \/ RmBox \/ Close
                \/ DelSend \/ Closed \/ CloseDone

(* What the worker does without waiting for JavaScript or for the world. *)
WorkerStep == StartupStep \/ LoopStep \/ ShutdownStep \/ JsAbort

Next == /\ ~fault
        /\ \/ SendCall \/ StopCall \/ MainOp \/ MainLoop
           \/ WorkerStep \/ JsSend \/ JsReturn \/ PollWork \/ CloseWork

(* Both threads are scheduled. The main thread's JavaScript returns to its *)
(* loop again and again; the worker's may run for ever, and a handle other *)
(* than sub_event may never become ready.                                  *)
Fairness == /\ WF_vars(~fault /\ MainOp)
            /\ SF_vars(~fault /\ MainLoop)
            /\ WF_vars(~fault /\ WorkerStep)

Spec == Init /\ [][Next]_vars /\ Fairness

(* The worker's JavaScript always returns. It need not: this is a condition *)
(* of some properties.                                                     *)
ScriptsReturn == WF_vars(~fault /\ JsReturn)
-----------------------------------------------------------------------------
(* Safety *)

(* The two directions of the channel, from the oldest message on. *)
UpFlow   == upGot \o mainBox.events
DownFlow == got \o subBox.events \o notSend

(* While the main thread's end exists, what the worker sent is what was    *)
(* delivered followed by what is queued: nothing is lost, duplicated or    *)
(* overtaken, whatever the two threads' schedule.                          *)
UpExactlyOnce == mainBox.state = "live" => UpFlow = upSent

(* No wakeup of the main thread is lost: a queued message has its async    *)
(* handle set or is about to be drained, although uv_async_send coalesces. *)
UpWakeup == mainBox.state = "live" /\ mainBox.events /= <<>>
              => mainBox.pending \/ mscan = "drain"

(* The same for the worker, except while swap_not_send_peer fills its      *)
(* queue, which it does before it wakes it.                                *)
DownWakeup == subBox.state = "live" /\ subBox.events /= <<>>
                /\ spc /= "moving"
              => subBox.pending \/ spc \in {"drain", "handler"}

(* A worker that was told to stop does not sleep in uv_run: once _stop has *)
(* returned, a worker inside uv_run(UV_RUN_ONCE) has been woken or has     *)
(* nothing to wait for.                                                    *)
StopWakesPoll == ~running /\ mop \notin StopOps /\ spc = "poll"
                   => subBox.pending \/ ~LoopAlive

(* Messages reach the worker in the order in which they were sent, across  *)
(* the move from not_send, unless a send ran inside bind_peer_event.       *)
DownInOrder == ~raced =>
    \A i, j \in 1 .. Len(DownFlow) : i < j => DownFlow[i] < DownFlow[j]

(* And none is missing while the thread is in the pool: every accepted     *)
(* message is with the worker, in a queue, or in the hands of _send.       *)
DownComplete == ~raced /\ inPool =>
    Len(DownFlow) = IF mop \in SendOps THEN sends - 1 ELSE sends

(* The objects of the main thread's side outlive every use of them: by its *)
(* own _send, which holds a raw pointer, and by the worker, until the      *)
(* del_event that deletes them was sent.                                   *)
MainBoxOutlivesUse == mop \in {"peer", "queue"} \/ ~delPending
                        => mainBox.state = "live"

(* Undefined behaviour needs a send that meets the end of the binding, or  *)
(* a call that passed its id check before the thread ended.                *)
SafeWhileServing == fault => mop = "queue" \/ ~inPool

(* The end is the last message a thread ever sends. *)
EndIsLast == \A i \in 1 .. Len(upSent) :
                 upSent[i].kind = "end" => i = Len(upSent)

(* How far each thread is decides what exists: the main thread's mailbox   *)
(* goes with the scan that saw del_event, and that comes after the id left *)
(* the pool; sub_event and its mailbox exist from create_uv_async until    *)
(* the id is out of the pool. The proofs rest on it.                       *)
Phases ==
    /\ mainBox.state = IF mscan = "closed" THEN "gone" ELSE "live"
    /\ mscan = "closed" => delPending
    /\ mscan = "closed" => mop \notin SendOps
    /\ delPending => spc \in {"closing", "closejs", "done"}
    /\ spc \in {"delbox", "rmbox", "close", "delsend", "closing", "closejs",
                "done"} => ~inPool
    /\ spc \in Startup \ {"bind", "swap"}
         => handle = "null" /\ subBox.state = "none"
    /\ spc \in {"bind", "swap", "exit", "end", "freeid"}
              \cup Swapping \cup Loop \cup (JsPcs \ {"closejs"})
         => handle = "open" /\ subBox.state = "live"
    /\ handle \in {"closing", "freed"} => ~inPool
    /\ subBox.state \in {"dangling", "gone"} => ~inPool
    /\ mop = "push" => subBox.state /= "none"
-----------------------------------------------------------------------------
(* Liveness *)

Ended == \E i \in 1 .. Len(upSent) : upSent[i].kind = "end"

(* What the main thread observes of the worker is a reliable channel: what *)
(* the worker sends is delivered once, in order, and in the end, until     *)
(* del_event removes the receiver.                                         *)
Up == INSTANCE Channel WITH Msg <- UpMsg, sent <- upSent, received <- upGot,
                            closed <- (mscan = "closed" \/ fault)
UpChannel == Up!Spec

(* Every accepted message is handed to the worker's _recv, or the thread   *)
(* leaves the pool, or the message raced with the binding: if JavaScript   *)
(* returns.                                                                *)
DownDelivered == ScriptsReturn => \A k \in 1 .. MaxSend :
    sends >= k ~> (\E i \in 1 .. Len(got) : got[i] = k)
                   \/ ~inPool \/ raced \/ fault

(* A stopped thread whose JavaScript returns ends, and says so, unless its *)
(* code did not compile.                                                   *)
StopEnds == ScriptsReturn => (~running ~> Ended \/ spc = "done" \/ fault)
=============================================================================
