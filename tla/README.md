# threadjs-lib in TLA+

threadjs-lib runs JavaScript in additional threads of one node process. The
main thread calls `create` and gets a handle; the new thread has a V8 isolate
and a libuv loop of its own; the two exchange JSON messages through queues and
`uv_async_t` handles. This directory holds a specification of the parts where
the two threads meet and of what runs on each of them, the TLC runs that check
it, and TLAPS proofs.

Paths below are relative to the repository (`src/main.cc` is the C++ file).

## 1. Inventory

| part | state | operations | meets |
|---|---|---|---|
| message channel: `RecvEventData`, `ObjectMap` (src/data.h) | per side: `events`, `not_send`, `peer`, the `uv_async_t` and its pending flag, the entry in `object_container` | `pushEvent`, `sendEvent`, `swap_not_send_peer`, `nextEvent`, `hasEvent`, destructor | both threads, through `_lock` and without it |
| worker life cycle: `do_script`, `free_sub_loop` (src/main.cc, src/data.cc) | where the thread is; `running`, `terminated`; the loop and `sub_event` | compile, node set-up, bind, run, loop, teardown | `j_stop`, the channel, JavaScript |
| control: `j_send_event`, `j_stop`, `recv_delete_event` (src/main.cc) | the native call the main thread is in | `_send`, `_stop`, delivery, deletion | the worker's shutdown |
| wait and notify: `WaitThread` (src/tools.h), `j_wait`, `j_notify` | `locked`, `data`, a condition variable | wait, notify | both threads, partly without the mutex |
| event emitter of a worker (lib/events.js) | a linked list per name, counts | on, once, off, offall, emit, listenerCount | decides, through `noListener`, whether the thread goes on |
| thread ids: `ID_container` (src/data.h) | the ids of live threads | newid, freeid, notfree | every native call checks it |
| timers: `TimerPool`, `Timer` (src/timeImpl.cc) | pool, tick queue, `tick_event`, handles | setTimeout, setInterval, setImmediate, clear, nextTick, `do_tick`, the end of the pool | the worker's loop; JavaScript from callbacks |
| run time: `TimeHandle`, `usedTime` (src/data.h) | begin and end time, the time of the loop | init, update, use_time | read by the main thread without a lock |
| envelope: lib/context.js | constructors by id and name | reg_constructor, send, send_error, _recv | both sides run it; the channel |
| node mode start-up: `create_node` (lib/main-warp.js), lib/bootnode.js | send queue, handshake | thread_ready, eval_code, code_running | the envelope, the channel |
| remote calls: lib/fn-proxy.js, `bind_function_call` | call ids, callbacks | call, answer, unbind | the channel, the emitter, the worker's loop |
| error events: `find_code_offset` (src/main.cc), `Json`, `SEND_V8_ERR_EVENT` (src/tools.h) | the text so far, a count per object | set, setMultLine, childen, end | the script template; JSON.parse of the main thread |
| script template: lib/parse.js, lib/thread-warp.js | parsed pieces | parse, set, code | pure |
| serializer: src/serialize.cc | a tree of `JData` | js_save, js_load (by `ser_test`) | pure |
| V8 and node set-up, eval, contexts, default libraries, command line, crash handler, build | none of their own | | not modelled |

What is hard:

* Two threads share every structure of the first four rows, and only some of
  the accesses take a lock. `pushEvent` tests `peer` without one; `j_stop` reads
  `sub_loop` and `sub_event` while the worker creates and frees them; `hasEvent`
  reads a queue the other side pops; `is_locked`, `setData` and `getData`
  bypass the mutex of `lock` and `unlock`.
* `uv_async_send` coalesces. One wakeup has to serve all that is queued, and
  the flag is cleared before the callback runs.
* The order of shutdown: the end message, the id, the mailbox, the handle and
  `del_event` go one by one, while the main thread may be inside a call.
* A termination of V8 is spent by whatever runs JavaScript next.
* Startup failures leave `do_script` through `catch (...)`.
* JavaScript is called from native loops and may call back into them: a timer
  is cleared from its own callback, or by a tick that runs inside of its call.
* `tick_event`, the timers and `sub_event` decide together whether a loop goes
  on, and `noListener()` is sampled before the last callbacks run.
* `use_time` reads two times and the worker's loop in several steps.
* Ids of constructors are positions in two lists that grow independently; an
  error that a listener throws is answered with an error.
* Sends are queued until the code of a node thread runs, and the flush of the
  queue may throw halfway.
* Answers to remote calls come from callbacks of the main thread, in any order
  and number, and also when the worker has ended.

What makes each part correct:

* channel: nothing lost, duplicated or overtaken; no reader asleep while its
  queue holds something; nothing used after it is deleted;
* life cycle: a stopped thread ends if its script returns; the end comes last;
* control: calls against a thread that is going are refused or harmless;
* wait and notify: a wait returns exactly when, and with what, a notify
  released it; no release is lost;
* emitter: what is mounted is called in order until it is removed, once if
  `once` was used, and the count says how many there are;
* timers: a timer is called once (or until it is cleared) and freed once, and
  the thread does not end before;
* run time: the result is that of a turn of the loop, and reading it does not
  touch what is not there;
* envelope and start-up: an id means the same constructor on both sides, queued
  messages keep their order, a node thread gets going, an error report is not
  answered for ever;
* remote calls: an answer reaches the call it belongs to, and a call that waits
  keeps its thread, no longer than needed;
* error events: what the main thread parses is what was written, with the line
  number of the script;
* serializer: a copy has the same values under the same keys.

## 2. Modules

| module | stands for | extends |
|---|---|---|
| `Mailbox` | one `RecvEventData` with its async handle and registry entry, as operators on a record | |
| `Channel` | abstract: a reliable FIFO channel that may be closed | |
| `Thread` | the main thread and one worker, `j_create` to `~ReqData` | `Mailbox`, instance of `Channel` |
| `ThreadClaims` | a statement of the library's README that `Thread` refutes | `Thread` |
| `WaitNotify` | `WaitThread`, `j_wait`, `j_notify`, `notify` and `wait` of lib | |
| `Events` | the emitter, for one message name | |
| `TimerSet` | abstract: a set of timers that are called or cleared | |
| `Timers` | `Timer`, `TimerPool` and the loop of a plain thread | instance of `TimerSet` |
| `Context` | `wrap_context` on both sides, `create_node` and bootnode.js | |
| `Calls` | abstract: calls whose callbacks hear their answers | |
| `Rpc` | fn-proxy.js, `bind_function_call` and the loop of the worker | instance of `Calls` |
| `UseTime` | `TimeHandle` against `usedTime` | |
| `ErrorEvent`, `MCErrorEvent` | an error's way into JSON and out of it; its texts for TLC | |
| `Serialize`, `MCSerialize` | `js_save` and `js_load`; values for TLC | |
| `ThreadProofs`, `WaitProofs`, `TimersProofs`, `ContextProofs`, `RpcProofs`, `UseTimeProofs`, `EventsProofs`, `ErrorProofs` | proofs | the modules they are about |

### Thread

A step is what one thread does between two points at which the other can see
or change shared memory. The pending function call of the main thread is `mop`,
its position in a scan of its two async handles is `mscan`; the position of the
worker in `do_script` is `spc`.

* `ReqData`: `running`, `terminated`; `inPool` is membership of `thread_id` in
  `id_pool`; `v8term` is a termination V8 has not delivered yet.
* `mainBox` and `subBox` are the two `RecvEventData` with their handles,
  `delPending` the pending flag of `del_event`; `peer`, `notSend`,
  `notSendLive` are `mainEve->peer`, `*not_send` and `not_send != 0`.
* `handle` and `refd` describe `sub_event` on the worker's loop; `work` says
  whether anything else keeps that loop alive (timers, node handles).
* `listeners` is what `noListener()` will answer, negated.
* `sends`, `got`, `upSent`, `upGot`, `raced` are history. `raced` records a
  send that fell into `bind_peer_event`. `fault` records that undefined
  behaviour was reached (a null or freed pointer, an unlocked queue used by
  both threads); nothing moves after it.

JavaScript is the environment. Where a thread runs it (`JsPcs`: the script, a
message handler, a loop callback, microtasks, the exit events of node) it may
send, mount or remove listeners, start work, and return or not. `_send` and
`_stop` are split at every unlocked access: the main thread is `"peer"` between
the id check and the test of `peer`, `"lookup"` before `object_container.get`,
`"push"` before the lock, and so on. `swap_not_send_peer` moves one message per
step because the main thread can push meanwhile. `free_sub_loop` is one step
per statement, and `free_recv_event_from` two, because it deletes before it
unregisters.

In a node thread `MakeCallback` runs microtasks after `noListener()` and before
its result is used; `RefStep` takes the result and the change of `sub_event`
together, which only `uv_loop_alive` in `j_stop` could tell apart.

Not in `Thread`: several workers (they share `id_pool` and `object_container`,
both locked maps with keys that are never reused), failures inside V8 or node
set-up other than of `compilerCode`, exceptions thrown by `_recv` itself, and
what messages contain.

### WaitNotify

`lock` and `unlock` are single steps, since they hold the mutex and
`uv_cond_wait` gives it up as it starts to wait. Everything else is a step of
its own. The arguments of `notify` are values that arrive as they are, no
argument, a falsy value, and the empty string, which is what the code tells
apart. `fault` is a C++ exception that would cross JavaScript frames, or a
use of `ReqData` after its deletion. An event of `j_wait` is assumed to fit
its buffer.

### Events

Nodes are numbered in the order of creation, and a node only ever points to a
younger one (`MountingOrder`). So the list is given by the set of its nodes:
`Linked` is what can be reached from `s`, and a walk takes them by number.
`_iterator` of `emit` is a stack of frames, one per nested `emit`, so that a
callback may call every operation; `removeListener` runs no callback and is one
step, with the positions it moves `s` and `e` to in closed form (`Unlink`).
`live` is what the calls ask for. `count` saturates at `-MaxNodes`, from where
no `on` within the bound brings it above zero.

### Timers

One thread runs everything here; what interleaves are callbacks. `pc` is what
runs on top of the stack, `firing` and `ticking` are the `Timer`s that
`timeout_*_cb` and `do_tick` hold below it: JavaScript may clear either.
`live` are the objects that exist, `pool` the keys of the map, so that a leak
and a second `delete` show. `tick_event` is the `uv_async_t` with its reference
and its pending flag; `sub_ref`, `listening` and `stopped` are the part of
`do_script` that decides over the loop. `queued` says that microtasks may run
JavaScript. A call of a freed `Timer` is `fault`.

Time is left out: a started timer may be due at any moment. The order of
timers that are due together is therefore any.

### Context

A message is what `_recv` tells apart: its name, the constructor id, whether the
name of an error is a global, and for properties the constructor that was asked
for and a number. `setup` fixes the kind of thread, how its code ends and what
the listeners of `error` do; the two emitters differ in what they do with an
error nobody listens for. `constructors` are the lists of both sides, with the
registrations that failed; `Id` is `CONSTRUCTORS[name]`, the first position in
the list, but for `Error`: its built-in id 0 is not true, so that the code may
register it again and the new id takes its place. `create_node` is `direct` and
`send_queue`, bootnode.js is `boot`. A flush is one step: no JavaScript of the
main thread other than `send` runs in it. The channels between the sides are
reliable, which `Thread` shows with its exceptions.

### Rpc

`calls` are the proxy's calls in order, with the `retid` each one got;
`mounted` are those whose callback is a listener of the worker's emitter, which
is what `noListener()` counts beside the user's own (`listening`). The main
thread answers at once or later, by `Reply`, in any order and up to
`MaxAnswers` times. `crashed` is an answer that throws where nobody catches,
because the thread is gone and nobody listens for `error`.

`pc` is where the worker is in `do_script`, and `js` says that JavaScript runs
there. `uv_run(UV_RUN_ONCE)` handles something (`"poll"` to `"polled"`), then
`noListener()` is called, once (`Sample`), and its answer, `"some"` or `"none"`,
is what the rest of the round goes by: `sub_event` stays referenced and `uv_run`
waits, or `uv_run(UV_RUN_NOWAIT)` follows and may be the last. Microtasks run
before `noListener()` in a plain thread, and in a node thread after it, in the
`MakeCallback` that called it, so that they may mount or remove what it has
counted (`Microtasks`). Lists of listeners have one member, for which `Events`
shows that they are exact. The channels are reliable.

### UseTime

One action is one access to what the two threads share, so that `init` is two
steps and `j_use_time` up to five. Where the expression names `end_time` twice a
build may read it once or twice, and both are allowed. `clock` is `uv_hrtime` in
milliseconds; `loop_time` is the time of the loop, which both threads update. A
turn is the life of a `TimeHandle`, the body of the `while` of `do_script`: both
`uv_run` are in it. The one of `free_sub_loop` is not, but updates the loop's
time, too (`RunClosing`). The cast of the result to 32 bits is left out: `used`
is the difference itself.

### ErrorEvent

A text is a sequence of tokens from `Chars`: those that JSON treats in a special
way, its braces and marks, the marker, and letters. `Code` is the layout of
thread-warp.js, `Calls` the calls of `SEND_V8_ERR_EVENT`, one per step; `counts`
are the `attr_count`s of the `Json` objects on the C++ stack. `Parse` is a JSON
parser for what can occur, and `received` what it makes of the text: for each
place of a text, `Strings` is the string that begins there and `Members` the
members of an object, both as recursive functions that ask for later places.

### Serialize

A JavaScript value is a record with a type, a content and ordered properties;
an object that is shared or contains itself is a `Ref` into a heap. `js_save`
and `js_load` are one step each. `Class` takes the tests of
`create_data_with_type` in their order, `CString` cuts a key at a NUL, integers
have `Width` bits.

## 3. Runs

| run | bounds | shows |
|---|---|---|
| `thread_safety` | 2 sends, 2 posts, both modes, failing compilation | `TypeOK` and nine invariants |
| `thread_live` | 1 send, 1 post, both modes, failing compilation | `UpChannel`, the refinement of `Channel`; `DownDelivered`, `StopEnds` |
| `wait_notify` | 3 waits, 4 notifies, 2 values | four invariants and `NotifyWakes` |
| `events` | 3 listeners, 2 functions, nested emits of depth 2 | order, exactness, once |
| `timers` | 3 timers | memory, loss, `RefinesTimerSet` |
| `context` | 1 type beside `Error`, 3 constructors a side, 2 calls | ids, queue, start-up, end of the answers |
| `rpc` | 2 calls, 2 answers each | `RefinesCalls`, who keeps the thread, who is thrown at |
| `use_time` | 5 ticks of the clock, 3 turns | exactness, crashes |
| `error_event` | scripts of up to 3 tokens, messages and stacks of up to 2 | the parsed event, the line number |
| `serialize` | integers of 3 bits, a copy and its copy, heaps of 3 objects | `CopyAgrees`, `CrashIffCyclic` |
| `claim_*` | smallest that show it | one refuted statement each |

### What the properties say

`thread_safety`: `UpExactlyOnce` (what was delivered followed by what is queued
is what was sent), `UpWakeup` and `DownWakeup` (no reader sleeps on a non-empty
queue), `StopWakesPoll` (a stopped worker does not sleep in `uv_run`),
`DownInOrder` and `DownComplete` (order and completeness towards the worker,
across the move from `not_send`), `MainBoxOutlivesUse` (raw pointers into the
main thread's side stay valid), `SafeWhileServing` (undefined behaviour needs a
send inside `bind_peer_event` or a call that overlaps the thread's end) and
`EndIsLast`.

`timers`: `Owned` (every `Timer` has one owner: none leaks, none is deleted
again by the end of the pool), `TickHoldsLoop` (a queued tick keeps the loop and
has woken it, although `do_tick` gives up the reference inside of other
callbacks), `EndLosesNothing` (a thread that was not stopped ends with every
timer called or cleared), `SafeUnlessClearedInCall` (memory is misused only by a
timer that is cleared while it is called) and `RefinesTimerSet` (until then the
timers are a set of which each is called in the end).

`context`: `RightConstructor` (as long as one list of registrations is a prefix
of the other, nothing is built by a constructor of another name than was asked
for, and everything is built once the receiver has registered the name; `Error`
is one of the names), `QueueKeepsOrder` (the queue
of `create_node` neither reorders, repeats nor loses, unless a queued call
throws), `Boots` (a node thread gets an open channel unless its code throws
`null`) and `AnswersEnd` (errors stop being answered with errors if one side can
take one).

`rpc`: `PendingHoldsWorker` (a thread ends with a pending callback only if that
was mounted after the last `noListener()`), `ThrownAtForNobody` (the main thread
is thrown at only for such a callback, after a stop, or for an answer nobody
waits for), `RefinesCalls` (callbacks hear the answers to their own call, in
order, none twice, and in the end) and `AnsweredEnds` (a thread that only waits
for calls ends when they are answered, unless a microtask of a node thread
removes the last listener after `noListener()` has counted it).

`use_time`: `ExactIfAlone` (exact while no turn begins or ends during the call,
and below zero only if one began) and `CrashesAtEdges` (a crash needs a call
before the loop exists, or one that began before the id was freed).

`error_event`: `ErrorIntact` (with messages and source lines without quotes,
backslashes or control characters, and any stack without tabs, the main thread
parses what was written) and `LineOfScript` (the line number is that of the
script, whatever the script contains).

`serialize`: `CopyAgrees` (the same values under the same keys if no key has a
NUL, and a copy of a copy is the same again) and `CrashIffCyclic`.

### Why the bounds are enough

Two messages a side are what order, coalescing and a move interrupted by a send
need: one in a queue and one under way. Stops are not bounded, nor are runs of
the loop. `thread_live` has one message a side to keep the behaviour graph
small; a wakeup is lost with one message or not at all. Three waits let data of
one notify be mistaken for that of the next; three listeners give a first, a
middle and a last one.

Three timers are the one that fires, a tick inside of its call, and one that
either of them makes or clears. One type and three constructors a side (one is
the built-in `Error`) let one side be ahead, `Error` be registered again before
and behind the type, and a registration fail; an id behind a failed one takes a
fourth constructor, for which there is the proof. A
call on each side is enough for an exchange of errors, as the answers are not
bounded. Two calls with two answers each let answers cross and repeat. In
`use_time` the second turn is the first of the loop, and in the third the times
of an earlier one are still there; five ticks let one pass at each of them.
Scripts of three tokens put a marker, a line break and a quote before, at and
after the error. Integers of three bits have values inside both ranges, in one
and in none; the heaps contain chains, shared objects and cycles of one, two
and three.

Deadlock checking is off in every run: a thread that has ended, a worker whose
listeners wait for messages nobody sends, or a pure computation that is done,
really stop.

### Fairness

`Thread` gives weak fairness to the worker's native steps and to the rest of a
native call the main thread has entered: the operating system schedules both.
The main thread's loop has strong fairness, because its JavaScript returns to
the loop again and again but may enter `_send` or `_stop` in between. Nothing is
assumed of the worker's JavaScript, of timers or of node handles: that scripts
return is `ScriptsReturn`, a condition inside `DownDelivered` and `StopEnds`.

`WaitNotify` has weak fairness for both threads' native steps and for the
delivery of events; nobody has to call `notify`, and no spurious wakeup has to
happen.

`Timers` has weak fairness for `do_tick` and for JavaScript that returns, and
strong fairness for `recv_tick_event` and for every timer: the loop comes back
to its poll again and again, where `uv_run` visits each handle that is ready.
`Rpc` has weak fairness for JavaScript that returns and for calls that arrive on
the main thread, and strong fairness for answers that wait to be received and
for the steps of the worker's loop (`LoopStep`): microtasks and events may put
JavaScript in front of either, but come to an end each time. Nothing is assumed
of `"poll"`, where `uv_run` may wait for ever. Nobody has to answer, so
`AnsweredEnds` has the answers as its condition. `Context` has weak fairness for
loading node, for the return of the code, and for receiving on each side.
`Events`, `UseTime`, `ErrorEvent` and `Serialize` have no liveness property.

### Where code and documentation differ

Two statements are refuted by a run:

* `claim_end_overtaken`: libuv may have visited `main_event` before the end was
  sent and visit `del_event` after; the end is deleted with the mailbox, while
  the library's README (line 247) says that it always triggers.
* `claim_wait_event`: the event of a wait is sent before the wait begins; a
  notify in between does nothing and the wait never ends.

Others are part of the models, and the properties name them as exceptions:

* a thread whose code does not compile sends no end (main.cc:447), although
  the library's README says always: `StopEnds` asks for the end or for `done`;
* a stop during start-up does not terminate a script that does not return
  (main.cc:149), hence `ScriptsReturn`;
* a send inside `bind_peer_event` can be lost or hit the deleted queue
  (data.h:207): `raced`;
* a listener that was removed when it was not the first stays linked
  (events.js:71 compares, it does not assign): `oldest` in `Events`;
* a listener or a call made in the last `uv_run` does not keep the thread
  (main.cc:408): `sampled` in `Rpc`;
* a node thread whose last listener is removed by a microtask of `MakeCallback`
  (main.cc:394), after `noListener()` has answered that there is one, keeps
  `sub_event` referenced (main.cc:404) and does not end: `GoneUnseen`;
* constructors are matched by the order of registration, not by name, and a
  registration that throws counts (context.js:45): `Aligned`;
* `Error` can be registered again, since its id 0 is not true (context.js:50);
  until the other side does the same, its errors arrive as plain data:
  `Follows`;
* a numeric constructor id, which the library's README (line 105)
  offers, always throws, or is
  taken for none if it is 0 (context.js:110): `Accepts`;
* code of a node thread that throws `null` never opens the channel
  (bootnode.js:85): the condition of `Boots`;
* a function in a nameless namespace is never found (main-warp.js:137):
  `known` in `Rpc`;
* `unbind` is given to the callback on the worker, not to the function as
  the library's README (line 295) says (main-warp.js:192);
* a source line with a quote in it makes the event of an error invalid JSON
  (tools.h:150, against the comment at tools.h:284): the condition of
  `ErrorIntact`;
* a timer that its own callback clears is deleted twice (timeImpl.cc:11):
  `SafeUnlessClearedInCall`;
* a primitive thrown by a timer callback has no stack, and `setMultLine`
  (tools.h:338, called at :147) reads a null pointer: not modelled, since a
  compile error has a stack;
* a key with a NUL is cut by the serializer (serialize.cc:230): `NamesFit`.

## 4. Proofs

Every safety invariant of the runs of `Thread`, `WaitNotify`, `Timers`,
`Context`, `Rpc`, `UseTime`, `Events` and `ErrorEvent` is a theorem, for every
value of the constants, and so are the safety parts of the three refinements.
The only assumptions are those of the modules: bounds are naturals; values of
`notify` differ from the strings that stand for results (`WaitAssumption`); no
constructor has one of the two names that mean that there is none
(`ContextAssumption`), and `Error` may be registered like any other; the clock
can reach 1 (`UseTimeAssumption`); texts are
sequences of tokens, and the code generated for the libraries does not contain
the marker, which thread-warp.js:58 asks for (`ErrorAssumption`). The user's
script may.

Every proof has the same shape. An inductive invariant is found, TLC checks it
with the constants of the component's run, `Init` establishes it, one step per
action preserves it, and the properties follow from it.

`ThreadProofs` begins with what the mailbox operators do to each field; the
proofs cite these lemmas instead of opening records. They go in three stages.

1. `TypeCorrect`: one step per action.
2. `PhasesHold`. No property about memory is inductive alone: that the main
   thread's mailbox exists while `_send` is in it needs that `del_event` comes
   after the id left the pool, and that `del_event` is not served inside a
   call. `Phases` ties both program counters to what exists. From it follow
   `MainBoxSafe` and the rest.
3. One invariant per property on top of it: `UpReliable`, `UpNeverAsleep`,
   `DownNeverAsleep`, `StopNeverSleeps`, `FaultsOnlyInRaces`, `EndComesLast`,
   and `UpImplementsChannel`, which maps every step to a step of `Channel` or
   to a stutter. `DownOrdered` and `DownReliable` share `DownInv`: while no
   race has happened, what is delivered, what is queued and what is left in
   `not_send` each ascends, one comes before the other, and none is above the
   number of finished sends (all sends but the one in the hands of `_send`);
   while the thread is in the pool their lengths add up to that number. The
   order alone would not be preserved by a send, whose number has to be above
   all others.

`WaitProofs` has one invariant: `Sync` relates the positions of both threads to
`locked`, `Data` follows an argument from `setData` to the return of `wait`.
All four safety properties of `WaitNotify` follow.

`TimersProofs` has one invariant, too. `Owned`, `CanRun` (no timer in the pool is
forgotten) and `TickHoldsLoop` need to know of the `Timer`s that C++ frames
hold: `Stack` says that `ticking` is out of the pool, that `firing` exists or
was cleared, that queued ids are no started timers, and that whatever was made
is in the pool, was called or was cleared. From it follow `OneOwner`,
`NoneForgotten`, `TicksHold`, `EndComplete` and `OnlyClearedInCall`;
`ImplementsTimerSet` maps every step to a step of `TimerSet` or to a stutter,
where undefined behaviour drops the set.

`RpcProofs`: the invariant of `CallsInvariant` says that a call's `retid` is its
place in the order of the calls (`Numbered`), that nothing waited when
`noListener()` answered that there is none, up to the end or the next poll
(`Sampling`), that no JavaScript runs after the loop (`Calm`), and that the
answers to a call whose callback is still mounted are those it has heard and, in
their order, those on the way to it (`InTransit`). `PendingHolds` and
`ThrownForNobody` follow, and `ImplementsCalls`: every step is a step of `Calls`
or a stutter.

`ContextProofs`: `ConstructorsMatch` needs of a message under way that its id is
a position, on the sender's side, of the constructor it asks for, and the first
one of that name behind the built-in `Error` (`AllTagged`, `IdOf`). No
registration changes this, since lists only grow: an error sent with id 0 keeps
it although the sender has registered `Error` again by the time it arrives.
`Error` is first on both sides (`ErrorFirst`). If the receiver has registered the
name, too, and one list is a prefix of the other, that first position is the
same there. `QueueIsKept` projects the queue and the channel to
the numbers of the sends (`Sending`, `Queued`), where every action of both sides
is one of seven steps (`FlowStep`): a send, a message that is none, an arrival,
a flush. `Ordered` and `Complete` of the two sequences are inductive.

`UseTimeProofs`: `Clocks` orders the times, `Measured` says what `begin_time`
and `end_time` are in each phase of the worker, and `Unbegun` and `Undisturbed`
say what the call has read so far, if no turn began, or none began or ended,
since it was let in. `Exact` follows from the two, `CrashesOnlyAtEdges` from
`Listed`.

`EventsProofs`: types and `MountingOrder` are inductive together, because `on`
appends to the node `e` and numbers grow. While the oldest listener goes first,
what is mounted are the youngest nodes, `Start .. Len(heap)`, each pointing to
the next (`Youngest`); that nothing else can be reached from `Start`, and all of
it is, is `LinkedIsLive`, by the least node that a closed set lacks. `Counted`
and `CalledOnce` (a listener for one call is mounted until its call) give
`Exact` and `Once`.

`ErrorProofs`: `LineCorrect` counts line breaks. The first marker of the code is
that of the template (`OffsetOfCode`), so what find_code_offset takes away is
what the template and the libraries put above the script.
The invariant of `JsonWritten` says, for each call of the class Json, the text so
far (`Texts`, a concatenation of `Pieces`) and the objects that are open with
their counts (`Open`); a comma too many or too few would break it. `ErrorKept`
reads that text back. Its lemmas:

* what the recursive functions of the model are (`StringsDef`, `MembersDef`,
  `EscapesDef`): a function whose value at a place asks only for later places
  exists, by downward induction over the places;
* a token that was escaped is read as itself (`ReadChar`), and so is a text, with
  the quote behind it, whatever is in it except a tab (`ReadText`);
* `Holds(s, p, t)` says that `t` stands behind place `p` of `s`; a member that
  stands there is read, with the members behind it (`ReadPair`, `ReadOn`);
* a text without special tokens is not changed by escaping (`EscapeClean`), which
  is where the condition of `ErrorIntact` on messages and source lines is used.

Least elements (`Least` in `ContextProofs`, `EventsProofs`, `ErrorProofs`) replace
induction over numbers: the well-foundedness of `<` on `Nat` is cited with a
set, not with a predicate.

Only model-checked: every liveness property (`DownDelivered`, `StopEnds`,
`NotifyWakes`, `Boots`, `AnswersEnd`, `AnsweredEnds`, and the fairness halves of
`UpChannel`, `RefinesTimerSet` and `RefinesCalls`), which are outside what the
prover does; `CopyAgrees` and `CrashIffCyclic`, whose values are trees of no
bounded depth that recursive operators walk: no set contains them all, so that a
recursive function has no domain, and induction over them is out of reach; and
the two refuted claims, which are false.

## 5. Plan

1. Stronger forms of what is proved: which calls of `use_time` may crash beside
   the phase they began in, and what a list is worth once a listener was
   removed that was not the oldest.
2. The remaining proofs are of liveness or by induction over trees and stay
   with TLC.
3. Still to be modelled: several threads that share `id_pool` and
   `object_container`, with calls of the main thread that go to one while
   another ends.

## 6. Not modelled

V8 and node internals and their set-up, `_eval` and `_create_context` (one V8
call each), the default libraries and the command line, the crash handler, the
version check and the build script. libuv is modelled by what the code relies
on: coalescing of `uv_async_send`, handles visited in the order of their
initialisation, `uv_run` by mode, closing handles and `uv_loop_alive`.

Of modelled components: parse.js (it splits a fixed template at fixed marks);
`createFilter` of bootnode.js (a pure function of what the user passes);
remote functions without a callback (one message), the checks of their
arguments and the code `exports_libs_code` generates; the data inside of
messages; getters, proxies, the key `__proto__` and lone surrogates in the
serializer, and the depth at which a value without a cycle overflows the stack;
the error event of a timer callback; and several listeners of one answer.
