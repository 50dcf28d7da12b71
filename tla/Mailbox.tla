------------------------------- MODULE Mailbox -------------------------------
(***************************************************************************)
(* One direction of the channel between the main thread and a worker       *)
(* thread: a RecvEventData (src/src/data.h), the uv_async_t that wakes its *)
(* reader, and the entry of the ObjectMap under which a writer finds it.   *)
(*                                                                         *)
(*   state     "none"      create_uv_async has not run                     *)
(*             "live"      allocated and registered in object_container    *)
(*             "dangling"  deleted, still registered (free_recv_event_from *)
(*                         deletes before it calls rm)                     *)
(*             "gone"      deleted and unregistered                        *)
(*   events    the std::queue of messages                                  *)
(*   pending   libuv's coalescing flag of the uv_async_t                   *)
(*                                                                         *)
(* push and uv_async_send are one step: the writer holds _lock across both *)
(* and the reader needs _lock to pop.                                      *)
(***************************************************************************)
EXTENDS Naturals, Sequences

BoxState == {"none", "live", "dangling", "gone"}

Box(Msg) == [state : BoxState, events : Seq(Msg), pending : BOOLEAN]

NoBox   == [state |-> "none", events |-> <<>>, pending |-> FALSE]
OpenBox == [state |-> "live", events |-> <<>>, pending |-> FALSE]

\* ObjectMap::get finds every registered object, deleted or not.
Registered(box) == box.state \in {"live", "dangling"}

\* uv_async_send coalesces: it sets a flag, it does not count.
AsyncSend(box) == [box EXCEPT !.pending = TRUE]

\* RecvEventData::sendEvent on a mailbox its writer can rely on.
SendEvent(box, m) ==
    IF Registered(box)
    THEN AsyncSend([box EXCEPT !.events = Append(@, m)])
    ELSE box

\* libuv clears the flag before it calls the handle's callback.
ClearPending(box) == [box EXCEPT !.pending = FALSE]

\* RecvEventData::nextEvent, when it returns true.
NextEvent(box) == [box EXCEPT !.events = Tail(@)]

\* ~RecvEventData: the messages still queued are lost with it.
DeleteBox(box) ==
    [state |-> "dangling", events |-> <<>>, pending |-> box.pending]

\* object_container.rm and h->data = 0
Unregister(box) == [box EXCEPT !.state = "gone"]
=============================================================================
