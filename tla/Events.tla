-------------------------------- MODULE Events --------------------------------
(***************************************************************************)
(* The event emitter of a worker thread (lib/events.js): the listeners of  *)
(* one message name, as a linked list that is walked while callbacks run.  *)
(* Callbacks may mount and remove listeners and emit again.                *)
(*                                                                         *)
(* Nodes are numbered as they are made. A node points to a younger one     *)
(* (MountingOrder), so a walk goes through a set of nodes by their number. *)
(***************************************************************************)
EXTENDS Integers, Sequences, FiniteSets

CONSTANTS
    Callbacks,   \* the functions that are mounted
    MaxNodes,    \* bound on the calls of on and once
    MaxDepth     \* bound on nested calls of emit

ASSUME EventsAssumption == MaxNodes \in Nat /\ MaxDepth \in Nat

VARIABLES
    heap,        \* the objects made by on: [cb, remove, next]; 0 is null
    handles,     \* event_handles[name]: << >>, or <<[s, e]>>
    count,       \* all_count and event_count[name], not below -MaxNodes
    frames,      \* the calls of _iterator by emit, each inside a callback
    live,        \* what a caller means by its calls: the mounted listeners
    fired,       \* how often the callback of a node was called, up to twice
    oldest       \* every removal so far was that of the oldest listener

vars == <<heap, handles, count, frames, live, fired, oldest>>

Nodes == 1 .. Len(heap)

TypeOK ==
    /\ heap \in Seq([cb : Callbacks, remove : BOOLEAN, next : 0 .. Len(heap)])
    /\ Len(heap) <= MaxNodes
    /\ \/ handles = <<>>
       \/ \E s, e \in 0 .. Len(heap) : handles = <<[s |-> s, e |-> e]>>
    /\ count \in -MaxNodes .. Len(heap)
    /\ frames \in Seq([h : Nodes, p : 0 .. Len(heap), rm : BOOLEAN])
    /\ live \subseteq Nodes
    /\ fired \in Seq(0 .. 2) /\ Len(fired) = Len(heap)
    /\ oldest \in BOOLEAN

Init ==
    /\ heap = <<>> /\ handles = <<>> /\ count = 0 /\ frames = <<>>
    /\ live = {} /\ fired = <<>> /\ oldest = TRUE

Last(seq)  == seq[Len(seq)]
Front(seq) == SubSeq(seq, 1, Len(seq) - 1)
First(S)   == IF S = {} THEN 0 ELSE CHOOSE i \in S : \A j \in S : i <= j
Latest(S)  == IF S = {} THEN 0 ELSE CHOOSE i \in S : \A j \in S : i >= j

(* The list from the node n on: what every set that has n and, with a      *)
(* node, the next one, has in common.                                      *)
LinkedFrom(n) ==
    LET Closed(S) == /\ n \in S \cup {0}
                     /\ \A i \in S : heap[i].next \in S \cup {0}
    IN  {i \in Nodes : \A S \in SUBSET Nodes : Closed(S) => i \in S}

Linked == IF handles = <<>> THEN {} ELSE LinkedFrom(handles[1].s)

(* A listener that stays linked is counted off every time it is called.    *)
(* MaxNodes below zero no call of on can bring the count above it again.   *)
Less(k) == IF count - k < -MaxNodes THEN -MaxNodes ELSE count - k
-----------------------------------------------------------------------------
\* Mutant: the new listener is put in front.
LinkFirst(n, cb, remove) ==
    LET tab == IF handles = <<>> THEN [s |-> 0, e |-> 0] ELSE handles[1]
    IN  /\ heap' = Append(heap, [cb |-> cb, remove |-> remove, next |-> tab.s])
        /\ handles' = <<[s |-> n, e |-> IF tab.e = 0 THEN n ELSE tab.e]>>

(* on: without a last node the list starts anew. *)
Link(n, cb, remove) ==
    LET new == [cb |-> cb, remove |-> remove, next |-> 0]
    IN  IF handles = <<>> \/ handles[1].e = 0
        THEN /\ heap' = Append(heap, new)
             /\ handles' = <<[s |-> n, e |-> n]>>
        ELSE /\ heap' = Append([heap EXCEPT ![handles[1].e].next = n], new)
             /\ handles' = <<[handles[1] EXCEPT !.e = n]>>

On(cb, remove) ==
    LET n == Len(heap) + 1
    IN  /\ n <= MaxNodes
        /\ Link(n, cb, remove)
        /\ count' = count + 1
        /\ live' = live \cup {n}
        /\ fired' = Append(fired, 0)
        /\ UNCHANGED <<frames, oldest>>

\* Mutant: event_count and all_count stay.
OffUncounted(match) ==
    LET keep == {n \in Linked : heap[n].cb \notin match}
    IN  /\ handles' = <<[s |-> First(keep), e |-> Latest(keep)]>>
        /\ count' = count

(* The calls of _remove by one walk of removeListener, where p is the last *)
(* node that stays: they move s and e, but `p.next == h.next` compares, so *)
(* a node that is not the first stays linked.                              *)
Unlink(match) ==
    LET gone == {n \in Linked : heap[n].cb \in match}
        keep == Linked \ gone
        e    == handles[1].e
    IN  /\ handles' = <<[s |-> First(keep),
                         e |-> IF e \in gone THEN Latest({n \in keep : n < e})
                                            ELSE e]>>
        /\ count' = Less(Cardinality(gone))

(* removeListener(name, cb), or with every callback removeListener(name) *)
Off(match) ==
    LET left == {n \in live : heap[n].cb \notin match}
    IN  /\ handles /= <<>>
        /\ Unlink(match)
        /\ live' = left
        /\ oldest' = (oldest /\ \A i \in live \ left, j \in left : i < j)
        /\ UNCHANGED <<heap, frames, fired>>

(* removeAllListeners *)
OffAll ==
    /\ handles' = <<>> /\ count' = 0 /\ live' = {}
    /\ UNCHANGED <<heap, frames, fired, oldest>>
-----------------------------------------------------------------------------
Fire(h) == fired' = [fired EXCEPT ![h] = IF @ = 2 THEN 2 ELSE @ + 1]

\* Mutant: a listener mounted with once is not removed.
VisitKeeps(h, p, below) ==
    /\ Fire(h)
    /\ frames' = Append(below, [h |-> h, p |-> p, rm |-> FALSE])
    /\ UNCHANGED <<heap, handles, count, live, oldest>>

(* The callback of emit for the node h: _remove(h), without p, and h.cb.   *)
(* With event_handles emptied meanwhile, _remove throws a TypeError.       *)
Visit(h, p, below) ==
    IF heap[h].remove /\ handles = <<>>
    THEN /\ frames' = below
         /\ UNCHANGED <<heap, handles, count, live, fired, oldest>>
    ELSE /\ Fire(h)
         /\ frames' = Append(below, [h |-> h, p |-> p, rm |-> heap[h].remove])
         /\ IF heap[h].remove
            THEN LET tab == handles[1]
                 IN  /\ handles' = <<[s |-> IF h = tab.s THEN heap[h].next
                                            ELSE tab.s,
                                      e |-> IF h = tab.e THEN 0 ELSE tab.e]>>
                     /\ count' = Less(1)
                     /\ live' = live \ {h}
                     /\ oldest' = (oldest /\ h = tab.s)
            ELSE UNCHANGED <<handles, count, live, oldest>>
         /\ UNCHANGED heap

Emit ==
    /\ handles /= <<>> /\ handles[1].s /= 0
    /\ Len(frames) < MaxDepth
    /\ Visit(handles[1].s, 0, frames)

(* The callback returns: _iterator goes to the node that h points to now. *)
NextNode ==
    LET f == Last(frames)
        h == heap[f.h].next
    IN  IF h = 0
        THEN /\ frames' = Front(frames)
             /\ UNCHANGED <<heap, handles, count, live, fired, oldest>>
        ELSE Visit(h, IF f.rm THEN f.p ELSE f.h, Front(frames))

Return == frames /= <<>> /\ NextNode

(* The callback throws, and the emit that called it is abandoned. *)
Throw ==
    /\ frames /= <<>>
    /\ frames' = Front(frames)
    /\ UNCHANGED <<heap, handles, count, live, fired, oldest>>

Next == \/ \E cb \in Callbacks, remove \in BOOLEAN : On(cb, remove)
        \/ \E cb \in Callbacks : Off({cb})
        \/ Off(Callbacks) \/ OffAll
        \/ Emit \/ Return \/ Throw

Spec == Init /\ [][Next]_vars
-----------------------------------------------------------------------------
(* Listeners are linked in the order in which they were mounted, so a walk *)
(* of the list ends and calls them in that order, whatever was removed.    *)
MountingOrder == \A n \in Nodes : heap[n].next = 0 \/ heap[n].next > n

(* As long as listeners are only ever removed oldest first, also from      *)
(* callbacks, the list and its count are what the calls asked for.         *)
ExactOldestFirst == oldest => Linked = live /\ count = Cardinality(live)

(* And one that was mounted with once is called once, however emit is      *)
(* nested in its callbacks.                                                *)
OnceOldestFirst == oldest =>
    \A n \in Nodes : heap[n].remove => fired[n] <= 1
=============================================================================
