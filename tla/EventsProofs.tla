------------------------------ MODULE EventsProofs ------------------------------
(***************************************************************************)
(* The list of listeners, proved for every number of listeners and every   *)
(* depth of nested emits.                                                  *)
(***************************************************************************)
EXTENDS Events, FiniteSetTheorems, SequenceTheorems, WellFoundedInduction, TLAPS

(* The ends of the list, null without one.                                 *)
Start == IF handles = <<>> THEN 0 ELSE handles[1].s
End   == IF handles = <<>> THEN 0 ELSE handles[1].e

(* As long as the oldest listeners go first, the mounted ones are the      *)
(* youngest nodes, and each of them points to the next.                    *)
Youngest ==
    oldest =>
        /\ Start = 0 => live = {} /\ End = 0
        /\ Start /= 0 => /\ live = Start .. Len(heap) /\ End = Len(heap)
                         /\ heap[Len(heap)].next = 0
                         /\ \A n \in Start .. Len(heap) - 1 : heap[n].next = n + 1

Counted == oldest => count = Cardinality(live)

(* A listener for one call is mounted until its call.                      *)
CalledOnce ==
    oldest => \A n \in Nodes : heap[n].remove =>
                  fired[n] <= 1 /\ (n \in live => fired[n] = 0)

Shape == TypeOK /\ MountingOrder
Inv   == Shape /\ Youngest /\ Counted /\ CalledOnce
-----------------------------------------------------------------------------
(* Numbers *)

Below == {ss \in Nat \X Nat : ss[1] < ss[2]}

(* A set of numbers that is not empty has a least one, ...                 *)
LEMMA Least ==
    ASSUME NEW T, T \subseteq Nat, T /= {}
    PROVE  \E x \in T : \A y \in T : x <= y
<1>1. IsWellFoundedOn(Below, Nat)
  BY NatLessThanWellFounded DEF OpToRel, Below
<1>2. PICK x \in T : \A y \in T : ~(<<y, x>> \in Below)
  BY <1>1, WFMin
<1>3. ASSUME NEW y \in T PROVE x <= y
  <2>1. x \in Nat /\ y \in Nat /\ ~(<<y, x>> \in Below)
    BY <1>2
  <2>. QED  BY <2>1 DEF Below
<1>. QED  BY <1>3

(* ... and a greatest one, if it is bounded.                               *)
LEMMA Greatest ==
    ASSUME NEW N \in Nat, NEW T, T \subseteq 0 .. N, T /= {}
    PROVE  \E x \in T : \A y \in T : x >= y
<1>. DEFINE U == {N - x : x \in T}
<1>1. U \subseteq Nat /\ U /= {}
  OBVIOUS
<1>2. PICK u \in U : \A v \in U : u <= v
  BY <1>1, Least
<1>3. PICK x \in T : u = N - x
  OBVIOUS
<1>4. ASSUME NEW y \in T PROVE x >= y
  <2>1. N - x <= N - y
    BY <1>2, <1>3
  <2>2. x \in 0 .. N /\ y \in 0 .. N
    OBVIOUS
  <2>. QED  BY <2>1, <2>2
<1>. QED  BY <1>4

LEMMA FirstOf ==
    ASSUME NEW T, T \subseteq Nat \ {0}
    PROVE  /\ T = {} => First(T) = 0
           /\ T /= {} => First(T) \in T /\ \A j \in T : First(T) <= j
<1>1. CASE T /= {}
  <2>1. \E i \in T : \A j \in T : i <= j
    BY <1>1, Least
  <2>. QED  BY <1>1, <2>1 DEF First
<1>. QED  BY <1>1 DEF First

LEMMA LatestOf ==
    ASSUME NEW N \in Nat, NEW T, T \subseteq 1 .. N
    PROVE  /\ T = {} => Latest(T) = 0
           /\ T /= {} => Latest(T) \in T /\ \A j \in T : Latest(T) >= j
<1>1. CASE T /= {}
  <2>1. \E i \in T : \A j \in T : i >= j
    <3>1. T \subseteq 0 .. N
      OBVIOUS
    <3>. QED  BY <1>1, <3>1, Greatest
  <2>. QED  BY <1>1, <2>1 DEF Latest
<1>. QED  BY <1>1 DEF Latest
-----------------------------------------------------------------------------
(* What the parts of the state are                                         *)

NodesUpTo(n) == [cb : Callbacks, remove : BOOLEAN, next : 0 .. n]

LEMMA Parts ==
    ASSUME Shape
    PROVE  /\ Len(heap) \in Nat /\ Len(heap) <= MaxNodes /\ MaxNodes \in Nat
           /\ Start \in 0 .. Len(heap) /\ End \in 0 .. Len(heap)
           /\ handles /= <<>> => handles = <<[s |-> Start, e |-> End]>>
           /\ heap \in Seq(NodesUpTo(Len(heap)))
           /\ \A n \in Nodes : /\ heap[n].next \in 0 .. Len(heap)
                               /\ heap[n].next = 0 \/ heap[n].next > n
                               /\ heap[n].remove \in BOOLEAN
                               /\ heap[n].cb \in Callbacks
<1>1. heap \in Seq(NodesUpTo(Len(heap)))
  BY DEF Shape, TypeOK, NodesUpTo
<1>2. Len(heap) \in Nat /\ Len(heap) <= MaxNodes /\ MaxNodes \in Nat
  BY <1>1, LenProperties, EventsAssumption DEF Shape, TypeOK
<1>3. \A n \in Nodes : heap[n] \in NodesUpTo(Len(heap))
  BY <1>1, ElementOfSeq DEF Nodes
<1>4. \A n \in Nodes : /\ heap[n].next \in 0 .. Len(heap)
                       /\ heap[n].next = 0 \/ heap[n].next > n
                       /\ heap[n].remove \in BOOLEAN
                       /\ heap[n].cb \in Callbacks
  BY <1>3 DEF NodesUpTo, Shape, MountingOrder
<1>5. CASE handles = <<>>
  BY <1>1, <1>2, <1>4, <1>5 DEF Start, End
<1>6. ASSUME NEW s \in 0 .. Len(heap), NEW e \in 0 .. Len(heap),
             handles = <<[s |-> s, e |-> e]>>
      PROVE  /\ Start \in 0 .. Len(heap) /\ End \in 0 .. Len(heap)
             /\ handles = <<[s |-> Start, e |-> End]>>
  <2>1. handles /= <<>> /\ handles[1] = [s |-> s, e |-> e]
    BY <1>6
  <2>. QED  BY <1>6, <2>1 DEF Start, End
<1>. QED  BY <1>1, <1>2, <1>4, <1>5, <1>6 DEF Shape, TypeOK

(* handles after an operation that leaves the list with these ends.        *)
LEMMA NewEnds ==
    ASSUME NEW s, NEW e, handles' = <<[s |-> s, e |-> e]>>
    PROVE  Start' = s /\ End' = e /\ handles' /= <<>>
<1>1. handles' /= <<>> /\ handles'[1] = [s |-> s, e |-> e]
  OBVIOUS
<1>. QED  BY <1>1 DEF Start, End

(* on puts the new node behind the last one.                               *)
LEMMA OnLinks ==
    ASSUME Shape, NEW cb \in Callbacks, NEW remove \in BOOLEAN, On(cb, remove),
           NEW n, n = Len(heap) + 1
    PROVE  /\ n \in Nat \ {0} /\ n <= MaxNodes
           /\ heap' \in Seq(NodesUpTo(n)) /\ Len(heap') = n
           /\ \A m \in Nodes :
                 /\ heap'[m].cb = heap[m].cb /\ heap'[m].remove = heap[m].remove
                 /\ heap'[m].next = IF m = End THEN n ELSE heap[m].next
           /\ heap'[n].next = 0
           /\ handles' = <<[s |-> IF End = 0 THEN n ELSE Start, e |-> n]>>
<1>. DEFINE new == [cb |-> cb, remove |-> remove, next |-> 0]
<1>1. /\ Len(heap) \in Nat /\ Start \in 0 .. Len(heap) /\ End \in 0 .. Len(heap)
      /\ handles /= <<>> => handles = <<[s |-> Start, e |-> End]>>
      /\ \A m \in Nodes : heap[m] \in NodesUpTo(Len(heap))
      /\ heap \in Seq(NodesUpTo(Len(heap)))
  BY Parts, ElementOfSeq DEF Nodes
<1>2. n \in Nat \ {0} /\ n <= MaxNodes /\ Link(n, cb, remove)
  BY <1>1 DEF On
<1>3. /\ heap \in Seq(NodesUpTo(n)) /\ new \in NodesUpTo(n)
      /\ \A m \in Nodes : heap[m] \in NodesUpTo(n)
  <2>1. \A m \in Nodes : heap[m] \in NodesUpTo(n)
    BY <1>1 DEF NodesUpTo
  <2>2. new \in NodesUpTo(n)
    BY <1>2 DEF NodesUpTo
  <2>. QED  BY <1>1, <2>1, <2>2, IsASeq DEF Nodes
<1>n. new.cb = cb /\ new.remove = remove /\ new.next = 0
  OBVIOUS
<1>. HIDE DEF new
<1>4. CASE handles = <<>> \/ handles[1].e = 0
  <2>1. End = 0 /\ heap' = Append(heap, new) /\ handles' = <<[s |-> n, e |-> n]>>
    BY <1>2, <1>4 DEF Link, End, new
  <2>2. /\ heap' \in Seq(NodesUpTo(n)) /\ Len(heap') = n
        /\ \A m \in Nodes : heap'[m] = heap[m]
        /\ heap'[n] = new
    BY <1>3, <2>1, AppendProperties DEF Nodes
  <2>3. \A m \in Nodes : m /= End
    BY <1>1, <2>1 DEF Nodes
  <2>. QED  BY <1>2, <1>n, <2>1, <2>2, <2>3
<1>5. CASE ~(handles = <<>> \/ handles[1].e = 0)
  <2>. DEFINE linked == [heap EXCEPT ![End].next = n]
              tail   == [heap[End] EXCEPT !.next = n]
  <2>1. /\ End /= 0 /\ End \in Nodes /\ handles[1] = [s |-> Start, e |-> End]
        /\ heap' = Append(linked, new)
        /\ handles' = <<[s |-> Start, e |-> n]>>
    <3>1. handles /= <<>> /\ handles[1].e /= 0
      BY <1>5
    <3>2. handles[1] = [s |-> Start, e |-> End]
      BY <1>1, <3>1
    <3>3. End /= 0 /\ End \in Nodes
      BY <1>1, <3>1, <3>2 DEF Nodes
    <3>4. /\ heap' = Append([heap EXCEPT ![handles[1].e].next = n], new)
          /\ handles' = <<[handles[1] EXCEPT !.e = n]>>
      BY <1>2, <1>5 DEF Link, new
    <3>5. handles[1].e = End /\ [handles[1] EXCEPT !.e = n] = [s |-> Start, e |-> n]
      BY <3>2
    <3>. QED  BY <3>2, <3>3, <3>4, <3>5
  <2>2. linked = [heap EXCEPT ![End] = tail]
    OBVIOUS
  <2>3. /\ tail \in NodesUpTo(n) /\ tail.next = n
        /\ tail.cb = heap[End].cb /\ tail.remove = heap[End].remove
    BY <1>2, <1>3, <2>1 DEF NodesUpTo
  <2>. HIDE DEF tail
  <2>4. /\ linked \in Seq(NodesUpTo(n)) /\ Len(linked) = Len(heap)
        /\ \A m \in Nodes : linked[m] = IF m = End THEN tail ELSE heap[m]
    <3>1. End \in 1 .. Len(heap) /\ heap \in Seq(NodesUpTo(n))
      BY <1>3, <2>1 DEF Nodes
    <3>. HIDE DEF linked
    <3>. QED  BY <2>2, <2>3, <3>1, ExceptSeq DEF Nodes
  <2>. HIDE DEF linked
  <2>5. /\ heap' \in Seq(NodesUpTo(n)) /\ Len(heap') = n
        /\ \A m \in Nodes : heap'[m] = linked[m]
        /\ heap'[n] = new
    BY <1>3, <2>1, <2>4, AppendProperties DEF Nodes
  <2>. QED  BY <1>2, <1>n, <2>1, <2>3, <2>4, <2>5
<1>. QED  BY <1>4, <1>5

Frames == Seq([h : Nodes, p : 0 .. Len(heap), rm : BOOLEAN])

(* An operation other than on keeps the nodes.                             *)
LEMMA SameNodes ==
    ASSUME Shape, heap' = heap,
           \/ handles' = <<>>
           \/ \E s, e \in 0 .. Len(heap) : handles' = <<[s |-> s, e |-> e]>>,
           count' \in -MaxNodes .. Len(heap), frames' \in Frames,
           live' \subseteq Nodes, fired' \in Seq(0 .. 2), Len(fired') = Len(heap),
           oldest' \in BOOLEAN
    PROVE  Shape'
<1>1. Nodes' = Nodes /\ MountingOrder'
  BY DEF Shape, Nodes, MountingOrder
<1>. QED  BY <1>1 DEF Shape, TypeOK, Frames

LEMMA CountedOff ==
    ASSUME Shape, NEW k \in Nat
    PROVE  Less(k) \in -MaxNodes .. Len(heap)
<1>1. Len(heap) \in Nat /\ MaxNodes \in Nat /\ count \in Int
      /\ -MaxNodes <= count /\ count <= Len(heap)
  BY Parts DEF Shape, TypeOK
<1>2. CASE count - k < -MaxNodes
  BY <1>1, <1>2 DEF Less
<1>3. CASE ~(count - k < -MaxNodes)
  BY <1>1, <1>3 DEF Less
<1>. QED  BY <1>2, <1>3

Gone(match) == {n \in Linked : heap[n].cb \in match}

LEMMA OffEnds ==
    ASSUME Shape, NEW match, Off(match)
    PROVE  /\ Linked \subseteq Nodes
           /\ IsFiniteSet(Gone(match)) /\ Cardinality(Gone(match)) \in Nat
           /\ handles /= <<>> /\ handles' /= <<>>
           /\ count' = Less(Cardinality(Gone(match)))
           /\ Start' = First(Linked \ Gone(match)) /\ Start' \in 0 .. Len(heap)
           /\ End' = IF End \in Gone(match)
                     THEN Latest({n \in Linked \ Gone(match) : n < End})
                     ELSE End
           /\ End' \in 0 .. Len(heap)
           /\ handles' = <<[s |-> Start', e |-> End']>>
<1>. DEFINE keep == Linked \ Gone(match)
            rest == {n \in keep : n < End}
            e    == IF End \in Gone(match) THEN Latest(rest) ELSE End
<1>1. Len(heap) \in Nat /\ Linked \subseteq 1 .. Len(heap)
  BY Parts DEF Linked, LinkedFrom, Nodes
<1>2. IsFiniteSet(Gone(match)) /\ Cardinality(Gone(match)) \in Nat
  <2>1. Gone(match) \subseteq 1 .. Len(heap)
    BY <1>1 DEF Gone
  <2>2. IsFiniteSet(1 .. Len(heap))
    <3>1. \A n \in Nat : IsFiniteSet(1 .. n)
      BY FS_Interval
    <3>. QED  BY <1>1, <3>1
  <2>. QED  BY <2>1, <2>2, FS_Subset, FS_CardinalityType
<1>3. /\ handles /= <<>> /\ handles' = <<[s |-> First(keep), e |-> e]>>
      /\ count' = Less(Cardinality(Gone(match)))
  <2>1. handles /= <<>> /\ Unlink(match)
    BY DEF Off
  <2>. QED  BY <2>1 DEF Unlink, Gone, End
<1>4. First(keep) \in 0 .. Len(heap)
  <2>1. keep \subseteq Nat \ {0}
    <3>1. keep \subseteq 1 .. Len(heap)
      BY <1>1
    <3>2. 1 .. Len(heap) \subseteq Nat \ {0}
      BY <1>1
    <3>. QED  BY <3>1, <3>2
  <2>2. CASE keep = {}
    BY <1>1, <2>1, <2>2, FirstOf
  <2>3. CASE keep /= {}
    BY <1>1, <2>1, <2>3, FirstOf
  <2>. QED  BY <2>2, <2>3
<1>5. e \in 0 .. Len(heap)
  <2>1. rest \subseteq 1 .. Len(heap)
    BY <1>1
  <2>. HIDE DEF rest
  <2>2. Latest(rest) \in 0 .. Len(heap)
    <3>1. \A N \in Nat : rest \subseteq 1 .. N => Latest(rest) \in 0 .. N
      <4>. SUFFICES ASSUME NEW N \in Nat, rest \subseteq 1 .. N
                    PROVE  Latest(rest) \in 0 .. N
        OBVIOUS
      <4>1. Latest(rest) = 0 \/ Latest(rest) \in rest
        BY LatestOf
      <4>2. 0 \in 0 .. N /\ 1 .. N \subseteq 0 .. N
        OBVIOUS
      <4>. QED  BY <4>1, <4>2
    <3>. QED  BY <1>1, <2>1, <3>1
  <2>. QED  BY <2>2, Parts
<1>. HIDE DEF keep, rest, e
<1>6. Start' = First(keep) /\ End' = e /\ handles' /= <<>>
  BY <1>3, NewEnds
<1>. QED  BY <1>1, <1>2, <1>3, <1>4, <1>5, <1>6 DEF keep, rest, e, Nodes

LEMMA FrontOf ==
    ASSUME NEW S, NEW s \in Seq(S), s /= <<>>
    PROVE  Front(s) \in Seq(S) /\ Last(s) \in S
<1>1. Len(s) \in Nat /\ Len(s) /= 0 /\ Len(s) \in 1 .. Len(s)
  BY LenProperties, EmptySeq
<1>2. \A i \in 1 .. Len(s) : s[i] \in S
  BY ElementOfSeq
<1>3. Front(s) \in Seq(S)
  BY <1>1, <1>2, SubSeqProperties DEF Front
<1>. QED  BY <1>1, <1>2, <1>3 DEF Last

(* The calls of _iterator: Emit and Return visit a node, or the walk ends. *)
Visits(h, p, below) ==
    /\ h \in Nodes /\ p \in 0 .. Len(heap) /\ below \in Frames
    /\ Visit(h, p, below)

LEMMA Walks ==
    ASSUME Shape, Emit \/ Return
    PROVE  \/ \E h, p, below : Visits(h, p, below)
           \/ UNCHANGED <<heap, handles, count, live, fired, oldest>>
              /\ frames' \in Frames
<1>1. frames \in Frames
  BY DEF Shape, TypeOK, Frames
<1>2. CASE Emit
  <2>1. handles[1].s = Start /\ Start /= 0
    BY <1>2 DEF Emit, Start
  <2>2. Start \in Nodes /\ 0 \in 0 .. Len(heap)
    BY <2>1, Parts DEF Nodes
  <2>. QED  BY <1>1, <1>2, <2>1, <2>2 DEF Emit, Visits
<1>3. CASE Return
  <2>. DEFINE f == Last(frames)
              h == heap[f.h].next
              q == IF f.rm THEN f.p ELSE f.h
  <2>1. f \in [h : Nodes, p : 0 .. Len(heap), rm : BOOLEAN] /\ Front(frames) \in Frames
    BY <1>1, <1>3, FrontOf DEF Frames, Return
  <2>2. h \in 0 .. Len(heap) /\ Len(heap) \in Nat /\ q \in 0 .. Len(heap)
    BY <2>1, Parts DEF Nodes
  <2>3. \/ h = 0 /\ frames' = Front(frames)
                 /\ UNCHANGED <<heap, handles, count, live, fired, oldest>>
        \/ h /= 0 /\ Visit(h, q, Front(frames))
    BY <1>3 DEF Return, NextNode
  <2>. HIDE DEF f, h, q
  <2>4. h /= 0 => h \in Nodes
    BY <2>2 DEF Nodes
  <2>. QED  BY <2>1, <2>2, <2>3, <2>4 DEF Visits
<1>. QED  BY <1>2, <1>3

(* What a visit does: call the node's callback, after _remove of a node    *)
(* that was mounted for one call, or throw.                                *)
Removal(h) ==
    /\ heap[h].remove /\ handles /= <<>>
    /\ handles' = <<[s |-> IF h = Start THEN heap[h].next ELSE Start,
                     e |-> IF h = End THEN 0 ELSE End]>>
    /\ count' = Less(1) /\ live' = live \ {h}
    /\ oldest' = (oldest /\ h = Start)

LEMMA VisitDoes ==
    ASSUME Shape, NEW h, NEW p, NEW below, Visits(h, p, below)
    PROVE  /\ heap' = heap /\ frames' \in Frames
           /\ \/ UNCHANGED <<handles, count, live, fired, oldest>>
              \/ Fire(h) /\ ~heap[h].remove
                 /\ UNCHANGED <<handles, count, live, oldest>>
              \/ Fire(h) /\ Removal(h)
<1>. USE DEF Visits
<1>1. heap' = heap
  BY DEF Visit
<1>2. CASE heap[h].remove /\ handles = <<>>
  BY <1>2 DEF Visit
<1>3. CASE ~(heap[h].remove /\ handles = <<>>)
  <2>1. frames' \in Frames
    <3>1. frames' = Append(below, [h |-> h, p |-> p, rm |-> heap[h].remove])
      BY <1>3 DEF Visit
    <3>2. [h |-> h, p |-> p, rm |-> heap[h].remove]
             \in [h : Nodes, p : 0 .. Len(heap), rm : BOOLEAN]
      BY Parts
    <3>. QED  BY <3>1, <3>2, AppendProperties DEF Frames
  <2>2. CASE ~heap[h].remove
    BY <1>1, <1>3, <2>1, <2>2 DEF Visit
  <2>3. CASE heap[h].remove
    <3>1. handles /= <<>> /\ handles[1] = [s |-> Start, e |-> End]
      BY <1>3, <2>3, Parts
    <3>2. handles[1].s = Start /\ handles[1].e = End
      BY <3>1
    <3>3. Fire(h) /\ Removal(h)
      BY <1>3, <2>3, <3>1, <3>2 DEF Visit, Removal
    <3>. QED  BY <1>1, <2>1, <3>3
  <2>. QED  BY <2>2, <2>3
<1>. QED  BY <1>1, <1>2, <1>3

LEMMA Fires ==
    ASSUME Shape, NEW h \in Nodes, Fire(h)
    PROVE  /\ fired' \in Seq(0 .. 2) /\ Len(fired') = Len(heap)
           /\ \A n \in Nodes : fired'[n] =
                 IF n = h THEN IF fired[h] = 2 THEN 2 ELSE fired[h] + 1
                          ELSE fired[n]
<1>. DEFINE k == IF fired[h] = 2 THEN 2 ELSE fired[h] + 1
<1>1. /\ fired \in Seq(0 .. 2) /\ Len(fired) = Len(heap) /\ h \in 1 .. Len(fired)
      /\ fired' = [fired EXCEPT ![h] = k]
  BY DEF Shape, TypeOK, Nodes, Fire
<1>2. k \in 0 .. 2
  <2>1. fired[h] \in 0 .. 2
    BY <1>1, ElementOfSeq
  <2>. QED  BY <2>1
<1>. HIDE DEF k
<1>3. /\ fired' \in Seq(0 .. 2) /\ Len(fired') = Len(fired)
      /\ \A n \in 1 .. Len(fired) : fired'[n] = IF n = h THEN k ELSE fired[n]
  BY <1>1, <1>2, ExceptSeq
<1>. QED  BY <1>1, <1>3 DEF k, Nodes
-----------------------------------------------------------------------------
(* Types, and the order of the list                                        *)

LEMMA ShapeKept == Shape /\ [Next]_vars => Shape'
<1>. SUFFICES ASSUME Shape, [Next]_vars PROVE Shape'
  OBVIOUS
<1>t. /\ Len(heap) \in Nat /\ MaxNodes \in Nat /\ Len(heap) <= MaxNodes
      /\ count \in -MaxNodes .. Len(heap) /\ 0 \in -MaxNodes .. Len(heap)
      /\ frames \in Frames /\ live \subseteq Nodes /\ oldest \in BOOLEAN
      /\ fired \in Seq(0 .. 2) /\ Len(fired) = Len(heap)
      /\ Start \in 0 .. Len(heap) /\ End \in 0 .. Len(heap)
      /\ handles = <<>> \/ \E s, e \in 0 .. Len(heap) : handles = <<[s |-> s, e |-> e]>>
  BY Parts DEF Shape, TypeOK, Frames
<1>1. CASE UNCHANGED vars
  BY <1>1, <1>t, SameNodes DEF vars
<1>2. ASSUME NEW cb \in Callbacks, NEW remove \in BOOLEAN, On(cb, remove)
      PROVE  Shape'
  <2>. DEFINE n == Len(heap) + 1
  <2>1. /\ n \in Nat \ {0} /\ n <= MaxNodes
        /\ heap' \in Seq(NodesUpTo(n)) /\ Len(heap') = n
        /\ \A m \in Nodes : heap'[m].next = IF m = End THEN n ELSE heap[m].next
        /\ heap'[n].next = 0
        /\ handles' = <<[s |-> IF End = 0 THEN n ELSE Start, e |-> n]>>
    BY <1>2, OnLinks
  <2>2. /\ live' = live \cup {n} /\ count' = count + 1
        /\ fired' = Append(fired, 0) /\ UNCHANGED <<frames, oldest>>
    BY <1>2 DEF On
  <2>3. Nodes' = Nodes \cup {n} /\ Nodes \subseteq 1 .. n /\ Nodes' = 1 .. n
    BY <1>t, <2>1 DEF Nodes
  <2>4. MountingOrder'
    <3>1. ASSUME NEW m \in Nodes PROVE heap'[m].next = 0 \/ heap'[m].next > m
      <4>1. m < n /\ (heap[m].next = 0 \/ heap[m].next > m)
        BY <1>t, Parts DEF Nodes
      <4>. QED  BY <2>1, <4>1
    <3>. QED  BY <2>1, <2>3, <3>1 DEF MountingOrder
  <2>5. fired' \in Seq(0 .. 2) /\ Len(fired') = n
    <3>1. 0 \in 0 .. 2
      OBVIOUS
    <3>. QED  BY <1>t, <2>2, <3>1, AppendProperties
  <2>6. frames' \in Seq([h : 1 .. n, p : 0 .. n, rm : BOOLEAN])
    <3>1. [h : Nodes, p : 0 .. Len(heap), rm : BOOLEAN]
             \subseteq [h : 1 .. n, p : 0 .. n, rm : BOOLEAN]
      BY <1>t DEF Nodes
    <3>. QED  BY <1>t, <2>2, <3>1, SeqMonotonic DEF Frames
  <2>7. \E s, e \in 0 .. n : handles' = <<[s |-> s, e |-> e]>>
    <3>1. (IF End = 0 THEN n ELSE Start) \in 0 .. n /\ n \in 0 .. n
      BY <1>t
    <3>. QED  BY <2>1, <3>1
  <2>8. count' \in -MaxNodes .. n
    BY <1>t, <2>2
  <2>9. heap' \in Seq([cb : Callbacks, remove : BOOLEAN, next : 0 .. n])
    BY <2>1 DEF NodesUpTo
  <2>. HIDE DEF n
  <2>. QED  BY <1>t, <2>1, <2>2, <2>3, <2>4, <2>5, <2>6, <2>7, <2>8, <2>9
            DEF Shape, TypeOK
<1>3. ASSUME NEW match, Off(match) PROVE Shape'
  <2>1. /\ heap' = heap /\ UNCHANGED <<frames, fired>> /\ oldest' \in BOOLEAN
        /\ live' \subseteq live
    BY <1>3 DEF Off
  <2>2. \E s, e \in 0 .. Len(heap) : handles' = <<[s |-> s, e |-> e]>>
    BY <1>3, OffEnds
  <2>3. count' \in -MaxNodes .. Len(heap)
    BY <1>3, OffEnds, CountedOff
  <2>. QED  BY <1>t, <2>1, <2>2, <2>3, SameNodes
<1>4. CASE OffAll
  BY <1>4, <1>t, SameNodes DEF OffAll
<1>5. CASE Emit \/ Return
  <2>1. CASE UNCHANGED <<heap, handles, count, live, fired, oldest>>
             /\ frames' \in Frames
    BY <1>t, <2>1, SameNodes
  <2>2. ASSUME NEW h, NEW p, NEW below, Visits(h, p, below) PROVE Shape'
    <3>1. h \in Nodes /\ heap' = heap /\ frames' \in Frames
      BY <2>2, VisitDoes DEF Visits
    <3>2. Fire(h) => fired' \in Seq(0 .. 2) /\ Len(fired') = Len(heap)
      BY <3>1, Fires
    <3>3. CASE UNCHANGED <<handles, count, live, oldest>>
               /\ (fired' = fired \/ Fire(h))
      BY <1>t, <3>1, <3>2, <3>3, SameNodes
    <3>4. CASE Fire(h) /\ Removal(h)
      <4>1. heap[h].next \in 0 .. Len(heap) /\ 0 \in 0 .. Len(heap)
        BY <1>t, <3>1, Parts
      <4>2. \E s, e \in 0 .. Len(heap) : handles' = <<[s |-> s, e |-> e]>>
        BY <1>t, <3>4, <4>1 DEF Removal
      <4>3. /\ count' \in -MaxNodes .. Len(heap) /\ live' \subseteq Nodes
            /\ oldest' \in BOOLEAN
        BY <1>t, <3>4, CountedOff DEF Removal
      <4>. QED  BY <1>t, <3>1, <3>2, <3>4, <4>2, <4>3, SameNodes
    <3>. QED  BY <2>2, <3>3, <3>4, VisitDoes
  <2>. QED  BY <1>5, <2>1, <2>2, Walks
<1>6. CASE Throw
  BY <1>6, <1>t, SameNodes, FrontOf DEF Throw, Frames
<1>. QED  BY <1>1, <1>2, <1>3, <1>4, <1>5, <1>6 DEF Next

LEMMA InitShape == Init => Shape
<1>. SUFFICES ASSUME Init PROVE Shape
  OBVIOUS
<1>1. Len(heap) = 0 /\ Nodes = {}
  BY EmptySeq DEF Init, Nodes
<1>2. \A S : <<>> \in Seq(S)
  BY EmptySeq
<1>3. 0 <= MaxNodes /\ 0 \in -MaxNodes .. 0
  BY EventsAssumption
<1>. QED  BY <1>1, <1>2, <1>3 DEF Init, Shape, TypeOK, MountingOrder

LEMMA ShapeHolds == Spec => []Shape
BY InitShape, ShapeKept, PTL DEF Spec

(* Types: a walk stands on a node that was made, and the count stays in    *)
(* range.                                                                  *)
THEOREM TypeCorrect == Spec => []TypeOK
<1>1. Shape => TypeOK
  BY DEF Shape
<1>. QED  BY <1>1, ShapeHolds, PTL

(* Whatever is mounted and removed, also by callbacks while the list is    *)
(* walked, a node points to a younger one: a walk ends, and goes in the    *)
(* order of mounting.                                                      *)
THEOREM InMountingOrder == Spec => []MountingOrder
<1>1. Shape => MountingOrder
  BY DEF Shape
<1>. QED  BY <1>1, ShapeHolds, PTL
-----------------------------------------------------------------------------
(* The list, while the oldest listeners go first                           *)

(* What can be reached from the first node is what is mounted: the mounted *)
(* nodes are closed, and a closed set has each of them after the one       *)
(* before.                                                                 *)
LEMMA LinkedIsLive ==
    ASSUME Shape, Youngest, oldest
    PROVE  Linked = live
<1>t. Start \in 0 .. Len(heap) /\ Len(heap) \in Nat
  BY Parts
<1>1. CASE Start = 0
  <2>1. live = {}
    BY <1>1 DEF Youngest
  <2>2. LinkedFrom(0) = {}
    <3>1. {} \in SUBSET Nodes
      OBVIOUS
    <3>. QED  BY <3>1 DEF LinkedFrom
  <2>. QED  BY <1>1, <2>1, <2>2 DEF Linked, Start
<1>2. CASE Start /= 0
  <2>1. /\ live = Start .. Len(heap) /\ live \subseteq Nodes
        /\ heap[Len(heap)].next = 0
        /\ \A n \in Start .. Len(heap) - 1 : heap[n].next = n + 1
    BY <1>2 DEF Youngest, Shape, TypeOK
  <2>2. Linked = LinkedFrom(Start)
    BY <1>2 DEF Linked, Start
  <2>3. Start \in live
    BY <1>t, <1>2, <2>1
  <2>4. \A i \in live : heap[i].next \in live \cup {0}
    <3>. SUFFICES ASSUME NEW i \in live PROVE heap[i].next \in live \cup {0}
      OBVIOUS
    <3>1. i = Len(heap) \/ (i \in Start .. Len(heap) - 1 /\ i + 1 \in live)
      BY <1>t, <2>1
    <3>. QED  BY <2>1, <3>1
  <2>5. LinkedFrom(Start) \subseteq live
    BY <2>1, <2>3, <2>4 DEF LinkedFrom
  <2>6. ASSUME NEW S \in SUBSET Nodes, Start \in S \cup {0},
               \A i \in S : heap[i].next \in S \cup {0}
        PROVE  live \subseteq S
    <3>. DEFINE missing == live \ S
    <3>. SUFFICES ASSUME missing /= {} PROVE FALSE
      OBVIOUS
    <3>1. missing \subseteq Nat
      BY <1>t, <2>1
    <3>2. PICK d \in missing : \A j \in missing : d <= j
      BY <3>1, Least
    <3>3. d /= Start
      BY <1>2, <2>6
    <3>4. /\ d - 1 \in live /\ d - 1 \in Start .. Len(heap) - 1 /\ ~(d <= d - 1)
          /\ (d - 1) + 1 = d /\ d /= 0
      BY <1>t, <2>1, <3>3
    <3>5. d - 1 \in S
      BY <3>2, <3>4
    <3>6. heap[d - 1].next = d
      BY <2>1, <3>4
    <3>. QED  BY <2>6, <3>4, <3>5, <3>6
  <2>. QED  BY <2>1, <2>2, <2>5, <2>6 DEF LinkedFrom
<1>. QED  BY <1>1, <1>2

LEMMA LiveFinite ==
    ASSUME Shape
    PROVE  IsFiniteSet(live) /\ Cardinality(live) \in Nat
<1>1. live \subseteq 1 .. Len(heap) /\ Len(heap) \in Nat
  BY Parts DEF Shape, TypeOK, Nodes
<1>2. \A n \in Nat : IsFiniteSet(1 .. n)
  BY FS_Interval
<1>. QED  BY <1>1, <1>2, FS_Subset, FS_CardinalityType

(* on *)
LEMMA OnKeeps ==
    ASSUME Inv, NEW cb \in Callbacks, NEW remove \in BOOLEAN, On(cb, remove)
    PROVE  Youngest' /\ Counted' /\ CalledOnce'
<1>. DEFINE n == Len(heap) + 1
<1>1. /\ n \in Nat \ {0} /\ Len(heap') = n
      /\ \A m \in Nodes : /\ heap'[m].remove = heap[m].remove
                          /\ heap'[m].next = IF m = End THEN n ELSE heap[m].next
      /\ heap'[n].next = 0
      /\ handles' = <<[s |-> IF End = 0 THEN n ELSE Start, e |-> n]>>
  BY OnLinks DEF Inv
<1>2. /\ live' = live \cup {n} /\ count' = count + 1
      /\ fired' = Append(fired, 0) /\ oldest' = oldest
  BY DEF On
<1>3. /\ Len(heap) \in Nat /\ Start \in 0 .. Len(heap) /\ Nodes = 1 .. Len(heap)
      /\ live \subseteq Nodes
      /\ fired \in Seq(0 .. 2) /\ Len(fired) = Len(heap) /\ n = Len(heap) + 1
  BY Parts DEF Inv, Shape, TypeOK, Nodes
<1>. HIDE DEF n
<1>4. Start' = (IF End = 0 THEN n ELSE Start) /\ End' = n
  BY <1>1, NewEnds
<1>5. Youngest'
  <2>. SUFFICES ASSUME oldest
                PROVE  /\ Start' /= 0 /\ live' = Start' .. n
                       /\ \A m \in Start' .. n - 1 : heap'[m].next = m + 1
    BY <1>1, <1>2, <1>4 DEF Youngest
  <2>1. CASE End = 0
    <3>1. live = {}
      BY <1>3, <2>1 DEF Inv, Youngest
    <3>2. Start' = n /\ live' = {n}
      BY <1>2, <1>4, <2>1, <3>1
    <3>3. n .. n = {n} /\ n .. n - 1 = {} /\ n /= 0
      BY <1>1
    <3>. QED  BY <3>2, <3>3
  <2>2. CASE End /= 0
    <3>1. /\ Start /= 0 /\ live = Start .. Len(heap) /\ End = Len(heap)
          /\ \A m \in Start .. Len(heap) - 1 : heap[m].next = m + 1
      BY <2>2 DEF Inv, Youngest
    <3>2. Start' = Start /\ live' = Start .. n
      <4>1. Start .. n = (Start .. Len(heap)) \cup {n}
        BY <1>3
      <4>. QED  BY <1>2, <1>4, <2>2, <3>1, <4>1
    <3>3. ASSUME NEW m \in Start .. n - 1 PROVE heap'[m].next = m + 1
      <4>1. m \in Nodes /\ (m = Len(heap) \/ m \in Start .. Len(heap) - 1)
        BY <1>3, <3>1
      <4>2. CASE m = Len(heap)
        BY <1>1, <1>3, <3>1, <4>1, <4>2
      <4>3. CASE m \in Start .. Len(heap) - 1
        <5>1. m /= End
          BY <1>3, <3>1, <4>3
        <5>. QED  BY <1>1, <3>1, <4>1, <4>3, <5>1
      <4>. QED  BY <4>1, <4>2, <4>3
    <3>. QED  BY <3>1, <3>2, <3>3
  <2>. QED  BY <2>1, <2>2
<1>6. Counted'
  <2>1. n \notin live
    BY <1>3
  <2>2. Cardinality(live \cup {n}) = Cardinality(live) + 1
    BY <2>1, LiveFinite, FS_AddElement DEF Inv
  <2>. QED  BY <1>2, <2>2 DEF Inv, Counted
<1>7. CalledOnce'
  <2>1. /\ \A m \in 1 .. Len(fired) : fired'[m] = fired[m]
        /\ fired'[Len(fired) + 1] = 0
    <3>1. 0 \in 0 .. 2
      OBVIOUS
    <3>. QED  BY <1>2, <1>3, <3>1, AppendProperties
  <2>2. Nodes' = Nodes \cup {n} /\ n \notin Nodes
    BY <1>1, <1>3 DEF Nodes
  <2>3. fired'[n] = 0 /\ \A m \in Nodes : fired'[m] = fired[m]
    BY <1>3, <2>1
  <2>4. ASSUME oldest, NEW m \in Nodes, heap'[m].remove
        PROVE  fired'[m] <= 1 /\ (m \in live' => fired'[m] = 0)
    <3>1. heap[m].remove /\ m /= n
      BY <1>1, <2>2, <2>4
    <3>. QED  BY <1>2, <2>3, <2>4, <3>1 DEF Inv, CalledOnce
  <2>5. fired'[n] <= 1 /\ fired'[n] = 0
    BY <2>3
  <2>6. ASSUME oldest, NEW m \in Nodes', heap'[m].remove
        PROVE  fired'[m] <= 1 /\ (m \in live' => fired'[m] = 0)
    BY <2>2, <2>4, <2>5, <2>6
  <2>. QED  BY <1>2, <2>6 DEF CalledOnce
<1>. QED  BY <1>5, <1>6, <1>7

LEMMA CountDown ==
    ASSUME Inv, oldest, NEW T, T \subseteq live
    PROVE  Less(Cardinality(T)) = Cardinality(live \ T)
<1>1. IsFiniteSet(live) /\ Cardinality(live) \in Nat /\ count = Cardinality(live)
  BY LiveFinite DEF Inv, Counted
<1>2. Cardinality(live \ T) = Cardinality(live) - Cardinality(live \cap T)
      /\ IsFiniteSet(live \ T)
  BY <1>1, FS_Difference
<1>3. live \cap T = T
  OBVIOUS
<1>4. Cardinality(live \ T) \in Nat /\ Cardinality(T) \in Nat
  BY <1>1, <1>2, FS_Subset, FS_CardinalityType
<1>. DEFINE c == Cardinality(live) t == Cardinality(T) r == Cardinality(live \ T)
<1>5. /\ c \in Nat /\ t \in Nat /\ r \in Nat /\ r = c - t /\ count = c
      /\ MaxNodes \in Nat
  BY <1>1, <1>2, <1>3, <1>4, EventsAssumption
<1>. HIDE DEF c, t, r
<1>6. Less(t) = r
  BY <1>5 DEF Less
<1>. QED  BY <1>6 DEF t, r

(* removeListener *)
LEMMA OffKeeps ==
    ASSUME Inv, NEW match, Off(match)
    PROVE  Youngest' /\ Counted' /\ CalledOnce'
<1>. DEFINE gone == Gone(match)
            left == live \ gone
<1>1. /\ Shape /\ Youngest /\ Len(heap) \in Nat
      /\ Start \in 0 .. Len(heap) /\ End \in 0 .. Len(heap)
  BY Parts DEF Inv
<1>2. /\ heap' = heap /\ fired' = fired
      /\ live' = {n \in live : heap[n].cb \notin match}
      /\ oldest' = (oldest /\ \A i \in live \ live', j \in live' : i < j)
  BY DEF Off
<1>. SUFFICES ASSUME oldest' PROVE Youngest' /\ Counted' /\ CalledOnce'
  BY DEF Youngest, Counted, CalledOnce
<1>3. oldest /\ \A i \in live \ live', j \in live' : i < j
  BY <1>2
<1>4. Linked = live
  BY <1>1, <1>3, LinkedIsLive
<1>5. gone \subseteq live /\ live' = left
  BY <1>2, <1>4 DEF Gone
<1>6. /\ count' = Less(Cardinality(gone))
      /\ Start' = First(left)
      /\ End' = IF End \in gone THEN Latest({n \in left : n < End}) ELSE End
  BY <1>1, <1>4, OffEnds
<1>7. \A i \in gone, j \in left : i < j
  BY <1>3, <1>5
<1>. HIDE DEF gone, left
<1>8. Youngest'
  <2>1. CASE left = {}
    <3>1. Start' = 0
      BY <1>6, <2>1, FirstOf
    <3>2. End \in gone => End' = 0
      <4>1. {n \in left : n < End} = {}
        BY <2>1
      <4>2. Latest({}) = 0
        BY DEF Latest
      <4>. QED  BY <1>6, <4>1, <4>2
    <3>3. End \notin gone => End' = 0
      <4>1. ASSUME Start /= 0 PROVE End \in gone
        <5>1. End \in live
          BY <1>1, <1>3, <4>1 DEF Youngest
        <5>. QED  BY <2>1, <5>1 DEF left
      <4>2. Start = 0 => End = 0
        BY <1>1, <1>3 DEF Youngest
      <4>. QED  BY <1>6, <4>1, <4>2
    <3>. QED  BY <1>5, <2>1, <3>1, <3>2, <3>3 DEF Youngest
  <2>2. CASE left /= {}
    <3>1. left \subseteq live
      BY DEF left
    <3>2. /\ Start /= 0 /\ live = Start .. Len(heap) /\ End = Len(heap)
          /\ heap[Len(heap)].next = 0
          /\ \A n \in Start .. Len(heap) - 1 : heap[n].next = n + 1
      BY <1>1, <1>3, <2>2, <3>1 DEF Youngest
    <3>3. \A n \in live : n \in Nat \ {0} /\ n <= Len(heap) /\ Start <= n
      BY <1>1, <3>2
    <3>4. left \subseteq Nat \ {0}
      BY <3>1, <3>3
    <3>5. Start' \in left /\ \A j \in left : Start' <= j
      BY <1>6, <2>2, <3>4, FirstOf
    <3>6. Start' \in live /\ Start' \in Nat \ {0} /\ Start <= Start'
          /\ Start' <= Len(heap)
      BY <3>1, <3>3, <3>5
    <3>7. End \notin gone
      <4>1. Start' <= End /\ Start' \in Nat /\ End \in Nat
        BY <1>1, <3>2, <3>6
      <4>2. ASSUME End \in gone PROVE End < Start'
        BY <1>7, <3>5, <4>2
      <4>. QED  BY <4>1, <4>2
    <3>8. left = Start' .. Len(heap)
      <4>1. ASSUME NEW i \in left PROVE i \in Start' .. Len(heap)
        <5>1. i \in Nat /\ i <= Len(heap) /\ Start' <= i
          BY <3>1, <3>3, <3>5
        <5>. QED  BY <1>1, <3>6, <5>1
      <4>2. ASSUME NEW i \in Start' .. Len(heap) PROVE i \in left
        <5>1. i \in live /\ i \in Nat /\ Start' <= i
          BY <1>1, <3>2, <3>6
        <5>2. i \notin gone
          <6>1. ASSUME i \in gone PROVE i < Start'
            BY <1>7, <3>5, <6>1
          <6>. QED  BY <3>6, <5>1, <6>1
        <5>. QED  BY <5>1, <5>2 DEF left
      <4>. QED  BY <4>1, <4>2
    <3>9. \A n \in Start' .. Len(heap) - 1 : n \in Start .. Len(heap) - 1
      BY <1>1, <3>6
    <3>. QED  BY <1>2, <1>5, <1>6, <3>2, <3>6, <3>7, <3>8, <3>9 DEF Youngest
  <2>. QED  BY <2>1, <2>2
<1>9. Counted'
  BY <1>3, <1>5, <1>6, CountDown DEF Counted, left
<1>10. CalledOnce'
  <2>1. Nodes' = Nodes /\ live' \subseteq live
    BY <1>2 DEF Nodes
  <2>. QED  BY <1>2, <1>3, <2>1 DEF Inv, CalledOnce
<1>. QED  BY <1>8, <1>9, <1>10

(* _remove of the listener that emit visits *)
LEMMA RemovalKeeps ==
    ASSUME Inv, NEW h \in Nodes, heap' = heap, Fire(h), Removal(h)
    PROVE  Youngest' /\ Counted' /\ CalledOnce'
<1>1. /\ Shape /\ Youngest /\ Len(heap) \in Nat /\ h \in 1 .. Len(heap)
      /\ Start \in 0 .. Len(heap) /\ End \in 0 .. Len(heap)
  BY Parts DEF Inv, Nodes
<1>2. /\ handles' = <<[s |-> IF h = Start THEN heap[h].next ELSE Start,
                       e |-> IF h = End THEN 0 ELSE End]>>
      /\ count' = Less(1) /\ live' = live \ {h}
      /\ oldest' = (oldest /\ h = Start) /\ heap[h].remove
  BY DEF Removal
<1>. SUFFICES ASSUME oldest' PROVE Youngest' /\ Counted' /\ CalledOnce'
  BY DEF Youngest, Counted, CalledOnce
<1>3. oldest /\ h = Start
  BY <1>2
<1>4. /\ live = Start .. Len(heap) /\ End = Len(heap)
      /\ heap[Len(heap)].next = 0
      /\ \A n \in Start .. Len(heap) - 1 : heap[n].next = n + 1
  BY <1>1, <1>3 DEF Youngest
<1>5. Start' = heap[h].next /\ End' = IF h = End THEN 0 ELSE End
  BY <1>2, <1>3, NewEnds
<1>6. h \in live
  BY <1>1, <1>3, <1>4
<1>7. Youngest'
  <2>1. CASE h = Len(heap)
    <3>1. Start' = 0 /\ End' = 0
      BY <1>4, <1>5, <2>1
    <3>2. live' = {}
      BY <1>1, <1>2, <1>3, <1>4, <2>1
    <3>. QED  BY <3>1, <3>2 DEF Youngest
  <2>2. CASE h /= Len(heap)
    <3>1. h \in Start .. Len(heap) - 1
      BY <1>1, <1>3, <2>2
    <3>2. Start' = h + 1 /\ End' = Len(heap) /\ h + 1 /= 0
      BY <1>1, <1>4, <1>5, <2>2, <3>1
    <3>3. live' = h + 1 .. Len(heap)
      BY <1>1, <1>2, <1>3, <1>4
    <3>4. \A n \in h + 1 .. Len(heap) - 1 : n \in Start .. Len(heap) - 1
      BY <1>1, <1>3
    <3>. QED  BY <1>4, <3>2, <3>3, <3>4 DEF Youngest
  <2>. QED  BY <2>1, <2>2
<1>8. Counted'
  <2>1. Cardinality({h}) = 1
    BY FS_Singleton
  <2>2. {h} \subseteq live
    BY <1>6
  <2>. QED  BY <1>2, <1>3, <2>1, <2>2, CountDown DEF Counted
<1>9. CalledOnce'
  <2>1. \A n \in Nodes : fired'[n] =
           IF n = h THEN IF fired[h] = 2 THEN 2 ELSE fired[h] + 1 ELSE fired[n]
    BY <1>1, Fires
  <2>2. fired[h] = 0
    BY <1>2, <1>3, <1>6 DEF Inv, CalledOnce
  <2>3. fired'[h] = 1
    BY <2>1, <2>2
  <2>4. Nodes' = Nodes /\ h \notin live'
    BY <1>2 DEF Nodes
  <2>5. ASSUME NEW n \in Nodes, heap[n].remove
        PROVE  fired'[n] <= 1 /\ (n \in live' => fired'[n] = 0)
    <3>1. CASE n = h
      BY <2>3, <2>4, <3>1
    <3>2. CASE n /= h
      BY <1>2, <1>3, <2>1, <2>5, <3>2 DEF Inv, CalledOnce
    <3>. QED  BY <3>1, <3>2
  <2>. QED  BY <2>4, <2>5 DEF CalledOnce
<1>. QED  BY <1>7, <1>8, <1>9

LEMMA InvKept == Inv /\ [Next]_vars => Inv'
<1>. SUFFICES ASSUME Inv, [Next]_vars PROVE Inv'
  OBVIOUS
<1>1. Shape'
  BY ShapeKept DEF Inv
<1>. SUFFICES Youngest' /\ Counted' /\ CalledOnce'
  BY <1>1 DEF Inv
<1>2. ASSUME UNCHANGED <<heap, handles, count, live, fired, oldest>>
      PROVE  Youngest' /\ Counted' /\ CalledOnce'
  BY <1>2 DEF Inv, Youngest, Counted, CalledOnce, Start, End, Nodes
<1>3. CASE UNCHANGED vars
  BY <1>2, <1>3 DEF vars
<1>4. ASSUME NEW cb \in Callbacks, NEW remove \in BOOLEAN, On(cb, remove)
      PROVE  Youngest' /\ Counted' /\ CalledOnce'
  BY <1>4, OnKeeps
<1>5. ASSUME NEW match, Off(match)
      PROVE  Youngest' /\ Counted' /\ CalledOnce'
  BY <1>5, OffKeeps
<1>6. CASE OffAll
  <2>1. Start' = 0 /\ End' = 0 /\ live' = {} /\ count' = 0 /\ Nodes' = Nodes
        /\ UNCHANGED <<heap, fired, oldest>>
    BY <1>6 DEF OffAll, Start, End, Nodes
  <2>2. Cardinality({}) = 0
    BY FS_EmptySet
  <2>. QED  BY <2>1, <2>2 DEF Inv, Youngest, Counted, CalledOnce
<1>7. CASE Emit \/ Return
  <2>1. ASSUME NEW h, NEW p, NEW below, Visits(h, p, below)
        PROVE  Youngest' /\ Counted' /\ CalledOnce'
    <3>1. h \in Nodes /\ heap' = heap /\ Shape
      BY <2>1, VisitDoes DEF Inv, Visits
    <3>2. CASE UNCHANGED <<handles, count, live, fired, oldest>>
      BY <1>2, <3>1, <3>2
    <3>3. CASE /\ Fire(h) /\ ~heap[h].remove
               /\ UNCHANGED <<handles, count, live, oldest>>
      <4>1. Youngest' /\ Counted'
        BY <3>1, <3>3 DEF Inv, Youngest, Counted, Start, End
      <4>2. CalledOnce'
        <5>1. \A n \in Nodes : n /= h => fired'[n] = fired[n]
          BY <3>1, <3>3, Fires
        <5>. QED  BY <3>1, <3>3, <5>1 DEF Inv, CalledOnce, Nodes
      <4>. QED  BY <4>1, <4>2
    <3>4. CASE Fire(h) /\ Removal(h)
      BY <3>1, <3>4, RemovalKeeps
    <3>. QED  BY <2>1, <3>1, <3>2, <3>3, <3>4, VisitDoes
  <2>2. Shape
    BY DEF Inv
  <2>. QED  BY <1>2, <1>7, <2>1, <2>2, Walks
<1>8. CASE Throw
  BY <1>2, <1>8 DEF Throw
<1>. QED  BY <1>3, <1>4, <1>5, <1>6, <1>7, <1>8 DEF Next

LEMMA InvHolds == Spec => []Inv
<1>1. Init => Inv
  <2>. SUFFICES ASSUME Init PROVE Inv
    OBVIOUS
  <2>1. Start = 0 /\ End = 0 /\ Len(heap) = 0 /\ Nodes = {}
    BY EmptySeq DEF Init, Start, End, Nodes
  <2>2. Cardinality({}) = 0
    BY FS_EmptySet
  <2>3. Youngest /\ Counted /\ CalledOnce
    BY <2>1, <2>2 DEF Init, Youngest, Counted, CalledOnce
  <2>4. Shape
    BY InitShape
  <2>. QED  BY <2>3, <2>4 DEF Inv
<1>. QED  BY <1>1, InvKept, PTL DEF Spec

(* As long as the oldest listener is removed first, what a walk reaches    *)
(* and what listenerCount returns is what on and removeListener asked for. *)
THEOREM Exact == Spec => []ExactOldestFirst
<1>1. Inv => ExactOldestFirst
  BY LinkedIsLive DEF Inv, Counted, ExactOldestFirst
<1>. QED  BY <1>1, InvHolds, PTL

(* And a listener that once mounts is called once, however callbacks emit  *)
(* again.                                                                  *)
THEOREM Once == Spec => []OnceOldestFirst
<1>1. Inv => OnceOldestFirst
  BY DEF Inv, CalledOnce, OnceOldestFirst
<1>. QED  BY <1>1, InvHolds, PTL
=============================================================================
