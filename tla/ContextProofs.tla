----------------------------- MODULE ContextProofs -----------------------------
(***************************************************************************)
(* Proofs about Context: an object is rebuilt by the constructor that was  *)
(* asked for, and the queue of create_node keeps what main sends, in order.*)
(***************************************************************************)
EXTENDS Context, SequenceTheorems, WellFoundedInduction, TLAPS

(* Error is the first constructor of both sides. *)
ErrorFirst == \A s \in Sides : /\ constructors[s] /= <<>>
                               /\ constructors[s][1] = "Error"

(* The id of a message is that of the constructor it asked for, the first  *)
(* of its name on the side it comes from, behind the built in Error.       *)
IdOf(o, msg) ==
    /\ msg.cid + 1 \in 1 .. Len(constructors[o])
    /\ constructors[o][msg.cid + 1] = msg.as
    /\ \A j \in 2 .. msg.cid : constructors[o][j] /= msg.as

Msgs == [name : Names, cid : Nat \cup {NoId}, as : Args,
         n : Nat, global : BOOLEAN]
CallsOfSend == [name : {"msg", "error"}, arg : Args, n : Nat]

Tagged(o) == {m \in Msgs :
                 /\ IF m.as = "none" THEN m.cid = NoId ELSE IdOf(o, m)
                 /\ m.name = "eval_code" => m.n = 0}

AllTagged == \A s \in Sides : chan[s] \in Seq(Tagged(Other(s)))

(* The sends of main on their way, in the channel and then in the queue.   *)
Order(u)         == \A i, j \in 1 .. Len(u) : i < j /\ u[j] > 0 => u[i] < u[j]
Ahead(u, v)      == \A i \in 1 .. Len(u) : \A j \in 1 .. Len(v) :
                        v[j] > 0 => u[i] < v[j]
Within(u, a, b)  == \A i \in 1 .. Len(u) : u[i] = 0 \/ (a < u[i] /\ u[i] <= b)
Holds(u, k)      == \E i \in 1 .. Len(u) : u[i] = k

Sent == sends["main"]
Sending == Numbers(chan["worker"])
Queued  == Numbers(send_queue)

Ordered == /\ Order(Sending) /\ Order(Queued) /\ Ahead(Sending, Queued)
           /\ Within(Sending, got, Sent) /\ Within(Queued, got, Sent)
           /\ got <= Sent

Complete == ~dropped => \A k \in got + 1 .. Sent :
                            Holds(Sending, k) \/ Holds(Queued, k)
-----------------------------------------------------------------------------
(* Lemmas about numbers and about the helpers of context.js                *)

Below == {ss \in Nat \X Nat : ss[1] < ss[2]}

(* A set of numbers that is not empty has a least one.                     *)
LEMMA Least ==
    ASSUME NEW T, T \subseteq Nat, T /= {}
    PROVE  \E x \in T : \A y \in T : x <= y
<1>1. IsWellFoundedOn(Below, Nat)
  BY NatLessThanWellFounded DEF OpToRel, Below
<1>2. \E x \in T : \A y \in T : ~(<<y, x>> \in Below)
  BY <1>1, WFMin
<1>3. \A x, y \in Nat : <<y, x>> \in Below <=> y < x
  BY DEF Below
<1>4. PICK x \in T : \A y \in T : ~(<<y, x>> \in Below)
  BY <1>2
<1>5. ASSUME NEW y \in T PROVE x <= y
  <2>1. x \in Nat /\ y \in Nat /\ ~(<<y, x>> \in Below)
    BY <1>4
  <2>2. ~(y < x)
    BY <1>3, <2>1
  <2>. QED  BY <2>1, <2>2
<1>. QED  BY <1>4, <1>5

(* CONSTRUCTORS[name] is the id of the first constructor of that name, but *)
(* for the built in one.                                                   *)
LEMMA IdIsFirst ==
    ASSUME TypeOK, NEW s \in Sides, NEW name, Positions(s, name) /= {}
    PROVE  /\ Id(s, name) \in Nat
           /\ Id(s, name) + 1 \in 1 .. Len(constructors[s])
           /\ constructors[s][Id(s, name) + 1] = name
           /\ \A j \in 2 .. Id(s, name) : constructors[s][j] /= name
<1>. DEFINE P    == Positions(s, name)
            kept == IF P \subseteq {1} THEN P ELSE P \ {1}
            q    == CHOOSE i \in kept : \A j \in kept : i <= j
<1>1. /\ P \subseteq 1 .. Len(constructors[s]) /\ Len(constructors[s]) \in Nat
      /\ kept \subseteq P /\ kept /= {}
  BY LenProperties DEF TypeOK, Positions
<1>2. Id(s, name) = q - 1
  BY <1>1 DEF Id
<1>3. q \in kept /\ \A j \in kept : q <= j
  <2>. HIDE DEF P, kept
  <2>1. kept \subseteq Nat
    BY <1>1
  <2>. QED  BY <1>1, <2>1, Least DEF q
<1>4. \A j \in P : j /= 1 => j \in kept
  OBVIOUS
<1>5. \A j \in 1 .. Len(constructors[s]) : constructors[s][j] = name <=> j \in P
  BY DEF Positions
<1>. HIDE DEF P, kept, q
<1>6. q \in 1 .. Len(constructors[s]) /\ constructors[s][q] = name
  BY <1>1, <1>3, <1>5
<1>7. \A j \in 2 .. q - 1 : constructors[s][j] /= name
  BY <1>1, <1>3, <1>4, <1>5, <1>6
<1>. QED  BY <1>1, <1>2, <1>6, <1>7

(* What send accepts has an id, and so has Error.                          *)
LEMMA AcceptedHasId ==
    ASSUME NEW s \in Sides, NEW arg, arg /= "none", Accepts(s, arg)
    PROVE  Positions(s, arg) /= {}
BY DEF Accepts, Id

LEMMA ErrorHasId ==
    ASSUME TypeOK, ErrorFirst, NEW s \in Sides
    PROVE  Positions(s, "Error") /= {}
<1>1. 1 \in Positions(s, "Error")
  BY EmptySeq, LenProperties DEF ErrorFirst, Positions, TypeOK
<1>. QED  BY <1>1

LEMMA SidesTwo == /\ Sides = {"main", "worker"}
                  /\ Other("main") = "worker" /\ Other("worker") = "main"
                  /\ \A s \in Sides : Other(s) \in Sides /\ Other(Other(s)) = s
BY DEF Sides, Other

(* The messages the code makes ask for constructors by their ids.          *)
LEMMA PlainTagged ==
    ASSUME NEW o \in Sides, NEW name \in Names
    PROVE  Message(name, NoId) \in Tagged(o)
BY DEF Message, Tagged, Msgs, NoId, Args

LEMMA ErrorTagged ==
    ASSUME TypeOK, ErrorFirst, NEW s \in Sides, NEW global \in BOOLEAN
    PROVE  Error(s, global) \in Tagged(s) /\ Error(s, global).n = 0
<1>. DEFINE e == Error(s, global)
<1>1. e = [name |-> "error", cid |-> Id(s, "Error"), as |-> "Error", n |-> 0,
           global |-> global]
  <2>. DEFINE m == [name |-> "error", cid |-> Id(s, "Error"), as |-> "none",
                    n |-> 0, global |-> FALSE]
  <2>1. e = [m EXCEPT !.global = global, !.as = "Error"]
    BY DEF Error, Message
  <2>. QED  BY <2>1
<1>2. Positions(s, "Error") /= {}
  BY ErrorHasId
<1>3. e \in Msgs
  BY <1>1, <1>2, IdIsFirst DEF Msgs, Names, Args, Registrable
<1>4. IdOf(s, e)
  BY <1>1, <1>2, IdIsFirst DEF IdOf
<1>. QED  BY <1>1, <1>3, <1>4 DEF Tagged

LEMMA EnvelopeTagged ==
    ASSUME TypeOK, NEW s \in Sides, NEW call \in CallsOfSend,
           Accepts(s, call.arg)
    PROVE  Envelope(s, call) \in Tagged(s) /\ Envelope(s, call).n = call.n
<1>. DEFINE e == Envelope(s, call)
            cid == IF call.arg = "none" THEN NoId ELSE Id(s, call.arg)
<1>1. e = [name |-> call.name, cid |-> cid, as |-> call.arg, n |-> call.n,
           global |-> FALSE]
  <2>. DEFINE m == [name |-> call.name, cid |-> cid, as |-> "none", n |-> 0,
                    global |-> FALSE]
  <2>1. e = [m EXCEPT !.as = call.arg, !.n = call.n]
    BY DEF Envelope, Message
  <2>. QED  BY <2>1
<1>2. call.arg /= "none" => Positions(s, call.arg) /= {}
  BY AcceptedHasId
<1>3. cid \in Nat \cup {NoId}
  BY <1>2, IdIsFirst
<1>4. call.arg /= "none" => IdOf(s, e)
  BY <1>1, <1>2, IdIsFirst DEF IdOf
<1>. HIDE DEF cid
<1>5. e \in Msgs
  BY <1>1, <1>3 DEF Msgs, CallsOfSend, Names
<1>. QED  BY <1>1, <1>4, <1>5 DEF Tagged, cid, CallsOfSend

(* What RecvRunning sends of the queue: calls that send accepts.           *)
BadCalls == {i \in 1 .. Len(send_queue) : ~Accepts("main", send_queue[i].arg)}
GoodEnd  == IF BadCalls = {} THEN Len(send_queue)
            ELSE (CHOOSE i \in BadCalls : \A j \in BadCalls : i <= j) - 1
Flush    == Flushed(SubSeq(send_queue, 1, GoodEnd))

LEMMA FlushTagged ==
    ASSUME TypeOK
    PROVE  /\ Len(send_queue) \in Nat
           /\ GoodEnd \in 0 .. Len(send_queue) /\ Len(Flush) = GoodEnd
           /\ Flush \in Seq(Tagged("main"))
           /\ \A i \in 1 .. GoodEnd : Flush[i].n = send_queue[i].n
           /\ BadCalls = {} => GoodEnd = Len(send_queue)
<1>1. send_queue \in Seq(CallsOfSend) /\ Len(send_queue) \in Nat
  BY LenProperties DEF TypeOK, CallsOfSend
<1>2. /\ GoodEnd \in 0 .. Len(send_queue)
      /\ \A i \in 1 .. GoodEnd : Accepts("main", send_queue[i].arg)
  <2>1. CASE BadCalls = {}
    BY <1>1, <2>1 DEF GoodEnd, BadCalls
  <2>2. CASE BadCalls /= {}
    <3>. DEFINE q == CHOOSE i \in BadCalls : \A j \in BadCalls : i <= j
    <3>1. BadCalls \subseteq Nat
      BY DEF BadCalls
    <3>2. \E i \in BadCalls : \A j \in BadCalls : i <= j
      BY <2>2, <3>1, Least
    <3>3. q \in BadCalls /\ \A j \in BadCalls : q <= j
      BY <3>2
    <3>4. GoodEnd = q - 1
      BY <2>2 DEF GoodEnd
    <3>5. q \in 1 .. Len(send_queue)
      BY <3>3 DEF BadCalls
    <3>. HIDE DEF q
    <3>6. ASSUME NEW i \in 1 .. q - 1 PROVE Accepts("main", send_queue[i].arg)
      <4>1. i \in 1 .. Len(send_queue) /\ i \in Nat /\ q \in Nat /\ i < q
        BY <1>1, <3>5
      <4>2. i \notin BadCalls
        BY <3>3, <4>1
      <4>. QED  BY <4>1, <4>2 DEF BadCalls
    <3>. QED  BY <1>1, <3>4, <3>5, <3>6
  <2>. QED  BY <2>1, <2>2
<1>. DEFINE sub == SubSeq(send_queue, 1, GoodEnd)
<1>3. /\ Len(sub) = GoodEnd
      /\ \A i \in 1 .. GoodEnd : sub[i] = send_queue[i]
  BY <1>1, <1>2, SubSeqProperties
<1>4. Flush = [i \in 1 .. GoodEnd |-> Envelope("main", send_queue[i])]
  BY <1>3 DEF Flush, Flushed
<1>5. ASSUME NEW i \in 1 .. GoodEnd
      PROVE  /\ Flush[i] \in Tagged("main") /\ Flush[i].n = send_queue[i].n
  <2>1. i \in 1 .. Len(send_queue) /\ Accepts("main", send_queue[i].arg)
    BY <1>1, <1>2
  <2>2. send_queue[i] \in CallsOfSend
    BY <1>1, <2>1, ElementOfSeq
  <2>. QED  BY <1>4, <2>1, <2>2, EnvelopeTagged, SidesTwo
<1>6. Flush \in Seq(Tagged("main")) /\ Len(Flush) = GoodEnd
  BY <1>2, <1>4, <1>5
<1>. QED  BY <1>1, <1>2, <1>5, <1>6 DEF GoodEnd
-----------------------------------------------------------------------------
(* Types, and the ids of the messages under way                            *)

TagInv == TypeOK /\ ErrorFirst /\ AllTagged

LEMMA InitTags == Init => TagInv
<1>. SUFFICES ASSUME Init PROVE TagInv
  OBVIOUS
<1>1. \A S : <<>> \in Seq(S)
  BY EmptySeq
<1>2. <<"Error">> \in Seq(Registrable)
  BY DEF Registrable
<1>3. ErrorFirst /\ AllTagged
  BY <1>1 DEF Init, ErrorFirst, AllTagged
<1>4. setup \in Setups /\ boot \in Boot
  BY DEF Init, Boot
<1>5. chan \in [Sides -> Seq([name : Names, cid : Nat \cup {NoId},
                              as : Args, n : Nat,
                              global : BOOLEAN])]
  BY <1>1 DEF Init
<1>6. direct \in BOOLEAN
  BY DEF Init, Setups
<1>. QED  BY <1>1, <1>2, <1>3, <1>4, <1>5, <1>6 DEF Init, TypeOK, TagInv

(* Messages that ask for their constructors are messages.                  *)
LEMMA TagsType ==
    ASSUME NEW c, c = [s \in Sides |-> c[s]],
           \A s \in Sides : c[s] \in Seq(Tagged(Other(s)))
    PROVE  c \in [Sides -> Seq([name : Names, cid : Nat \cup {NoId},
                                as : Args, n : Nat,
                                global : BOOLEAN])]
<1>1. \A o : Tagged(o) \subseteq Msgs
  BY DEF Tagged
<1>2. \A s \in Sides : c[s] \in Seq(Msgs)
  BY <1>1, SeqMonotonic
<1>. QED  BY <1>2 DEF Msgs

(* More constructors leave the ids as they are.                            *)
LEMMA RegisterTags ==
    ASSUME TagInv, NEW s \in Sides, NEW name \in Registrable, Register(s, name)
    PROVE  TagInv'
<1>1. \A o \in Sides : /\ constructors[o] \in Seq(Registrable)
                       /\ Len(constructors[o]) \in Nat
  BY LenProperties DEF TagInv, TypeOK
<1>2. constructors' = [constructors EXCEPT ![s] = Append(constructors[s], name)]
      /\ UNCHANGED <<setup, chan, direct, send_queue, boot, usage, got, dropped>>
  BY DEF Register
<1>3. /\ Append(constructors[s], name) \in Seq(Registrable)
      /\ Len(Append(constructors[s], name)) = Len(constructors[s]) + 1
      /\ \A i \in 1 .. Len(constructors[s]) :
            Append(constructors[s], name)[i] = constructors[s][i]
  BY <1>1, AppendProperties
<1>4. \A o \in Sides :
         /\ constructors'[o] \in Seq(Registrable)
         /\ Len(constructors'[o]) \in Nat
         /\ Len(constructors[o]) <= Len(constructors'[o])
         /\ \A i \in 1 .. Len(constructors[o]) :
               constructors'[o][i] = constructors[o][i]
  <2>. SUFFICES ASSUME NEW o \in Sides
       PROVE  /\ constructors'[o] \in Seq(Registrable)
              /\ Len(constructors'[o]) \in Nat
              /\ Len(constructors[o]) <= Len(constructors'[o])
              /\ \A i \in 1 .. Len(constructors[o]) :
                    constructors'[o][i] = constructors[o][i]
    OBVIOUS
  <2>1. constructors'[o] = IF o = s THEN Append(constructors[s], name)
                                    ELSE constructors[o]
    BY <1>2 DEF TagInv, TypeOK
  <2>2. CASE o = s
    BY <1>1, <1>3, <2>1, <2>2
  <2>3. CASE o /= s
    BY <1>1, <2>1, <2>3
  <2>. QED  BY <2>2, <2>3
<1>5. constructors' \in [Sides -> Seq(Registrable)]
  BY <1>2, <1>3 DEF TagInv, TypeOK
<1>6. ErrorFirst'
  <2>1. \A o \in Sides : 1 \in 1 .. Len(constructors[o])
    BY <1>1, EmptySeq DEF TagInv, ErrorFirst
  <2>. QED  BY <1>1, <1>4, <2>1, EmptySeq DEF TagInv, ErrorFirst
<1>7. \A o \in Sides : Tagged(o) \subseteq Tagged(o)'
  <2>. SUFFICES ASSUME NEW o \in Sides, NEW m \in Msgs, IdOf(o, m)
                PROVE  IdOf(o, m)'
    BY DEF Tagged
  <2>1. m.cid \in Nat
    BY <1>1 DEF IdOf, Msgs, NoId
  <2>. QED  BY <1>1, <1>4, <2>1 DEF IdOf
<1>8. AllTagged'
  BY <1>2, <1>7, SidesTwo, SeqMonotonic DEF TagInv, AllTagged
<1>. QED  BY <1>2, <1>5, <1>6, <1>8 DEF TagInv, TypeOK, usage

(* What is sent asks for its constructor, and what is left does so still.  *)
LEMMA SendTags ==
    ASSUME TagInv, UNCHANGED constructors,
           \A s \in Sides : chan'[s] \in Seq(Tagged(Other(s))),
           chan' = [s \in Sides |-> chan'[s]]
    PROVE  /\ ErrorFirst' /\ AllTagged'
           /\ chan' \in [Sides -> Seq([name : Names, cid : Nat \cup {NoId},
                                       as : Args, n : Nat,
                                       global : BOOLEAN])]
<1>1. \A o : Tagged(o)' = Tagged(o)
  BY DEF Tagged, IdOf
<1>2. AllTagged'
  BY <1>1 DEF AllTagged
<1>. QED  BY <1>2, TagsType DEF TagInv, ErrorFirst

LEMMA NextTags == TagInv /\ [Next]_vars => TagInv'
<1>. SUFFICES ASSUME TagInv, [Next]_vars PROVE TagInv'
  OBVIOUS
<1>. USE DEF usage
<1>t. /\ TypeOK /\ ErrorFirst /\ AllTagged
      /\ chan \in [Sides -> Seq(Msgs)]
      /\ \A s \in Sides : chan[s] \in Seq(Tagged(Other(s)))
      /\ Sides = {"main", "worker"}
      /\ Other("main") = "worker" /\ Other("worker") = "main"
      /\ chan["main"] \in Seq(Tagged("worker"))
      /\ chan["worker"] \in Seq(Tagged("main"))
  BY SidesTwo DEF TagInv, AllTagged, TypeOK, Msgs
<1>1. CASE UNCHANGED vars
  BY <1>1 DEF vars, TagInv, TypeOK, ErrorFirst, AllTagged, Tagged, IdOf
<1>2. CASE \E s \in Sides, name \in Registrable : Register(s, name)
  BY <1>2, RegisterTags
<1>p. ASSUME NEW s \in Sides, NEW m \in Tagged(s), Post(s, m)
      PROVE  /\ \A o \in Sides : chan'[o] \in Seq(Tagged(Other(o)))
             /\ chan' = [o \in Sides |-> chan'[o]]
  <2>1. chan' = [chan EXCEPT ![Other(s)] = Append(chan[Other(s)], m)]
    BY <1>p DEF Post
  <2>2. Append(chan[Other(s)], m) \in Seq(Tagged(s))
    BY <1>p, <1>t, SidesTwo, AppendProperties
  <2>. QED  BY <1>t, <2>1, <2>2, SidesTwo
<1>3. ASSUME NEW s \in Sides, NEW arg \in Args, Send(s, arg)
      PROVE  TagInv'
  <2>. DEFINE call == Call("msg", arg, sends[s] + 1)
  <2>1. /\ sends' = [sends EXCEPT ![s] = sends[s] + 1]
        /\ UNCHANGED <<setup, constructors, direct, boot, errors, got, dropped>>
        /\ \/ /\ s = "main" /\ ~direct /\ send_queue' = Append(send_queue, call)
              /\ chan' = chan
           \/ /\ Accepts(s, arg) /\ Post(s, Envelope(s, call))
              /\ send_queue' = send_queue
    BY <1>3 DEF Send
  <2>2. call \in CallsOfSend /\ call.arg = arg
    BY <1>t DEF Call, CallsOfSend, TypeOK
  <2>3. /\ \A o \in Sides : chan'[o] \in Seq(Tagged(Other(o)))
        /\ chan' = [o \in Sides |-> chan'[o]]
    <3>1. CASE chan' = chan
      BY <1>t, <3>1
    <3>2. CASE Accepts(s, arg) /\ Post(s, Envelope(s, call))
      <4>1. Envelope(s, call) \in Tagged(s)
        BY <1>t, <2>2, <3>2, EnvelopeTagged
      <4>. QED  BY <1>p, <3>2, <4>1
    <3>. QED  BY <2>1, <3>1, <3>2
  <2>4. /\ send_queue' \in Seq([name : {"msg", "error"}, arg : Args, n : Nat])
        /\ direct' => send_queue' = <<>>
    <3>1. send_queue \in Seq(CallsOfSend) /\ (direct => send_queue = <<>>)
      BY <1>t DEF TypeOK, CallsOfSend
    <3>2. Append(send_queue, call) \in Seq(CallsOfSend)
      BY <2>2, <3>1, AppendProperties
    <3>3. direct' = direct
      BY <2>1
    <3>4. \/ send_queue' = send_queue
          \/ send_queue' = Append(send_queue, call) /\ ~direct
      BY <2>1
    <3>. HIDE DEF call
    <3>. QED  BY <3>1, <3>2, <3>3, <3>4 DEF CallsOfSend
  <2>5. sends' \in [Sides -> Nat]
    BY <1>t, <2>1 DEF TypeOK
  <2>. QED  BY <1>t, <2>1, <2>3, <2>4, <2>5, SendTags DEF TagInv, TypeOK
<1>4. ASSUME NEW s \in Sides, SendError(s)
      PROVE  TagInv'
  <2>1. PICK global \in BOOLEAN : Post(s, Error(s, global))
    BY <1>4 DEF SendError
  <2>2. Error(s, global) \in Tagged(s)
    BY <1>t, ErrorTagged
  <2>3. /\ \A o \in Sides : chan'[o] \in Seq(Tagged(Other(o)))
        /\ chan' = [o \in Sides |-> chan'[o]]
    BY <1>p, <2>1, <2>2
  <2>. QED  BY <1>t, <1>4, <2>3, SendTags DEF SendError, TagInv, TypeOK
<1>5. CASE Load
  <2>1. Message("thread_ready", NoId) \in Tagged("worker")
    BY <1>t, PlainTagged DEF Names
  <2>2. /\ \A o \in Sides : chan'[o] \in Seq(Tagged(Other(o)))
        /\ chan' = [o \in Sides |-> chan'[o]]
    BY <1>p, <1>t, <1>5, <2>1 DEF Load
  <2>. QED  BY <1>t, <1>5, <2>2, SendTags DEF Load, TagInv, TypeOK, Boot
<1>6. CASE EvalReturns
  <2>1. CodeAnswers \in Seq(Tagged("worker"))
    <3>1. /\ Message("code_running", NoId) \in Tagged("worker")
          /\ Message("error", NoId) \in Tagged("worker")
          /\ Error("worker", setup.code = "throws") \in Tagged("worker")
      BY <1>t, PlainTagged, ErrorTagged DEF Names
    <3>. QED  BY <3>1 DEF CodeAnswers
  <2>2. chan' = [chan EXCEPT !["main"] = chan["main"] \o CodeAnswers]
    BY <1>6 DEF EvalReturns
  <2>3. chan["main"] \o CodeAnswers \in Seq(Tagged("worker"))
    BY <1>t, <2>1, ConcatProperties
  <2>4. /\ \A o \in Sides : chan'[o] \in Seq(Tagged(Other(o)))
        /\ chan' = [o \in Sides |-> chan'[o]]
    BY <1>t, <2>2, <2>3
  <2>. QED  BY <1>t, <1>6, <2>4, SendTags DEF EvalReturns, TagInv, TypeOK, Boot
<1>7. ASSUME NEW s \in Sides, RecvUser(s) PROVE TagInv'
  <2>. DEFINE rest == Tail(chan[s])
              none == Message("error", NoId)
              call == Call("error", "none", 0)
  <2>1. /\ chan[s] /= <<>>
        /\ \/ ~direct /\ send_queue' = Append(send_queue, call)
              /\ chan' = [chan EXCEPT ![s] = rest]
           \/ chan' = [chan EXCEPT ![s] = rest,
                                   ![Other(s)] = Append(chan[Other(s)], none)]
              /\ send_queue' = send_queue
           \/ chan' = [chan EXCEPT ![s] = rest] /\ send_queue' = send_queue
        /\ got' = IF s = "worker" /\ Head(chan[s]).n > 0 THEN Head(chan[s]).n
                                                         ELSE got
        /\ UNCHANGED <<setup, constructors, sends, errors, direct, boot, dropped>>
    BY <1>7, SidesTwo DEF RecvUser, Answer, Received
  <2>2. /\ rest \in Seq(Tagged(Other(s))) /\ Head(chan[s]) \in Tagged(Other(s))
        /\ none \in Tagged(s)
        /\ Append(chan[Other(s)], none) \in Seq(Tagged(s))
    <3>1. none \in Tagged(s)
      BY PlainTagged DEF Names
    <3>. QED  BY <1>t, <2>1, <3>1, SidesTwo, HeadTailProperties, AppendProperties
  <2>3. /\ \A o \in Sides : chan'[o] \in Seq(Tagged(Other(o)))
        /\ chan' = [o \in Sides |-> chan'[o]]
    <3>. HIDE DEF rest, none
    <3>1. CASE chan' = [chan EXCEPT ![s] = rest]
      BY <1>t, <2>2, <3>1
    <3>2. CASE chan' = [chan EXCEPT ![s] = rest,
                                   ![Other(s)] = Append(chan[Other(s)], none)]
      BY <1>t, <2>2, <3>2
    <3>. QED  BY <2>1, <3>1, <3>2
  <2>4. /\ send_queue' \in Seq([name : {"msg", "error"}, arg : Args, n : Nat])
        /\ direct' => send_queue' = <<>>
    <3>1. send_queue \in Seq(CallsOfSend) /\ (direct => send_queue = <<>>)
      BY <1>t DEF TypeOK, CallsOfSend
    <3>2. call \in CallsOfSend
      BY DEF CallsOfSend, Call, Args
    <3>3. Append(send_queue, call) \in Seq(CallsOfSend)
      BY <3>1, <3>2, AppendProperties
    <3>4. direct' = direct
      BY <2>1
    <3>5. \/ send_queue' = send_queue
          \/ send_queue' = Append(send_queue, call) /\ ~direct
      BY <2>1
    <3>. HIDE DEF call
    <3>. QED  BY <3>1, <3>3, <3>4, <3>5 DEF CallsOfSend
  <2>5. got' \in Nat
    BY <1>t, <2>1, <2>2 DEF TypeOK, Tagged, Msgs
  <2>. QED  BY <1>t, <2>1, <2>3, <2>4, <2>5, SendTags DEF TagInv, TypeOK
<1>8. CASE RecvReady
  <2>1. chan["main"] /= <<>>
        /\ chan' = [chan EXCEPT !["main"] = Tail(chan["main"]),
              !["worker"] = Append(chan["worker"], Message("eval_code", NoId))]
    BY <1>8 DEF RecvReady
  <2>2. /\ Tail(chan["main"]) \in Seq(Tagged("worker"))
        /\ Append(chan["worker"], Message("eval_code", NoId))
             \in Seq(Tagged("main"))
    <3>1. Message("eval_code", NoId) \in Tagged("main")
      BY <1>t, PlainTagged DEF Names
    <3>. QED  BY <1>t, <2>1, <3>1, HeadTailProperties, AppendProperties
  <2>3. /\ \A o \in Sides : chan'[o] \in Seq(Tagged(Other(o)))
        /\ chan' = [o \in Sides |-> chan'[o]]
    BY <1>t, <2>1, <2>2
  <2>. QED  BY <1>t, <1>8, <2>3, SendTags DEF RecvReady, TagInv, TypeOK
<1>9. CASE RecvRunning
  <2>. DEFINE answer == IF BadCalls = {} THEN <<>>
                                         ELSE <<Message("error", NoId)>>
  <2>1. chan["main"] /= <<>>
        /\ chan' = [chan EXCEPT !["main"] = Tail(chan["main"]),
              !["worker"] = chan["worker"] \o Flush \o answer]
        /\ dropped' \in BOOLEAN
    BY <1>9, <1>t DEF RecvRunning, BadCalls, GoodEnd, Flush, TypeOK
  <2>2. /\ Tail(chan["main"]) \in Seq(Tagged("worker"))
        /\ chan["worker"] \o Flush \o answer \in Seq(Tagged("main"))
    <3>1. answer \in Seq(Tagged("main"))
      <4>1. Message("error", NoId) \in Tagged("main")
        BY <1>t, PlainTagged DEF Names
      <4>. QED  BY <4>1
    <3>2. Flush \in Seq(Tagged("main"))
      BY <1>t, FlushTagged
    <3>. HIDE DEF answer
    <3>. QED  BY <1>t, <2>1, <3>1, <3>2, HeadTailProperties, ConcatProperties
  <2>3. /\ \A o \in Sides : chan'[o] \in Seq(Tagged(Other(o)))
        /\ chan' = [o \in Sides |-> chan'[o]]
    <3>. HIDE DEF answer
    <3>. QED  BY <1>t, <2>1, <2>2
  <2>4. <<>> \in Seq([name : {"msg", "error"}, arg : Args, n : Nat])
    BY EmptySeq
  <2>. QED  BY <1>t, <1>9, <2>1, <2>3, <2>4, SendTags
            DEF RecvRunning, TagInv, TypeOK
<1>10. CASE RecvEval
  <2>1. chan["worker"] /= <<>>
        /\ chan' = [chan EXCEPT !["worker"] = Tail(chan["worker"])]
    BY <1>10 DEF RecvEval
  <2>2. Tail(chan["worker"]) \in Seq(Tagged("main"))
    BY <1>t, <2>1, HeadTailProperties
  <2>3. /\ \A o \in Sides : chan'[o] \in Seq(Tagged(Other(o)))
        /\ chan' = [o \in Sides |-> chan'[o]]
    BY <1>t, <2>1, <2>2
  <2>. QED  BY <1>t, <1>10, <2>3, SendTags DEF RecvEval, TagInv, TypeOK, Boot
<1>. QED  BY <1>1, <1>2, <1>3, <1>4, <1>5, <1>6, <1>7, <1>8, <1>9, <1>10
          DEF Next, Recv

LEMMA TagsHold == Spec => []TagInv
BY InitTags, NextTags, PTL DEF Spec

THEOREM TypeCorrect == Spec => []TypeOK
<1>1. TagInv => TypeOK
  BY DEF TagInv
<1>. QED  BY <1>1, TagsHold, PTL

(* Of two sides that made the same registrations, where one may be ahead,  *)
(* each has the constructor of the other wherever both have one.           *)
LEMMA SameConstructor ==
    ASSUME TagInv, Aligned, NEW s \in Sides, NEW o \in Sides
    PROVE  \A i \in 1 .. Len(constructors[s]) :
               i \in 1 .. Len(constructors[o])
                 => constructors[s][i] = constructors[o][i]
BY SidesTwo DEF Aligned, IsPrefix

(* An object is not rebuilt by a constructor of another name than its      *)
(* sender asked for, although only a number says which, and is rebuilt     *)
(* once the receiver has registered the name, too: as long as both sides   *)
(* register alike, and an Error registered again included.                 *)
THEOREM ConstructorsMatch == Spec => []RightConstructor
<1>1. TagInv => RightConstructor
  <2>. SUFFICES ASSUME TagInv, Aligned, NEW s \in Sides,
                       NEW by \in Registrable, chan[s] /= <<>>
                PROVE  /\ Constructor(s, Head(chan[s])) = by
                              => Head(chan[s]).as = by
                       /\ Head(chan[s]).as = by /\ Follows(s, by)
                              => Constructor(s, Head(chan[s])) = by
    BY DEF RightConstructor, NextBuilt, NextAsks
  <2>. DEFINE m == Head(chan[s])
              o == Other(s)
  <2>1. /\ o \in Sides /\ m \in Tagged(o)
        /\ Len(constructors[s]) \in Nat /\ Len(constructors[o]) \in Nat
        /\ by /= "none" /\ by /= "nobody"
        /\ 1 \in 1 .. Len(constructors[s])
    BY SidesTwo, EmptySeq, HeadTailProperties, LenProperties, ContextAssumption
    DEF TagInv, AllTagged, TypeOK, Registrable, ErrorFirst
  <2>f. Follows(s, by) => (Registered(o, by) => Registered(s, by))
    BY DEF Follows
  <2>. HIDE DEF m, o
  <2>2. m.cid \in Nat \cup {NoId} /\ (m.as = "none" => m.cid = NoId)
        /\ (m.as /= "none" => IdOf(o, m))
    BY <2>1 DEF Tagged, Msgs
  <2>3. ASSUME Constructor(s, m) = by
        PROVE  m.as = by
    <3>1. m.cid \in 0 .. Len(constructors[s]) - 1
          /\ constructors[s][m.cid + 1] = by
      BY <2>1, <2>3 DEF Constructor
    <3>2. m.as /= "none"
      BY <2>2, <3>1 DEF NoId
    <3>3. m.cid + 1 \in 1 .. Len(constructors[s])
          /\ m.cid + 1 \in 1 .. Len(constructors[o])
          /\ constructors[o][m.cid + 1] = m.as
      BY <2>1, <2>2, <3>1, <3>2 DEF IdOf
    <3>. QED  BY <2>1, <3>1, <3>3, SameConstructor
  <2>4. ASSUME m.as = by, Follows(s, by)
        PROVE  Constructor(s, m) = by
    <3>1. IdOf(o, m) /\ m.cid \in Nat
      BY <2>1, <2>2, <2>4 DEF IdOf, NoId
    <3>2. m.cid + 1 \in 1 .. Len(constructors[s])
      <4>1. CASE m.cid = 0
        BY <2>1, <4>1
      <4>2. CASE m.cid > 0
        <5>1. m.cid + 1 \in Positions(o, by) \ {1}
          BY <2>4, <3>1, <4>2 DEF IdOf, Positions
        <5>2. Registered(s, by)
          BY <2>4, <2>f, <5>1 DEF Registered
        <5>3. PICK p \in 1 .. Len(constructors[s]) :
                     constructors[s][p] = by /\ p /= 1
          BY <5>2 DEF Registered, Positions
        <5>. SUFFICES ASSUME Len(constructors[s]) <= m.cid PROVE FALSE
          BY <2>1, <3>1
        <5>4. p \in 2 .. m.cid /\ p \in 1 .. Len(constructors[o])
          BY <2>1, <3>1, <5>3 DEF IdOf
        <5>5. constructors[o][p] = by
          BY <2>1, <5>3, <5>4, SameConstructor
        <5>. QED  BY <2>4, <3>1, <5>4, <5>5 DEF IdOf
      <4>. QED  BY <3>1, <4>1, <4>2
    <3>3. constructors[s][m.cid + 1] = by
      BY <2>1, <2>4, <3>1, <3>2, SameConstructor DEF IdOf
    <3>. QED  BY <2>1, <3>1, <3>2, <3>3 DEF Constructor
  <2>. QED  BY <2>3, <2>4 DEF m
<1>. QED  BY <1>1, TagsHold, PTL
-----------------------------------------------------------------------------
(* The numbers of the sends under way                                      *)

LEMMA NumbersOf ==
    ASSUME NEW S, NEW s \in Seq(S), \A m \in S : m.n \in Nat
    PROVE  /\ Numbers(s) \in Seq(Nat) /\ Len(Numbers(s)) = Len(s)
           /\ \A m \in S : Numbers(Append(s, m)) = Append(Numbers(s), m.n)
           /\ s /= <<>> => /\ Numbers(s) /= <<>>
                           /\ Numbers(Tail(s)) = Tail(Numbers(s))
                           /\ Head(Numbers(s)) = Head(s).n
           /\ \A t \in Seq(S) : Numbers(s \o t) = Numbers(s) \o Numbers(t)
<1>1. ASSUME NEW t \in Seq(S)
      PROVE  /\ Len(t) \in Nat /\ Numbers(t) = [i \in 1 .. Len(t) |-> t[i].n]
             /\ Numbers(t) \in Seq(Nat) /\ Len(Numbers(t)) = Len(t)
             /\ \A i \in 1 .. Len(t) : t[i] \in S /\ Numbers(t)[i] = t[i].n
  <2>1. Len(t) \in Nat /\ \A i \in 1 .. Len(t) : t[i] \in S /\ t[i].n \in Nat
    BY LenProperties, ElementOfSeq
  <2>. QED  BY <2>1 DEF Numbers
<1>2. ASSUME NEW m \in S
      PROVE  Numbers(Append(s, m)) = Append(Numbers(s), m.n)
  <2>1. /\ Append(s, m) \in Seq(S) /\ Len(Append(s, m)) = Len(s) + 1
        /\ \A i \in 1 .. Len(s) : Append(s, m)[i] = s[i]
        /\ Append(s, m)[Len(s) + 1] = m
    BY AppendProperties
  <2>2. /\ Numbers(Append(s, m)) \in Seq(Nat)
        /\ Append(Numbers(s), m.n) \in Seq(Nat)
        /\ Len(Numbers(Append(s, m))) = Len(s) + 1
        /\ Len(Append(Numbers(s), m.n)) = Len(s) + 1
        /\ \A i \in 1 .. Len(s) : Append(Numbers(s), m.n)[i] = Numbers(s)[i]
        /\ Append(Numbers(s), m.n)[Len(s) + 1] = m.n
    <3>1. Numbers(s) \in Seq(Nat) /\ Len(Numbers(s)) = Len(s) /\ m.n \in Nat
      BY <1>1
    <3>2. /\ Append(Numbers(s), m.n) \in Seq(Nat)
          /\ Len(Append(Numbers(s), m.n)) = Len(s) + 1
          /\ \A i \in 1 .. Len(s) : Append(Numbers(s), m.n)[i] = Numbers(s)[i]
          /\ Append(Numbers(s), m.n)[Len(s) + 1] = m.n
      BY <3>1, AppendProperties
    <3>. QED  BY <1>1, <2>1, <3>2
  <2>3. ASSUME NEW i \in 1 .. Len(s) + 1
        PROVE  Numbers(Append(s, m))[i] = Append(Numbers(s), m.n)[i]
    <3>1. Numbers(Append(s, m))[i] = Append(s, m)[i].n
      BY <1>1, <2>1
    <3>2. CASE i \in 1 .. Len(s)
      BY <1>1, <2>1, <2>2, <3>1, <3>2
    <3>3. CASE i = Len(s) + 1
      BY <2>1, <2>2, <3>1, <3>3
    <3>. QED  BY <1>1, <3>2, <3>3
  <2>. QED  BY <2>2, <2>3, SeqEqual
<1>3. ASSUME s /= <<>>
      PROVE  /\ Numbers(s) /= <<>> /\ Numbers(Tail(s)) = Tail(Numbers(s))
             /\ Head(Numbers(s)) = Head(s).n
  <2>1. Numbers(s) /= <<>> /\ Len(s) \in Nat \ {0}
    BY <1>1, <1>3, EmptySeq
  <2>2. /\ Tail(s) \in Seq(S) /\ Len(Tail(s)) = Len(s) - 1
        /\ \A i \in 1 .. Len(Tail(s)) : Tail(s)[i] = s[i + 1]
    BY <1>3, HeadTailProperties
  <2>3. /\ Tail(Numbers(s)) \in Seq(Nat) /\ Len(Tail(Numbers(s))) = Len(s) - 1
        /\ \A i \in 1 .. Len(s) - 1 : Tail(Numbers(s))[i] = Numbers(s)[i + 1]
    BY <1>1, <2>1, HeadTailProperties
  <2>4. ASSUME NEW i \in 1 .. Len(s) - 1
        PROVE  Numbers(Tail(s))[i] = Tail(Numbers(s))[i]
    <3>1. i + 1 \in 1 .. Len(s)
      BY <2>1
    <3>2. Numbers(Tail(s))[i] = Tail(s)[i].n /\ Tail(s)[i] = s[i + 1]
      BY <1>1, <2>2
    <3>3. Tail(Numbers(s))[i] = s[i + 1].n
      BY <1>1, <2>3, <3>1
    <3>. QED  BY <3>2, <3>3
  <2>5. Numbers(Tail(s)) = Tail(Numbers(s))
    BY <1>1, <2>2, <2>3, <2>4, SeqEqual
  <2>6. Head(Numbers(s)) = Head(s).n
    BY <1>1, <2>1
  <2>. QED  BY <2>1, <2>5, <2>6
<1>4. ASSUME NEW t \in Seq(S)
      PROVE  Numbers(s \o t) = Numbers(s) \o Numbers(t)
  <2>1. /\ s \o t \in Seq(S) /\ Len(s \o t) = Len(s) + Len(t)
        /\ \A i \in 1 .. Len(s) + Len(t) : (s \o t)[i] =
              IF i <= Len(s) THEN s[i] ELSE t[i - Len(s)]
    BY ConcatProperties
  <2>2. /\ Numbers(s) \o Numbers(t) \in Seq(Nat)
        /\ Len(Numbers(s) \o Numbers(t)) = Len(s) + Len(t)
        /\ \A i \in 1 .. Len(s) + Len(t) : (Numbers(s) \o Numbers(t))[i] =
              IF i <= Len(s) THEN Numbers(s)[i] ELSE Numbers(t)[i - Len(s)]
    <3>1. /\ Numbers(s) \in Seq(Nat) /\ Numbers(t) \in Seq(Nat)
          /\ Len(Numbers(s)) = Len(s) /\ Len(Numbers(t)) = Len(t)
      BY <1>1
    <3>. QED  BY <3>1, ConcatProperties
  <2>3. \A i \in 1 .. Len(s) + Len(t) :
           Numbers(s \o t)[i] = (Numbers(s) \o Numbers(t))[i]
    <3>. SUFFICES ASSUME NEW i \in 1 .. Len(s) + Len(t)
                  PROVE  Numbers(s \o t)[i] = (Numbers(s) \o Numbers(t))[i]
      OBVIOUS
    <3>1. Numbers(s \o t)[i] = (s \o t)[i].n
      BY <1>1, <2>1
    <3>2. CASE i <= Len(s)
      BY <1>1, <2>1, <2>2, <3>1, <3>2
    <3>3. CASE ~(i <= Len(s))
      <4>1. i - Len(s) \in 1 .. Len(t)
        BY <1>1, <3>3
      <4>. QED  BY <1>1, <2>1, <2>2, <3>1, <3>3, <4>1
    <3>. QED  BY <3>2, <3>3
  <2>4. Numbers(s \o t) \in Seq(Nat) /\ Len(Numbers(s \o t)) = Len(s) + Len(t)
    BY <1>1, <2>1
  <2>. QED  BY <2>2, <2>3, <2>4, SeqEqual
<1>. QED  BY <1>1, <1>2, <1>3, <1>4

(* A message that is no send disturbs nothing, wherever it is added, ...   *)
LEMMA AddNone ==
    ASSUME NEW u \in Seq(Nat)
    PROVE  LET w == Append(u, 0) IN
           /\ Order(u) => Order(w)
           /\ \A v \in Seq(Nat) : Ahead(u, v) => Ahead(w, v)
           /\ \A v \in Seq(Nat) : Ahead(v, u) => Ahead(v, w)
           /\ \A a, b \in Nat : Within(u, a, b) => Within(w, a, b)
           /\ \A k \in Nat \ {0} : Holds(u, k) => Holds(w, k)
<1>. DEFINE w == Append(u, 0)
<1>1. /\ Len(u) \in Nat /\ Len(w) = Len(u) + 1
      /\ \A i \in 1 .. Len(u) : w[i] = u[i] /\ u[i] \in Nat
      /\ w[Len(u) + 1] = 0
  BY AppendProperties, LenProperties, ElementOfSeq
<1>w. \A i \in 1 .. Len(w) : \/ i \in 1 .. Len(u) /\ w[i] = u[i]
                             \/ i = Len(u) + 1 /\ w[i] = 0
  BY <1>1
<1>. HIDE DEF w
<1>2. Order(u) => Order(w)
  BY <1>1 DEF Order
<1>3. ASSUME NEW v \in Seq(Nat), Ahead(u, v) PROVE Ahead(w, v)
  <2>1. \A j \in 1 .. Len(v) : v[j] \in Nat
    BY ElementOfSeq
  <2>. SUFFICES ASSUME NEW i \in 1 .. Len(w), NEW j \in 1 .. Len(v), v[j] > 0
                PROVE  w[i] < v[j]
    BY DEF Ahead
  <2>2. i \in 1 .. Len(u) => u[i] < v[j]
    BY <1>3 DEF Ahead
  <2>. QED  BY <1>w, <2>1, <2>2
<1>4. ASSUME NEW v \in Seq(Nat), Ahead(v, u) PROVE Ahead(v, w)
  <2>. SUFFICES ASSUME NEW i \in 1 .. Len(v), NEW j \in 1 .. Len(w), w[j] > 0
                PROVE  v[i] < w[j]
    BY DEF Ahead
  <2>1. j \in 1 .. Len(u) /\ u[j] > 0 => v[i] < u[j]
    BY <1>4 DEF Ahead
  <2>. QED  BY <1>w, <2>1
<1>5. ASSUME NEW a \in Nat, NEW b \in Nat, Within(u, a, b) PROVE Within(w, a, b)
  BY <1>1, <1>5 DEF Within
<1>6. ASSUME NEW k \in Nat \ {0}, Holds(u, k) PROVE Holds(w, k)
  BY <1>1, <1>6 DEF Holds
<1>. QED  BY <1>2, <1>3, <1>4, <1>5, <1>6 DEF w

(* ... and the next send is behind all others.                             *)
LEMMA AddNext ==
    ASSUME NEW u \in Seq(Nat), NEW a \in Nat, NEW b \in Nat, a <= b,
           Order(u), Within(u, a, b)
    PROVE  LET w == Append(u, b + 1) IN
           /\ Order(w) /\ Within(w, a, b + 1) /\ Holds(w, b + 1)
           /\ \A v \in Seq(Nat) :
                 Within(v, a, b) /\ Ahead(v, u) => Ahead(v, w)
           /\ \A k \in Nat : Holds(u, k) => Holds(w, k)
<1>. DEFINE w == Append(u, b + 1)
<1>1. /\ Len(u) \in Nat /\ Len(w) = Len(u) + 1
      /\ \A i \in 1 .. Len(u) : w[i] = u[i] /\ u[i] \in Nat
      /\ w[Len(u) + 1] = b + 1
  BY AppendProperties, LenProperties, ElementOfSeq
<1>w. \A i \in 1 .. Len(w) : \/ i \in 1 .. Len(u) /\ w[i] = u[i]
                             \/ i = Len(u) + 1 /\ w[i] = b + 1
  BY <1>1
<1>. HIDE DEF w
<1>2. \A i \in 1 .. Len(u) : u[i] < b + 1
  BY <1>1 DEF Within
<1>3. Order(w) /\ Within(w, a, b + 1)
  <2>1. ASSUME NEW i \in 1 .. Len(w), NEW j \in 1 .. Len(w), i < j, w[j] > 0
        PROVE  w[i] < w[j]
    <3>1. i \in 1 .. Len(u) /\ w[i] = u[i]
      BY <1>1, <1>w, <2>1
    <3>2. CASE j \in 1 .. Len(u) /\ w[j] = u[j]
      BY <2>1, <3>1, <3>2 DEF Order
    <3>3. CASE w[j] = b + 1
      BY <1>2, <3>1, <3>3
    <3>. QED  BY <1>w, <3>2, <3>3
  <2>2. ASSUME NEW i \in 1 .. Len(w), w[i] /= 0
        PROVE  a < w[i] /\ w[i] <= b + 1
    <3>1. i \in 1 .. Len(u) /\ u[i] /= 0 => a < u[i] /\ u[i] <= b
      BY DEF Within
    <3>. QED  BY <1>1, <1>w, <2>2, <3>1
  <2>. QED  BY <2>1, <2>2 DEF Order, Within
<1>4. Holds(w, b + 1)
  BY <1>1 DEF Holds
<1>5. ASSUME NEW v \in Seq(Nat), Within(v, a, b), Ahead(v, u) PROVE Ahead(v, w)
  <2>1. \A i \in 1 .. Len(v) : v[i] \in Nat /\ v[i] < b + 1
    <3>1. \A i \in 1 .. Len(v) : v[i] \in Nat
      BY ElementOfSeq
    <3>. QED  BY <1>5, <3>1 DEF Within
  <2>. SUFFICES ASSUME NEW i \in 1 .. Len(v), NEW j \in 1 .. Len(w), w[j] > 0
                PROVE  v[i] < w[j]
    BY DEF Ahead
  <2>2. j \in 1 .. Len(u) /\ u[j] > 0 => v[i] < u[j]
    BY <1>5 DEF Ahead
  <2>. QED  BY <1>w, <2>1, <2>2
<1>6. ASSUME NEW k \in Nat, Holds(u, k) PROVE Holds(w, k)
  BY <1>1, <1>6 DEF Holds
<1>. QED  BY <1>3, <1>4, <1>5, <1>6 DEF w

(* The oldest message leaves the channel.                                  *)
LEMMA TakeFirst ==
    ASSUME NEW u \in Seq(Nat), NEW v \in Seq(Nat), NEW a \in Nat, NEW b \in Nat,
           u /= <<>>, Order(u), Ahead(u, v), Within(u, a, b), Within(v, a, b),
           a <= b, NEW h, h = IF Head(u) > 0 THEN Head(u) ELSE a
    PROVE  /\ Order(Tail(u)) /\ Ahead(Tail(u), v)
           /\ Within(Tail(u), h, b) /\ Within(v, h, b) /\ h \in a .. b
           /\ \A k \in h + 1 .. b : Holds(u, k) => Holds(Tail(u), k)
<1>. DEFINE w == Tail(u)
<1>1. /\ Len(u) \in Nat \ {0} /\ Len(w) = Len(u) - 1 /\ Head(u) = u[1]
      /\ \A i \in 1 .. Len(u) - 1 : w[i] = u[i + 1]
      /\ \A i \in 1 .. Len(u) : u[i] \in Nat
      /\ \A j \in 1 .. Len(v) : v[j] \in Nat
  BY HeadTailProperties, LenProperties, ElementOfSeq, EmptySeq
<1>. HIDE DEF w
<1>w. \A i \in 1 .. Len(w) :
         /\ i + 1 \in 1 .. Len(u) /\ w[i] = u[i + 1] /\ w[i] \in Nat
         /\ w[i] > 0 => u[1] < w[i]
  <2>. SUFFICES ASSUME NEW i \in 1 .. Len(w)
                PROVE  /\ i + 1 \in 1 .. Len(u) /\ w[i] = u[i + 1]
                       /\ w[i] \in Nat /\ (w[i] > 0 => u[1] < w[i])
    OBVIOUS
  <2>1. i + 1 \in 1 .. Len(u) /\ w[i] = u[i + 1] /\ 1 < i + 1
        /\ 1 \in 1 .. Len(u)
    BY <1>1
  <2>2. u[i + 1] > 0 => u[1] < u[i + 1]
    BY <2>1, Zenon DEF Order
  <2>. QED  BY <1>1, <2>1, <2>2
<1>2. h \in a .. b /\ h \in Nat
  BY <1>1 DEF Within
<1>3. Order(w)
  <2>. SUFFICES ASSUME NEW i \in 1 .. Len(w), NEW j \in 1 .. Len(w), i < j,
                       w[j] > 0
                PROVE  w[i] < w[j]
    BY DEF Order
  <2>1. i + 1 < j + 1 /\ i + 1 \in 1 .. Len(u) /\ j + 1 \in 1 .. Len(u)
        /\ u[j + 1] > 0
    BY <1>1, <1>w
  <2>2. u[i + 1] < u[j + 1]
    BY <2>1, Zenon DEF Order
  <2>. QED  BY <1>w, <2>2
<1>4. Ahead(w, v)
  <2>. SUFFICES ASSUME NEW i \in 1 .. Len(w), NEW j \in 1 .. Len(v), v[j] > 0
                PROVE  w[i] < v[j]
    BY DEF Ahead
  <2>1. i + 1 \in 1 .. Len(u) /\ w[i] = u[i + 1]
    BY <1>w
  <2>2. u[i + 1] < v[j]
    BY <2>1, Zenon DEF Ahead
  <2>. QED  BY <2>1, <2>2
<1>5. Within(w, h, b)
  <2>. SUFFICES ASSUME NEW i \in 1 .. Len(w), w[i] /= 0
                PROVE  h < w[i] /\ w[i] <= b
    BY DEF Within
  <2>1. /\ i + 1 \in 1 .. Len(u) /\ w[i] = u[i + 1] /\ w[i] \in Nat
        /\ u[1] < w[i]
    BY <1>w
  <2>2. a < u[i + 1] /\ u[i + 1] <= b
    BY <2>1 DEF Within
  <2>. QED  BY <1>1, <2>1, <2>2
<1>6. Within(v, h, b)
  <2>. SUFFICES ASSUME NEW j \in 1 .. Len(v), v[j] /= 0
                PROVE  h < v[j] /\ v[j] <= b
    BY DEF Within
  <2>1. a < v[j] /\ v[j] <= b /\ v[j] \in Nat
    BY <1>1 DEF Within
  <2>2. u[1] < v[j]
    BY <1>1, <2>1 DEF Ahead
  <2>. QED  BY <1>1, <2>1, <2>2
<1>7. ASSUME NEW k \in h + 1 .. b, Holds(u, k) PROVE Holds(w, k)
  <2>1. PICK i \in 1 .. Len(u) : u[i] = k
    BY <1>7 DEF Holds
  <2>2. i /= 1
    BY <1>1, <1>2, <2>1
  <2>3. i - 1 \in 1 .. Len(w) /\ w[i - 1] = k
    <3>1. i - 1 \in 1 .. Len(u) - 1 /\ (i - 1) + 1 = i
      BY <1>1, <2>2
    <3>2. w[i - 1] = u[(i - 1) + 1]
      BY <1>1, <3>1
    <3>. QED  BY <1>1, <2>1, <3>1, <3>2
  <2>. QED  BY <2>3 DEF Holds
<1>. QED  BY <1>2, <1>3, <1>4, <1>5, <1>6, <1>7 DEF w

(* The front of the queue goes to the end of the channel.                  *)
LEMMA Moves ==
    ASSUME NEW u \in Seq(Nat), NEW v \in Seq(Nat), NEW q \in Seq(Nat),
           NEW a \in Nat, NEW b \in Nat,
           Order(u), Order(v), Ahead(u, v), Within(u, a, b), Within(v, a, b),
           Len(q) <= Len(v), \A i \in 1 .. Len(q) : q[i] = v[i]
    PROVE  /\ u \o q \in Seq(Nat) /\ Order(u \o q) /\ Within(u \o q, a, b)
           /\ \A k : Holds(u, k) => Holds(u \o q, k)
           /\ Len(q) = Len(v) => \A k : Holds(v, k) => Holds(u \o q, k)
<1>. DEFINE w == u \o q
<1>1. /\ Len(u) \in Nat /\ Len(v) \in Nat /\ Len(q) \in Nat
      /\ \A i \in 1 .. Len(u) : u[i] \in Nat
      /\ \A i \in 1 .. Len(q) : i \in 1 .. Len(v) /\ q[i] = v[i] /\ v[i] \in Nat
  BY LenProperties, ElementOfSeq
<1>2. w \in Seq(Nat) /\ Len(w) = Len(u) + Len(q)
      /\ \A i \in 1 .. Len(u) + Len(q) :
            w[i] = IF i <= Len(u) THEN u[i] ELSE q[i - Len(u)]
  BY ConcatProperties
<1>. HIDE DEF w
<1>w. \A i \in 1 .. Len(w) :
         \/ i \in 1 .. Len(u) /\ w[i] = u[i]
         \/ i > Len(u) /\ i - Len(u) \in 1 .. Len(q) /\ w[i] = v[i - Len(u)]
  <2>. SUFFICES ASSUME NEW i \in 1 .. Len(w)
                PROVE  \/ i \in 1 .. Len(u) /\ w[i] = u[i]
                       \/ /\ i > Len(u) /\ i - Len(u) \in 1 .. Len(q)
                          /\ w[i] = v[i - Len(u)]
    OBVIOUS
  <2>1. CASE i <= Len(u)
    BY <1>1, <1>2, <2>1
  <2>2. CASE ~(i <= Len(u))
    <3>1. i - Len(u) \in 1 .. Len(q) /\ w[i] = q[i - Len(u)]
      BY <1>1, <1>2, <2>2
    <3>. QED  BY <1>1, <1>2, <2>2, <3>1
  <2>. QED  BY <2>1, <2>2
<1>3. Order(w)
  <2>. SUFFICES ASSUME NEW i \in 1 .. Len(w), NEW j \in 1 .. Len(w), i < j,
                       w[j] > 0
                PROVE  w[i] < w[j]
    BY DEF Order
  <2>1. CASE j \in 1 .. Len(u)
    <3>1. i \in 1 .. Len(u) /\ w[i] = u[i] /\ w[j] = u[j]
      BY <1>1, <1>w, <2>1
    <3>. QED  BY <2>1, <3>1, Zenon DEF Order
  <2>2. CASE i \in 1 .. Len(u) /\ j > Len(u)
    <3>1. w[i] = u[i] /\ j - Len(u) \in 1 .. Len(v) /\ w[j] = v[j - Len(u)]
      BY <1>1, <1>w, <2>2
    <3>. QED  BY <2>2, <3>1, Zenon DEF Ahead
  <2>3. CASE i > Len(u)
    <3>1. /\ i - Len(u) \in 1 .. Len(v) /\ w[i] = v[i - Len(u)]
          /\ j - Len(u) \in 1 .. Len(v) /\ w[j] = v[j - Len(u)]
          /\ i - Len(u) < j - Len(u)
      <4>1. i \notin 1 .. Len(u) /\ j \notin 1 .. Len(u)
        BY <1>1, <2>3
      <4>2. i - Len(u) \in 1 .. Len(q) /\ j - Len(u) \in 1 .. Len(q)
            /\ w[i] = v[i - Len(u)] /\ w[j] = v[j - Len(u)]
        BY <1>w, <4>1
      <4>3. i \in Nat /\ j \in Nat /\ Len(u) \in Nat
        BY <1>1, <1>2
      <4>4. i - Len(u) < j - Len(u)
        BY <4>3
      <4>. QED  BY <1>1, <4>2, <4>4
    <3>. QED  BY <3>1, Zenon DEF Order
  <2>. QED  BY <1>1, <1>2, <2>1, <2>2, <2>3
<1>4. Within(w, a, b)
  <2>. SUFFICES ASSUME NEW i \in 1 .. Len(w)
                PROVE  w[i] = 0 \/ (a < w[i] /\ w[i] <= b)
    BY DEF Within
  <2>1. CASE i \in 1 .. Len(u) /\ w[i] = u[i]
    BY <2>1 DEF Within
  <2>2. CASE i - Len(u) \in 1 .. Len(v) /\ w[i] = v[i - Len(u)]
    BY <2>2, Zenon DEF Within
  <2>. QED  BY <1>1, <1>w, <2>1, <2>2
<1>5. ASSUME NEW k, Holds(u, k) PROVE Holds(w, k)
  <2>1. PICK i \in 1 .. Len(u) : u[i] = k
    BY <1>5 DEF Holds
  <2>2. i \in 1 .. Len(w) /\ w[i] = k
    BY <1>1, <1>2, <2>1
  <2>. QED  BY <2>2 DEF Holds
<1>6. ASSUME Len(q) = Len(v), NEW k, Holds(v, k) PROVE Holds(w, k)
  <2>1. PICK i \in 1 .. Len(v) : v[i] = k
    BY <1>6 DEF Holds
  <2>2. /\ i + Len(u) \in 1 .. Len(u) + Len(q) /\ ~(i + Len(u) <= Len(u))
        /\ (i + Len(u)) - Len(u) = i /\ q[i] = k
    BY <1>1, <1>6, <2>1
  <2>3. i + Len(u) \in 1 .. Len(w) /\ w[i + Len(u)] = k
    BY <1>2, <2>2
  <2>. QED  BY <2>3 DEF Holds
<1>. QED  BY <1>2, <1>3, <1>4, <1>5, <1>6 DEF w
-----------------------------------------------------------------------------
(* The queue of create_node *)

Kept == Ordered /\ Complete

LEMMA FlowTypes ==
    ASSUME TagInv
    PROVE  /\ Sending \in Seq(Nat) /\ Queued \in Seq(Nat)
           /\ got \in Nat /\ Sent \in Nat
           /\ chan["worker"] \in Seq(Tagged("main"))
           /\ send_queue \in Seq(CallsOfSend)
           /\ Len(Queued) = Len(send_queue)
           /\ \A m \in Tagged("main") : m.n \in Nat
           /\ \A m \in CallsOfSend : m.n \in Nat
<1>1. /\ \A m \in Tagged("main") : m.n \in Nat
      /\ \A m \in CallsOfSend : m.n \in Nat
  BY DEF Tagged, Msgs, CallsOfSend
<1>2. chan["worker"] \in Seq(Tagged("main")) /\ send_queue \in Seq(CallsOfSend)
  BY SidesTwo DEF TagInv, AllTagged, TypeOK, CallsOfSend
<1>3. got \in Nat /\ Sent \in Nat
  BY SidesTwo DEF TagInv, TypeOK, Sent
<1>. QED  BY <1>1, <1>2, <1>3, NumbersOf DEF Sending, Queued

(* The steps that the direction to the worker sees.                        *)
Rest    == <<got, Sent, dropped>>
Quiet   == UNCHANGED <<Sending, Queued, Rest>>
Speaks  == /\ Sending' = Append(Sending, 0)
           /\ UNCHANGED <<Queued, Rest>>
Waits   == /\ Queued' = Append(Queued, 0)
           /\ UNCHANGED <<Sending, Rest>>
Sends   == /\ Sending' = Append(Sending, Sent + 1) /\ Queued = <<>>
           /\ Sent' = Sent + 1 /\ UNCHANGED <<Queued, got, dropped>>
Queues  == /\ Queued' = Append(Queued, Sent + 1)
           /\ Sent' = Sent + 1 /\ UNCHANGED <<Sending, got, dropped>>
Arrives == /\ Sending /= <<>> /\ Sending' = Tail(Sending)
           /\ got' = IF Head(Sending) > 0 THEN Head(Sending) ELSE got
           /\ UNCHANGED <<Queued, Sent, dropped>>
Flushes == \E q \in Seq(Nat) :
              /\ Len(q) <= Len(Queued)
              /\ \A i \in 1 .. Len(q) : q[i] = Queued[i]
              /\ Queued' = <<>> /\ UNCHANGED <<got, Sent>>
              /\ \/ Sending' = Sending \o q /\ Len(q) = Len(Queued)
                    /\ dropped' = dropped
                 \/ Sending' = Append(Sending \o q, 0) /\ dropped'

LEMMA QuietKept ==
    ASSUME TagInv, Kept, Quiet \/ Speaks \/ Waits
    PROVE  Kept'
<1>t. /\ Sending \in Seq(Nat) /\ Queued \in Seq(Nat)
      /\ got \in Nat /\ Sent \in Nat
  BY FlowTypes
<1>1. CASE Quiet
  BY <1>1 DEF Quiet, Rest, Kept, Ordered, Complete
<1>2. CASE Speaks
  <2>1. Ordered'
    BY <1>t, <1>2, AddNone DEF Speaks, Rest, Kept, Ordered
  <2>2. Complete'
    BY <1>t, <1>2, AddNone DEF Speaks, Rest, Kept, Complete
  <2>. QED  BY <2>1, <2>2 DEF Kept
<1>3. CASE Waits
  <2>1. Ordered'
    BY <1>t, <1>3, AddNone DEF Waits, Rest, Kept, Ordered
  <2>2. Complete'
    BY <1>t, <1>3, AddNone DEF Waits, Rest, Kept, Complete
  <2>. QED  BY <2>1, <2>2 DEF Kept
<1>. QED  BY <1>1, <1>2, <1>3

LEMMA SendKept ==
    ASSUME TagInv, Kept, Sends \/ Queues
    PROVE  Kept'
<1>t. /\ Sending \in Seq(Nat) /\ Queued \in Seq(Nat)
      /\ got \in Nat /\ Sent \in Nat /\ got <= Sent
  BY FlowTypes DEF Kept, Ordered
<1>1. \A u : Within(u, got, Sent) /\ u \in Seq(Nat) => Within(u, got, Sent + 1)
  <2>. SUFFICES ASSUME NEW u \in Seq(Nat), Within(u, got, Sent)
                PROVE  Within(u, got, Sent + 1)
    OBVIOUS
  <2>1. \A i \in 1 .. Len(u) : u[i] \in Nat
    BY ElementOfSeq
  <2>. QED  BY <1>t, <2>1 DEF Within
<1>2. CASE Sends
  <2>1. Ordered'
    <3>1. Ahead(Sending', Queued')
      BY <1>2, EmptySeq DEF Sends, Ahead
    <3>2. Order(Sending') /\ Within(Sending', got, Sent + 1)
      BY <1>t, <1>2, AddNext DEF Sends, Kept, Ordered
    <3>3. Order(Queued') /\ Within(Queued', got, Sent + 1)
      BY <1>t, <1>1, <1>2 DEF Sends, Kept, Ordered
    <3>4. got' = got /\ Sent' = Sent + 1 /\ got <= Sent + 1
      BY <1>t, <1>2 DEF Sends
    <3>. QED  BY <3>1, <3>2, <3>3, <3>4 DEF Ordered
  <2>2. Complete'
    <3>. SUFFICES ASSUME ~dropped, NEW k \in got + 1 .. Sent + 1
                  PROVE  Holds(Sending, k)' \/ Holds(Queued, k)'
      BY <1>2 DEF Sends, Complete
    <3>1. CASE k = Sent + 1
      BY <1>t, <1>2, <3>1, AddNext DEF Sends, Kept, Ordered
    <3>2. CASE k \in got + 1 .. Sent
      BY <1>t, <1>2, <3>2, AddNext DEF Sends, Kept, Ordered, Complete
    <3>. QED  BY <1>t, <3>1, <3>2
  <2>. QED  BY <2>1, <2>2 DEF Kept
<1>3. CASE Queues
  <2>1. Ordered'
    BY <1>t, <1>1, <1>3, AddNext DEF Queues, Kept, Ordered
  <2>2. Complete'
    <3>. SUFFICES ASSUME ~dropped, NEW k \in got + 1 .. Sent + 1
                  PROVE  Holds(Sending, k)' \/ Holds(Queued, k)'
      BY <1>3 DEF Queues, Complete
    <3>1. CASE k = Sent + 1
      BY <1>t, <1>3, <3>1, AddNext DEF Queues, Kept, Ordered
    <3>2. CASE k \in got + 1 .. Sent
      BY <1>t, <1>3, <3>2, AddNext DEF Queues, Kept, Ordered, Complete
    <3>. QED  BY <1>t, <3>1, <3>2
  <2>. QED  BY <2>1, <2>2 DEF Kept
<1>. QED  BY <1>2, <1>3

LEMMA RecvKept ==
    ASSUME TagInv, Kept, Arrives
    PROVE  Kept'
<1>t. /\ Sending \in Seq(Nat) /\ Queued \in Seq(Nat)
      /\ got \in Nat /\ Sent \in Nat /\ got <= Sent
  BY FlowTypes DEF Kept, Ordered
<1>1. /\ Order(Tail(Sending)) /\ Ahead(Tail(Sending), Queued)
      /\ Within(Tail(Sending), got', Sent) /\ Within(Queued, got', Sent)
      /\ got' \in got .. Sent
      /\ \A k \in got' + 1 .. Sent :
            Holds(Sending, k) => Holds(Tail(Sending), k)
  BY <1>t, TakeFirst DEF Arrives, Kept, Ordered
<1>2. Ordered'
  BY <1>t, <1>1 DEF Arrives, Kept, Ordered
<1>3. Complete'
  <2>. SUFFICES ASSUME ~dropped, NEW k \in got' + 1 .. Sent
                PROVE  Holds(Sending, k)' \/ Holds(Queued, k)'
    BY DEF Arrives, Complete
  <2>1. k \in got + 1 .. Sent
    <3>1. got' \in got .. Sent
      BY <1>1
    <3>2. got' \in Nat /\ got <= got'
      BY <1>t, <3>1
    <3>3. \A g \in Nat : got <= g => g + 1 .. Sent \subseteq got + 1 .. Sent
      BY <1>t
    <3>. QED  BY <3>2, <3>3
  <2>. QED  BY <1>1, <2>1 DEF Arrives, Kept, Complete
<1>. QED  BY <1>2, <1>3 DEF Kept

LEMMA FlushKept ==
    ASSUME TagInv, Kept, Flushes
    PROVE  Kept'
<1>t. /\ Sending \in Seq(Nat) /\ Queued \in Seq(Nat)
      /\ got \in Nat /\ Sent \in Nat /\ got <= Sent
  BY FlowTypes DEF Kept, Ordered
<1>1. PICK q \in Seq(Nat) :
              /\ Len(q) <= Len(Queued)
              /\ \A i \in 1 .. Len(q) : q[i] = Queued[i]
              /\ Queued' = <<>> /\ UNCHANGED <<got, Sent>>
              /\ \/ Sending' = Sending \o q /\ Len(q) = Len(Queued)
                    /\ dropped' = dropped
                 \/ Sending' = Append(Sending \o q, 0) /\ dropped'
  BY DEF Flushes
<1>. DEFINE w == Sending \o q
<1>2. /\ w \in Seq(Nat) /\ Order(w) /\ Within(w, got, Sent)
      /\ \A k : Holds(Sending, k) => Holds(w, k)
      /\ Len(q) = Len(Queued) => \A k : Holds(Queued, k) => Holds(w, k)
  BY <1>t, <1>1, Moves DEF Kept, Ordered
<1>. HIDE DEF w
<1>3. Order(Sending') /\ Within(Sending', got, Sent)
  BY <1>t, <1>1, <1>2, AddNone DEF w
<1>4. Ordered'
  <2>1. /\ Order(Queued') /\ Within(Queued', got, Sent)
        /\ Ahead(Sending', Queued')
    BY <1>1, EmptySeq DEF Order, Within, Ahead
  <2>. QED  BY <1>t, <1>1, <1>3, <2>1 DEF Ordered
<1>5. Complete'
  <2>. SUFFICES ASSUME ~dropped', NEW k \in got + 1 .. Sent
                PROVE  Holds(Sending', k)
    BY <1>1 DEF Complete
  <2>1. Sending' = w /\ Len(q) = Len(Queued) /\ dropped' = dropped
    BY <1>1 DEF w
  <2>2. Holds(Sending, k) \/ Holds(Queued, k)
    BY <2>1 DEF Kept, Complete
  <2>. QED  BY <1>2, <2>1, <2>2
<1>. QED  BY <1>4, <1>5 DEF Kept

(* Every step of both sides is one of these.                               *)
LEMMA FlowStep ==
    ASSUME TagInv, Next
    PROVE  Quiet \/ Speaks \/ Waits \/ Sends \/ Queues \/ Arrives \/ Flushes
<1>. USE DEF usage, Rest
<1>t. /\ TypeOK /\ ErrorFirst /\ chan \in [Sides -> Seq(Msgs)]
      /\ chan["worker"] \in Seq(Tagged("main"))
      /\ send_queue \in Seq(CallsOfSend)
      /\ Sides = {"main", "worker"}
      /\ Other("main") = "worker" /\ Other("worker") = "main"
      /\ \A m \in Tagged("main") : m.n \in Nat
      /\ \A m \in CallsOfSend : m.n \in Nat
  BY FlowTypes, SidesTwo DEF TagInv, TypeOK, Msgs
<1>q. (UNCHANGED <<chan["worker"], send_queue, got, sends["main"], dropped>>)
        => Quiet
  BY DEF Quiet, Sending, Queued, Sent, Numbers
<1>a. ASSUME NEW m \in Tagged("main"), chan'["worker"] = Append(chan["worker"], m)
      PROVE  Sending' = Append(Sending, m.n)
  BY <1>a, <1>t, NumbersOf DEF Sending
<1>u. /\ send_queue' = send_queue => Queued' = Queued
      /\ sends'["main"] = sends["main"] => Sent' = Sent
      /\ chan'["worker"] = chan["worker"] => Sending' = Sending
  BY DEF Queued, Sent, Sending, Numbers
<1>c. ASSUME NEW m \in CallsOfSend, send_queue' = Append(send_queue, m)
      PROVE  Queued' = Append(Queued, m.n)
  BY <1>c, <1>t, NumbersOf DEF Queued
<1>h. ASSUME chan["worker"] /= <<>>, chan'["worker"] = Tail(chan["worker"])
      PROVE  /\ Sending /= <<>> /\ Sending' = Tail(Sending)
             /\ Head(Sending) = Head(chan["worker"]).n
  BY <1>h, <1>t, NumbersOf DEF Sending
<1>1. ASSUME NEW s \in Sides, NEW name \in Registrable, Register(s, name)
      PROVE  Quiet
  BY <1>1, <1>q DEF Register
<1>2. ASSUME NEW s \in Sides, NEW arg \in Args, Send(s, arg)
      PROVE  Quiet \/ Sends \/ Queues
  <2>. DEFINE call == Call("msg", arg, sends[s] + 1)
  <2>1. /\ sends' = [sends EXCEPT ![s] = sends[s] + 1]
        /\ UNCHANGED <<got, dropped>>
        /\ \/ /\ s = "main" /\ ~direct /\ send_queue' = Append(send_queue, call)
              /\ chan' = chan
           \/ /\ s = "main" => direct
              /\ Accepts(s, arg) /\ Post(s, Envelope(s, call))
              /\ send_queue' = send_queue
    BY <1>2 DEF Send
  <2>2. call \in CallsOfSend /\ call.n = sends[s] + 1 /\ call.arg = arg
    BY <1>t DEF Call, CallsOfSend, TypeOK
  <2>3. sends'["main"] = IF s = "main" THEN sends["main"] + 1 ELSE sends["main"]
    BY <1>t, <2>1 DEF TypeOK
  <2>. HIDE DEF call
  <2>4. CASE /\ s = "main" /\ send_queue' = Append(send_queue, call)
             /\ chan' = chan
    BY <1>c, <1>u, <2>1, <2>2, <2>3, <2>4 DEF Queues, Sent
  <2>5. CASE /\ s = "main" /\ direct /\ Accepts(s, arg)
             /\ Post(s, Envelope(s, call)) /\ send_queue' = send_queue
    <3>1. /\ Envelope(s, call) \in Tagged("main")
          /\ Envelope(s, call).n = Sent + 1
      BY <1>t, <2>2, <2>5, EnvelopeTagged DEF Sent
    <3>2. chan'["worker"] = Append(chan["worker"], Envelope(s, call))
      BY <1>t, <2>5 DEF Post
    <3>3. Sending' = Append(Sending, Sent + 1)
      BY <1>a, <3>1, <3>2
    <3>4. Queued = <<>>
      BY <1>t, <2>5 DEF TypeOK, Queued, Numbers
    <3>. QED  BY <1>u, <2>1, <2>3, <2>5, <3>3, <3>4 DEF Sends, Sent
  <2>6. CASE s = "worker" /\ Post(s, Envelope(s, call)) /\ send_queue' = send_queue
    <3>1. chan'["worker"] = chan["worker"]
      BY <1>t, <2>6 DEF Post
    <3>. QED  BY <1>q, <2>1, <2>3, <2>6, <3>1
  <2>. QED  BY <1>t, <2>1, <2>4, <2>5, <2>6
<1>3. ASSUME NEW s \in Sides, SendError(s)
      PROVE  Quiet \/ Speaks
  <2>1. PICK global \in BOOLEAN : Post(s, Error(s, global))
    BY <1>3 DEF SendError
  <2>2. UNCHANGED <<send_queue, sends, got, dropped>>
    BY <1>3 DEF SendError
  <2>3. CASE s = "main"
    <3>1. Error(s, global) \in Tagged("main") /\ Error(s, global).n = 0
      BY <1>t, <2>3, ErrorTagged
    <3>2. chan'["worker"] = Append(chan["worker"], Error(s, global))
      BY <1>t, <2>1, <2>3 DEF Post
    <3>3. Sending' = Append(Sending, 0)
      BY <1>a, <3>1, <3>2
    <3>. QED  BY <1>u, <2>2, <3>3 DEF Speaks
  <2>4. CASE s = "worker"
    <3>1. chan'["worker"] = chan["worker"]
      BY <1>t, <2>1, <2>4 DEF Post
    <3>. QED  BY <1>q, <2>2, <3>1
  <2>. QED  BY <1>t, <2>3, <2>4
<1>4. CASE Load \/ EvalReturns
  <2>1. chan'["worker"] = chan["worker"]
    BY <1>4, <1>t DEF Load, EvalReturns, Post
  <2>. QED  BY <1>4, <1>q, <2>1 DEF Load, EvalReturns
<1>5. ASSUME NEW s \in Sides, RecvUser(s)
      PROVE  Quiet \/ Speaks \/ Waits \/ Arrives
  <2>. DEFINE rest == Tail(chan[s])
              none == Message("error", NoId)
              call == Call("error", "none", 0)
  <2>1. /\ chan[s] /= <<>>
        /\ \/ /\ s = "main" /\ send_queue' = Append(send_queue, call)
              /\ chan' = [chan EXCEPT ![s] = rest]
           \/ chan' = [chan EXCEPT ![s] = rest,
                                   ![Other(s)] = Append(chan[Other(s)], none)]
              /\ send_queue' = send_queue
           \/ chan' = [chan EXCEPT ![s] = rest] /\ send_queue' = send_queue
        /\ got' = IF s = "worker" /\ Head(chan[s]).n > 0 THEN Head(chan[s]).n
                                                         ELSE got
        /\ UNCHANGED <<sends, dropped>>
    BY <1>5, SidesTwo DEF RecvUser, Answer, Received
  <2>2. /\ none \in Tagged("main") /\ none.n = 0
        /\ call \in CallsOfSend /\ call.n = 0
    <3>1. none \in Tagged("main")
      BY <1>t, PlainTagged DEF Names
    <3>. QED  BY <3>1 DEF Message, CallsOfSend, Call, Args
  <2>3. /\ s = "worker" => chan'["worker"] = rest
        /\ s = "main" => \/ chan'["worker"] = chan["worker"]
                         \/ chan'["worker"] = Append(chan["worker"], none)
                            /\ send_queue' = send_queue
    BY <1>t, <2>1
  <2>. HIDE DEF none, call
  <2>4. CASE s = "worker"
    BY <1>h, <1>u, <2>1, <2>3, <2>4 DEF Arrives
  <2>5. CASE s = "main" /\ chan'["worker"] = chan["worker"]
             /\ send_queue' = Append(send_queue, call)
    BY <1>c, <1>u, <2>1, <2>2, <2>5 DEF Waits
  <2>6. CASE s = "main" /\ chan'["worker"] = chan["worker"]
             /\ send_queue' = send_queue
    BY <1>q, <2>1, <2>6
  <2>7. CASE s = "main" /\ chan'["worker"] = Append(chan["worker"], none)
             /\ send_queue' = send_queue
    BY <1>a, <1>u, <2>1, <2>2, <2>7 DEF Speaks
  <2>. QED  BY <1>t, <2>1, <2>3, <2>4, <2>5, <2>6, <2>7
<1>6. CASE RecvReady
  <2>. DEFINE m == Message("eval_code", NoId)
  <2>1. m \in Tagged("main") /\ m.n = 0
    <3>1. m \in Tagged("main")
      BY <1>t, PlainTagged DEF Names
    <3>. QED  BY <3>1 DEF Message
  <2>2. chan'["worker"] = Append(chan["worker"], m)
        /\ UNCHANGED <<send_queue, sends, got, dropped>>
    BY <1>6, <1>t DEF RecvReady
  <2>. HIDE DEF m
  <2>. QED  BY <1>a, <1>u, <2>1, <2>2 DEF Speaks
<1>7. CASE RecvRunning
  <2>. DEFINE none   == Message("error", NoId)
              answer == IF BadCalls = {} THEN <<>> ELSE <<none>>
              sent   == chan["worker"] \o Flush
              q      == Numbers(Flush)
  <2>1. /\ chan' = [chan EXCEPT !["main"] = Tail(chan["main"]),
                                !["worker"] = sent \o answer]
        /\ dropped' = (dropped \/ BadCalls /= {})
    BY <1>7, <1>t DEF RecvRunning, BadCalls, GoodEnd, Flush, TypeOK
  <2>2. /\ Flush \in Seq(Tagged("main")) /\ Len(Flush) = GoodEnd
        /\ GoodEnd \in 0 .. Len(send_queue) /\ Len(send_queue) \in Nat
        /\ \A i \in 1 .. GoodEnd : Flush[i].n = send_queue[i].n
        /\ BadCalls = {} => GoodEnd = Len(send_queue)
    BY <1>t, FlushTagged
  <2>3. /\ none \in Tagged("main") /\ none.n = 0
    <3>1. none \in Tagged("main")
      BY <1>t, PlainTagged DEF Names
    <3>. QED  BY <3>1 DEF Message
  <2>4. sent \in Seq(Tagged("main"))
    BY <1>t, <2>2, ConcatProperties
  <2>5. /\ q \in Seq(Nat) /\ Len(q) = GoodEnd
        /\ Sending \in Seq(Nat) /\ Numbers(sent) = Sending \o q
    BY <1>t, <2>2, NumbersOf DEF Sending
  <2>6. /\ Len(Queued) = Len(send_queue) /\ Len(q) <= Len(Queued)
        /\ \A i \in 1 .. Len(q) : q[i] = Queued[i]
    <3>1. Len(Queued) = Len(send_queue)
      BY FlowTypes
    <3>2. ASSUME NEW i \in 1 .. GoodEnd PROVE q[i] = Queued[i]
      <4>1. i \in 1 .. Len(Flush) /\ i \in 1 .. Len(send_queue)
        BY <2>2
      <4>2. q[i] = Flush[i].n /\ Queued[i] = send_queue[i].n
        BY <4>1 DEF Numbers, Queued
      <4>. QED  BY <2>2, <4>2
    <3>. HIDE DEF q
    <3>3. Len(q) = GoodEnd
      BY <2>5
    <3>. QED  BY <2>2, <3>1, <3>2, <3>3
  <2>7. Queued' = <<>> /\ UNCHANGED <<got, Sent>>
    BY <1>7 DEF RecvRunning, Queued, Sent, Numbers
  <2>8. chan'["worker"] = sent \o answer
    BY <1>t, <2>1
  <2>9. \/ Sending' = Sending \o q /\ Len(q) = Len(Queued)
           /\ dropped' = dropped
        \/ Sending' = Append(Sending \o q, 0) /\ dropped'
    <3>1. CASE BadCalls = {}
      <4>1. chan'["worker"] = sent
        BY <2>4, <2>8, <3>1, ConcatEmptySeq
      <4>2. Sending' = Sending \o q
        BY <2>5, <4>1 DEF Sending
      <4>3. dropped' = dropped
        BY <1>t, <2>1, <3>1 DEF TypeOK
      <4>4. Len(q) = Len(Queued)
        BY <2>2, <2>5, <2>6, <3>1
      <4>. QED  BY <4>2, <4>3, <4>4
    <3>2. CASE BadCalls /= {}
      <4>. HIDE DEF none, sent, q
      <4>1. chan'["worker"] = Append(sent, none)
        BY <2>3, <2>4, <2>8, <3>2, AppendIsConcat
      <4>2. Numbers(Append(sent, none)) = Append(Numbers(sent), none.n)
        BY <1>t, <2>3, <2>4, NumbersOf
      <4>3. Sending' = Append(Sending \o q, 0)
        BY <2>3, <2>5, <4>1, <4>2 DEF Sending
      <4>. QED  BY <2>1, <3>2, <4>3
    <3>. QED  BY <3>1, <3>2
  <2>. HIDE DEF q
  <2>. QED  BY <2>5, <2>6, <2>7, <2>9 DEF Flushes
<1>8. CASE RecvEval
  <2>1. /\ chan["worker"] /= <<>> /\ chan'["worker"] = Tail(chan["worker"])
        /\ Head(chan["worker"]).name = "eval_code"
        /\ UNCHANGED <<send_queue, sends, got, dropped>>
    BY <1>8, <1>t DEF RecvEval
  <2>2. Head(chan["worker"]) \in Tagged("main")
    BY <1>t, <2>1, HeadTailProperties
  <2>3. Head(Sending) = 0
    BY <1>h, <2>1, <2>2 DEF Tagged
  <2>. QED  BY <1>h, <1>u, <2>1, <2>3 DEF Arrives
<1>. QED  BY <1>1, <1>2, <1>3, <1>4, <1>5, <1>6, <1>7, <1>8 DEF Next, Recv

LEMMA InitKept == Init => Kept
<1>. SUFFICES ASSUME Init PROVE Kept
  OBVIOUS
<1>1. Len(Sending) = 0 /\ Len(Queued) = 0 /\ got = 0 /\ Sent = 0
  BY SidesTwo, EmptySeq DEF Init, Sending, Queued, Numbers, Sent
<1>. QED  BY <1>1 DEF Kept, Ordered, Complete, Order, Ahead, Within

LEMMA KeptHolds == Spec => [](TagInv /\ Kept)
<1>1. TagInv /\ Kept /\ [Next]_vars => Kept'
  <2>. SUFFICES ASSUME TagInv, Kept, [Next]_vars PROVE Kept'
    OBVIOUS
  <2>1. CASE UNCHANGED vars
    <3>1. Quiet
      BY <2>1 DEF vars, usage, Quiet, Rest, Sending, Queued, Sent, Numbers
    <3>. QED  BY <3>1, QuietKept
  <2>2. CASE Next
    BY <2>2, FlowStep, QuietKept, SendKept, RecvKept, FlushKept
  <2>. QED  BY <2>1, <2>2
<1>. QED  BY <1>1, InitKept, TagsHold, PTL DEF Spec

(* The queue of create_node is kept in order: what main sends to a worker  *)
(* that boots arrives as it was sent, none twice, and all of it unless a   *)
(* queued call throws.                                                     *)
THEOREM QueueIsKept == Spec => []QueueKeepsOrder
<1>1. TagInv /\ Kept => QueueKeepsOrder
  <2>. SUFFICES ASSUME TagInv, Kept PROVE QueueKeepsOrder
    OBVIOUS
  <2>t. /\ Sending \in Seq(Nat) /\ Queued \in Seq(Nat)
        /\ got \in Nat /\ Sent \in Nat
    BY FlowTypes
  <2>1. Flow = Sending \o Queued
    BY DEF Flow, Sending, Queued
  <2>2. Len(Queued) \in Nat
    BY <2>t, LenProperties
  <2>3. /\ Flow \in Seq(Nat) /\ Order(Flow) /\ Within(Flow, got, Sent)
        /\ \A k : Holds(Sending, k) \/ Holds(Queued, k) => Holds(Flow, k)
    <3>1. /\ Order(Sending) /\ Order(Queued) /\ Ahead(Sending, Queued)
          /\ Within(Sending, got, Sent) /\ Within(Queued, got, Sent)
      BY DEF Kept, Ordered
    <3>2. Len(Queued) <= Len(Queued)
      BY <2>2
    <3>. QED  BY <2>t, <2>1, <3>1, <3>2, Moves
  <2>4. \A i \in 1 .. Len(Flow) : Flow[i] = 0 \/ Flow[i] > got
    <3>1. \A i \in 1 .. Len(Flow) : Flow[i] \in Nat
      BY <2>3, ElementOfSeq
    <3>. QED  BY <2>t, <2>3, <3>1 DEF Within
  <2>5. ~dropped => \A k \in got + 1 .. sends["main"] :
                       \E i \in 1 .. Len(Flow) : Flow[i] = k
    BY <2>3 DEF Kept, Complete, Holds, Sent
  <2>. QED  BY <2>3, <2>4, <2>5 DEF QueueKeepsOrder, Order
<1>. QED  BY <1>1, KeptHolds, PTL
=============================================================================
