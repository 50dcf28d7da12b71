------------------------------- MODULE Serialize -------------------------------
(***************************************************************************)
(* serialize.cc: js_save turns a JavaScript value into a tree of JData,    *)
(* js_load turns the tree into a new value. ser_test does both.            *)
(*                                                                         *)
(* A value is a record. "t" is what JavaScript calls it, "v" its content   *)
(* as a sequence of numbers: characters with 0 for NUL, the flags of a     *)
(* RegExp, a number in halves. Arrays and objects have enumerable own      *)
(* properties: "val" maps their keys to values, "keys" is the order they   *)
(* are enumerated in. "proto" holds the prototype if that has properties.  *)
(* A "Ref" stands for the object heap[n]: only through one can an object   *)
(* be shared or contain itself. Getters, proxies, the key __proto__ and    *)
(* lone surrogates are left out.                                           *)
(***************************************************************************)
EXTENDS Integers, Sequences, FiniteSets

CONSTANTS
    Inputs,      \* the pairs <<heap, value>> that ser_test may be called with
    Width,       \* bits of an int32_t
    MaxCalls     \* bound on the calls, each one copies the last copy

VARIABLES
    heap, arg,   \* what the JavaScript of the caller holds
    root,        \* Serialized::root
    ret,         \* what js_load returned
    pc, calls

vars == <<heap, arg, root, ret, pc, calls>>
-----------------------------------------------------------------------------
(* JavaScript values *)

NoVal        == [k \in {} |-> 0]
Leaf(t, v)   == [t |-> t, v |-> v, len |-> 0, keys |-> <<>>, val |-> NoVal,
                 proto |-> <<>>]
Ref(n)       == Leaf("Ref", <<n>>)
Undefined    == Leaf("Undefined", <<>>)
Null         == Leaf("Null", <<>>)
Index(i)     == [t |-> "Index", v |-> <<i>>]
Name(chars)  == [t |-> "Name", v |-> chars]
Elements(len) == [i \in 1 .. len |-> Index(i - 1)]

Indices(keys) == SelectSeq(keys, LAMBDA k : k.t = "Index")
Names(keys)   == SelectSeq(keys, LAMBDA k : k.t = "Name")
InSeq(x, seq) == \E i \in 1 .. Len(seq) : seq[i] = x

(* Elements are enumerated first, in ascending order. *)
Ascending(indices) ==
    [i \in 1 .. Len(indices) |->
        CHOOSE k \in {indices[j] : j \in 1 .. Len(indices)} :
            Cardinality({j \in 1 .. Len(indices) :
                            indices[j].v[1] < k.v[1]}) = i - 1]

Deref(h, v) == IF v.t = "Ref" THEN h[v.v[1]] ELSE v

RECURSIVE Get(_, _, _)
Get(h, o, k) ==
    IF k \in DOMAIN o.val THEN o.val[k]
    ELSE IF o.proto = <<>> THEN Undefined
    ELSE Get(h, Deref(h, o.proto[1]), k)

(* Object::GetPropertyNames: inherited ones included. *)
RECURSIVE GetPropertyNames(_, _)
GetPropertyNames(h, o) ==
    IF o.proto = <<>> THEN o.keys
    ELSE o.keys \o SelectSeq(GetPropertyNames(h, Deref(h, o.proto[1])),
                             LAMBDA k : ~InSeq(k, o.keys))

(* Object::Set of the pairs <<keys[i], vals[i]>>, one after the other. *)
Distinct(keys) ==
    LET first == {i \in 1 .. Len(keys) : \A j \in 1 .. i - 1 : keys[j] /= keys[i]}
    IN  [n \in 1 .. Cardinality(first) |->
            keys[CHOOSE i \in first :
                    Cardinality({j \in first : j < i}) = n - 1]]
NewObject(keys, vals) ==
    LET distinct == Distinct(keys)
    IN  [t |-> "Object", v |-> <<>>, len |-> 0,
         keys |-> Ascending(Indices(distinct)) \o Names(distinct),
         val |-> [k \in {keys[i] : i \in 1 .. Len(keys)} |->
                    vals[CHOOSE i \in 1 .. Len(keys) :
                            keys[i] = k /\ \A j \in i + 1 .. Len(keys) :
                                                keys[j] /= k]],
         proto |-> <<>>]

IsHalf(n)   == n % 2 = 1
IsInt32(n)  == ~IsHalf(n) /\ n \div 2 \in -(2^(Width-1)) .. 2^(Width-1) - 1
IsUint32(n) == ~IsHalf(n) /\ n \div 2 \in 0 .. 2^Width - 1
ToUint32(n) == 2 * ((n \div 2) % 2^Width)
ToInt32(n)  == LET u == (n \div 2) % 2^Width
               IN  2 * (IF u < 2^(Width-1) THEN u ELSE u - 2^Width)

ObjectTypes == {"BooleanObject", "StringObject", "NumberObject", "RegExp",
                "Date", "Array", "Function", "Object"}

(* Value::IsUndefined and so on *)
Is(v, type) == \/ type = v.t
               \/ type = "Object" /\ v.t \in ObjectTypes
               \/ type = "Int32"  /\ v.t = "Number" /\ IsInt32(v.v[1])
               \/ type = "Uint32" /\ v.t = "Number" /\ IsUint32(v.v[1])
-----------------------------------------------------------------------------
(* js_save *)

Order == <<"Undefined", "Null", "Boolean", "BooleanObject", "String",
           "StringObject", "RegExp", "Int32", "Uint32", "Number",
           "NumberObject", "Date", "Array", "Function", "Object">>

(* The class of JData that create_data_with_type makes for v. *)
Class(v) == LET hits == {i \in 1 .. Len(Order) : Is(v, Order[i])}
            IN  IF hits = {} THEN "Null"
                ELSE Order[CHOOSE i \in hits : \A j \in hits : i <= j]

JData(class, v, names, kids) ==
    [class |-> class, v |-> v, names |-> names, kids |-> kids]

\* Mutant: JUint32 keeps an int32_t.
ContentSigned(class, v) ==
    CASE class \in {"Undefined", "Null", "Function"} -> <<>>
      [] class \in {"Int32", "Uint32"} -> <<ToInt32(v.v[1])>>
      [] OTHER                         -> v.v

(* What a JData without children keeps. *)
Content(class, v) ==
    CASE class \in {"Undefined", "Null", "Function"} -> <<>>
      [] class = "Int32"  -> <<ToInt32(v.v[1])>>
      [] class = "Uint32" -> <<ToUint32(v.v[1])>>
      [] OTHER            -> v.v

\* Mutant: own properties only.
NamesOwn(h, o) == o.keys

(* The keys JArray::set and JObject::set read the children with. *)
NamesOf(h, o) == GetPropertyNames(h, o)
ChildKeys(h, class, o) == IF class = "Array" THEN Elements(o.len)
                                             ELSE NamesOf(h, o)

Overflow == JData("Overflow", <<>>, <<>>, <<>>)

(* create_data_with_type and set. They keep nothing but the stack: in an   *)
(* object that they are inside of already they go round until the stack    *)
(* overflows.                                                              *)
RECURSIVE CreateDataWithType(_, _, _)
CreateDataWithType(h, v, inside) ==
    LET o     == Deref(h, v)
        class == Class(o)
        keys  == ChildKeys(h, class, o)
        kids  == [i \in 1 .. Len(keys) |->
                    CreateDataWithType(h, Get(h, o, keys[i]), inside \cup {v})]
    IN  IF class \notin {"Array", "Object"}
        THEN JData(class, Content(class, o), <<>>, <<>>)
        ELSE IF v.t = "Ref" /\ v \in inside THEN Overflow
        ELSE IF \E i \in 1 .. Len(kids) : kids[i].class = "Overflow"
             THEN Overflow
        ELSE JData(class, <<>>, IF class = "Object" THEN keys ELSE <<>>, kids)
-----------------------------------------------------------------------------
(* js_load *)

(* String::NewFromUtf8 without a length *)
CString(chars) ==
    LET nul == {i \in 1 .. Len(chars) : chars[i] = 0}
    IN  IF nul = {} THEN chars
        ELSE SubSeq(chars, 1, (CHOOSE i \in nul : \A j \in nul : i <= j) - 1)

(* JString::restore *)
String(d) == d.v

(* The name[i] that was printed or copied, as a key. *)
Key(k) == IF k.t = "Index" THEN k ELSE Name(CString(k.v))

RestoreLeaf(d) ==
    CASE d.class \in {"Undefined", "RegExp", "Date"}    -> Leaf(d.class, d.v)
      [] d.class \in {"Null", "Function"}               -> Null
      [] d.class \in {"Boolean", "BooleanObject"}       -> Leaf("Boolean", d.v)
      [] d.class \in {"String", "StringObject"}         -> Leaf("String", String(d))
      [] d.class \in {"Int32", "Uint32", "Number", "NumberObject"}
                                                        -> Leaf("Number", d.v)

RECURSIVE Restore(_)
Restore(d) ==
    LET vals == [i \in 1 .. Len(d.kids) |-> Restore(d.kids[i])]
    IN  CASE d.class = "Array"  ->
                [NewObject(Elements(Len(vals)), vals)
                    EXCEPT !.t = "Array", !.len = Len(vals)]
          [] d.class = "Object" ->
                NewObject([i \in 1 .. Len(vals) |-> Key(d.names[i])], vals)
          [] OTHER -> RestoreLeaf(d)
-----------------------------------------------------------------------------
Init ==
    /\ \E input \in Inputs : heap = input[1] /\ arg = input[2]
    /\ root = Overflow /\ ret = Undefined /\ pc = "save" /\ calls = 1

JsSave ==
    /\ pc = "save"
    /\ root' = CreateDataWithType(heap, arg, {})
    /\ pc' = IF root'.class = "Overflow" THEN "crashed" ELSE "load"
    /\ UNCHANGED <<heap, arg, ret, calls>>

JsLoad ==
    /\ pc = "load"
    /\ ret' = Restore(root)
    /\ pc' = "returned"
    /\ UNCHANGED <<heap, arg, root, calls>>

(* The caller copies the copy. *)
CallAgain ==
    /\ pc = "returned" /\ calls < MaxCalls
    /\ arg' = ret /\ pc' = "save" /\ calls' = calls + 1
    /\ UNCHANGED <<heap, root, ret>>

Next == JsSave \/ JsLoad \/ CallAgain
Spec == Init /\ [][Next]_vars
-----------------------------------------------------------------------------
(* What the copy of a value that is no array and no object should be.      *)
Plain(v) ==
    CASE v.t = "BooleanObject"         -> Leaf("Boolean", v.v)
      [] v.t = "StringObject"          -> Leaf("String", v.v)
      [] v.t = "NumberObject"          -> Leaf("Number", v.v)
      [] v.t \in {"Function", "Symbol"} -> Null
      [] OTHER                         -> v

(* The properties of o that a copy should have. *)
RECURSIVE Visible(_, _)
Visible(h, o) ==
    IF o.t = "Array" THEN {Index(i) : i \in 0 .. o.len - 1}
    ELSE DOMAIN o.val \cup (IF o.proto = <<>> THEN {}
                            ELSE Visible(h, Deref(h, o.proto[1])))

RECURSIVE Agrees(_, _, _)
Agrees(h, v, copy) ==
    LET o == Deref(h, v)
    IN  IF o.t \notin {"Array", "Object"} THEN copy = Plain(o)
        ELSE /\ copy.t = o.t /\ copy.len = o.len /\ copy.proto = <<>>
             /\ DOMAIN copy.val = Visible(h, o)
             /\ \A k \in Visible(h, o) : Agrees(h, Get(h, o, k), copy.val[k])

(* Can the name of a property be kept in a C string? *)
RECURSIVE NamesFit(_, _)
NamesFit(h, v) ==
    LET o == Deref(h, v)
    IN  o.t \in {"Array", "Object"} =>
            \A k \in Visible(h, o) :
                (k.t = "Name" => ~InSeq(0, k.v)) /\ NamesFit(h, Get(h, o, k))

(* The nodes of the heap that can be reached from a set of values. *)
RECURSIVE Below(_, _)
Below(h, v) ==
    IF v.t = "Ref" THEN {v.v[1]}
    ELSE UNION {Below(h, Get(h, v, k)) : k \in
                    IF v.t \in {"Array", "Object"} THEN Visible(h, v) ELSE {}}
Reached(h, nodes) ==
    LET step(s) == s \cup UNION {Below(h, h[n]) : n \in s}
        reach[i \in 0 .. Cardinality(DOMAIN h)] ==
            IF i = 0 THEN nodes ELSE step(reach[i - 1])
    IN  reach[Cardinality(DOMAIN h)]
Cyclic(h, v) == \E n \in Reached(h, Below(h, v)) :
                    n \in Reached(h, Below(h, h[n]))

(* serialize.h:51: ser_test returns a copy. What is copied are the same    *)
(* values under the same keys, with inherited properties made own, holes   *)
(* filled, wrapper objects unwrapped, and null for a function: provided no *)
(* name of a property contains a NUL. Whatever was lost or changed is so   *)
(* in the first copy: a copy of a copy is the same value.                  *)
CopyAgrees == pc = "returned" =>
    IF calls > 1 THEN ret = arg
                 ELSE NamesFit(heap, arg) => Agrees(heap, arg, ret)

(* t-ser.js:50 says that cycles are not detected: the stack overflows on   *)
(* them, in each case. It does on no other value of the model, which sets  *)
(* no limit to the depth that the stack can take.                          *)
CrashIffCyclic == /\ pc = "crashed" => Cyclic(heap, arg)
                  /\ pc = "returned" => ~Cyclic(heap, arg)
=============================================================================
