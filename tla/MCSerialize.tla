------------------------------ MODULE MCSerialize ------------------------------
(* Values for Serialize: every kind of leaf, alone, in arrays with and     *)
(* without holes, in objects with all orders of three keys, with inherited *)
(* properties, nested, shared, and in cycles of up to three objects.       *)
EXTENDS Serialize

(* Numbers are in halves. With 3 bits, int32_t is -4 .. 3 and uint32_t     *)
(* 0 .. 7; the numbers next to these bounds are here, and 1/2.             *)
MCLeaves ==
    {Undefined, Null, Leaf("Function", <<>>), Leaf("Symbol", <<>>),
     Leaf("RegExp", <<1, 0, 2>>), Leaf("Date", <<3>>)}
    \cup {Leaf(t, <<b>>) : t \in {"Boolean", "BooleanObject"}, b \in {0, 1}}
    \cup {Leaf(t, s) : t \in {"String", "StringObject"},
                       s \in {<<>>, <<1>>, <<1, 0, 2>>}}
    \cup {Leaf("Number", <<2 * n>>) : n \in {-5, -4, -1, 0, 3, 4, 7, 8}}
    \cup {Leaf("Number", <<1>>), Leaf("Number", <<-3>>),
          Leaf("NumberObject", <<10>>)}

MCNames == {Index(0), Index(1), Name(<<1>>), Name(<<1, 0, 2>>), Name(<<1, 0, 3>>)}
Orders == UNION {{s \in [1 .. n -> MCNames] :
                    \A i, j \in 1 .. n : s[i] = s[j] => i = j} : n \in 0 .. 3}

(* Property i has the value x for odd i, else y. *)
Object(keys, x, y, proto) ==
    [NewObject(keys, [i \in 1 .. Len(keys) |-> IF i % 2 = 1 THEN x ELSE y])
        EXCEPT !.proto = proto]
Array(len, keys, x, y) ==
    [Object(keys, x, y, <<>>) EXCEPT !.t = "Array", !.len = len]

One == Leaf("Number", <<2>>)
Str == Leaf("String", <<1>>)
NoHeap == <<One>>
Elems  == {s \in Orders : \A i \in 1 .. Len(s) : s[i].t = "Index" \/ s[i].v = <<1>>}

Containers(x, y) ==
    {Object(s, x, y, <<>>) : s \in Orders}
    \cup {Object(s, x, y, <<Object(p, y, x, <<>>)>>) : s, p \in Elems}
    \cup {Array(n, s, x, y) : n \in {2, 3}, s \in Elems}

(* Heaps of three objects that contain each other, themselves or a leaf. *)
Links == {Ref(1), Ref(2), Ref(3), One}
Linked(x, y) == {Object(<<Name(<<1>>)>>, x, y, <<>>),
                 Array(2, <<Index(1)>>, x, y),
                 Object(<<Name(<<2>>)>>, One, y, <<Object(<<Name(<<1>>)>>, x, y, <<>>)>>)}
Heaps == {<<a, b, c>> : a \in UNION {Linked(x, x) : x \in {Ref(2), Ref(3), One}}
                              \cup {Object(<<Index(0), Name(<<1>>)>>, Ref(2), Ref(3), <<>>)},
                        b \in UNION {Linked(x, x) : x \in Links},
                        c \in UNION {Linked(x, x) : x \in {Ref(1), Ref(3), One}}}

MCInputs ==
    {<<NoHeap, v>> : v \in MCLeaves}
    \cup {<<NoHeap, Object(<<Name(<<1>>), Index(0)>>, x, y, <<>>)>> : x, y \in MCLeaves}
    \cup {<<NoHeap, v>> : v \in Containers(One, Str)}
    \cup {<<NoHeap, Array(1, <<Index(0)>>, v, v)>> : v \in Containers(One, Leaf("Function", <<>>))}
    \cup {<<h, Ref(1)>> : h \in Heaps}
=============================================================================
