------------------------------ MODULE ErrorProofs ------------------------------
(***************************************************************************)
(* The event of an error, proved for every script, every code of the       *)
(* libraries and every text of an exception.                               *)
(***************************************************************************)
EXTENDS ErrorEvent, FiniteSetTheorems, SequenceTheorems, WellFoundedInduction,
        TLAPS

Text == Seq(Chars)
-----------------------------------------------------------------------------
(* Numbers *)

Less == {ss \in Nat \X Nat : ss[1] < ss[2]}

(* A set of numbers that is not empty has a least one, ...                 *)
LEMMA Least ==
    ASSUME NEW T, T \subseteq Nat, T /= {}
    PROVE  \E x \in T : \A y \in T : x <= y
<1>1. IsWellFoundedOn(Less, Nat)
  BY NatLessThanWellFounded DEF OpToRel, Less
<1>2. PICK x \in T : \A y \in T : ~(<<y, x>> \in Less)
  BY <1>1, WFMin
<1>3. ASSUME NEW y \in T PROVE x <= y
  <2>1. x \in Nat /\ y \in Nat /\ ~(<<y, x>> \in Less)
    BY <1>2
  <2>. QED  BY <2>1 DEF Less
<1>. QED  BY <1>3

(* ... and a greatest one, if it is bounded.                               *)
LEMMA Greatest ==
    ASSUME NEW N \in Nat, NEW T, T \subseteq 0 .. N, T /= {}
    PROVE  \E x \in T : \A y \in T : x >= y
<1>. DEFINE U == {N - x : x \in T}
<1>1. U \subseteq Nat /\ U /= {}
  OBVIOUS
<1>2. PICK u \in U : \A v \in U : u <= v
  BY <1>1, Least
<1>3. PICK x \in T : u = N - x
  OBVIOUS
<1>4. ASSUME NEW y \in T PROVE x >= y
  <2>1. N - x <= N - y
    BY <1>2, <1>3
  <2>. QED  BY <2>1
<1>. QED  BY <1>4
-----------------------------------------------------------------------------
(* Counting *)

LEMMA CountFinite ==
    ASSUME NEW x, NEW text, NEW n \in Nat
    PROVE  IsFiniteSet({i \in 1 .. n : text[i] = x})
<1>1. IsFiniteSet(1 .. n)
  BY FS_Interval
<1>. QED  BY <1>1, FS_Subset

LEMMA CountType ==
    ASSUME NEW x, NEW text, NEW n \in Nat
    PROVE  Count(x, text, n) \in Nat
BY CountFinite, FS_CardinalityType DEF Count

LEMMA CountNone ==
    ASSUME NEW x, NEW text
    PROVE  Count(x, text, 0) = 0
<1>1. {i \in 1 .. 0 : text[i] = x} = {}
  OBVIOUS
<1>. QED  BY <1>1, FS_EmptySet DEF Count

LEMMA CountStep ==
    ASSUME NEW x, NEW text, NEW n \in Nat \ {0}
    PROVE  Count(x, text, n) =
              Count(x, text, n - 1) + (IF text[n] = x THEN 1 ELSE 0)
<1>. DEFINE P == {i \in 1 .. n - 1 : text[i] = x}
            Q == {i \in 1 .. n : text[i] = x}
<1>1. IsFiniteSet(P) /\ n \notin P
  <2>1. n - 1 \in Nat /\ n \notin 1 .. n - 1
    OBVIOUS
  <2>. QED  BY <2>1, CountFinite
<1>2. CASE text[n] = x
  <2>1. Q = P \cup {n}
    BY <1>2
  <2>2. Count(x, text, n) = Cardinality(Q) /\ Count(x, text, n - 1) = Cardinality(P)
    BY DEF Count
  <2>. HIDE DEF P, Q
  <2>3. Cardinality(Q) = Cardinality(P) + 1
    BY <1>1, <2>1, FS_AddElement
  <2>. QED  BY <1>2, <2>2, <2>3
<1>3. CASE text[n] /= x
  <2>1. Q = P
    BY <1>3
  <2>2. Count(x, text, n) = Cardinality(Q) /\ Count(x, text, n - 1) = Cardinality(P)
    BY DEF Count
  <2>3. Count(x, text, n - 1) \in Nat
    BY CountType
  <2>. HIDE DEF P, Q
  <2>. QED  BY <1>3, <2>1, <2>2, <2>3
<1>. QED  BY <1>2, <1>3

(* Only the places that are counted matter.                                *)
LEMMA CountSame ==
    ASSUME NEW x, NEW a, NEW b, NEW n \in Nat, \A i \in 1 .. n : a[i] = b[i]
    PROVE  Count(x, a, n) = Count(x, b, n)
<1>1. {i \in 1 .. n : a[i] = x} = {i \in 1 .. n : b[i] = x}
  OBVIOUS
<1>. QED  BY <1>1 DEF Count

(* What is counted in two parts is the sum.                                *)
LEMMA CountSum ==
    ASSUME NEW x, NEW a, NEW b, NEW m \in Nat, NEW n \in Nat, NEW sum,
           sum = m + n, \A i \in 1 .. n : a[m + i] = b[i]
    PROVE  Count(x, a, sum) = Count(x, a, m) + Count(x, b, n)
<1>. DEFINE T == {k \in 0 .. n : Count(x, a, m + k) /=
                                    Count(x, a, m) + Count(x, b, k)}
<1>1. SUFFICES T = {}
  <2>1. n \in 0 .. n
    OBVIOUS
  <2>. QED  BY <1>1, <2>1
<1>. SUFFICES ASSUME T /= {} PROVE FALSE
  OBVIOUS
<1>2. PICK k \in T : \A j \in T : k <= j
  <2>1. T \subseteq Nat
    OBVIOUS
  <2>. HIDE DEF T
  <2>. QED  BY <2>1, Least
<1>3. k \in 0 .. n /\ Count(x, a, m + k) /= Count(x, a, m) + Count(x, b, k)
  BY <1>2
<1>4. Count(x, a, m) \in Nat
  BY CountType
<1>5. CASE k = 0
  BY <1>3, <1>4, <1>5, CountNone
<1>6. CASE k /= 0
  <2>1. /\ k \in Nat \ {0} /\ k - 1 \in Nat /\ k \in 1 .. n
        /\ m + k \in Nat \ {0} /\ (m + k) - 1 = m + (k - 1)
    BY <1>3, <1>6
  <2>2. k - 1 \notin T
    BY <1>2, <2>1
  <2>3. Count(x, a, m + (k - 1)) = Count(x, a, m) + Count(x, b, k - 1)
    BY <2>1, <2>2
  <2>4. Count(x, b, k - 1) \in Nat
    BY <2>1, CountType
  <2>5. a[m + k] = b[k]
    BY <2>1
  <2>6. Count(x, a, m + k) =
            Count(x, a, m + (k - 1)) + (IF a[m + k] = x THEN 1 ELSE 0)
    BY <2>1, CountStep
  <2>7. Count(x, b, k) = Count(x, b, k - 1) + (IF b[k] = x THEN 1 ELSE 0)
    BY <2>1, CountStep
  <2>. HIDE DEF T
  <2>. QED  BY <1>3, <1>4, <2>3, <2>4, <2>5, <2>6, <2>7
<1>. QED  BY <1>5, <1>6
-----------------------------------------------------------------------------
(* Texts *)

LEMMA Concat ==
    ASSUME NEW a \in Text, NEW b \in Text
    PROVE  /\ a \o b \in Text /\ Len(a \o b) = Len(a) + Len(b)
           /\ Len(a) \in Nat /\ Len(b) \in Nat
           /\ \A i \in 1 .. Len(a) : (a \o b)[i] = a[i]
           /\ \A i \in 1 .. Len(b) : (a \o b)[Len(a) + i] = b[i]
BY DEF Text

(* The line of an error *)

(* An error of a script that was started.                                  *)
Errors == [libs : Libs, script : Scripts, at : Nat, message : Messages,
           stack : Messages]
ErrorOk(err) == err \in Errors /\ err.at \in 1 .. Len(err.script) + 1

LEMMA Written == Fixed \subseteq Chars
BY ErrorAssumption

(* What stands where in the code.                                          *)
LEMMA Layout ==
    ASSUME NEW libs \in Text, NEW script \in Text
    PROVE  LET n == Len(libs)
               code == Code(libs, script)
           IN  /\ code \in Text /\ Len(code) = n + Len(script) + 8
               /\ Len(Before(libs)) = n + 6
               /\ code[1] = "x" /\ code[2] = "newline"
               /\ \A i \in 1 .. n : code[2 + i] = libs[i]
               /\ code[n + 3] = "newline" /\ code[n + 4] = "marker"
               /\ code[n + 5] = "newline" /\ code[n + 6] = "x"
               /\ \A i \in 1 .. Len(script) : code[n + 6 + i] = script[i]
               /\ code[n + Len(script) + 7] = "newline"
               /\ code[n + Len(script) + 8] = "x"
<1>. DEFINE n == Len(libs)
            before == Before(libs)
            c == <<"newline", "x">>
<1>0. "x" \in Chars /\ "newline" \in Chars /\ "marker" \in Chars
  BY Written DEF Fixed
<1>1. /\ <<"x", "newline">> \in Text
      /\ <<"newline", "marker", "newline", "x">> \in Text
      /\ c \in Text
  <2>1. <<"x", "newline">> \in Text
    BY <1>0 DEF Text
  <2>2. <<"newline", "marker", "newline", "x">> \in Text
    BY <1>0 DEF Text
  <2>3. c \in Text
    BY <1>0 DEF Text
  <2>. QED  BY <2>1, <2>2, <2>3
<1>2. /\ before \in Text /\ Len(before) = n + 6 /\ n \in Nat
      /\ before[1] = "x" /\ before[2] = "newline"
      /\ \A i \in 1 .. n : before[2 + i] = libs[i]
      /\ before[n + 3] = "newline" /\ before[n + 4] = "marker"
      /\ before[n + 5] = "newline" /\ before[n + 6] = "x"
  BY <1>1 DEF Before, Text
<1>. HIDE DEF before
<1>3. Code(libs, script) = (before \o script) \o c
  BY <1>1, <1>2, ConcatAssociative DEF Code, before, Text
<1>. DEFINE code == Code(libs, script)
            m    == Len(script)
<1>4. /\ code \in Text /\ Len(code) = n + m + 8
      /\ \A i \in 1 .. n + 6 : code[i] = before[i]
      /\ \A i \in 1 .. m : code[n + 6 + i] = script[i]
      /\ code[n + m + 7] = "newline" /\ code[n + m + 8] = "x"
  <2>. DEFINE d == before \o script
  <2>1. /\ d \in Text /\ Len(d) = Len(before) + m /\ m \in Nat
        /\ \A i \in 1 .. Len(before) : d[i] = before[i]
        /\ \A i \in 1 .. m : d[Len(before) + i] = script[i]
    BY <1>2, Concat
  <2>2. Len(c) = 2 /\ c[1] = "newline" /\ c[2] = "x"
    OBVIOUS
  <2>3. code = d \o c
    BY <1>3
  <2>. HIDE DEF c, d, before, code
  <2>4. /\ d \o c \in Text /\ Len(d \o c) = Len(d) + Len(c)
        /\ \A i \in 1 .. Len(d) : (d \o c)[i] = d[i]
        /\ \A i \in 1 .. Len(c) : (d \o c)[Len(d) + i] = c[i]
    BY <1>1, <2>1, Concat
  <2>. HIDE DEF m, n
  <2>. QED  BY <1>2, <2>1, <2>2, <2>3, <2>4
<1>. HIDE DEF code
<1>5. \A i \in 1 .. n : code[2 + i] = libs[i]
  BY <1>2, <1>4
<1>6. /\ code[1] = "x" /\ code[2] = "newline"
      /\ code[n + 3] = "newline" /\ code[n + 4] = "marker"
      /\ code[n + 5] = "newline" /\ code[n + 6] = "x"
  BY <1>2, <1>4
<1>7. Len(Before(libs)) = n + 6
  BY <1>2 DEF before
<1>. QED  BY <1>4, <1>5, <1>6, <1>7 DEF code

(* The first marker is that of the template, whatever the script contains. *)
LEMMA OffsetOfCode ==
    ASSUME NEW libs \in Libs, NEW script \in Text
    PROVE  LET code == Code(libs, script)
           IN  FindCodeOffset(code) = -1 - Count("newline", code, Len(libs) + 3)
<1>. DEFINE code == Code(libs, script)
            n    == Len(libs)
            ends == {i \in 1 .. Len(code) : code[i] = "marker"}
            end  == CHOOSE i \in ends : \A j \in ends : i <= j
<1>1. libs \in Text /\ \A i \in 1 .. n : libs[i] /= "marker"
  BY ErrorAssumption DEF Text
<1>2. /\ n \in Nat /\ Len(script) \in Nat /\ Len(code) = n + Len(script) + 8
      /\ code[1] = "x" /\ code[2] = "newline" /\ code[n + 3] = "newline"
      /\ code[n + 4] = "marker"
      /\ \A i \in 1 .. n : code[2 + i] = libs[i]
  <2>1. n \in Nat /\ Len(script) \in Nat
    BY <1>1, LenProperties DEF Text
  <2>. QED  BY <1>1, <2>1, Layout
<1>. HIDE DEF code, n
<1>3. \A i \in 1 .. n + 3 : code[i] /= "marker"
  <2>. SUFFICES ASSUME NEW i \in 1 .. n + 3 PROVE code[i] /= "marker"
    OBVIOUS
  <2>1. CASE i \in 3 .. n + 2
    <3>1. i - 2 \in 1 .. n /\ i = 2 + (i - 2)
      BY <1>2, <2>1
    <3>. QED  BY <1>1, <1>2, <3>1
  <2>2. CASE i = 1 \/ i = 2 \/ i = n + 3
    BY <1>2, <2>2
  <2>. QED  BY <1>2, <2>1, <2>2
<1>4. n + 4 \in ends /\ \A j \in ends : n + 4 <= j
  BY <1>2, <1>3
<1>5. end = n + 4
  <2>1. end \in ends /\ \A j \in ends : end <= j
    BY <1>4
  <2>2. end \in Int
    BY <2>1
  <2>. HIDE DEF ends, end
  <2>. QED  BY <1>2, <1>4, <2>1, <2>2
<1>6. FindCodeOffset(code) = -1 - Count("newline", code, end - 1)
  BY <1>4 DEF FindCodeOffset
<1>. HIDE DEF ends, end
<1>7. end - 1 = n + 3
  BY <1>2, <1>5
<1>. QED  BY <1>6, <1>7 DEF code, n

LEMMA LineIsOfScript ==
    ASSUME NEW err, ErrorOk(err)
    PROVE  LineNumber(err) = 1 + Count("newline", err.script, err.at - 1)
<1>. DEFINE libs   == err.libs
            script == err.script
            code   == Code(libs, script)
            n      == Len(libs)
            k      == err.at - 1
<1>1. libs \in Libs /\ libs \in Text /\ script \in Text
      /\ k \in 0 .. Len(script) /\ n \in Nat /\ Len(script) \in Nat
  <2>1. libs \in Libs /\ script \in Scripts /\ err.at \in 1 .. Len(script) + 1
    BY DEF ErrorOk, Errors
  <2>2. libs \in Text /\ script \in Text
    BY <2>1, ErrorAssumption DEF Text
  <2>3. n \in Nat /\ Len(script) \in Nat
    BY <2>2, LenProperties DEF Text
  <2>. QED  BY <2>1, <2>2, <2>3
<1>2. /\ Len(Before(libs)) = n + 6
      /\ code[n + 4] = "marker" /\ code[n + 5] = "newline" /\ code[n + 6] = "x"
      /\ \A i \in 1 .. Len(script) : code[n + 6 + i] = script[i]
  BY <1>1, Layout
<1>3. FindCodeOffset(code) = -1 - Count("newline", code, n + 3)
  BY <1>1, OffsetOfCode
<1>4. Position(err) - 1 = (n + 6) + k
  <2>1. err.at \in Int
    BY <1>1 DEF ErrorOk
  <2>. QED  BY <1>1, <1>2, <2>1 DEF Position
<1>5. LineNumber(err) =
          1 + Count("newline", code, (n + 6) + k) + FindCodeOffset(code)
  BY <1>4 DEF LineNumber, GetLineNumber
<1>. HIDE DEF code, n, k
<1>6. Count("newline", code, (n + 6) + k) =
          Count("newline", code, n + 6) + Count("newline", script, k)
  <2>. HIDE DEF script
  <2>1. \A i \in 1 .. k : code[(n + 6) + i] = script[i]
    BY <1>1, <1>2
  <2>2. n + 6 \in Nat /\ k \in Nat
    BY <1>1
  <2>. DEFINE m == n + 6
              sum == m + k
  <2>3. sum = m + k /\ m \in Nat /\ \A i \in 1 .. k : code[m + i] = script[i]
    BY <2>1, <2>2
  <2>. HIDE DEF m, sum
  <2>4. Count("newline", code, sum) =
            Count("newline", code, m) + Count("newline", script, k)
    BY <2>2, <2>3, CountSum
  <2>. QED  BY <2>4 DEF m, sum
<1>7. Count("newline", code, n + 6) = Count("newline", code, n + 3) + 1
  <2>0. /\ n + 4 \in Nat \ {0} /\ n + 5 \in Nat \ {0} /\ n + 6 \in Nat \ {0}
        /\ (n + 4) - 1 = n + 3 /\ (n + 5) - 1 = n + 4 /\ (n + 6) - 1 = n + 5
    BY <1>1
  <2>1. Count("newline", code, n + 4) = Count("newline", code, (n + 4) - 1)
    BY <1>2, <2>0, CountStep, CountType
  <2>2. Count("newline", code, n + 5) = Count("newline", code, (n + 5) - 1) + 1
    BY <1>2, <2>0, CountStep
  <2>3. Count("newline", code, n + 6) = Count("newline", code, (n + 6) - 1)
    BY <1>2, <2>0, CountStep, CountType
  <2>. QED  BY <2>0, <2>1, <2>2, <2>3
<1>8. Count("newline", code, n + 3) \in Nat /\ Count("newline", script, k) \in Nat
  <2>1. n + 3 \in Nat /\ k \in Nat
    BY <1>1
  <2>. QED  BY <2>1, CountType
<1>. QED  BY <1>3, <1>5, <1>6, <1>7, <1>8 DEF k
-----------------------------------------------------------------------------
(* Induction, upwards and downwards, on the numbers of an interval. *)

LEMMA Upwards ==
    ASSUME NEW n \in Nat, NEW S, 0 \in S,
           \A k \in 1 .. n : k - 1 \in S => k \in S
    PROVE  0 .. n \subseteq S
<1>. DEFINE T == (0 .. n) \ S
<1>. SUFFICES ASSUME T /= {} PROVE FALSE
  OBVIOUS
<1>1. PICK k \in T : \A j \in T : k <= j
  <2>1. T \subseteq Nat
    OBVIOUS
  <2>. HIDE DEF T
  <2>. QED  BY <2>1, Least
<1>2. k \in 1 .. n /\ k \notin S /\ k - 1 \in 0 .. n
  OBVIOUS
<1>3. k - 1 \in S
  BY <1>1, <1>2
<1>. QED  BY <1>2, <1>3

LEMMA Downwards ==
    ASSUME NEW n \in Nat, NEW S,
           \A k \in 1 .. n : (\A j \in k + 1 .. n : j \in S) => k \in S
    PROVE  1 .. n \subseteq S
<1>. DEFINE T == (1 .. n) \ S
<1>. SUFFICES ASSUME T /= {} PROVE FALSE
  OBVIOUS
<1>1. PICK k \in T : \A j \in T : k >= j
  <2>1. T \subseteq 0 .. n
    OBVIOUS
  <2>. HIDE DEF T
  <2>. QED  BY <2>1, Greatest
<1>2. k \in 1 .. n /\ k \notin S
  OBVIOUS
<1>3. \A j \in k + 1 .. n : j \in S
  <2>. SUFFICES ASSUME NEW j \in k + 1 .. n, j \notin S PROVE FALSE
    OBVIOUS
  <2>1. j \in T /\ k < j /\ j \in Int /\ k \in Int
    BY <1>2
  <2>. QED  BY <1>1, <2>1
<1>. QED  BY <1>2, <1>3
-----------------------------------------------------------------------------
(* The recursive functions are what their definitions say. *)

LEMMA StringAtLater ==
    ASSUME NEW s \in Text, NEW f, NEW g, NEW i \in 1 .. Len(s) + 2,
           \A j \in i + 1 .. Len(s) + 2 : f[j] = g[j]
    PROVE  StringAt(s, f, i) = StringAt(s, g, i)
<1>1. Len(s) \in Nat
  BY LenProperties DEF Text
<1>2. CASE i > Len(s)
  <2>1. i \notin 1 .. Len(s)
    BY <1>1, <1>2
  <2>2. At(s, i) = "nothing"
    BY <2>1, Zenon DEF At
  <2>. QED  BY <1>1, <1>2, <2>2 DEF StringAt
<1>3. CASE i <= Len(s)
  <2>1. f[i + 1] = g[i + 1] /\ f[i + 2] = g[i + 2]
    BY <1>1, <1>3
  <2>. QED  BY <2>1 DEF StringAt
<1>. QED  BY <1>1, <1>2, <1>3

LEMMA StringsDef ==
    ASSUME NEW s \in Text
    PROVE  Strings(s) = [i \in 1 .. Len(s) + 2 |-> StringAt(s, Strings(s), i)]
<1>. DEFINE n == Len(s) + 2
            Solves(f, k) == f = [i \in n - k + 1 .. n |-> StringAt(s, f, i)]
            S == {k \in 0 .. n : \E f : Solves(f, k)}
<1>1. n \in Nat
  BY LenProperties DEF Text
<1>2. 0 \in S
  <2>1. Solves([i \in {} |-> 0], 0)
    BY <1>1
  <2>2. 0 \in 0 .. n
    BY <1>1
  <2>. HIDE DEF Solves, n
  <2>. QED  BY <2>1, <2>2
<1>3. ASSUME NEW k \in 1 .. n, k - 1 \in S PROVE k \in S
  <2>. DEFINE m == n - k + 1
  <2>1. PICK f : f = [i \in m + 1 .. n |-> StringAt(s, f, i)]
    <3>1. PICK f : Solves(f, k - 1)
      BY <1>3
    <3>2. n - (k - 1) + 1 = m + 1
      BY <1>1
    <3>. QED  BY <3>1, <3>2
  <2>2. m \in 1 .. n
    BY <1>1
  <2>. DEFINE g == [i \in m .. n |-> IF i = m THEN StringAt(s, f, i) ELSE f[i]]
  <2>3. ASSUME NEW i \in m .. n PROVE g[i] = StringAt(s, g, i)
    <3>1. \A j \in i + 1 .. n : f[j] = g[j]
      BY <1>1, <2>2
    <3>2. g[i] = StringAt(s, f, i)
      BY <1>1, <2>1, <2>2
    <3>3. i \in 1 .. Len(s) + 2
      BY <1>1, <2>2
    <3>. HIDE DEF g, m
    <3>. QED  BY <3>1, <3>2, <3>3, StringAtLater
  <2>4. g = [i \in m .. n |-> StringAt(s, g, i)]
    <3>. HIDE DEF m, n
    <3>1. g = [i \in m .. n |-> g[i]]
      OBVIOUS
    <3>. HIDE DEF g
    <3>. QED  BY <2>3, <3>1, Zenon
  <2>. HIDE DEF g
  <2>5. Solves(g, k)
    BY <2>4
  <2>. HIDE DEF Solves
  <2>. QED  BY <1>1, <2>5
<1>4. n \in S
  <2>. HIDE DEF S
  <2>1. 0 .. n \subseteq S
    BY <1>1, <1>2, <1>3, Upwards
  <2>. QED  BY <1>1, <2>1
<1>5. PICK f : f = [i \in 1 .. Len(s) + 2 |-> StringAt(s, f, i)]
  <2>1. PICK f : Solves(f, n)
    BY <1>4
  <2>2. n - n + 1 = 1
    BY <1>1
  <2>. QED  BY <2>1, <2>2
<1>. QED  BY <1>5 DEF Strings

(* A string ends behind the place where it was begun, and in the text.     *)
LEMMA StringsEnd ==
    ASSUME NEW s \in Text, NEW i \in 1 .. Len(s) + 2
    PROVE  \/ Strings(s)[i] = NoString
           \/ Strings(s)[i].next \in i + 1 .. Len(s) + 1
<1>. DEFINE n == Len(s) + 2
            Ok(k) == \/ Strings(s)[k] = NoString
                     \/ Strings(s)[k].next \in k + 1 .. Len(s) + 1
            S == {k \in 1 .. n : Ok(k)}
<1>1. n \in Nat /\ Len(s) \in Nat
  BY LenProperties DEF Text
<1>2. ASSUME NEW k \in 1 .. n, \A j \in k + 1 .. n : j \in S PROVE k \in S
  <2>1. Strings(s)[k] = StringAt(s, Strings(s), k)
    BY StringsDef
  <2>2. CASE k > Len(s)
    <3>1. k \notin 1 .. Len(s)
      BY <1>1, <2>2
    <3>2. At(s, k) = "nothing"
      BY <3>1, Zenon DEF At
    <3>. QED  BY <2>1, <2>2, <3>2 DEF StringAt
  <2>3. CASE k <= Len(s)
    <3>1. k + 1 \in k + 1 .. n /\ k + 2 \in k + 1 .. n
      BY <1>1, <2>3
    <3>2. Ok(k + 1) /\ Ok(k + 2)
      BY <1>2, <3>1
    <3>3. \/ Strings(s)[k] = [read |-> <<>>, next |-> k + 1]
          \/ Strings(s)[k] = NoString
          \/ \E c : Strings(s)[k] = Prepend(c, Strings(s)[k + 1])
          \/ \E c : Strings(s)[k] = Prepend(c, Strings(s)[k + 2])
      BY <2>1 DEF StringAt
    <3>4. ASSUME NEW c, NEW j \in {k + 1, k + 2},
                 Strings(s)[k] = Prepend(c, Strings(s)[j])
          PROVE  Ok(k)
      <4>1. CASE Strings(s)[j].next = 0
        BY <3>4, <4>1 DEF Prepend
      <4>2. CASE Strings(s)[j].next /= 0
        <5>1. Strings(s)[j].next \in j + 1 .. Len(s) + 1
          BY <3>2, <3>4, <4>2 DEF NoString
        <5>2. Strings(s)[k].next = Strings(s)[j].next
          BY <3>4, <4>2 DEF Prepend
        <5>. QED  BY <1>1, <5>1, <5>2
      <4>. QED  BY <4>1, <4>2
    <3>5. k + 1 \in k + 1 .. Len(s) + 1
      BY <1>1, <2>3
    <3>6. Ok(k)
      BY <3>3, <3>4, <3>5
    <3>. HIDE DEF Ok
    <3>. QED  BY <3>6
  <2>. QED  BY <1>1, <2>2, <2>3
<1>. HIDE DEF S
<1>3. 1 .. n \subseteq S
  BY <1>1, <1>2, Downwards
<1>. QED  BY <1>3 DEF S

(* Where the members of an object end, if there are any.                   *)
EndsIn(s, mem, i) == mem[i] = NoMembers \/ mem[i].next \in i + 1 .. Len(s) + 1

LEMMA ValueLater ==
    ASSUME NEW s \in Text, NEW f, NEW g, NEW i \in 1 .. Len(s) + 1,
           \A j \in i + 1 .. Len(s) + 1 : f[j] = g[j],
           \A j \in i + 1 .. Len(s) + 1 : EndsIn(s, f, j)
    PROVE  LET v == ValueAt(s, Strings(s), f, i)
           IN  /\ v = ValueAt(s, Strings(s), g, i)
               /\ v = NoMembers \/ v.next = 0 \/ v.next \in i + 2 .. Len(s) + 1
<1>1. Len(s) \in Nat
  BY LenProperties DEF Text
<1>2. CASE i = Len(s) + 1
  <2>1. i \notin 1 .. Len(s)
    BY <1>1, <1>2
  <2>2. At(s, i) = "nothing"
    BY <2>1, Zenon DEF At
  <2>3. \A h : ValueAt(s, Strings(s), h, i) = NoMembers
    BY <2>2 DEF ValueAt
  <2>. QED  BY <2>3
<1>3. CASE i /= Len(s) + 1
  <2>1. i + 1 \in i + 1 .. Len(s) + 1 /\ i + 1 \in 1 .. Len(s) + 2
    BY <1>1, <1>3
  <2>2. f[i + 1] = g[i + 1] /\ EndsIn(s, f, i + 1)
    BY <2>1
  <2>3. \/ Strings(s)[i + 1] = NoString
        \/ Strings(s)[i + 1].next \in i + 2 .. Len(s) + 1
    BY <1>1, <2>1, StringsEnd
  <2>4. CASE At(s, i) = "open"
    <3>1. /\ ValueAt(s, Strings(s), f, i) = f[i + 1]
          /\ ValueAt(s, Strings(s), g, i) = g[i + 1]
      BY <2>4 DEF ValueAt
    <3>2. f[i + 1] = NoMembers \/ f[i + 1].next \in i + 2 .. Len(s) + 1
      BY <1>1, <2>2 DEF EndsIn
    <3>. QED  BY <2>2, <3>1, <3>2
  <2>5. CASE At(s, i) = "quote"
    <3>1. \A h : ValueAt(s, Strings(s), h, i).next = Strings(s)[i + 1].next
      BY <2>5 DEF ValueAt
    <3>2. ValueAt(s, Strings(s), f, i) = ValueAt(s, Strings(s), g, i)
      BY <2>5 DEF ValueAt
    <3>. QED  BY <2>3, <3>1, <3>2 DEF NoString
  <2>6. CASE At(s, i) \notin {"open", "quote"}
    <3>1. \A h : ValueAt(s, Strings(s), h, i) = NoMembers
      BY <2>6 DEF ValueAt
    <3>. QED  BY <3>1
  <2>. QED  BY <2>4, <2>5, <2>6
<1>. QED  BY <1>2, <1>3

LEMMA AtIsIn ==
    ASSUME NEW s \in Text, NEW i, At(s, i) /= "nothing"
    PROVE  i \in 1 .. Len(s) /\ At(s, i) = s[i]
BY Zenon DEF At

LEMMA MembersAtLater ==
    ASSUME NEW s \in Text, NEW f, NEW g, NEW i \in 1 .. Len(s) + 1,
           \A j \in i + 1 .. Len(s) + 1 : f[j] = g[j],
           \A j \in i + 1 .. Len(s) + 1 : EndsIn(s, f, j)
    PROVE  LET m == MembersAt(s, Strings(s), f, i)
           IN  /\ m = MembersAt(s, Strings(s), g, i)
               /\ m = NoMembers \/ m.next \in i + 1 .. Len(s) + 1
<1>. DEFINE str == Strings(s)
            key == str[i + 1]
            v(h) == ValueAt(s, str, h, key.next + 1)
            m(h) == MembersAt(s, str, h, i)
<1>1. Len(s) \in Nat
  BY LenProperties DEF Text
<1>2. CASE At(s, i) /= "quote" \/ key.next = 0 \/ At(s, key.next) /= "colon"
  <2>1. \A h : m(h) = NoMembers
    BY <1>2 DEF MembersAt
  <2>. QED  BY <2>1
<1>3. CASE ~(At(s, i) /= "quote" \/ key.next = 0 \/ At(s, key.next) /= "colon")
  <2>1. key.next \in 1 .. Len(s)
    BY <1>3, AtIsIn
  <2>2. key = NoString \/ key.next \in i + 2 .. Len(s) + 1
    <3>1. i + 1 \in 1 .. Len(s) + 2
      BY <1>1
    <3>. QED  BY <1>1, <3>1, StringsEnd
  <2>3. key.next + 1 \in i + 3 .. Len(s) + 1
    BY <1>1, <1>3, <2>1, <2>2 DEF NoString
  <2>. DEFINE at == key.next + 1
  <2>4. at \in i + 3 .. Len(s) + 1 /\ at \in 1 .. Len(s) + 1
    BY <1>1, <2>3
  <2>5. /\ \A j \in at + 1 .. Len(s) + 1 : f[j] = g[j]
        /\ \A j \in at + 1 .. Len(s) + 1 : EndsIn(s, f, j)
    BY <1>1, <2>4
  <2>. HIDE DEF at
  <2>6. LET w == ValueAt(s, Strings(s), f, at)
        IN  /\ w = ValueAt(s, Strings(s), g, at)
            /\ w = NoMembers \/ w.next = 0 \/ w.next \in at + 2 .. Len(s) + 1
    BY <2>4, <2>5, ValueLater
  <2>7. /\ v(f) = v(g)
        /\ v(f).next = 0 \/ v(f).next \in i + 1 .. Len(s) + 1
    BY <1>1, <2>4, <2>6 DEF at, NoMembers
  <2>. DEFINE next == v(f).next
  <2>0. next = 0 \/ next \in i + 1 .. Len(s) + 1
    BY <2>7
  <2>8. CASE next = 0
    <3>1. m(f) = NoMembers /\ m(g) = NoMembers
      BY <2>7, <2>8 DEF MembersAt
    <3>. QED  BY <3>1
  <2>9. CASE next /= 0 /\ At(s, next) = "close"
    <3>1. \A h : v(h) = v(f) =>
            m(h) = [pairs |-> Below(key.read, v(f).pairs), next |-> next + 1]
      BY <1>3, <2>9 DEF MembersAt
    <3>2. next \in 1 .. Len(s)
      BY <2>9, AtIsIn
    <3>3. next + 1 \in i + 1 .. Len(s) + 1
      <4>1. i \in Int
        BY <1>1
      <4>. HIDE DEF next
      <4>. QED  BY <1>1, <2>0, <3>2, <4>1
    <3>. QED  BY <2>7, <3>1, <3>3
  <2>10. CASE next /= 0 /\ At(s, next) = "comma"
    <3>1. next \in 1 .. Len(s)
      BY <2>10, AtIsIn
    <3>2. next + 1 \in i + 1 .. Len(s) + 1
      <4>1. i \in Int
        BY <1>1
      <4>. HIDE DEF next
      <4>. QED  BY <1>1, <2>0, <3>1, <4>1
    <3>3. f[next + 1] = g[next + 1] /\ EndsIn(s, f, next + 1)
      BY <3>2
    <3>4. CASE f[next + 1].next = 0
      <4>1. m(f) = NoMembers /\ m(g) = NoMembers
        BY <1>3, <2>7, <2>10, <3>3, <3>4 DEF MembersAt
      <4>. QED  BY <4>1
    <3>5. CASE f[next + 1].next /= 0
      <4>1. m(f) = m(g) /\ m(f).next = f[next + 1].next
        BY <1>3, <2>7, <2>10, <3>3, <3>5 DEF MembersAt
      <4>2. f[next + 1].next \in i + 1 .. Len(s) + 1
        BY <1>1, <3>2, <3>3, <3>5 DEF EndsIn, NoMembers
      <4>. QED  BY <4>1, <4>2
    <3>. QED  BY <3>4, <3>5
  <2>11. CASE next /= 0 /\ At(s, next) \notin {"close", "comma"}
    <3>1. m(f) = NoMembers /\ m(g) = NoMembers
      BY <1>3, <2>7, <2>11 DEF MembersAt
    <3>. QED  BY <3>1
  <2>. QED  BY <2>8, <2>9, <2>10, <2>11
<1>. QED  BY <1>2, <1>3

LEMMA MembersDef ==
    ASSUME NEW s \in Text, NEW i \in 1 .. Len(s) + 1
    PROVE  Members(s)[i] = MembersAt(s, Strings(s), Members(s), i)
<1>. DEFINE n == Len(s) + 1
            str == Strings(s)
            Solves(f, k) ==
                /\ f = [j \in n - k + 1 .. n |-> MembersAt(s, str, f, j)]
                /\ \A j \in n - k + 1 .. n : EndsIn(s, f, j)
            S == {k \in 0 .. n : \E f : Solves(f, k)}
<1>1. n \in Nat
  BY LenProperties DEF Text
<1>2. 0 \in S
  <2>1. Solves([j \in {} |-> 0], 0)
    BY <1>1
  <2>2. 0 \in 0 .. n
    BY <1>1
  <2>. HIDE DEF Solves, n
  <2>. QED  BY <2>1, <2>2
<1>3. ASSUME NEW k \in 1 .. n, k - 1 \in S PROVE k \in S
  <2>. DEFINE m == n - k + 1
  <2>1. PICK f : /\ f = [j \in m + 1 .. n |-> MembersAt(s, str, f, j)]
                 /\ \A j \in m + 1 .. n : EndsIn(s, f, j)
    <3>1. PICK f : Solves(f, k - 1)
      BY <1>3
    <3>2. n - (k - 1) + 1 = m + 1
      BY <1>1
    <3>. QED  BY <3>1, <3>2
  <2>2. m \in 1 .. n
    BY <1>1
  <2>. DEFINE g == [j \in m .. n |->
                        IF j = m THEN MembersAt(s, str, f, j) ELSE f[j]]
  <2>3. ASSUME NEW j \in m .. n
        PROVE  g[j] = MembersAt(s, str, g, j) /\ EndsIn(s, g, j)
    <3>1. /\ \A l \in j + 1 .. n : f[l] = g[l]
          /\ \A l \in j + 1 .. n : EndsIn(s, f, l)
      BY <1>1, <2>1, <2>2
    <3>2. g[j] = MembersAt(s, str, f, j)
      BY <1>1, <2>1, <2>2
    <3>3. j \in 1 .. Len(s) + 1
      BY <1>1, <2>2
    <3>. HIDE DEF g, m
    <3>4. LET r == MembersAt(s, str, f, j)
          IN  /\ r = MembersAt(s, str, g, j)
              /\ r = NoMembers \/ r.next \in j + 1 .. Len(s) + 1
      BY <3>1, <3>3, MembersAtLater
    <3>. QED  BY <3>2, <3>4 DEF EndsIn
  <2>4. g = [j \in m .. n |-> MembersAt(s, str, g, j)]
    <3>. HIDE DEF m, n
    <3>1. g = [j \in m .. n |-> g[j]]
      OBVIOUS
    <3>. HIDE DEF g
    <3>. QED  BY <2>3, <3>1, Zenon
  <2>. HIDE DEF g
  <2>5. Solves(g, k)
    BY <2>3, <2>4
  <2>. HIDE DEF Solves
  <2>. QED  BY <1>1, <2>5
<1>4. n \in S
  <2>. HIDE DEF S
  <2>1. 0 .. n \subseteq S
    BY <1>1, <1>2, <1>3, Upwards
  <2>. QED  BY <1>1, <2>1
<1>5. PICK f : f = [j \in 1 .. Len(s) + 1 |-> MembersAt(s, str, f, j)]
  <2>1. PICK f : Solves(f, n)
    BY <1>4
  <2>2. n - n + 1 = 1
    BY <1>1
  <2>. QED  BY <2>1, <2>2
<1>6. Members(s) = [j \in 1 .. Len(s) + 1 |-> MembersAt(s, str, Members(s), j)]
  BY <1>5 DEF Members
<1>. QED  BY <1>6, Zenon

(* Texts that are put together piece by piece.                             *)
Joins(f, n, first, parts) ==
    f = [i \in 0 .. n |-> IF i = 0 THEN first ELSE f[i - 1] \o parts[i]]

LEMMA Joinable ==
    ASSUME NEW n \in Nat, NEW first, NEW parts
    PROVE  \E f : Joins(f, n, first, parts)
<1>. DEFINE e(f, i) == IF i = 0 THEN first ELSE f[i - 1] \o parts[i]
            Solves(f, k) == f = [i \in 0 .. k |-> e(f, i)]
            S == {k \in 0 .. n : \E f : Solves(f, k)}
<1>1. 0 \in S
  <2>. DEFINE f == [i \in 0 .. 0 |-> first]
  <2>1. \A i \in 0 .. 0 : e(f, i) = first
    OBVIOUS
  <2>2. Solves(f, 0)
    BY <2>1
  <2>3. 0 \in 0 .. n
    OBVIOUS
  <2>. HIDE DEF Solves, f
  <2>. QED  BY <2>2, <2>3
<1>2. ASSUME NEW k \in 1 .. n, k - 1 \in S PROVE k \in S
  <2>1. PICK f : f = [i \in 0 .. k - 1 |-> e(f, i)]
    BY <1>2
  <2>. DEFINE g == [i \in 0 .. k |-> e(f, i)]
  <2>2. ASSUME NEW i \in 0 .. k PROVE g[i] = e(g, i)
    <3>1. CASE i = 0
      BY <3>1
    <3>2. CASE i /= 0
      <4>1. i - 1 \in 0 .. k - 1 /\ i - 1 \in 0 .. k
        BY <3>2
      <4>2. f[i - 1] = e(f, i - 1) /\ g[i - 1] = e(f, i - 1)
        BY <2>1, <4>1, Zenon
      <4>3. g[i] = f[i - 1] \o parts[i]
        BY <3>2
      <4>. HIDE DEF g
      <4>. QED  BY <3>2, <4>2, <4>3
    <3>. QED  BY <3>1, <3>2
  <2>3. g = [i \in 0 .. k |-> e(g, i)]
    <3>1. g = [i \in 0 .. k |-> g[i]]
      OBVIOUS
    <3>. HIDE DEF g, e
    <3>. QED  BY <2>2, <3>1, Zenon
  <2>. HIDE DEF g
  <2>4. Solves(g, k)
    BY <2>3
  <2>5. k \in 0 .. n
    OBVIOUS
  <2>. HIDE DEF Solves
  <2>. QED  BY <2>4, <2>5
<1>3. n \in S
  <2>. HIDE DEF S
  <2>1. 0 .. n \subseteq S
    BY <1>1, <1>2, Upwards
  <2>. QED  BY <2>1
<1>. QED  BY <1>3 DEF Joins

LEMMA EscapesDef ==
    ASSUME NEW t \in Text
    PROVE  Escapes(t) = [i \in 0 .. Len(t) |->
               IF i = 0 THEN <<>> ELSE Escapes(t)[i - 1] \o Escaped(t[i])]
<1>. DEFINE n == Len(t)
            parts == [i \in 1 .. n |-> Escaped(t[i])]
<1>1. n \in Nat
  BY LenProperties DEF Text
<1>2. PICK f : f = [i \in 0 .. n |-> IF i = 0 THEN <<>> ELSE f[i - 1] \o parts[i]]
  <2>1. \E f : Joins(f, n, <<>>, parts)
    BY <1>1, Joinable, Zenon
  <2>. QED  BY <2>1 DEF Joins
<1>3. f = [i \in 0 .. Len(t) |-> IF i = 0 THEN <<>> ELSE f[i - 1] \o Escaped(t[i])]
  <2>1. \A i \in 0 .. n : (IF i = 0 THEN <<>> ELSE f[i - 1] \o parts[i]) =
                          (IF i = 0 THEN <<>> ELSE f[i - 1] \o Escaped(t[i]))
    BY <1>1
  <2>. HIDE DEF parts
  <2>. QED  BY <1>2, <2>1
<1>. QED  BY <1>3 DEF Escapes
-----------------------------------------------------------------------------
(* Reading what was written *)

(* The tokens t are in s, behind the first p ones.                         *)
Holds(s, p, t) == /\ p \in Nat /\ p + Len(t) <= Len(s)
                  /\ \A j \in 1 .. Len(t) : s[p + j] = t[j]

LEMMA EscapedType ==
    ASSUME NEW c \in Chars
    PROVE  /\ Escaped(c) \in Text
           /\ c \in {"newline", "quote", "backslash"} =>
                 /\ Len(Escaped(c)) = 2 /\ Escaped(c)[1] = "backslash"
                 /\ Escaped(c)[2] \in DOMAIN Unescaped
                 /\ Unescaped[Escaped(c)[2]] = c
           /\ c \notin {"newline", "quote", "backslash"} =>
                 Escaped(c) = <<c>> /\ Len(Escaped(c)) = 1 /\ Escaped(c)[1] = c
<1>. DEFINE two(d) == <<"backslash", d>>
<1>1. \A d \in {"n", "quote", "backslash"} :
          two(d) \in Text /\ Len(two(d)) = 2 /\ two(d)[1] = "backslash"
          /\ two(d)[2] = d
  <2>1. "backslash" \in Chars /\ "quote" \in Chars /\ "n" \in Chars
    BY Written DEF Fixed
  <2>2. ASSUME NEW d \in Chars PROVE two(d) \in Text
    BY <2>1 DEF Text
  <2>. QED  BY <2>1, <2>2
<1>2. /\ DOMAIN Unescaped = {"n", "quote", "backslash"}
      /\ Unescaped["n"] = "newline" /\ Unescaped["quote"] = "quote"
      /\ Unescaped["backslash"] = "backslash"
  BY DEF Unescaped
<1>3. /\ Escaped("newline") = two("n") /\ Escaped("quote") = two("quote")
      /\ Escaped("backslash") = two("backslash")
  BY DEF Escaped
<1>4. ASSUME c \in {"newline", "quote", "backslash"}
      PROVE  /\ Escaped(c) \in Text /\ Len(Escaped(c)) = 2
             /\ Escaped(c)[1] = "backslash"
             /\ Escaped(c)[2] \in DOMAIN Unescaped
             /\ Unescaped[Escaped(c)[2]] = c
  <2>. HIDE DEF two
  <2>1. CASE c = "newline"
    BY <1>1, <1>2, <1>3, <2>1
  <2>2. CASE c = "quote"
    BY <1>1, <1>2, <1>3, <2>2
  <2>3. CASE c = "backslash"
    BY <1>1, <1>2, <1>3, <2>3
  <2>. QED  BY <1>4, <2>1, <2>2, <2>3
<1>5. ASSUME c \notin {"newline", "quote", "backslash"}
      PROVE  /\ Escaped(c) \in Text /\ Escaped(c) = <<c>>
             /\ Len(Escaped(c)) = 1 /\ Escaped(c)[1] = c
  <2>1. Escaped(c) = <<c>>
    BY <1>5 DEF Escaped
  <2>. QED  BY <2>1 DEF Text
<1>. QED  BY <1>4, <1>5

LEMMA HoldsLonger ==
    ASSUME NEW s \in Text, NEW u \in Text, NEW t \in Text, NEW p, Holds(s, p, t)
    PROVE  Holds(s \o u, p, t)
<1>1. /\ Len(s \o u) = Len(s) + Len(u) /\ Len(s) \in Nat /\ Len(u) \in Nat
      /\ \A i \in 1 .. Len(s) : (s \o u)[i] = s[i]
  BY Concat
<1>2. Len(t) \in Nat /\ p \in Nat /\ p + Len(t) <= Len(s)
      /\ \A j \in 1 .. Len(t) : s[p + j] = t[j]
  BY LenProperties DEF Holds, Text
<1>. DEFINE v == s \o u
<1>. HIDE DEF v
<1>3. p + Len(t) <= Len(v)
  BY <1>1, <1>2 DEF v
<1>4. \A j \in 1 .. Len(t) : p + j \in 1 .. Len(s)
  BY <1>1, <1>2
<1>. QED  BY <1>1, <1>2, <1>3, <1>4 DEF Holds, v

LEMMA HoldsLast ==
    ASSUME NEW s \in Text, NEW t \in Text
    PROVE  Holds(s \o t, Len(s), t)
BY Concat DEF Holds

LEMMA HoldsFirst ==
    ASSUME NEW s \in Text, NEW t \in Text
    PROVE  Holds(s \o t, 0, s)
<1>1. /\ Len(s \o t) = Len(s) + Len(t) /\ Len(s) \in Nat /\ Len(t) \in Nat
      /\ \A i \in 1 .. Len(s) : (s \o t)[i] = s[i]
  BY Concat
<1>. DEFINE u == s \o t
<1>. HIDE DEF u
<1>2. 0 + Len(s) <= Len(u) /\ \A i \in 1 .. Len(s) : u[0 + i] = s[i]
  BY <1>1 DEF u
<1>. QED  BY <1>2 DEF Holds, u

(* A single token that is held.                                            *)
LEMMA HoldsOne ==
    ASSUME NEW s \in Text, NEW c \in Chars, NEW p, Holds(s, p, <<c>>)
    PROVE  /\ <<c>> \in Text /\ p \in Nat /\ p + 1 \in 1 .. Len(s)
           /\ s[p + 1] = c /\ At(s, p + 1) = c
<1>1. <<c>> \in Text /\ Len(<<c>>) = 1 /\ <<c>>[1] = c /\ Len(s) \in Nat
  BY LenProperties DEF Text
<1>2. p \in Nat /\ p + 1 <= Len(s) /\ s[p + 1] = c
  BY <1>1 DEF Holds
<1>3. p + 1 \in 1 .. Len(s)
  BY <1>1, <1>2
<1>4. At(s, p + 1) = c
  BY <1>2, <1>3, Zenon DEF At
<1>. QED  BY <1>1, <1>2, <1>3, <1>4

(* A part of what is held is held.                                         *)
LEMMA HoldsPart ==
    ASSUME NEW s \in Text, NEW t \in Text, NEW u \in Text, NEW p, NEW q, NEW sum,
           Holds(s, p, t), Holds(t, q, u), sum = p + q
    PROVE  Holds(s, sum, u)
<1>1. Len(t) \in Nat /\ Len(u) \in Nat /\ Len(s) \in Nat
  BY LenProperties DEF Text
<1>2. p \in Nat /\ q \in Nat /\ p + Len(t) <= Len(s) /\ q + Len(u) <= Len(t)
  BY DEF Holds
<1>3. ASSUME NEW j \in 1 .. Len(u) PROVE s[sum + j] = u[j]
  <2>1. t[q + j] = u[j]
    BY DEF Holds
  <2>2. q + j \in 1 .. Len(t)
    BY <1>1, <1>2
  <2>3. s[p + (q + j)] = t[q + j]
    BY <2>2 DEF Holds
  <2>4. p + (q + j) = sum + j
    BY <1>1, <1>2
  <2>. QED  BY <2>1, <2>3, <2>4
<1>4. sum \in Nat /\ sum + Len(u) <= Len(s)
  BY <1>1, <1>2
<1>. QED  BY <1>3, <1>4 DEF Holds

(* What was put together holds each of its pieces, behind the earlier ones.*)
Joined(f, n, parts) ==
    \A i \in 1 .. n : parts[i] \in Text /\ f[i] = f[i - 1] \o parts[i]

LEMMA JoinedType ==
    ASSUME NEW n \in Nat, NEW f, NEW parts, f[0] \in Text, Joined(f, n, parts)
    PROVE  \A k \in 0 .. n : f[k] \in Text
<1>. DEFINE S == {k \in 0 .. n : f[k] \in Text}
<1>1. 0 \in S
  OBVIOUS
<1>2. ASSUME NEW k \in 1 .. n, k - 1 \in S PROVE k \in S
  <2>1. f[k - 1] \in Text /\ parts[k] \in Text /\ f[k] = f[k - 1] \o parts[k]
    BY <1>2 DEF Joined
  <2>2. f[k - 1] \o parts[k] \in Text
    BY <2>1, Concat
  <2>3. f[k] \in Text
    BY <2>1, <2>2, Zenon
  <2>. QED  BY <2>3
<1>. HIDE DEF S
<1>3. 0 .. n \subseteq S
  BY <1>1, <1>2, Upwards
<1>. QED  BY <1>3 DEF S

LEMMA JoinedHold ==
    ASSUME NEW n \in Nat, NEW f, NEW parts, f[0] \in Text, Joined(f, n, parts),
           NEW k \in 1 .. n
    PROVE  Holds(f[n], Len(f[k - 1]), parts[k])
<1>. DEFINE S == {m \in 0 .. n : k <= m => Holds(f[m], Len(f[k - 1]), parts[k])}
<1>1. 0 \in S
  OBVIOUS
<1>2. ASSUME NEW m \in 1 .. n, m - 1 \in S PROVE m \in S
  <2>0. m - 1 \in 0 .. n /\ m \in 0 .. n
    OBVIOUS
  <2>1. /\ f[m - 1] \in Text /\ parts[m] \in Text
        /\ f[m] = f[m - 1] \o parts[m] /\ parts[k] \in Text
    BY <2>0, JoinedType DEF Joined
  <2>. HIDE DEF S
  <2>2. CASE k <= m - 1
    <3>1. Holds(f[m - 1], Len(f[k - 1]), parts[k])
      BY <1>2, <2>2 DEF S
    <3>2. Holds(f[m - 1] \o parts[m], Len(f[k - 1]), parts[k])
      BY <2>1, <3>1, HoldsLonger
    <3>3. Holds(f[m], Len(f[k - 1]), parts[k])
      BY <2>1, <3>2, Zenon
    <3>. QED  BY <2>0, <3>3 DEF S
  <2>3. CASE k = m
    <3>1. Holds(f[m - 1] \o parts[m], Len(f[m - 1]), parts[m])
      BY <2>1, HoldsLast
    <3>2. Holds(f[m], Len(f[k - 1]), parts[k])
      BY <2>1, <2>3, <3>1, Zenon
    <3>. QED  BY <2>0, <3>2 DEF S
  <2>4. CASE k > m
    BY <2>0, <2>4 DEF S
  <2>. QED  BY <2>2, <2>3, <2>4
<1>3. n \in S
  <2>. HIDE DEF S
  <2>1. 0 .. n \subseteq S
    BY <1>1, <1>2, Upwards
  <2>. QED  BY <2>1
<1>. QED  BY <1>3

LEMMA JoinedFirst ==
    ASSUME NEW n \in Nat, NEW f, NEW parts, f[0] \in Text, Joined(f, n, parts)
    PROVE  Holds(f[n], 0, f[0])
<1>. DEFINE S == {m \in 0 .. n : Holds(f[m], 0, f[0])}
<1>1. 0 \in S
  <2>1. Len(f[0]) \in Nat
    BY LenProperties DEF Text
  <2>2. Holds(f[0], 0, f[0])
    BY <2>1 DEF Holds
  <2>. QED  BY <2>2
<1>2. ASSUME NEW m \in 1 .. n, m - 1 \in S PROVE m \in S
  <2>0. m - 1 \in 0 .. n /\ m \in 0 .. n
    OBVIOUS
  <2>1. /\ f[m - 1] \in Text /\ parts[m] \in Text
        /\ f[m] = f[m - 1] \o parts[m]
    BY <2>0, JoinedType DEF Joined
  <2>2. Holds(f[m - 1], 0, f[0])
    BY <1>2
  <2>3. Holds(f[m - 1] \o parts[m], 0, f[0])
    BY <2>1, <2>2, HoldsLonger
  <2>4. Holds(f[m], 0, f[0])
    BY <2>1, <2>3, Zenon
  <2>. QED  BY <2>0, <2>4
<1>3. n \in S
  <2>. HIDE DEF S
  <2>1. 0 .. n \subseteq S
    BY <1>1, <1>2, Upwards
  <2>. QED  BY <2>1
<1>. QED  BY <1>3

LEMMA EscapesJoin ==
    ASSUME NEW t \in Text
    PROVE  /\ Escapes(t)[0] = <<>> /\ <<>> \in Text
           /\ Joined(Escapes(t), Len(t), [i \in 1 .. Len(t) |-> Escaped(t[i])])
<1>1. Len(t) \in Nat /\ \A i \in 1 .. Len(t) : t[i] \in Chars
  BY LenProperties DEF Text
<1>2. 0 \in 0 .. Len(t) /\ \A i \in 1 .. Len(t) : i \in 0 .. Len(t) /\ i /= 0
  BY <1>1
<1>3. Escapes(t)[0] = <<>>
  BY <1>2, EscapesDef
<1>4. ASSUME NEW i \in 1 .. Len(t)
      PROVE  /\ Escaped(t[i]) \in Text
             /\ Escapes(t)[i] = Escapes(t)[i - 1] \o Escaped(t[i])
  <2>1. Escapes(t)[i] = Escapes(t)[i - 1] \o Escaped(t[i])
    BY <1>2, EscapesDef
  <2>. QED  BY <1>1, <2>1, EscapedType
<1>5. Joined(Escapes(t), Len(t), [i \in 1 .. Len(t) |-> Escaped(t[i])])
  BY <1>4, Zenon DEF Joined
<1>6. <<>> \in Text
  BY DEF Text
<1>. QED  BY <1>3, <1>5, <1>6

LEMMA EscapesType ==
    ASSUME NEW t \in Text
    PROVE  \A k \in 0 .. Len(t) : Escapes(t)[k] \in Text
<1>1. Len(t) \in Nat
  BY LenProperties DEF Text
<1>. QED  BY <1>1, EscapesJoin, JoinedType

LEMMA EscapesStep ==
    ASSUME NEW t \in Text, NEW k \in 1 .. Len(t)
    PROVE  /\ k - 1 \in 0 .. Len(t) /\ t[k] \in Chars
           /\ Escapes(t)[k - 1] \in Text /\ Escaped(t[k]) \in Text
           /\ Escapes(t)[k] = Escapes(t)[k - 1] \o Escaped(t[k])
           /\ Len(Escapes(t)[k]) = Len(Escapes(t)[k - 1]) + Len(Escaped(t[k]))
<1>1. Len(t) \in Nat /\ t[k] \in Chars
  BY LenProperties DEF Text
<1>2. k - 1 \in 0 .. Len(t) /\ k \in 0 .. Len(t) /\ k /= 0
  BY <1>1
<1>3. Escapes(t)[k - 1] \in Text /\ Escaped(t[k]) \in Text
  BY <1>1, <1>2, EscapesType, EscapedType
<1>4. Escapes(t)[k] = Escapes(t)[k - 1] \o Escaped(t[k])
  BY <1>2, EscapesDef
<1>. QED  BY <1>1, <1>2, <1>3, <1>4, Concat

(* Each character is in the text at its place.                             *)
LEMMA EscapesHold ==
    ASSUME NEW t \in Text, NEW k \in 1 .. Len(t)
    PROVE  Holds(Escape(t), Len(Escapes(t)[k - 1]), Escaped(t[k]))
<1>. DEFINE parts == [i \in 1 .. Len(t) |-> Escaped(t[i])]
<1>1. Len(t) \in Nat /\ parts[k] = Escaped(t[k])
  BY LenProperties DEF Text
<1>2. Joined(Escapes(t), Len(t), parts) /\ Escapes(t)[0] \in Text
  BY EscapesJoin
<1>. HIDE DEF parts
<1>3. Holds(Escapes(t)[Len(t)], Len(Escapes(t)[k - 1]), parts[k])
  BY <1>1, <1>2, JoinedHold
<1>. QED  BY <1>1, <1>3 DEF Escape

(* One character is read as it was written, ...                            *)
LEMMA ReadChar ==
    ASSUME NEW s \in Text, NEW c \in Chars, c /= "tab", NEW p,
           Holds(s, p, Escaped(c))
    PROVE  Strings(s)[p + 1] = Prepend(c, Strings(s)[p + 1 + Len(Escaped(c))])
<1>1. /\ p \in Nat /\ Len(s) \in Nat /\ p + Len(Escaped(c)) <= Len(s)
      /\ \A j \in 1 .. Len(Escaped(c)) : s[p + j] = Escaped(c)[j]
  BY LenProperties DEF Holds, Text
<1>2. CASE c \in {"newline", "quote", "backslash"}
  <2>1. /\ Len(Escaped(c)) = 2 /\ Escaped(c)[1] = "backslash"
        /\ Escaped(c)[2] \in DOMAIN Unescaped /\ Unescaped[Escaped(c)[2]] = c
    BY <1>2, EscapedType
  <2>2. /\ p + 1 \in 1 .. Len(s) /\ (p + 1) + 1 \in 1 .. Len(s)
        /\ p + 1 \in 1 .. Len(s) + 2 /\ ~(p + 1 > Len(s))
        /\ s[p + 1] = "backslash" /\ s[(p + 1) + 1] = Escaped(c)[2]
    BY <1>1, <2>1
  <2>3. /\ At(s, p + 1) = "backslash"
        /\ At(s, (p + 1) + 1) = Escaped(c)[2]
    BY <2>2, Zenon DEF At
  <2>4. StringAt(s, Strings(s), p + 1) = Prepend(c, Strings(s)[(p + 1) + 2])
    BY <2>1, <2>2, <2>3 DEF StringAt
  <2>5. Strings(s)[p + 1] = StringAt(s, Strings(s), p + 1)
    BY <2>2, StringsDef
  <2>. QED  BY <2>1, <2>4, <2>5
<1>3. CASE c \notin {"newline", "quote", "backslash"}
  <2>1. Len(Escaped(c)) = 1 /\ Escaped(c)[1] = c
    BY <1>3, EscapedType
  <2>2. /\ p + 1 \in 1 .. Len(s) /\ p + 1 \in 1 .. Len(s) + 2
        /\ ~(p + 1 > Len(s)) /\ s[p + 1] = c
    BY <1>1, <2>1
  <2>3. At(s, p + 1) = c
    BY <2>2, Zenon DEF At
  <2>4. StringAt(s, Strings(s), p + 1) = Prepend(c, Strings(s)[(p + 1) + 1])
    BY <1>3, <2>2, <2>3 DEF StringAt
  <2>5. Strings(s)[p + 1] = StringAt(s, Strings(s), p + 1)
    BY <2>2, StringsDef
  <2>. QED  BY <2>1, <2>4, <2>5
<1>. QED  BY <1>2, <1>3

(* ... and so is a text: whatever it contains, but for control characters. *)
LEMMA ReadText ==
    ASSUME NEW s \in Text, NEW t \in Text, NEW p,
           \A k \in 1 .. Len(t) : t[k] /= "tab",
           Holds(s, p, Escape(t) \o <<"quote">>)
    PROVE  Strings(s)[p + 1] = [read |-> t, next |-> p + Len(Escape(t)) + 2]
<1>. DEFINE n == Len(t)
            len(k) == Len(Escapes(t)[k])
            end == p + len(n) + 2
            Ok(k) == Strings(s)[p + len(k) + 1] =
                        [read |-> SubSeq(t, k + 1, n), next |-> end]
            S == {k \in 0 .. n : Ok(n - k)}
<1>1. n \in Nat /\ Len(s) \in Nat
  BY LenProperties DEF Text
<1>2. Escape(t) \in Text /\ <<"quote">> \in Text /\ Len(Escape(t)) = len(n)
      /\ Len(<<"quote">>) = 1
  <2>1. "quote" \in Chars
    BY Written DEF Fixed
  <2>2. <<"quote">> \in Text /\ Len(<<"quote">>) = 1
    BY <2>1 DEF Text
  <2>3. n \in 0 .. n
    BY <1>1
  <2>. QED  BY <2>2, <2>3, EscapesType DEF Escape
<1>3. Holds(s, p, Escape(t)) /\ Holds(s, p + len(n), <<"quote">>)
  <2>. DEFINE w == Escape(t) \o <<"quote">>
  <2>1. w \in Text /\ Holds(w, 0, Escape(t)) /\ Holds(w, Len(Escape(t)), <<"quote">>)
    BY <1>2, Concat, HoldsFirst, HoldsLast
  <2>2. Holds(s, p, w)
    OBVIOUS
  <2>3. p \in Nat /\ p = p + 0
    BY DEF Holds
  <2>. HIDE DEF w, len
  <2>4. Holds(s, p, Escape(t))
    BY <1>2, <2>1, <2>2, <2>3, HoldsPart
  <2>5. Holds(s, p + len(n), <<"quote">>)
    BY <1>2, <2>1, <2>2, HoldsPart
  <2>. QED  BY <2>4, <2>5
<1>4. p \in Nat /\ len(n) \in Nat
  BY <1>2, LenProperties DEF Holds, Text
<1>5. 0 \in S
  <2>. DEFINE q == p + len(n) + 1
  <2>1. q \in 1 .. Len(s) /\ At(s, q) = "quote"
    <3>1. "quote" \in Chars
      BY Written DEF Fixed
    <3>. HIDE DEF len
    <3>. QED  BY <1>3, <3>1, HoldsOne
  <2>2. q \in 1 .. Len(s) + 2 /\ q + 1 = end
    <3>. HIDE DEF len
    <3>. QED  BY <1>1, <1>4, <2>1
  <2>3. Strings(s)[q] = [read |-> <<>>, next |-> q + 1]
    <3>. HIDE DEF q
    <3>1. Strings(s)[q] = StringAt(s, Strings(s), q)
      BY <2>2, StringsDef
    <3>2. StringAt(s, Strings(s), q) = [read |-> <<>>, next |-> q + 1]
      BY <2>1 DEF StringAt
    <3>. QED  BY <3>1, <3>2
  <2>4. SubSeq(t, n + 1, n) = <<>>
    BY <1>1, SubSeqEmpty
  <2>5. Ok(n)
    BY <2>2, <2>3, <2>4
  <2>6. n - 0 = n /\ 0 \in 0 .. n
    BY <1>1
  <2>. HIDE DEF Ok
  <2>. QED  BY <2>5, <2>6
<1>6. ASSUME NEW m \in 1 .. n, m - 1 \in S PROVE m \in S
  <2>. DEFINE k == n - m + 1
  <2>1. k \in 1 .. n /\ n - (m - 1) = k /\ n - m = k - 1 /\ m \in 0 .. n
    BY <1>1
  <2>2. Ok(k)
    BY <1>6, <2>1
  <2>. HIDE DEF k
  <2>3. /\ t[k] \in Chars /\ Escaped(t[k]) \in Text
        /\ len(k) = len(k - 1) + Len(Escaped(t[k]))
        /\ len(k - 1) \in Nat /\ Len(Escaped(t[k])) \in Nat
    <3>1. \A u \in Text : Len(u) \in Nat
      BY LenProperties DEF Text
    <3>. QED  BY <2>1, <3>1, EscapesStep
  <2>4. Holds(s, p + len(k - 1), Escaped(t[k]))
    <3>1. Holds(Escape(t), len(k - 1), Escaped(t[k]))
      BY <2>1, EscapesHold
    <3>. HIDE DEF len
    <3>. QED  BY <1>2, <1>3, <2>3, <3>1, HoldsPart
  <2>. DEFINE q == p + len(k - 1)
  <2>5. Strings(s)[q + 1] = Prepend(t[k], Strings(s)[q + 1 + Len(Escaped(t[k]))])
    <3>. HIDE DEF q
    <3>1. t[k] /= "tab"
      BY <2>1
    <3>2. Holds(s, q, Escaped(t[k]))
      BY <2>4 DEF q
    <3>. QED  BY <2>3, <3>1, <3>2, ReadChar
  <2>6. q + 1 + Len(Escaped(t[k])) = p + len(k) + 1
    <3>. HIDE DEF len
    <3>. QED  BY <1>4, <2>3
  <2>7. SubSeq(t, k, n) = <<t[k]>> \o SubSeq(t, k + 1, n)
    BY <1>1, <2>1, SubSeqRecursiveFirst DEF Text
  <2>8. end /= 0
    BY <1>4
  <2>9. Ok(k - 1)
    <3>1. (k - 1) + 1 = k
      BY <1>1, <2>1
    <3>2. Strings(s)[p + len(k) + 1] =
              [read |-> SubSeq(t, k + 1, n), next |-> end]
      BY <2>2
    <3>3. Strings(s)[q + 1] = [read |-> SubSeq(t, k, n), next |-> end]
      <4>1. Strings(s)[q + 1] =
                Prepend(t[k], [read |-> SubSeq(t, k + 1, n), next |-> end])
        BY <2>5, <2>6, <3>2, Zenon
      <4>2. \A c, u : Prepend(c, [read |-> u, next |-> end]) =
                          [read |-> <<c>> \o u, next |-> end]
        <5>. HIDE DEF end
        <5>. QED  BY <2>8 DEF Prepend
      <4>. QED  BY <2>7, <4>1, <4>2, Zenon
    <3>. QED  BY <3>1, <3>3
  <2>. HIDE DEF Ok
  <2>. QED  BY <2>1, <2>9
<1>7. n \in S
  <2>. HIDE DEF S
  <2>1. 0 .. n \subseteq S
    BY <1>1, <1>5, <1>6, Upwards
  <2>. QED  BY <1>1, <2>1
<1>8. Ok(0)
  <2>1. n - n = 0
    BY <1>1
  <2>. HIDE DEF Ok
  <2>. QED  BY <1>7, <2>1
<1>9. len(0) = 0
  <2>1. 0 \in 0 .. n
    BY <1>1
  <2>2. Escapes(t)[0] = <<>>
    BY <2>1, EscapesDef
  <2>. QED  BY <2>2
<1>10. SubSeq(t, 0 + 1, n) = t
  BY SubSeqFull DEF Text
<1>. HIDE DEF len
<1>. QED  BY <1>2, <1>4, <1>8, <1>9, <1>10

(* Nothing is to be escaped in a clean text.                               *)
LEMMA EscapeClean ==
    ASSUME NEW t \in Text, Clean(t)
    PROVE  Escape(t) = t
<1>. DEFINE n == Len(t)
            S == {k \in 0 .. n : Escapes(t)[k] = SubSeq(t, 1, k)}
<1>1. n \in Nat
  BY LenProperties DEF Text
<1>2. 0 \in S
  <2>1. 0 \in 0 .. n
    BY <1>1
  <2>2. Escapes(t)[0] = <<>>
    BY <2>1, EscapesDef
  <2>3. SubSeq(t, 1, 0) = <<>>
    BY SubSeqEmpty
  <2>. QED  BY <2>1, <2>2, <2>3
<1>3. ASSUME NEW k \in 1 .. n, k - 1 \in S PROVE k \in S
  <2>1. /\ Escapes(t)[k] = Escapes(t)[k - 1] \o Escaped(t[k])
        /\ t[k] \in Chars
    BY EscapesStep
  <2>2. Escaped(t[k]) = <<t[k]>>
    BY <2>1, EscapedType DEF Clean
  <2>3. Escapes(t)[k - 1] = SubSeq(t, 1, k - 1)
    BY <1>3
  <2>4. SubSeq(t, 1, k) = SubSeq(t, 1, k - 1) \o <<t[k]>>
    <3>1. 1 \in 1 .. n /\ k \in 1 .. n
      BY <1>1
    <3>. QED  BY <3>1, SubSeqRecursiveSecond DEF Text
  <2>5. k \in 0 .. n
    BY <1>1
  <2>. QED  BY <2>1, <2>2, <2>3, <2>4, <2>5
<1>. HIDE DEF S
<1>4. 0 .. n \subseteq S
  BY <1>1, <1>2, <1>3, Upwards
<1>5. Escapes(t)[n] = SubSeq(t, 1, n)
  <2>1. n \in 0 .. n
    BY <1>1
  <2>. QED  BY <1>4, <2>1 DEF S
<1>. QED  BY <1>5, SubSeqFull DEF Escape, Text

Special == {"quote", "backslash", "newline", "tab"}

(* What a name and a text begin with, and what is read of one member.       *)
Name(key)        == <<"quote", key, "quote", "colon">>
Mark             == <<"quote">>
One(path, text)  == {<<path, text>>}
ValueIs(s, i, pairs, c) ==
    ValueAt(s, Strings(s), Members(s), i) = [pairs |-> pairs, next |-> c]

(* Members at place i are pairs, which end at c with the object or before  *)
(* other members.                                                          *)
Reads(s, i, pairs, c) ==
    /\ At(s, c) = "close" =>
            Members(s)[i] = [pairs |-> pairs, next |-> c + 1]
    /\ At(s, c) = "comma" /\ Members(s)[c + 1].next /= 0 =>
            Members(s)[i] = [pairs |-> pairs \cup Members(s)[c + 1].pairs,
                             next  |-> Members(s)[c + 1].next]

(* A name and the colon behind it.                                         *)
LEMMA ReadKey ==
    ASSUME NEW s \in Text, NEW key \in Chars \ Special, NEW p,
           Holds(s, p, Name(key))
    PROVE  /\ p \in Nat /\ p + 1 \in 1 .. Len(s) + 1 /\ At(s, p + 1) = "quote"
           /\ Strings(s)[p + 2] = [read |-> <<key>>, next |-> p + 4]
           /\ At(s, p + 4) = "colon"
<1>1. /\ p \in Nat /\ Len(s) \in Nat /\ p + 4 <= Len(s)
      /\ s[p + 1] = "quote" /\ s[p + 2] = key /\ s[p + 3] = "quote"
      /\ s[p + 4] = "colon"
  <2>. DEFINE t == <<"quote", key, "quote", "colon">>
  <2>1. Len(t) = 4 /\ t[1] = "quote" /\ t[2] = key /\ t[3] = "quote" /\ t[4] = "colon"
    OBVIOUS
  <2>. HIDE DEF t
  <2>2. p \in Nat /\ p + 4 <= Len(s) /\ \A j \in 1 .. 4 : s[p + j] = t[j]
    BY <2>1 DEF Holds, t, Name
  <2>. QED  BY <2>1, <2>2, LenProperties DEF Text
<1>2. /\ \A j \in {p + 1, p + 2, p + 3, p + 4} :
            j \in 1 .. Len(s) /\ j \in 1 .. Len(s) + 2 /\ ~(j > Len(s))
      /\ p + 1 \in 1 .. Len(s) + 1
  BY <1>1
<1>3. /\ At(s, p + 1) = "quote" /\ At(s, p + 2) = key /\ At(s, p + 3) = "quote"
      /\ At(s, p + 4) = "colon"
  BY <1>1, <1>2, Zenon DEF At
<1>4. Strings(s)[p + 3] = [read |-> <<>>, next |-> p + 4]
  <2>1. Strings(s)[p + 3] = StringAt(s, Strings(s), p + 3)
    BY <1>2, StringsDef
  <2>2. StringAt(s, Strings(s), p + 3) = [read |-> <<>>, next |-> (p + 3) + 1]
    BY <1>2, <1>3 DEF StringAt
  <2>3. (p + 3) + 1 = p + 4
    BY <1>1
  <2>. QED  BY <2>1, <2>2, <2>3, Zenon
<1>5. Strings(s)[p + 2] = Prepend(key, Strings(s)[p + 3])
  <2>1. Strings(s)[p + 2] = StringAt(s, Strings(s), p + 2)
    BY <1>2, StringsDef
  <2>2. (p + 2) + 1 = p + 3
    BY <1>1
  <2>. QED  BY <1>1, <1>2, <1>3, <2>1, <2>2 DEF StringAt, Special
<1>6. p + 4 /= 0 /\ <<key>> \o <<>> = <<key>>
  BY <1>1
<1>. QED  BY <1>1, <1>2, <1>3, <1>4, <1>5, <1>6 DEF Prepend

(* A member that ends at c with the object, or before another one.         *)
LEMMA ReadMember ==
    ASSUME NEW s \in Text, NEW key \in Chars \ Special, NEW p, NEW pairs, NEW c,
           Holds(s, p, Name(key)), ValueIs(s, p + 5, pairs, c), c /= 0
    PROVE  Reads(s, p + 1, Below(<<key>>, pairs), c)
<1>1. /\ p \in Nat /\ p + 1 \in 1 .. Len(s) + 1 /\ At(s, p + 1) = "quote"
      /\ Strings(s)[p + 2] = [read |-> <<key>>, next |-> p + 4]
      /\ At(s, p + 4) = "colon"
  BY ReadKey
<1>2. Members(s)[p + 1] = MembersAt(s, Strings(s), Members(s), p + 1)
  BY <1>1, MembersDef
<1>3. (p + 1) + 1 = p + 2 /\ (p + 4) + 1 = p + 5 /\ p + 4 /= 0
  BY <1>1
<1>4. /\ Strings(s)[p + 2].next = p + 4 /\ Strings(s)[p + 2].read = <<key>>
      /\ At(s, Strings(s)[p + 2].next) = "colon"
      /\ ValueAt(s, Strings(s), Members(s), Strings(s)[p + 2].next + 1) =
            [pairs |-> pairs, next |-> c]
  BY <1>1, <1>3 DEF ValueIs
<1>. DEFINE str == Strings(s)
            mem == Members(s)
            i   == p + 1
            value == ValueAt(s, str, mem, str[i + 1].next + 1)
<1>5. /\ At(s, i) = "quote" /\ str[i + 1].next /= 0
      /\ At(s, str[i + 1].next) = "colon" /\ str[i + 1].read = <<key>>
      /\ value = [pairs |-> pairs, next |-> c]
  BY <1>1, <1>3, <1>4
<1>6. value.next = c /\ value.pairs = pairs
  BY <1>5
<1>7. ASSUME At(s, value.next) = "close"
      PROVE  MembersAt(s, str, mem, i) =
                [pairs |-> Below(str[i + 1].read, value.pairs),
                 next |-> value.next + 1]
  <2>. HIDE DEF str, mem, i
  <2>. QED  BY <1>5, <1>6, <1>7 DEF MembersAt
<1>8. ASSUME At(s, value.next) = "comma", mem[value.next + 1].next /= 0
      PROVE  MembersAt(s, str, mem, i) =
                [pairs |-> Below(str[i + 1].read, value.pairs)
                                \cup mem[value.next + 1].pairs,
                 next |-> mem[value.next + 1].next]
  <2>. HIDE DEF str, mem, i
  <2>. QED  BY <1>5, <1>6, <1>8 DEF MembersAt
<1>. HIDE DEF value
<1>. QED  BY <1>2, <1>5, <1>6, <1>7, <1>8 DEF Reads
-----------------------------------------------------------------------------
(* What is written *)

(* A place of the code has a line, which begins at or before it and ends at *)
(* or behind it.                                                           *)
LEMMA LineBounds ==
    ASSUME NEW code \in Text, NEW pos \in 1 .. Len(code) + 1
    PROVE  /\ LineStart(code, pos) \in 1 .. pos
           /\ LineEnd(code, pos) \in pos .. Len(code) + 1
<1>. DEFINE n == Len(code)
            Start(i) == /\ i = 1 \/ code[i - 1] = "newline"
                        /\ \A j \in i .. pos - 1 : code[j] /= "newline"
            Ends(i) == /\ i = n + 1 \/ code[i] = "newline"
                      /\ \A j \in pos .. i - 1 : code[j] /= "newline"
<1>1. n \in Nat
  BY LenProperties DEF Text
<1>2. \E i \in 1 .. pos : Start(i)
  <2>. DEFINE T == {i \in 1 .. pos : i = 1 \/ code[i - 1] = "newline"}
  <2>1. 1 \in T /\ T \subseteq 0 .. pos /\ pos \in Nat
    BY <1>1
  <2>2. PICK i \in T : \A j \in T : i >= j
    <3>. HIDE DEF T
    <3>. QED  BY <2>1, Greatest
  <2>3. ASSUME NEW j \in i .. pos - 1, code[j] = "newline" PROVE FALSE
    <3>1. j + 1 \in 1 .. pos /\ (j + 1) - 1 = j /\ j \in Int /\ i \in Int
      BY <1>1
    <3>2. j + 1 \in T
      BY <2>3, <3>1
    <3>3. i >= j + 1 /\ i <= j
      BY <2>2, <3>2
    <3>. HIDE DEF T
    <3>. QED  BY <3>1, <3>3
  <2>. QED  BY <2>3
<1>3. \E i \in pos .. n + 1 : Ends(i)
  <2>. DEFINE T == {i \in pos .. n + 1 : i = n + 1 \/ code[i] = "newline"}
  <2>1. n + 1 \in T /\ T \subseteq Nat
    BY <1>1
  <2>2. PICK i \in T : \A j \in T : i <= j
    <3>. HIDE DEF T
    <3>. QED  BY <2>1, Least
  <2>3. ASSUME NEW j \in pos .. i - 1, code[j] = "newline" PROVE FALSE
    <3>1. j \in pos .. n + 1 /\ j < i /\ j \in Int /\ i \in Int
      BY <1>1
    <3>2. j \in T
      BY <2>3, <3>1
    <3>3. i <= j
      BY <2>2, <3>2
    <3>. HIDE DEF T
    <3>. QED  BY <3>1, <3>3
  <2>. QED  BY <2>3
<1>4. LineStart(code, pos) = CHOOSE i \in 1 .. pos : Start(i)
  BY DEF LineStart
<1>5. LineEnd(code, pos) = CHOOSE i \in pos .. n + 1 : Ends(i)
  BY DEF LineEnd
<1>. HIDE DEF Start, Ends
<1>. QED  BY <1>2, <1>3, <1>4, <1>5

Column(err)     == GetStartColumn(Code(err.libs, err.script), Position(err))
SourceLine(err) == GetSourceLine(Code(err.libs, err.script), Position(err))

LEMMA ErrorType ==
    ASSUME NEW err, ErrorOk(err)
    PROVE  /\ err.libs \in Text /\ err.script \in Text /\ err.message \in Text
           /\ err.stack \in Text /\ LineNumber(err) \in Nat
           /\ Column(err) \in Nat /\ SourceLine(err) \in Text
<1>1. /\ err.libs \in Text /\ err.script \in Text /\ err.message \in Text
      /\ err.stack \in Text
  BY ErrorAssumption DEF ErrorOk, Errors, Text
<1>. DEFINE libs   == err.libs
            script == err.script
            at     == err.at
            code   == Code(libs, script)
            pos    == Position(err)
<1>2. libs \in Text /\ script \in Text /\ at \in 1 .. Len(script) + 1
  BY <1>1 DEF ErrorOk
<1>0. pos = Len(Before(libs)) + at
  BY DEF Position
<1>3. LineNumber(err) \in Nat
  <2>1. at - 1 \in Nat
    BY <1>2, LenProperties DEF Text
  <2>2. Count("newline", script, at - 1) \in Nat
    BY <2>1, CountType
  <2>. QED  BY <2>2, LineIsOfScript
<1>. HIDE DEF libs, script, at, pos
<1>4. code \in Text /\ pos \in 1 .. Len(code) + 1 /\ Len(code) \in Nat
  <2>1. Len(libs) \in Nat /\ Len(script) \in Nat
    BY <1>2, LenProperties DEF Text
  <2>2. /\ code \in Text /\ Len(code) = Len(libs) + Len(script) + 8
        /\ Len(Before(libs)) = Len(libs) + 6
    BY <1>2, Layout
  <2>. HIDE DEF code
  <2>. QED  BY <1>0, <1>2, <2>1, <2>2
<1>. HIDE DEF code
<1>5. /\ LineStart(code, pos) \in 1 .. pos
      /\ LineEnd(code, pos) \in pos .. Len(code) + 1
  BY <1>4, LineBounds
<1>6. GetStartColumn(code, pos) \in Nat
  BY <1>4, <1>5 DEF GetStartColumn
<1>7. GetSourceLine(code, pos) \in Text
  <2>. DEFINE a == LineStart(code, pos)
              b == LineEnd(code, pos) - 1
  <2>1. a \in Int /\ b \in Int /\ \A i \in a .. b : i \in 1 .. Len(code)
    BY <1>4, <1>5
  <2>2. \A i \in 1 .. Len(code) : code[i] \in Chars
    BY <1>4 DEF Text
  <2>. HIDE DEF a, b
  <2>3. SubSeq(code, a, b) \in Seq(Chars)
    BY <2>1, <2>2, SubSeqProperties
  <2>. QED  BY <2>3 DEF GetSourceLine, a, b, Text
<1>. QED  BY <1>1, <1>3, <1>6, <1>7 DEF code, pos, libs, script, Column, SourceLine

(* What one call writes: a name, what stands behind it, a brace.           *)
Named(comma, key) == comma \o <<"quote", key, "quote", "colon">>
Quoted(text)      == <<"quote">> \o text \o <<"quote">>

Member(comma, key, text) == Named(comma, key) \o Quoted(text)
Opener(comma, key)       == Named(comma, key) \o <<"open">>
Closer                   == <<"close">>

Pieces(err) ==
    <<Member(<<>>, "name", <<"error">>),
      Opener(<<"comma">>, "data"),
      Member(<<>>, "name", <<"CompilerError">>),
      Member(<<"comma">>, "message", err.message),
      Member(<<"comma">>, "stack", Escape(err.stack)),
      Member(<<"comma">>, "linenum", Digits(LineNumber(err))),
      Member(<<"comma">>, "columnnum", Digits(Column(err))),
      Member(<<"comma">>, "jscode", SourceLine(err)),
      Closer, Closer>>

(* The text behind the first k calls, and the objects that are open then,  *)
(* with the members each of them has.                                      *)
Texts(err) == LET f[k \in 0 .. 10] == IF k = 0 THEN <<"open">>
                                      ELSE f[k - 1] \o Pieces(err)[k]
              IN  f
Open(k) == CASE k = 0       -> <<0>>
             [] k = 1       -> <<1>>
             [] k \in 2 .. 8 -> <<2, k - 2>>
             [] k = 9       -> <<2>>
             [] k \notin 0 .. 9 -> <<>>

JsonInv ==
    /\ ErrorOk(error)
    /\ done \in 0 .. 11
    /\ json = Texts(error)[IF done = 11 THEN 10 ELSE done]
    /\ counts = Open(done)
    /\ done = 11 => received = Parse(json)

LEMMA FewTokens ==
    /\ <<>> \in Text
    /\ \A a \in Chars : <<a>> \in Text
    /\ \A a, b, c, d \in Chars : <<a, b, c, d>> \in Text
BY DEF Text

LEMMA Tuple ==
    ASSUME NEW a \in Text, NEW b \in Text, NEW c \in Text, NEW d \in Text,
           NEW e \in Text, NEW f \in Text, NEW g \in Text, NEW h \in Text,
           NEW i \in Text
    PROVE  \A k \in 1 .. 10 : <<a, b, c, d, e, f, g, h, i, i>>[k] \in Text
<1>. SUFFICES ASSUME NEW k \in 1 .. 10
              PROVE  <<a, b, c, d, e, f, g, h, i, i>>[k] \in Text
  OBVIOUS
<1>1. k \in {1, 2, 3, 4, 5, 6, 7, 8, 9, 10}
  OBVIOUS
<1>. QED  BY <1>1

LEMMA NamedType ==
    ASSUME NEW key \in Fixed, NEW comma \in {<<>>, <<"comma">>}
    PROVE  /\ Named(comma, key) \in Text
           /\ <<"quote", key, "quote", "colon">> \in Text /\ comma \in Text
<1>1. key \in Chars /\ "quote" \in Chars /\ "colon" \in Chars /\ "comma" \in Chars
  <2>1. "quote" \in Fixed /\ "colon" \in Fixed /\ "comma" \in Fixed
    BY DEF Fixed
  <2>. QED  BY <2>1, Written
<1>2. <<"quote", key, "quote", "colon">> \in Text
  BY <1>1, FewTokens
<1>3. comma \in Text
  BY <1>1, FewTokens
<1>. QED  BY <1>2, <1>3, Concat DEF Named

LEMMA PiecesType ==
    ASSUME NEW err, ErrorOk(err)
    PROVE  /\ \A k \in 1 .. 10 : Pieces(err)[k] \in Text
           /\ Escape(err.stack) \in Text
           /\ Digits(LineNumber(err)) \in Text /\ Digits(Column(err)) \in Text
           /\ <<"error">> \in Text /\ <<"CompilerError">> \in Text
<1>1. \A c \in Fixed : c \in Chars /\ <<c>> \in Text
  BY Written, FewTokens
<1>2. /\ "quote" \in Fixed /\ "colon" \in Fixed /\ "comma" \in Fixed /\ "open" \in Fixed
      /\ "close" \in Fixed /\ "error" \in Fixed /\ "CompilerError" \in Fixed
      /\ "1" \in Fixed
      /\ \A c \in {"name", "data", "message", "stack", "linenum", "columnnum",
                   "jscode"} : c \in Fixed
  BY DEF Fixed
<1>3. ASSUME NEW key \in Fixed, NEW comma \in {<<>>, <<"comma">>}
      PROVE  Named(comma, key) \in Text
  BY NamedType
<1>4. ASSUME NEW text \in Text PROVE Quoted(text) \in Text
  <2>1. <<"quote">> \in Text
    BY <1>1, <1>2
  <2>. QED  BY <2>1, Concat DEF Quoted
<1>5. ASSUME NEW n \in Nat PROVE Digits(n) \in Text
  <2>1. "1" \in Chars
    BY <1>1, <1>2
  <2>. QED  BY <2>1 DEF Digits, Text
<1>6. Escape(err.stack) \in Text
  <2>1. err.stack \in Text
    BY ErrorType
  <2>2. Len(err.stack) \in 0 .. Len(err.stack)
    BY <2>1, LenProperties DEF Text
  <2>. QED  BY <2>1, <2>2, EscapesType DEF Escape
<1>7. /\ Digits(LineNumber(err)) \in Text /\ Digits(Column(err)) \in Text
      /\ <<"error">> \in Text /\ <<"CompilerError">> \in Text
  BY <1>1, <1>2, <1>5, ErrorType
<1>8. ASSUME NEW key \in Fixed, NEW comma \in {<<>>, <<"comma">>}, NEW text \in Text
      PROVE  Member(comma, key, text) \in Text
  BY <1>3, <1>4, Concat DEF Member
<1>9. /\ Member(<<>>, "name", <<"error">>) \in Text
      /\ Opener(<<"comma">>, "data") \in Text
      /\ Member(<<>>, "name", <<"CompilerError">>) \in Text
      /\ Member(<<"comma">>, "message", err.message) \in Text
      /\ Member(<<"comma">>, "stack", Escape(err.stack)) \in Text
      /\ Member(<<"comma">>, "linenum", Digits(LineNumber(err))) \in Text
      /\ Member(<<"comma">>, "columnnum", Digits(Column(err))) \in Text
      /\ Member(<<"comma">>, "jscode", SourceLine(err)) \in Text
      /\ Closer \in Text
  <2>1. Opener(<<"comma">>, "data") \in Text
    BY <1>1, <1>2, <1>3, Concat DEF Opener
  <2>2. Closer \in Text
    BY <1>1, <1>2 DEF Closer
  <2>3. err.message \in Text /\ SourceLine(err) \in Text
    BY ErrorType
  <2>. QED  BY <1>2, <1>6, <1>7, <1>8, <2>1, <2>2, <2>3
<1>10. \A k \in 1 .. 10 : Pieces(err)[k] \in Text
  BY <1>9, Tuple, Zenon DEF Pieces
<1>. QED  BY <1>6, <1>7, <1>10

LEMMA TextsJoin ==
    ASSUME NEW err, ErrorOk(err)
    PROVE  /\ Texts(err)[0] = <<"open">> /\ <<"open">> \in Text
           /\ Joined(Texts(err), 10, Pieces(err))
<1>1. \E f : Joins(f, 10, <<"open">>, Pieces(err))
  BY Joinable, Zenon
<1>2. Texts(err) = [k \in 0 .. 10 |-> IF k = 0 THEN <<"open">>
                                      ELSE Texts(err)[k - 1] \o Pieces(err)[k]]
  BY <1>1 DEF Joins, Texts
<1>. DEFINE first == <<"open">>
            f == Texts(err)
            parts == Pieces(err)
<1>. HIDE DEF first, f, parts
<1>0. f = [k \in 0 .. 10 |-> IF k = 0 THEN first ELSE f[k - 1] \o parts[k]]
  BY <1>2 DEF first, f, parts
<1>3. f[0] = first
  BY <1>0
<1>4. ASSUME NEW k \in 1 .. 10
      PROVE  /\ Pieces(err)[k] \in Text
             /\ Texts(err)[k] = Texts(err)[k - 1] \o Pieces(err)[k]
  <2>1. Texts(err)[k] = Texts(err)[k - 1] \o Pieces(err)[k]
    <3>0. k \in 0 .. 10 /\ k /= 0
      OBVIOUS
    <3>1. f[k] = f[k - 1] \o parts[k]
      BY <1>0, <3>0, Zenon
    <3>. QED  BY <3>1 DEF f, parts
  <2>. QED  BY <2>1, PiecesType
<1>5. <<"open">> \in Text
  <2>1. "open" \in Chars
    BY Written DEF Fixed
  <2>. QED  BY <2>1, FewTokens
<1>6. Joined(Texts(err), 10, Pieces(err))
  BY <1>4, Zenon DEF Joined
<1>. QED  BY <1>3, <1>5, <1>6 DEF first, f
-----------------------------------------------------------------------------
(* Writing *)

LEMMA CallsAre ==
    ASSUME NEW err
    PROVE  /\ Len(Calls(err)) = 10
           /\ Calls(err)[1] = Set("name", <<"error">>)
           /\ Calls(err)[2] = Childen("data")
           /\ Calls(err)[3] = Set("name", <<"CompilerError">>)
           /\ Calls(err)[4] = Set("message", err.message)
           /\ Calls(err)[5] = SetMultLine("stack", err.stack)
           /\ Calls(err)[6] = Set("linenum", Digits(LineNumber(err)))
           /\ Calls(err)[7] = Set("columnnum", Digits(Column(err)))
           /\ Calls(err)[8] = Set("jscode", SourceLine(err))
           /\ Calls(err)[9] = End /\ Calls(err)[10] = End
BY DEF Calls, Column, SourceLine

LEMMA PiecesAre ==
    ASSUME NEW err
    PROVE  /\ Pieces(err)[1] = Member(<<>>, "name", <<"error">>)
           /\ Pieces(err)[2] = Opener(<<"comma">>, "data")
           /\ Pieces(err)[3] = Member(<<>>, "name", <<"CompilerError">>)
           /\ Pieces(err)[4] = Member(<<"comma">>, "message", err.message)
           /\ Pieces(err)[5] = Member(<<"comma">>, "stack", Escape(err.stack))
           /\ Pieces(err)[6] =
                Member(<<"comma">>, "linenum", Digits(LineNumber(err)))
           /\ Pieces(err)[7] =
                Member(<<"comma">>, "columnnum", Digits(Column(err)))
           /\ Pieces(err)[8] = Member(<<"comma">>, "jscode", SourceLine(err))
           /\ Pieces(err)[9] = Closer /\ Pieces(err)[10] = Closer
BY DEF Pieces

Sep(n) == IF n > 0 THEN <<"comma">> ELSE <<>>

(* The count of the members of the object that is open decides the comma.  *)
LEMMA MembersCounted ==
    ASSUME NEW key
    PROVE  /\ counts = <<0>> => /\ WriteKey(key) = Named(<<>>, key)
                                /\ Counted = <<1>>
           /\ counts = <<1>> => /\ WriteKey(key) = Named(<<"comma">>, key)
                                /\ Counted = <<2>>
           /\ \A n \in Nat : counts = <<2, n>> =>
                 /\ WriteKey(key) = Named(Sep(n), key)
                 /\ Counted = <<2, n + 1>>
<1>1. ASSUME NEW n \in Nat, counts = <<n>>
      PROVE  /\ WriteKey(key) = Named(Sep(n), key)
             /\ Counted = <<n + 1>>
  <2>1. Len(counts) = 1 /\ counts[1] = n
    BY <1>1
  <2>2. WriteKey(key) = Named(Sep(n), key)
    BY <2>1 DEF WriteKey, Named, Sep
  <2>3. Counted = <<n + 1>>
    BY <1>1, <2>1 DEF Counted
  <2>. QED  BY <2>2, <2>3
<1>2. ASSUME NEW n \in Nat, counts = <<2, n>>
      PROVE  /\ WriteKey(key) = Named(Sep(n), key)
             /\ Counted = <<2, n + 1>>
  <2>1. Len(counts) = 2 /\ counts[2] = n
    BY <1>2
  <2>2. WriteKey(key) = Named(Sep(n), key)
    BY <2>1 DEF WriteKey, Named, Sep
  <2>3. Counted = <<2, n + 1>>
    BY <1>2, <2>1 DEF Counted
  <2>. QED  BY <2>2, <2>3
<1>4. /\ 0 \in Nat /\ 1 \in Nat /\ 0 + 1 = 1 /\ 1 + 1 = 2
      /\ Sep(0) = <<>> /\ Sep(1) = <<"comma">>
  BY DEF Sep
<1>. QED  BY <1>1, <1>2, <1>4

LEMMA Associative ==
    ASSUME NEW a \in Text, NEW b \in Text, NEW c \in Text
    PROVE  (a \o b) \o c = a \o (b \o c)
BY ConcatAssociative DEF Text

(* What a member appends.                                                  *)
LEMMA Appends ==
    ASSUME json \in Text, NEW key, NEW comma,
           Named(comma, key) \in Text, WriteKey(key) = Named(comma, key)
    PROVE  /\ \A b \in Text :
                Extended(key, b) = json \o Member(comma, key, b)
           /\ Begun(key) = json \o Opener(comma, key)
<1>1. <<"quote">> \in Text /\ <<"open">> \in Text
  <2>1. "quote" \in Chars /\ "open" \in Chars
    BY Written DEF Fixed
  <2>. QED  BY <2>1, FewTokens
<1>3. ASSUME NEW b \in Text
      PROVE  Extended(key, b) = json \o Member(comma, key, b)
  <2>. DEFINE a  == Named(comma, key)
              q  == <<"quote">>
              s  == json \o a
              qb == q \o b
              w  == qb \o q
  <2>1. WriteKey(key) = a /\ a \in Text /\ q \in Text
    BY <1>1
  <2>. HIDE DEF a, q
  <2>2. s \in Text /\ qb \in Text
    BY <2>1, Concat
  <2>3. w \in Text
    BY <2>1, <2>2, Concat
  <2>4. (s \o q) \o b = s \o qb
    <3>. HIDE DEF s
    <3>. QED  BY <2>1, <2>2, Associative
  <2>5. (s \o qb) \o q = s \o w
    <3>. HIDE DEF s, qb, w
    <3>1. w = qb \o q
      BY DEF w
    <3>2. \A c \in Text : (s \o qb) \o c = s \o (qb \o c)
      BY <2>2, Associative
    <3>. QED  BY <2>1, <3>1, <3>2
  <2>6. s \o w = json \o (a \o w)
    <3>. HIDE DEF w
    <3>. QED  BY <2>1, <2>3, Associative
  <2>7. ((s \o q) \o b) \o q = json \o (a \o w)
    <3>. HIDE DEF s, w
    <3>. QED  BY <2>4, <2>5, <2>6
  <2>8. json \o WriteKey(key) = s
    BY <2>1
  <2>. HIDE DEF s
  <2>9. json \o WriteKey(key) \o q \o b \o q = json \o (a \o w)
    BY <2>7, <2>8
  <2>. QED  BY <2>9 DEF a, q, Quoted, Member, Extended
<1>4. Begun(key) = json \o Opener(comma, key)
  <2>. DEFINE w == Named(comma, key)
              q == <<"open">>
  <2>1. WriteKey(key) = w /\ w \in Text /\ q \in Text
    BY <1>1
  <2>. HIDE DEF w, q
  <2>2. json \o WriteKey(key) \o q = json \o (w \o q)
    BY <2>1, Associative
  <2>. QED  BY <2>2 DEF w, q, Begun, Opener
<1>. QED  BY <1>3, <1>4

LEMMA OpenIs ==
    /\ Open(0) = <<0>> /\ Open(1) = <<1>> /\ Open(9) = <<2>>
    /\ Open(10) = <<>> /\ Open(11) = <<>>
    /\ \A k \in 2 .. 8 : Open(k) = <<2, k - 2>>
<1>1. ASSUME NEW k \in 2 .. 8 PROVE Open(k) = <<2, k - 2>>
  BY DEF Open
<1>2. /\ Open(0) = <<0>> /\ Open(1) = <<1>> /\ Open(9) = <<2>>
      /\ Open(10) = <<>> /\ Open(11) = <<>>
  BY DEF Open
<1>. QED  BY <1>1, <1>2

LEMMA Pairs ==
    ASSUME NEW x \in Nat, NEW y \in Nat
    PROVE  <<x>> \o <<y>> = <<x, y>> /\ SubSeq(<<x, y>>, 1, 1) = <<x>>
<1>1. <<x>> \o <<y>> = <<x, y>>
  <2>. DEFINE s == <<x>>
              t == <<y>>
              u == s \o t
  <2>1. /\ s \in Seq(Nat) /\ t \in Seq(Nat) /\ Len(s) = 1 /\ Len(t) = 1
        /\ s[1] = x /\ t[1] = y
    OBVIOUS
  <2>. HIDE DEF s, t
  <2>2. u \in Seq(Nat) /\ Len(u) = 2 /\ u[1] = x /\ u[2] = y
    <3>1. /\ s \o t \in Seq(Nat) /\ Len(s \o t) = Len(s) + Len(t)
          /\ \A i \in 1 .. Len(s) + Len(t) :
                (s \o t)[i] = IF i <= Len(s) THEN s[i] ELSE t[i - Len(s)]
      BY <2>1, ConcatProperties
    <3>. HIDE DEF u
    <3>2. u \in Seq(Nat) /\ Len(u) = 2
      BY <2>1, <3>1 DEF u
    <3>3. 1 \in 1 .. Len(s) + Len(t) /\ 2 \in 1 .. Len(s) + Len(t)
      BY <2>1
    <3>4. u[1] = x /\ u[2] = y
      BY <2>1, <3>1, <3>3 DEF u
    <3>. QED  BY <3>2, <3>4
  <2>. HIDE DEF u
  <2>3. u = <<x, y>>
    BY <2>2
  <2>. QED  BY <2>3 DEF s, t, u
<1>2. SubSeq(<<x, y>>, 1, 1) = <<x>>
  <2>. DEFINE s == <<x, y>>
              u == SubSeq(s, 1, 1)
  <2>1. s[1] = x /\ \A i \in 1 .. 1 : s[i] \in Nat
    OBVIOUS
  <2>. HIDE DEF s
  <2>2. u \in Seq(Nat) /\ Len(u) = 1 /\ u[1] = s[1]
    BY <2>1, SubSeqProperties
  <2>. HIDE DEF u
  <2>3. u = <<x>>
    BY <2>1, <2>2
  <2>. QED  BY <2>3 DEF s, u
<1>. QED  BY <1>1, <1>2

(* A member of data: the first one is written without a comma.             *)
LEMMA DataMember ==
    ASSUME json \in Text, NEW k \in 2 .. 7, counts = Open(k),
           NEW key \in Fixed, NEW text \in Text
    PROVE  /\ Extended(key, text) = json \o Member(Sep(k - 2), key, text)
           /\ Counted = Open(k + 1)
<1>. DEFINE n == k - 2
            comma == Sep(n)
<1>1. n \in Nat /\ n + 1 = (k + 1) - 2 /\ k \in 2 .. 8 /\ k + 1 \in 2 .. 8
  OBVIOUS
<1>2. counts = <<2, n>> /\ Open(k + 1) = <<2, n + 1>>
  <2>1. Open(k) = <<2, k - 2>> /\ Open(k + 1) = <<2, (k + 1) - 2>>
    BY <1>1, OpenIs
  <2>. QED  BY <1>1, <2>1
<1>3. comma \in {<<>>, <<"comma">>}
  BY DEF Sep
<1>. HIDE DEF n, comma
<1>4. WriteKey(key) = Named(comma, key) /\ Counted = <<2, n + 1>>
  BY <1>1, <1>2, MembersCounted DEF comma
<1>5. Named(comma, key) \in Text
  BY <1>3, NamedType
<1>. QED  BY <1>2, <1>4, <1>5, Appends DEF comma, n

LEMMA Writes ==
    ASSUME ErrorOk(error), json \in Text, done \in 0 .. 9, counts = Open(done),
           Apply(Calls(error)[done + 1])
    PROVE  json' = json \o Pieces(error)[done + 1] /\ counts' = Open(done + 1)
<1>. DEFINE call == Calls(error)[done + 1]
<1>0. /\ "name" \in Fixed /\ "data" \in Fixed /\ "message" \in Fixed
      /\ "stack" \in Fixed /\ "linenum" \in Fixed /\ "columnnum" \in Fixed
      /\ "jscode" \in Fixed
  BY DEF Fixed
<1>1. /\ <<"error">> \in Text /\ <<"CompilerError">> \in Text
      /\ error.message \in Text /\ Escape(error.stack) \in Text
      /\ Digits(LineNumber(error)) \in Text /\ Digits(Column(error)) \in Text
      /\ SourceLine(error) \in Text
  BY PiecesType, ErrorType
<1>2. /\ call.op = "set" => json' = Extended(call.key, call.text) /\ counts' = Counted
      /\ call.op = "setMultLine" =>
            json' = Extended(call.key, Escape(call.text)) /\ counts' = Counted
      /\ call.op = "childen" =>
            json' = Begun(call.key) /\ counts' = Counted \o <<0>>
      /\ call.op = "end" =>
            /\ json' = json \o Closer
            /\ counts' = SubSeq(counts, 1, Len(counts) - 1)
  BY DEF Apply, Child, Closer
<1>3. CASE done = 0
  <2>1. call = Set("name", <<"error">>)
    BY <1>3, CallsAre
  <2>2. json' = Extended("name", <<"error">>) /\ counts' = Counted
    BY <1>2, <2>1 DEF Set
  <2>3. counts = <<0>> /\ Open(done + 1) = <<1>>
    BY <1>3, OpenIs
  <2>4. WriteKey("name") = Named(<<>>, "name") /\ Counted = <<1>>
    BY <2>3, MembersCounted
  <2>5. Named(<<>>, "name") \in Text
    BY <1>0, NamedType
  <2>6. Pieces(error)[done + 1] = Member(<<>>, "name", <<"error">>)
    <3>1. done + 1 = 1
      BY <1>3
    <3>. QED  BY <3>1, PiecesAre, Zenon
  <2>. QED  BY <1>1, <2>2, <2>3, <2>4, <2>5, <2>6, Appends
<1>4. CASE done = 1
  <2>1. call = Childen("data")
    BY <1>4, CallsAre
  <2>2. json' = Begun("data") /\ counts' = Counted \o <<0>>
    BY <1>2, <2>1 DEF Childen
  <2>3. counts = <<1>> /\ Open(done + 1) = <<2, 0>>
    BY <1>4, OpenIs
  <2>4. WriteKey("data") = Named(<<"comma">>, "data") /\ Counted = <<2>>
    BY <2>3, MembersCounted
  <2>5. Named(<<"comma">>, "data") \in Text
    BY <1>0, NamedType
  <2>6. Pieces(error)[done + 1] = Opener(<<"comma">>, "data")
    <3>1. done + 1 = 2
      BY <1>4
    <3>. QED  BY <3>1, PiecesAre, Zenon
  <2>7. <<2>> \o <<0>> = <<2, 0>>
    BY Pairs
  <2>. QED  BY <1>1, <2>2, <2>3, <2>4, <2>5, <2>6, <2>7, Appends
<1>5. CASE done = 2
  <2>1. call = Set("name", <<"CompilerError">>)
    BY <1>5, CallsAre
  <2>2. json' = Extended("name", <<"CompilerError">>) /\ counts' = Counted
    BY <1>2, <2>1 DEF Set
  <2>3. Pieces(error)[done + 1] = Member(<<>>, "name", <<"CompilerError">>)
    <3>1. done + 1 = 3
      BY <1>5
    <3>. QED  BY <3>1, PiecesAre, Zenon
  <2>4. done \in 2 .. 7 /\ Sep(done - 2) = <<>>
    BY <1>5 DEF Sep
  <2>5. /\ Extended("name", <<"CompilerError">>) =
              json \o Member(Sep(done - 2), "name", <<"CompilerError">>)
        /\ Counted = Open(done + 1)
    BY <1>0, <1>1, <2>4, DataMember
  <2>. QED  BY <2>2, <2>3, <2>4, <2>5, Zenon
<1>6. CASE done = 3
  <2>1. call = Set("message", error.message)
    BY <1>6, CallsAre
  <2>2. json' = Extended("message", error.message) /\ counts' = Counted
    BY <1>2, <2>1 DEF Set
  <2>3. Pieces(error)[done + 1] = Member(<<"comma">>, "message", error.message)
    <3>1. done + 1 = 4
      BY <1>6
    <3>. QED  BY <3>1, PiecesAre, Zenon
  <2>4. done \in 2 .. 7 /\ Sep(done - 2) = <<"comma">>
    BY <1>6 DEF Sep
  <2>5. /\ Extended("message", error.message) =
              json \o Member(Sep(done - 2), "message", error.message)
        /\ Counted = Open(done + 1)
    BY <1>0, <1>1, <2>4, DataMember
  <2>. QED  BY <2>2, <2>3, <2>4, <2>5, Zenon
<1>7. CASE done = 4
  <2>1. call = SetMultLine("stack", error.stack)
    BY <1>7, CallsAre
  <2>2. json' = Extended("stack", Escape(error.stack)) /\ counts' = Counted
    BY <1>2, <2>1 DEF SetMultLine
  <2>3. Pieces(error)[done + 1] =
            Member(<<"comma">>, "stack", Escape(error.stack))
    <3>1. done + 1 = 5
      BY <1>7
    <3>. QED  BY <3>1, PiecesAre, Zenon
  <2>4. done \in 2 .. 7 /\ Sep(done - 2) = <<"comma">>
    BY <1>7 DEF Sep
  <2>5. /\ Extended("stack", Escape(error.stack)) =
              json \o Member(Sep(done - 2), "stack", Escape(error.stack))
        /\ Counted = Open(done + 1)
    BY <1>0, <1>1, <2>4, DataMember
  <2>. QED  BY <2>2, <2>3, <2>4, <2>5, Zenon
<1>8. CASE done = 5
  <2>. DEFINE text == Digits(LineNumber(error))
  <2>1. call = Set("linenum", text)
    BY <1>8, CallsAre
  <2>2. json' = Extended("linenum", text) /\ counts' = Counted
    BY <1>2, <2>1 DEF Set
  <2>3. Pieces(error)[done + 1] = Member(<<"comma">>, "linenum", text)
    <3>1. done + 1 = 6
      BY <1>8
    <3>. QED  BY <3>1, PiecesAre, Zenon
  <2>4. done \in 2 .. 7 /\ Sep(done - 2) = <<"comma">>
    BY <1>8 DEF Sep
  <2>5. /\ Extended("linenum", text) =
              json \o Member(Sep(done - 2), "linenum", text)
        /\ Counted = Open(done + 1)
    BY <1>0, <1>1, <2>4, DataMember
  <2>. QED  BY <2>2, <2>3, <2>4, <2>5, Zenon
<1>9. CASE done = 6
  <2>. DEFINE text == Digits(Column(error))
  <2>1. call = Set("columnnum", text)
    BY <1>9, CallsAre
  <2>2. json' = Extended("columnnum", text) /\ counts' = Counted
    BY <1>2, <2>1 DEF Set
  <2>3. Pieces(error)[done + 1] = Member(<<"comma">>, "columnnum", text)
    <3>1. done + 1 = 7
      BY <1>9
    <3>. QED  BY <3>1, PiecesAre, Zenon
  <2>4. done \in 2 .. 7 /\ Sep(done - 2) = <<"comma">>
    BY <1>9 DEF Sep
  <2>5. /\ Extended("columnnum", text) =
              json \o Member(Sep(done - 2), "columnnum", text)
        /\ Counted = Open(done + 1)
    BY <1>0, <1>1, <2>4, DataMember
  <2>. QED  BY <2>2, <2>3, <2>4, <2>5, Zenon
<1>10. CASE done = 7
  <2>1. call = Set("jscode", SourceLine(error))
    BY <1>10, CallsAre
  <2>2. json' = Extended("jscode", SourceLine(error)) /\ counts' = Counted
    BY <1>2, <2>1 DEF Set
  <2>3. Pieces(error)[done + 1] = Member(<<"comma">>, "jscode", SourceLine(error))
    <3>1. done + 1 = 8
      BY <1>10
    <3>. QED  BY <3>1, PiecesAre, Zenon
  <2>4. done \in 2 .. 7 /\ Sep(done - 2) = <<"comma">>
    BY <1>10 DEF Sep
  <2>5. /\ Extended("jscode", SourceLine(error)) =
              json \o Member(Sep(done - 2), "jscode", SourceLine(error))
        /\ Counted = Open(done + 1)
    BY <1>0, <1>1, <2>4, DataMember
  <2>. QED  BY <2>2, <2>3, <2>4, <2>5, Zenon
<1>11. CASE done = 8
  <2>0. call = End
    BY <1>11, CallsAre
  <2>1. Pieces(error)[done + 1] = Closer
    <3>1. done + 1 = 9
      BY <1>11
    <3>. QED  BY <3>1, PiecesAre, Zenon
  <2>2. json' = json \o Closer /\ counts' = SubSeq(counts, 1, Len(counts) - 1)
    <3>0. End.op = "end"
      BY DEF End
    <3>1. call.op = "end"
      BY <2>0, <3>0, Zenon
    <3>. QED  BY <1>2, <3>1
  <2>3. counts = <<2, 6>> /\ Open(done + 1) = <<2>>
    BY <1>11, OpenIs
  <2>4. Len(counts) - 1 = 1
    BY <2>3
  <2>5. SubSeq(<<2, 6>>, 1, 1) = <<2>>
    BY Pairs
  <2>. QED  BY <2>1, <2>2, <2>3, <2>4, <2>5
<1>12. CASE done = 9
  <2>0. call = End
    BY <1>12, CallsAre
  <2>1. Pieces(error)[done + 1] = Closer
    <3>1. done + 1 = 10
      BY <1>12
    <3>. QED  BY <3>1, PiecesAre, Zenon
  <2>2. json' = json \o Closer /\ counts' = SubSeq(counts, 1, Len(counts) - 1)
    <3>0. End.op = "end"
      BY DEF End
    <3>1. call.op = "end"
      BY <2>0, <3>0, Zenon
    <3>. QED  BY <1>2, <3>1
  <2>3. counts = <<2>> /\ Open(done + 1) = <<>>
    BY <1>12, OpenIs
  <2>4. Len(counts) - 1 = 0
    BY <2>3
  <2>5. SubSeq(<<2>>, 1, 0) = <<>>
    BY SubSeqEmpty
  <2>. QED  BY <2>1, <2>2, <2>3, <2>4, <2>5
<1>13. done \in {0, 1, 2, 3, 4, 5, 6, 7, 8, 9}
  OBVIOUS
<1>. QED  BY <1>3, <1>4, <1>5, <1>6, <1>7, <1>8, <1>9, <1>10, <1>11,
               <1>12, <1>13

LEMMA TextsType ==
    ASSUME NEW err, ErrorOk(err)
    PROVE  \A k \in 0 .. 10 : Texts(err)[k] \in Text
BY TextsJoin, JoinedType

LEMMA JsonInit ==
    Init => JsonInv
<1>. SUFFICES ASSUME Init PROVE JsonInv
  OBVIOUS
<1>0. PICK libs \in Libs, script \in Scripts, message \in Messages,
           stack \in Messages :
        \E at \in 1 .. Len(script) + 1 :
            error = [libs |-> libs, script |-> script, at |-> at,
                     message |-> message, stack |-> stack]
  BY DEF Init
<1>1. PICK at \in 1 .. Len(script) + 1 :
        error = [libs |-> libs, script |-> script, at |-> at,
                 message |-> message, stack |-> stack]
  BY <1>0
<1>2. Len(script) \in Nat
  BY ErrorAssumption, LenProperties
<1>3. at \in Nat
  BY <1>2
<1>4. ErrorOk(error)
  BY <1>1, <1>3 DEF ErrorOk, Errors
<1>5. json = Texts(error)[0] /\ done = 0
  BY <1>4, TextsJoin DEF Init
<1>6. counts = Open(0)
  BY OpenIs DEF Init
<1>. QED  BY <1>4, <1>5, <1>6 DEF JsonInv

LEMMA JsonNext ==
    JsonInv /\ [Next]_vars => JsonInv'
<1>. SUFFICES ASSUME JsonInv, [Next]_vars PROVE JsonInv'
  OBVIOUS
<1>0. Len(Calls(error)) = 10
  BY CallsAre
<1>1. CASE Write
  <2>1. /\ done \in 0 .. 9 /\ done' = done + 1 /\ error' = error
        /\ received' = received /\ Apply(Calls(error)[done + 1])
    BY <1>0, <1>1 DEF Write, JsonInv
  <2>2. ErrorOk(error) /\ json = Texts(error)[done] /\ counts = Open(done)
    BY <2>1 DEF JsonInv
  <2>3. json \in Text
    <3>1. done \in 0 .. 10
      BY <2>1
    <3>. QED  BY <2>2, <3>1, TextsType
  <2>4. json' = json \o Pieces(error)[done + 1] /\ counts' = Open(done + 1)
    BY <2>1, <2>2, <2>3, Writes
  <2>5. Texts(error)[done + 1] = Texts(error)[done] \o Pieces(error)[done + 1]
    <3>1. done + 1 \in 1 .. 10 /\ (done + 1) - 1 = done
      BY <2>1
    <3>. QED  BY <2>2, <3>1, TextsJoin DEF Joined
  <2>6. json' = Texts(error)[done + 1]
    BY <2>2, <2>4, <2>5, Zenon
  <2>7. done' \in 0 .. 11 /\ done' /= 11
    BY <2>1
  <2>. QED  BY <2>1, <2>2, <2>4, <2>6, <2>7 DEF JsonInv
<1>2. CASE Recv
  <2>1. /\ done = 10 /\ done' = 11 /\ received' = Parse(json)
        /\ error' = error /\ json' = json /\ counts' = counts
    BY <1>0, <1>2 DEF Recv
  <2>2. ErrorOk(error) /\ json = Texts(error)[10] /\ counts = Open(10)
    BY <2>1 DEF JsonInv
  <2>3. counts' = Open(11)
    BY <2>1, <2>2, OpenIs
  <2>. QED  BY <2>1, <2>2, <2>3 DEF JsonInv
<1>3. CASE UNCHANGED vars
  BY <1>3 DEF vars, JsonInv
<1>. QED  BY <1>1, <1>2, <1>3 DEF Next

(* What was written so far, the objects that are open with the members each*)
(* of them has, and what is received in the end are those of the error.    *)
THEOREM JsonWritten == Spec => []JsonInv
<1>1. Init => JsonInv
  BY JsonInit
<1>2. JsonInv /\ [Next]_vars => JsonInv'
  BY JsonNext
<1>. QED  BY <1>1, <1>2, PTL DEF Spec

(* Every line of a script has its own number, whatever the code of the     *)
(* libraries and the script are (find_code_offset, main.cc:24).            *)
THEOREM LineCorrect == Spec => []LineOfScript
<1>1. JsonInv => LineOfScript
  BY LineIsOfScript DEF JsonInv, LineOfScript
<1>. QED  BY <1>1, JsonWritten, PTL
-----------------------------------------------------------------------------
(* Reading the members back *)

(* The parts of a member.                                                  *)
LEMMA MemberCut ==
    ASSUME NEW key \in Fixed, NEW comma \in Text, NEW body \in Text
    PROVE  /\ Name(key) \in Text /\ Len(Name(key)) = 4
           /\ Mark \in Text /\ Len(Mark) = 1
           /\ Named(comma, key) = comma \o Name(key)
           /\ Quoted(body) = Mark \o (body \o Mark)
<1>1. "quote" \in Chars /\ key \in Chars /\ "colon" \in Chars
  BY Written DEF Fixed
<1>2. Name(key) \in Text /\ Mark \in Text
  BY <1>1, FewTokens DEF Name, Mark
<1>3. Len(Name(key)) = 4 /\ Len(Mark) = 1
  BY DEF Name, Mark
<1>4. Named(comma, key) = comma \o Name(key)
  BY DEF Named, Name
<1>5. Quoted(body) = (Mark \o body) \o Mark
  BY DEF Quoted, Mark
<1>6. (Mark \o body) \o Mark = Mark \o (body \o Mark)
  BY <1>2, Associative
<1>. QED  BY <1>2, <1>3, <1>4, <1>5, <1>6, Zenon

LEMMA BelowOne ==
    ASSUME NEW key, NEW path, NEW text
    PROVE  Below(key, One(path, text)) = One(<<key>> \o path, text)
<1>. DEFINE S == One(path, text)
            a == <<key>> \o path
<1>1. Below(key, S) = {<<<<key>> \o p[1], p[2]>> : p \in S}
  BY DEF Below
<1>2. \A p \in S : p[1] = path /\ p[2] = text
  BY DEF One
<1>3. \A p \in S : <<key>> \o p[1] = a /\ p[2] = text
  BY <1>2
<1>4. \E p \in S : TRUE
  BY DEF One
<1>. HIDE DEF S, a
<1>5. {<<<<key>> \o p[1], p[2]>> : p \in S} = {<<a, text>>}
  BY <1>3, <1>4
<1>. QED  BY <1>1, <1>5 DEF One, S, a

LEMMA BelowBoth ==
    ASSUME NEW key, NEW A, NEW B
    PROVE  Below(key, A \cup B) = Below(key, A) \cup Below(key, B)
BY DEF Below

LEMMA PathOfOne ==
    ASSUME NEW key, NEW text
    PROVE  Below(key, One(<<>>, text)) = One(<<key>>, text)
<1>1. <<key>> \o <<>> = <<key>>
  <2>1. <<key>> \in Seq({key})
    OBVIOUS
  <2>. QED  BY <2>1, ConcatEmptySeq
<1>. QED  BY <1>1, BelowOne

LEMMA PathOfTwo ==
    ASSUME NEW key, NEW name, NEW text
    PROVE  Below(key, One(<<name>>, text)) = One(<<key, name>>, text)
<1>. DEFINE a == <<key>>
            b == <<name>>
            c == <<key, name>>
            S == {key, name}
<1>1. a \o b = c
  <2>1. /\ a \in Seq(S) /\ b \in Seq(S) /\ c \in Seq(S)
        /\ Len(a) = 1 /\ Len(b) = 1 /\ Len(c) = 2
        /\ a[1] = key /\ b[1] = name /\ c[1] = key /\ c[2] = name
    OBVIOUS
  <2>. HIDE DEF a, b, c, S
  <2>2. /\ a \o b \in Seq(S) /\ Len(a \o b) = 2
        /\ (a \o b)[1] = key /\ (a \o b)[2] = name
    BY <2>1, ConcatProperties
  <2>3. \A i \in 1 .. Len(c) : (a \o b)[i] = c[i]
    BY <2>1, <2>2
  <2>. QED  BY <2>1, <2>2, <2>3, SeqEqual
<1>. QED  BY <1>1, BelowOne

(* Where the parts of a member are.                                        *)
LEMMA MemberParts ==
    ASSUME NEW s \in Text, NEW key \in Fixed, NEW comma \in Text,
           NEW body \in Text, NEW p, Holds(s, p, Member(comma, key, body)),
           NEW q, q = p + Len(comma)
    PROVE  /\ p \in Nat /\ q \in Nat /\ Len(body) \in Nat /\ Len(comma) \in Nat
           /\ Len(Member(comma, key, body)) = Len(comma) + 6 + Len(body)
           /\ Holds(s, p, comma)
           /\ Holds(s, q, Name(key))
           /\ Holds(s, q + 4, Mark)
           /\ Holds(s, q + 5, body \o Mark)
<1>. DEFINE name   == Name(key)
            closed == body \o Mark
            quoted == Quoted(body)
            named  == Named(comma, key)
            all    == Member(comma, key, body)
<1>1. /\ name \in Text /\ Len(name) = 4 /\ Mark \in Text /\ Len(Mark) = 1
      /\ named = comma \o name /\ quoted = Mark \o closed
  BY MemberCut
<1>2. /\ closed \in Text /\ Len(closed) = Len(body) + 1 /\ Len(body) \in Nat
  <2>. DEFINE mark == Mark
  <2>1. mark \in Text /\ Len(mark) = 1
    BY <1>1
  <2>. HIDE DEF mark
  <2>2. /\ body \o mark \in Text /\ Len(body \o mark) = Len(body) + Len(mark)
        /\ Len(body) \in Nat
    BY <2>1, Concat
  <2>. QED  BY <2>1, <2>2 DEF mark
<1>5. all = named \o quoted
  BY DEF Member
<1>8. Holds(s, p, all)
  OBVIOUS
<1>. HIDE DEF name, closed, quoted, named, all
<1>6. /\ quoted \in Text /\ Len(quoted) = Len(body) + 2
      /\ named \in Text /\ Len(named) = Len(comma) + 4 /\ Len(comma) \in Nat
  <2>1. /\ Len(Mark \o closed) = Len(Mark) + Len(closed)
        /\ Mark \o closed \in Text
        /\ Len(comma \o name) = Len(comma) + Len(name) /\ comma \o name \in Text
        /\ Len(comma) \in Nat
    BY <1>1, <1>2, Concat
  <2>. QED  BY <1>1, <1>2, <2>1
<1>7. all \in Text /\ Len(all) = Len(comma) + 6 + Len(body)
  <2>1. named \o quoted \in Text /\ Len(named \o quoted) = Len(named) + Len(quoted)
    BY <1>6, Concat
  <2>. QED  BY <1>2, <1>5, <1>6, <2>1
<1>9. p \in Nat /\ p = p + 0 /\ q \in Nat
  BY <1>6, <1>8 DEF Holds
<1>10. Holds(all, 0, named) /\ Holds(all, Len(named), quoted)
  BY <1>5, <1>6, HoldsFirst, HoldsLast
<1>11. Holds(s, p, named)
  BY <1>6, <1>7, <1>8, <1>9, <1>10, HoldsPart
<1>12. Holds(s, q + 4, quoted)
  <2>1. q + 4 = p + Len(named)
    BY <1>6, <1>9
  <2>. QED  BY <1>6, <1>7, <1>8, <1>10, <2>1, HoldsPart
<1>13. Holds(named, 0, comma) /\ Holds(named, Len(comma), name)
  BY <1>1, HoldsFirst, HoldsLast
<1>14. Holds(s, p, comma) /\ Holds(s, q, name)
  <2>1. Holds(s, p, comma)
    BY <1>6, <1>9, <1>11, <1>13, HoldsPart
  <2>2. Holds(s, q, name)
    BY <1>1, <1>6, <1>11, <1>13, HoldsPart
  <2>. QED  BY <2>1, <2>2
<1>15. Holds(quoted, 0, Mark) /\ Holds(quoted, 1, closed)
  BY <1>1, <1>2, HoldsFirst, HoldsLast
<1>16. Holds(s, q + 4, Mark) /\ Holds(s, q + 5, closed)
  <2>1. q + 4 = (q + 4) + 0 /\ q + 5 = (q + 4) + 1
    BY <1>9
  <2>2. Holds(s, q + 4, Mark)
    BY <1>1, <1>6, <1>12, <1>15, <2>1, HoldsPart
  <2>3. Holds(s, q + 5, closed)
    BY <1>2, <1>6, <1>12, <1>15, <2>1, HoldsPart
  <2>. QED  BY <2>2, <2>3
<1>. QED  BY <1>2, <1>6, <1>7, <1>9, <1>14, <1>16 DEF name, closed, all

(* A member is read with its text, and with the members behind it.         *)
LEMMA ReadPair ==
    ASSUME NEW s \in Text, NEW key \in Fixed \ Special,
           NEW comma \in Text, NEW text \in Text,
           \A k \in 1 .. Len(text) : text[k] /= "tab",
           NEW body, body = Escape(text),
           NEW p, Holds(s, p, Member(comma, key, body)),
           NEW q, q = p + Len(comma),
           NEW e, e = p + Len(Member(comma, key, body))
    PROVE  Reads(s, q + 1, One(<<<<key>>>>, text), e + 1)
<1>1. body \in Text
  <2>1. Len(text) \in Nat
    BY LenProperties DEF Text
  <2>2. Len(text) \in 0 .. Len(text)
    BY <2>1
  <2>. QED  BY <2>2, EscapesType DEF Escape
<1>2. /\ p \in Nat /\ q \in Nat /\ Len(body) \in Nat /\ Len(comma) \in Nat
      /\ Len(Member(comma, key, body)) = Len(comma) + 6 + Len(body)
      /\ Holds(s, q, Name(key))
      /\ Holds(s, q + 4, Mark)
      /\ Holds(s, q + 5, body \o Mark)
  BY <1>1, MemberParts
<1>3. At(s, q + 5) = "quote"
  <2>1. "quote" \in Chars
    BY Written DEF Fixed
  <2>. DEFINE r == q + 4
  <2>2. Holds(s, r, <<"quote">>)
    BY <1>2 DEF Mark
  <2>. HIDE DEF r
  <2>3. At(s, r + 1) = "quote"
    BY <2>1, <2>2, HoldsOne
  <2>4. r + 1 = q + 5
    BY <1>2 DEF r
  <2>. QED  BY <2>3, <2>4
<1>4. e + 1 = q + 7 + Len(body) /\ (e + 1) + 1 = e + 2 /\ e + 1 /= 0
  BY <1>2
<1>5. Strings(s)[q + 6] = [read |-> text, next |-> e + 1]
  <2>. DEFINE r == q + 5
  <2>1. Holds(s, r, Escape(text) \o <<"quote">>)
    BY <1>2 DEF Mark
  <2>2. Strings(s)[r + 1] = [read |-> text, next |-> r + Len(Escape(text)) + 2]
    <3>. HIDE DEF r
    <3>. QED  BY <2>1, ReadText
  <2>3. r + 1 = q + 6 /\ r + Len(body) + 2 = e + 1
    BY <1>2, <1>4
  <2>. QED  BY <2>2, <2>3
<1>6. ValueAt(s, Strings(s), Members(s), q + 5) =
          [pairs |-> One(<<>>, text), next |-> e + 1]
  <2>1. (q + 5) + 1 = q + 6
    BY <1>2
  <2>. DEFINE str == Strings(s)
              i   == q + 5
              mem == Members(s)
              c   == e + 1
  <2>2. At(s, i) = "quote" /\ str[i + 1] = [read |-> text, next |-> c]
    BY <1>3, <1>5, <2>1
  <2>. HIDE DEF str, i, mem, c
  <2>3. ValueAt(s, str, mem, i) = [pairs |-> {<<<<>>, str[i + 1].read>>},
                                   next |-> str[i + 1].next]
    BY <2>2 DEF ValueAt
  <2>4. str[i + 1].read = text /\ str[i + 1].next = c
    BY <2>2
  <2>. QED  BY <2>3, <2>4 DEF One, str, i, mem, c
<1>7. key \in Chars \ Special
  BY Written
<1>8. Below(<<key>>, One(<<>>, text)) = One(<<<<key>>>>, text)
  BY PathOfOne
<1>. DEFINE c == e + 1
            pairs == One(<<>>, text)
<1>9. Reads(s, q + 1, Below(<<key>>, pairs), c)
  <2>1. ValueIs(s, q + 5, pairs, c)
    BY <1>6 DEF ValueIs
  <2>2. c /= 0
    BY <1>4
  <2>. HIDE DEF c, pairs
  <2>. QED  BY <1>2, <1>7, <2>1, <2>2, ReadMember
<1>. QED  BY <1>8, <1>9

(* Members at place i are pairs, which end before n.                       *)
AreRead(s, i, pairs, n) == Members(s)[i] = [pairs |-> pairs, next |-> n]

(* Members before others that are read up to n.                            *)
LEMMA ReadOn ==
    ASSUME NEW s, NEW i, NEW first, NEW c, Reads(s, i, first, c),
           At(s, c) = "comma", NEW j, j = c + 1, NEW rest, NEW n, n /= 0,
           AreRead(s, j, rest, n)
    PROVE  AreRead(s, i, first \cup rest, n)
BY DEF Reads, AreRead

LEMMA ReadLast ==
    ASSUME NEW s, NEW i, NEW first, NEW c, Reads(s, i, first, c),
           At(s, c) = "close", NEW n, n = c + 1
    PROVE  AreRead(s, i, first, n)
BY DEF Reads, AreRead

(* The place of a piece in the whole text.                                 *)
LEMMA PieceAt ==
    ASSUME NEW err, ErrorOk(err), NEW k \in 1 .. 10
    PROVE  /\ Texts(err)[10] \in Text
           /\ Pieces(err)[k] \in Text /\ Len(Pieces(err)[k]) \in Nat
           /\ Len(Texts(err)[k - 1]) \in Nat /\ Len(Texts(err)[k]) \in Nat
           /\ Len(Texts(err)[k]) = Len(Texts(err)[k - 1]) + Len(Pieces(err)[k])
           /\ Holds(Texts(err)[10], Len(Texts(err)[k - 1]), Pieces(err)[k])
<1>. DEFINE f == Texts(err)
            parts == Pieces(err)
<1>1. f[0] \in Text /\ Joined(f, 10, parts)
  BY TextsJoin
<1>2. k - 1 \in 0 .. 10 /\ k \in 0 .. 10 /\ 10 \in 0 .. 10 /\ 10 \in Nat
  OBVIOUS
<1>3. f[k - 1] \in Text /\ f[k] \in Text /\ f[10] \in Text /\ parts[k] \in Text
  BY <1>2, TextsType, PiecesType
<1>4. f[k] = f[k - 1] \o parts[k]
  BY <1>1 DEF Joined
<1>. HIDE DEF f, parts
<1>5. Holds(f[10], Len(f[k - 1]), parts[k])
  BY <1>1, <1>2, JoinedHold
<1>6. /\ Len(f[k - 1] \o parts[k]) = Len(f[k - 1]) + Len(parts[k])
      /\ Len(f[k - 1]) \in Nat /\ Len(parts[k]) \in Nat
  BY <1>3, Concat
<1>7. Len(f[k]) \in Nat
  BY <1>3, LenProperties DEF Text
<1>. QED  BY <1>3, <1>4, <1>5, <1>6, <1>7 DEF f, parts

(* A member of the event is read.                                          *)
LEMMA PieceRead ==
    ASSUME NEW err, ErrorOk(err), NEW k \in 1 .. 8,
           NEW key \in Fixed \ Special, NEW comma \in Text, NEW text \in Text,
           \A i \in 1 .. Len(text) : text[i] /= "tab",
           Pieces(err)[k] = Member(comma, key, Escape(text))
    PROVE  /\ Reads(Texts(err)[10], Len(Texts(err)[k - 1]) + Len(comma) + 1,
                    One(<<<<key>>>>, text), Len(Texts(err)[k]) + 1)
           /\ Holds(Texts(err)[10], Len(Texts(err)[k - 1]), comma)
<1>. DEFINE s == Texts(err)[10]
            p == Len(Texts(err)[k - 1])
            e == Len(Texts(err)[k])
            body == Escape(text)
            q == p + Len(comma)
<1>1. /\ s \in Text /\ e = p + Len(Member(comma, key, body))
      /\ Holds(s, p, Member(comma, key, body))
  <2>1. k \in 1 .. 10
    OBVIOUS
  <2>. QED  BY <2>1, PieceAt
<1>2. body \in Text
  <2>1. Len(text) \in Nat
    BY LenProperties DEF Text
  <2>2. Len(text) \in 0 .. Len(text)
    BY <2>1
  <2>. QED  BY <2>2, EscapesType DEF Escape
<1>. HIDE DEF s, p, e
<1>3. Reads(s, q + 1, One(<<<<key>>>>, text), e + 1)
  BY <1>1, ReadPair
<1>4. Holds(s, p, comma)
  <2>1. key \in Fixed
    OBVIOUS
  <2>. HIDE DEF body
  <2>. QED  BY <1>1, <1>2, <2>1, MemberParts
<1>. QED  BY <1>3, <1>4 DEF s, p, e

(* The texts of an event, and what escaping does to them.                  *)
Plainly(text) == /\ text \in Text /\ Escape(text) = text
                 /\ \A i \in 1 .. Len(text) : text[i] /= "tab"

LEMMA CleanPlainly ==
    ASSUME NEW text \in Text, Clean(text)
    PROVE  Plainly(text)
BY EscapeClean DEF Plainly, Clean

LEMMA PlainTexts ==
    ASSUME NEW err, ErrorOk(err), Clean(err.message), Clean(SourceLine(err))
    PROVE  /\ Plainly(err.message) /\ Plainly(SourceLine(err))
           /\ Plainly(Digits(LineNumber(err))) /\ Plainly(Digits(Column(err)))
           /\ Plainly(<<"error">>) /\ Plainly(<<"CompilerError">>)
<1>1. Plainly(err.message) /\ Plainly(SourceLine(err))
  BY ErrorType, CleanPlainly
<1>2. ASSUME NEW n, Digits(n) \in Text
      PROVE  Plainly(Digits(n))
  <2>. DEFINE d == Digits(n)
  <2>1. \A i \in 1 .. n : d[i] = "1"
    BY DEF Digits
  <2>2. 1 .. n = 1 .. Len(d)
    <3>1. DOMAIN d = 1 .. n
      BY DEF Digits
    <3>2. DOMAIN d = 1 .. Len(d)
      BY <1>2, LenProperties DEF Text
    <3>. QED  BY <3>1, <3>2
  <2>3. Clean(d)
    BY <2>1, <2>2 DEF Clean
  <2>. QED  BY <1>2, <2>3, CleanPlainly
<1>3. Plainly(Digits(LineNumber(err))) /\ Plainly(Digits(Column(err)))
  BY <1>2, PiecesType
<1>4. ASSUME NEW c \in Chars \ Special PROVE Plainly(<<c>>)
  <2>1. <<c>> \in Text
    BY FewTokens
  <2>2. Clean(<<c>>)
    BY DEF Clean, Special
  <2>. QED  BY <2>1, <2>2, CleanPlainly
<1>5. "error" \in Chars \ Special /\ "CompilerError" \in Chars \ Special
  BY Written DEF Fixed, Special
<1>. QED  BY <1>1, <1>3, <1>4, <1>5

LEMMA NoTabs ==
    ASSUME NEW text \in Text, Count("tab", text, Len(text)) = 0
    PROVE  \A i \in 1 .. Len(text) : text[i] /= "tab"
<1>. DEFINE S == {i \in 1 .. Len(text) : text[i] = "tab"}
<1>1. Len(text) \in Nat
  BY LenProperties DEF Text
<1>2. IsFiniteSet(S) /\ Cardinality(S) = 0
  BY <1>1, CountFinite DEF Count
<1>3. S = {}
  <2>. HIDE DEF S
  <2>. QED  BY <1>2, FS_EmptySet
<1>. QED  BY <1>3

(* The first member of an object, and one behind another.                  *)
LEMMA FirstRead ==
    ASSUME NEW err, ErrorOk(err), NEW k \in 1 .. 8, NEW key \in Fixed \ Special,
           NEW text \in Text, \A i \in 1 .. Len(text) : text[i] /= "tab",
           NEW body, Escape(text) = body,
           Pieces(err)[k] = Member(<<>>, key, body)
    PROVE  Reads(Texts(err)[10], Len(Texts(err)[k - 1]) + 1,
                 One(<<<<key>>>>, text), Len(Texts(err)[k]) + 1)
<1>. DEFINE comma == <<>>
            p == Len(Texts(err)[k - 1])
<1>1. comma \in Text /\ Len(comma) = 0
  BY FewTokens
<1>2. p \in Nat
  BY PieceAt
<1>3. p + Len(comma) + 1 = p + 1
  BY <1>1, <1>2
<1>4. Pieces(err)[k] = Member(comma, key, Escape(text))
  OBVIOUS
<1>. HIDE DEF comma, p
<1>5. Reads(Texts(err)[10], Len(Texts(err)[k - 1]) + Len(comma) + 1,
            One(<<<<key>>>>, text), Len(Texts(err)[k]) + 1)
  BY <1>1, <1>4, PieceRead
<1>. QED  BY <1>3, <1>5 DEF p

LEMMA NextRead ==
    ASSUME NEW err, ErrorOk(err), NEW k \in 1 .. 8, NEW key \in Fixed \ Special,
           NEW text \in Text, \A i \in 1 .. Len(text) : text[i] /= "tab",
           NEW body, Escape(text) = body,
           Pieces(err)[k] = Member(<<"comma">>, key, body)
    PROVE  /\ Reads(Texts(err)[10], Len(Texts(err)[k - 1]) + 2,
                    One(<<<<key>>>>, text), Len(Texts(err)[k]) + 1)
           /\ At(Texts(err)[10], Len(Texts(err)[k - 1]) + 1) = "comma"
<1>. DEFINE comma == <<"comma">>
            p == Len(Texts(err)[k - 1])
            s == Texts(err)[10]
<1>0. "comma" \in Chars
  BY Written DEF Fixed
<1>1. comma \in Text /\ Len(comma) = 1
  BY <1>0, FewTokens
<1>2. p \in Nat /\ s \in Text
  <2>1. k \in 1 .. 10
    OBVIOUS
  <2>. QED  BY <2>1, PieceAt
<1>3. p + Len(comma) + 1 = p + 2
  BY <1>1, <1>2
<1>4. Pieces(err)[k] = Member(comma, key, Escape(text))
  OBVIOUS
<1>5. /\ Reads(Texts(err)[10], Len(Texts(err)[k - 1]) + Len(comma) + 1,
               One(<<<<key>>>>, text), Len(Texts(err)[k]) + 1)
      /\ Holds(s, p, comma)
  <2>. HIDE DEF comma
  <2>. QED  BY <1>1, <1>4, PieceRead
<1>6. At(s, p + 1) = "comma"
  <2>. HIDE DEF s, p
  <2>. QED  BY <1>0, <1>2, <1>5, HoldsOne
<1>. HIDE DEF comma
<1>. QED  BY <1>3, <1>5, <1>6 DEF p, s

(* The begin of the object of the event, and the two ends.                 *)
LEMMA OpenerRead ==
    ASSUME NEW err, ErrorOk(err)
    PROVE  /\ Holds(Texts(err)[10], Len(Texts(err)[1]) + 1, Name("data"))
           /\ At(Texts(err)[10], Len(Texts(err)[1]) + 1) = "comma"
           /\ At(Texts(err)[10], Len(Texts(err)[2])) = "open"
           /\ Len(Texts(err)[2]) = Len(Texts(err)[1]) + 6
<1>. DEFINE comma == <<"comma">>
            brace == <<"open">>
            name  == Name("data")
            named == Named(comma, "data")
            all   == Opener(comma, "data")
            s == Texts(err)[10]
            p == Len(Texts(err)[1])
            e == Len(Texts(err)[2])
<1>0. "comma" \in Chars /\ "open" \in Chars /\ "data" \in Fixed
  BY Written DEF Fixed
<1>1. /\ comma \in Text /\ Len(comma) = 1 /\ brace \in Text /\ Len(brace) = 1
  BY <1>0, FewTokens
<1>2. /\ s \in Text /\ p \in Nat /\ e = p + Len(all) /\ Holds(s, p, all)
  <2>1. 2 \in 1 .. 10 /\ 2 - 1 = 1
    OBVIOUS
  <2>2. Pieces(err)[2] = all
    BY PiecesAre
  <2>. HIDE DEF all
  <2>. QED  BY <2>1, <2>2, PieceAt
<1>3. all = named \o brace
  BY DEF Opener
<1>. HIDE DEF comma, brace, s, p, e, all
<1>4. name \in Text /\ Len(name) = 4 /\ named = comma \o name
  BY <1>0, <1>1, MemberCut
<1>. HIDE DEF name, named
<1>5. /\ named \in Text /\ Len(named) = 5
      /\ Holds(named, 0, comma) /\ Holds(named, 1, name)
  <2>1. comma \o name \in Text /\ Len(comma \o name) = Len(comma) + Len(name)
    BY <1>1, <1>4, Concat
  <2>2. Holds(comma \o name, 0, comma) /\ Holds(comma \o name, Len(comma), name)
    BY <1>1, <1>4, HoldsFirst, HoldsLast
  <2>. QED  BY <1>1, <1>4, <2>1, <2>2
<1>6. /\ all \in Text /\ Len(all) = 6
      /\ Holds(all, 0, named) /\ Holds(all, 5, brace)
  <2>1. named \o brace \in Text /\ Len(named \o brace) = Len(named) + Len(brace)
    BY <1>1, <1>5, Concat
  <2>2. Holds(named \o brace, 0, named) /\ Holds(named \o brace, Len(named), brace)
    BY <1>1, <1>5, HoldsFirst, HoldsLast
  <2>. QED  BY <1>1, <1>3, <1>5, <2>1, <2>2
<1>7. Holds(s, p, named) /\ Holds(s, p + 5, brace)
  <2>1. p = p + 0 /\ p + 5 = p + 5
    BY <1>2
  <2>. QED  BY <1>1, <1>2, <1>5, <1>6, <2>1, HoldsPart
<1>8. Holds(s, p, comma) /\ Holds(s, p + 1, name)
  <2>1. p = p + 0
    BY <1>2
  <2>. QED  BY <1>1, <1>2, <1>4, <1>5, <1>7, <2>1, HoldsPart
<1>9. At(s, p + 1) = "comma"
  BY <1>0, <1>2, <1>8, HoldsOne DEF comma
<1>10. At(s, e) = "open"
  <2>. DEFINE r == p + 5
  <2>1. Holds(s, r, <<"open">>)
    BY <1>7 DEF brace
  <2>. HIDE DEF r
  <2>2. At(s, r + 1) = "open"
    BY <1>0, <1>2, <2>1, HoldsOne
  <2>3. r + 1 = e
    BY <1>2, <1>6 DEF r
  <2>. QED  BY <2>2, <2>3
<1>11. e = p + 6
  BY <1>2, <1>6
<1>. QED  BY <1>8, <1>9, <1>10, <1>11 DEF s, p, e, name

LEMMA CloserRead ==
    ASSUME NEW err, ErrorOk(err), NEW k \in {9, 10}
    PROVE  /\ At(Texts(err)[10], Len(Texts(err)[k - 1]) + 1) = "close"
           /\ Len(Texts(err)[k]) = Len(Texts(err)[k - 1]) + 1
<1>. DEFINE s == Texts(err)[10]
            p == Len(Texts(err)[k - 1])
<1>0. "close" \in Chars /\ k \in 1 .. 10
  BY Written DEF Fixed
<1>1. Pieces(err)[k] = Closer
  BY PiecesAre
<1>2. s \in Text /\ p \in Nat /\ Holds(s, p, Closer)
      /\ Len(Texts(err)[k]) = p + Len(Closer)
  BY <1>0, <1>1, PieceAt
<1>3. Len(Closer) = 1
  BY DEF Closer
<1>4. At(s, p + 1) = "close"
  <2>. HIDE DEF s, p
  <2>. QED  BY <1>0, <1>2, HoldsOne DEF Closer
<1>. QED  BY <1>2, <1>3, <1>4

(* The whole text begins with a brace.                                     *)
LEMMA BraceRead ==
    ASSUME NEW err, ErrorOk(err)
    PROVE  At(Texts(err)[10], 1) = "open" /\ Len(Texts(err)[0]) = 1
<1>. DEFINE f == Texts(err)
            s == f[10]
            p == 0
<1>0. "open" \in Chars
  BY Written DEF Fixed
<1>1. f[0] = <<"open">> /\ f[0] \in Text /\ Joined(f, 10, Pieces(err))
  BY TextsJoin
<1>2. s \in Text
  BY TextsType
<1>3. Holds(s, 0, f[0])
  <2>. HIDE DEF f
  <2>. QED  BY <1>1, JoinedFirst
<1>4. p + 1 = 1 /\ Holds(s, p, <<"open">>)
  BY <1>1, <1>3
<1>. HIDE DEF p
<1>5. At(s, p + 1) = "open"
  BY <1>0, <1>2, <1>4, HoldsOne
<1>. QED  BY <1>1, <1>4, <1>5

(* What the listener is told is what the error was made of.                *)
LEMMA ParseTexts ==
    ASSUME NEW err, ErrorOk(err), Clean(err.message), Clean(SourceLine(err)),
           Count("tab", err.stack, Len(err.stack)) = 0
    PROVE  Parse(Texts(err)[10]) = Wanted(err)
<1>. DEFINE s  == Texts(err)[10]
            e1 == Len(Texts(err)[1])
            e2 == Len(Texts(err)[2])
            e3 == Len(Texts(err)[3])
            e4 == Len(Texts(err)[4])
            e5 == Len(Texts(err)[5])
            e6 == Len(Texts(err)[6])
            e7 == Len(Texts(err)[7])
            e8 == Len(Texts(err)[8])
            line   == Digits(LineNumber(err))
            column == Digits(Column(err))
            source == SourceLine(err)
            m1 == One(<<<<"name">>>>, <<"error">>)
            m3 == One(<<<<"name">>>>, <<"CompilerError">>)
            m4 == One(<<<<"message">>>>, err.message)
            m5 == One(<<<<"stack">>>>, err.stack)
            m6 == One(<<<<"linenum">>>>, line)
            m7 == One(<<<<"columnnum">>>>, column)
            m8 == One(<<<<"jscode">>>>, source)
<1>1. /\ Plainly(err.message) /\ Plainly(source) /\ Plainly(line)
      /\ Plainly(column) /\ Plainly(<<"error">>) /\ Plainly(<<"CompilerError">>)
  BY PlainTexts
<1>2. err.stack \in Text /\ \A i \in 1 .. Len(err.stack) : err.stack[i] /= "tab"
  BY ErrorType, NoTabs
<1>3. /\ "name" \in Fixed \ Special /\ "message" \in Fixed \ Special
      /\ "stack" \in Fixed \ Special /\ "linenum" \in Fixed \ Special
      /\ "columnnum" \in Fixed \ Special /\ "jscode" \in Fixed \ Special
  BY DEF Fixed, Special
<1>4. /\ e1 \in Nat /\ e2 \in Nat /\ e3 \in Nat /\ e4 \in Nat /\ e5 \in Nat
      /\ e6 \in Nat /\ e7 \in Nat /\ e8 \in Nat /\ s \in Text
  <2>1. \A k \in 0 .. 10 : Len(Texts(err)[k]) \in Nat
    BY TextsType, LenProperties DEF Text
  <2>2. s \in Text
    BY TextsType
  <2>. QED  BY <2>1, <2>2
<1>5. At(s, 1) = "open" /\ Reads(s, 2, m1, e1 + 1)
  <2>1. 1 - 1 = 0 /\ Len(Texts(err)[0]) + 1 = 2 /\ At(s, 1) = "open"
    <3>1. Len(Texts(err)[0]) = 1 /\ At(s, 1) = "open"
      BY BraceRead
    <3>. QED  BY <3>1
  <2>2. Pieces(err)[1] = Member(<<>>, "name", <<"error">>)
    BY PiecesAre
  <2>3. Reads(s, Len(Texts(err)[1 - 1]) + 1, m1, Len(Texts(err)[1]) + 1)
    <3>1. 1 \in 1 .. 8
      OBVIOUS
    <3>. QED  BY <1>1, <1>3, <2>2, <3>1, FirstRead DEF Plainly
  <2>. QED  BY <2>1, <2>3
<1>6. /\ Holds(s, e1 + 1, Name("data")) /\ At(s, e1 + 1) = "comma"
      /\ At(s, e2) = "open" /\ e2 = e1 + 6
  BY OpenerRead
<1>7. Reads(s, e2 + 1, m3, e3 + 1)
  <2>1. 3 - 1 = 2 /\ 3 \in 1 .. 8
    OBVIOUS
  <2>2. Pieces(err)[3] = Member(<<>>, "name", <<"CompilerError">>)
    BY PiecesAre
  <2>3. Reads(s, Len(Texts(err)[3 - 1]) + 1, m3, Len(Texts(err)[3]) + 1)
    BY <1>1, <1>3, <2>1, <2>2, FirstRead DEF Plainly
  <2>. QED  BY <2>1, <2>3
<1>8. Reads(s, e3 + 2, m4, e4 + 1) /\ At(s, e3 + 1) = "comma"
  <2>1. 4 - 1 = 3 /\ 4 \in 1 .. 8
    OBVIOUS
  <2>2. Pieces(err)[4] = Member(<<"comma">>, "message", err.message)
    BY PiecesAre
  <2>3. /\ Reads(s, Len(Texts(err)[4 - 1]) + 2, m4, Len(Texts(err)[4]) + 1)
        /\ At(s, Len(Texts(err)[4 - 1]) + 1) = "comma"
    BY <1>1, <1>3, <2>1, <2>2, NextRead DEF Plainly
  <2>. QED  BY <2>1, <2>3
<1>9. Reads(s, e4 + 2, m5, e5 + 1) /\ At(s, e4 + 1) = "comma"
  <2>1. 5 - 1 = 4 /\ 5 \in 1 .. 8
    OBVIOUS
  <2>2. Pieces(err)[5] = Member(<<"comma">>, "stack", Escape(err.stack))
    BY PiecesAre
  <2>3. /\ Reads(s, Len(Texts(err)[5 - 1]) + 2, m5, Len(Texts(err)[5]) + 1)
        /\ At(s, Len(Texts(err)[5 - 1]) + 1) = "comma"
    BY <1>2, <1>3, <2>1, <2>2, NextRead
  <2>. QED  BY <2>1, <2>3
<1>10. Reads(s, e5 + 2, m6, e6 + 1) /\ At(s, e5 + 1) = "comma"
  <2>1. 6 - 1 = 5 /\ 6 \in 1 .. 8
    OBVIOUS
  <2>2. Pieces(err)[6] = Member(<<"comma">>, "linenum", line)
    BY PiecesAre
  <2>3. /\ Reads(s, Len(Texts(err)[6 - 1]) + 2, m6, Len(Texts(err)[6]) + 1)
        /\ At(s, Len(Texts(err)[6 - 1]) + 1) = "comma"
    BY <1>1, <1>3, <2>1, <2>2, NextRead DEF Plainly
  <2>. QED  BY <2>1, <2>3
<1>11. Reads(s, e6 + 2, m7, e7 + 1) /\ At(s, e6 + 1) = "comma"
  <2>1. 7 - 1 = 6 /\ 7 \in 1 .. 8
    OBVIOUS
  <2>2. Pieces(err)[7] = Member(<<"comma">>, "columnnum", column)
    BY PiecesAre
  <2>3. /\ Reads(s, Len(Texts(err)[7 - 1]) + 2, m7, Len(Texts(err)[7]) + 1)
        /\ At(s, Len(Texts(err)[7 - 1]) + 1) = "comma"
    BY <1>1, <1>3, <2>1, <2>2, NextRead DEF Plainly
  <2>. QED  BY <2>1, <2>3
<1>12. Reads(s, e7 + 2, m8, e8 + 1) /\ At(s, e7 + 1) = "comma"
  <2>1. 8 - 1 = 7 /\ 8 \in 1 .. 8
    OBVIOUS
  <2>2. Pieces(err)[8] = Member(<<"comma">>, "jscode", source)
    BY PiecesAre
  <2>3. /\ Reads(s, Len(Texts(err)[8 - 1]) + 2, m8, Len(Texts(err)[8]) + 1)
        /\ At(s, Len(Texts(err)[8 - 1]) + 1) = "comma"
    BY <1>1, <1>3, <2>1, <2>2, NextRead DEF Plainly
  <2>. QED  BY <2>1, <2>3
<1>13. At(s, e8 + 1) = "close" /\ At(s, e8 + 2) = "close" /\ Len(s) = e8 + 2
  <2>. DEFINE e9 == Len(Texts(err)[9])
  <2>1. 9 \in {9, 10} /\ 10 \in {9, 10} /\ 9 - 1 = 8 /\ 10 - 1 = 9
    OBVIOUS
  <2>2. At(s, e8 + 1) = "close" /\ e9 = e8 + 1
    BY <2>1, CloserRead
  <2>3. At(s, e9 + 1) = "close" /\ Len(s) = e9 + 1
    BY <2>1, CloserRead
  <2>4. e9 + 1 = e8 + 2
    BY <1>4, <2>2
  <2>. QED  BY <2>2, <2>3, <2>4
<1>. HIDE DEF s, e1, e2, e3, e4, e5, e6, e7, e8, line, column, source,
              m1, m3, m4, m5, m6, m7, m8
<1>14. Parse(s) = m1 \cup Below(<<"data">>,
              m3 \cup (m4 \cup (m5 \cup (m6 \cup (m7 \cup m8)))))
  <2>. USE <1>4, <1>5, <1>6, <1>7, <1>8, <1>9, <1>10, <1>11, <1>12, <1>13
  <2>. DEFINE n   == e8 + 2
              all == Members(s)[2]
              p7 == m7 \cup m8
              p6 == m6 \cup p7
              p5 == m5 \cup p6
              p4 == m4 \cup p5
              p3 == m3 \cup p4
              inner == Below(<<"data">>, p3)
  <2>1. n /= 0 /\ n + 1 /= 0 /\ n = (e8 + 1) + 1
    OBVIOUS
  <2>2. AreRead(s, e7 + 2, m8, n)
    <3>. HIDE DEF n
    <3>. QED  BY <2>1, ReadLast
  <2>3. AreRead(s, e6 + 2, p7, n)
    <3>1. e7 + 2 = (e7 + 1) + 1
      OBVIOUS
    <3>. HIDE DEF n
    <3>. QED  BY <2>1, <2>2, <3>1, ReadOn
  <2>4. AreRead(s, e5 + 2, p6, n)
    <3>1. e6 + 2 = (e6 + 1) + 1
      OBVIOUS
    <3>. HIDE DEF n, p7
    <3>. QED  BY <2>1, <2>3, <3>1, ReadOn
  <2>5. AreRead(s, e4 + 2, p5, n)
    <3>1. e5 + 2 = (e5 + 1) + 1
      OBVIOUS
    <3>. HIDE DEF n, p6
    <3>. QED  BY <2>1, <2>4, <3>1, ReadOn
  <2>6. AreRead(s, e3 + 2, p4, n)
    <3>1. e4 + 2 = (e4 + 1) + 1
      OBVIOUS
    <3>. HIDE DEF n, p5
    <3>. QED  BY <2>1, <2>5, <3>1, ReadOn
  <2>7. AreRead(s, e2 + 1, p3, n)
    <3>1. e3 + 2 = (e3 + 1) + 1
      OBVIOUS
    <3>. HIDE DEF n, p4
    <3>. QED  BY <2>1, <2>6, <3>1, ReadOn
  <2>8. AreRead(s, e1 + 2, inner, n + 1)
    <3>. DEFINE p == e1 + 1
    <3>1. p \in Nat /\ p + 5 = e2 /\ p + 1 = e1 + 2
      OBVIOUS
    <3>2. ValueAt(s, Strings(s), Members(s), e2) = [pairs |-> p3, next |-> n]
      <4>. HIDE DEF p3, n
      <4>. QED  BY <2>7 DEF ValueAt, AreRead
    <3>3. ValueIs(s, p + 5, p3, n)
      BY <3>1, <3>2 DEF ValueIs
    <3>4. "data" \in Chars \ Special
      BY Written DEF Fixed, Special
    <3>5. Reads(s, p + 1, inner, n)
      <4>1. Holds(s, p, Name("data"))
        OBVIOUS
      <4>. HIDE DEF p, p3, n
      <4>. QED  BY <2>1, <3>3, <3>4, <4>1, ReadMember
    <3>6. At(s, n) = "close"
      OBVIOUS
    <3>. HIDE DEF p, inner, n
    <3>7. AreRead(s, p + 1, inner, n + 1)
      BY <3>5, <3>6, ReadLast
    <3>. QED  BY <3>1, <3>7
  <2>9. AreRead(s, 2, m1 \cup inner, n + 1)
    <3>. DEFINE m == n + 1
                j == e1 + 2
    <3>1. /\ At(s, e1 + 1) = "comma" /\ j = (e1 + 1) + 1
          /\ m /= 0 /\ AreRead(s, j, inner, m)
      BY <2>1, <2>8
    <3>. HIDE DEF j, m, inner
    <3>3. AreRead(s, 2, m1 \cup inner, m)
      BY <3>1, ReadOn
    <3>. QED  BY <3>3 DEF m
  <2>10. n + 1 = Len(s) + 1
    OBVIOUS
  <2>. HIDE DEF inner, n
  <2>11. all.next = Len(s) + 1 /\ all.pairs = m1 \cup inner
    BY <2>9, <2>10 DEF AreRead
  <2>12. Parse(s) = all.pairs
    BY <2>11 DEF Parse
  <2>. QED  BY <2>11, <2>12 DEF inner
<1>15. Below(<<"data">>, m3 \cup (m4 \cup (m5 \cup (m6 \cup (m7 \cup m8))))) =
          Below(<<"data">>, m3) \cup (Below(<<"data">>, m4) \cup
            (Below(<<"data">>, m5) \cup (Below(<<"data">>, m6) \cup
              (Below(<<"data">>, m7) \cup Below(<<"data">>, m8)))))
  <2>. DEFINE key == <<"data">>
  <2>. HIDE DEF key
  <2>1. Below(key, m7 \cup m8) = Below(key, m7) \cup Below(key, m8)
    BY BelowBoth
  <2>2. Below(key, m6 \cup (m7 \cup m8)) =
            Below(key, m6) \cup Below(key, m7 \cup m8)
    BY BelowBoth
  <2>3. Below(key, m5 \cup (m6 \cup (m7 \cup m8))) =
            Below(key, m5) \cup Below(key, m6 \cup (m7 \cup m8))
    BY BelowBoth
  <2>4. Below(key, m4 \cup (m5 \cup (m6 \cup (m7 \cup m8)))) =
            Below(key, m4) \cup Below(key, m5 \cup (m6 \cup (m7 \cup m8)))
    BY BelowBoth
  <2>5. Below(key, m3 \cup (m4 \cup (m5 \cup (m6 \cup (m7 \cup m8))))) =
            Below(key, m3) \cup Below(key, m4 \cup (m5 \cup (m6 \cup (m7 \cup m8))))
    BY BelowBoth
  <2>. QED  BY <2>1, <2>2, <2>3, <2>4, <2>5, Zenon DEF key
<1>16. ASSUME NEW key, NEW text
       PROVE  Below(<<"data">>, One(<<<<key>>>>, text)) =
                  {<<<<<<"data">>, <<key>>>>, text>>}
  BY PathOfTwo DEF One
<1>17. LineNumber(err) = 1 + Count("newline", err.script, err.at - 1)
  BY LineIsOfScript
<1>. DEFINE data(key, text) == <<<<<<"data">>, <<key>>>>, text>>
<1>18. Wanted(err) =
          {<<<<<<"name">>>>, <<"error">>>>, data("name", <<"CompilerError">>),
           data("message", err.message), data("stack", err.stack),
           data("linenum", line), data("columnnum", column), data("jscode", source)}
  BY <1>17 DEF Wanted, line, column, source, Column, SourceLine
<1>19. /\ Below(<<"data">>, m3) = {data("name", <<"CompilerError">>)}
       /\ Below(<<"data">>, m4) = {data("message", err.message)}
       /\ Below(<<"data">>, m5) = {data("stack", err.stack)}
       /\ Below(<<"data">>, m6) = {data("linenum", line)}
       /\ Below(<<"data">>, m7) = {data("columnnum", column)}
       /\ Below(<<"data">>, m8) = {data("jscode", source)}
       /\ m1 = {<<<<<<"name">>>>, <<"error">>>>}
  BY <1>16 DEF m1, m3, m4, m5, m6, m7, m8, One
<1>. HIDE DEF data
<1>20. Parse(s) = Wanted(err)
  BY <1>14, <1>15, <1>18, <1>19
<1>. QED  BY <1>20 DEF s

(* The listener is told what the error was made of: the object of the event*)
(* is parsed back, with each member once, and the texts of its members are *)
(* those of the error, whatever the stack is (SEND_V8_ERR_EVENT and the    *)
(* class Json of tools.h).                                                 *)
THEOREM ErrorKept == Spec => []ErrorIntact
<1>1. JsonInv => ErrorIntact
  <2>. SUFFICES ASSUME JsonInv, Received, Clean(error.message),
                       Clean(SourceLine(error)),
                       Count("tab", error.stack, Len(error.stack)) = 0
                PROVE  received = Wanted(error)
    BY DEF ErrorIntact, SourceLine
  <2>1. done = 11
    <3>1. Len(Calls(error)) = 10
      BY CallsAre
    <3>. QED  BY <3>1 DEF Received
  <2>2. ErrorOk(error) /\ received = Parse(Texts(error)[10])
    BY <2>1 DEF JsonInv
  <2>. QED  BY <2>2, ParseTexts
<1>. QED  BY <1>1, JsonWritten, PTL
=============================================================================
