------------------------------- MODULE ErrorEvent -------------------------------
(***************************************************************************)
(* How an error of a script becomes an event of its main thread:           *)
(* SEND_V8_ERR_EVENT writes it with the class Json (tools.h), with the     *)
(* line number that find_code_offset (main.cc) corrects for the code       *)
(* thread-warp.js puts around a script; main parses what it gets.          *)
(*                                                                         *)
(* A text is a sequence of tokens. "quote", "backslash", "newline" and     *)
(* "tab" are what JSON treats in a special way, "n" is a letter that means *)
(* something behind a backslash, "open", "close", "colon" and "comma" are  *)
(* the braces and the marks of JSON, "marker" is USE_JS_CODE_OFF_STR, and  *)
(* any other token stands for itself.                                      *)
(***************************************************************************)
EXTENDS Integers, Sequences, FiniteSets

CONSTANTS
    Chars,     \* the tokens of a text
    Libs,      \* code that may be generated for LIB_SCRIPT
    Scripts,   \* scripts of a user
    Messages   \* texts of an exception

(* Tokens that the program writes itself.                                  *)
Fixed == {"quote", "backslash", "newline", "n", "marker", "x", "1", "open",
          "close", "colon", "comma", "name", "error", "data", "CompilerError",
          "message", "stack", "linenum", "columnnum", "jscode"}

(* thread-warp.js:58 forbids a second marker: the generated code has none. *)
ASSUME ErrorAssumption ==
    /\ Fixed \subseteq Chars
    /\ Libs \subseteq Seq(Chars) /\ Scripts \subseteq Seq(Chars)
    /\ Messages \subseteq Seq(Chars)
    /\ \A libs \in Libs : \A i \in 1 .. Len(libs) : libs[i] /= "marker"

VARIABLES
    error,     \* what happened: [libs, script, at, message, stack]
    json,      \* buf of the class Json
    counts,    \* attr_count of each Json object that was not ended
    done,      \* how many of the calls were made
    received   \* what JSON.parse makes of it

vars == <<error, json, counts, done, received>>

Count(x, text, end) == Cardinality({i \in 1 .. end : text[i] = x})
-----------------------------------------------------------------------------
(* The code that is compiled, and where V8 sees the error. *)

(* thread-warp.js: the script is on the line behind the marker, indented. *)
Before(libs) == <<"x", "newline">> \o libs \o <<"newline", "marker", "newline", "x">>
Code(libs, script) == Before(libs) \o script \o <<"newline", "x">>
Position(err) == Len(Before(err.libs)) + err.at

\* Mutant: the line of the marker is not counted.
FindCodeOffsetAbove(code) ==
    LET ends == {i \in 1 .. Len(code) : code[i] = "marker"}
    IN  IF ends = {} THEN 0
        ELSE LET end == CHOOSE i \in ends : \A j \in ends : i <= j
             IN  -Count("newline", code, end - 1)

(* find_code_offset *)
FindCodeOffset(code) ==
    LET ends == {i \in 1 .. Len(code) : code[i] = "marker"}
    IN  IF ends = {} THEN 0
        ELSE LET end == CHOOSE i \in ends : \A j \in ends : i <= j
             IN  -1 - Count("newline", code, end - 1)

(* Message::GetLineNumber, GetSourceLine and GetStartColumn of V8 *)
GetLineNumber(code, pos, offset) == 1 + Count("newline", code, pos - 1) + offset
LineStart(code, pos) ==
    CHOOSE i \in 1 .. pos : /\ i = 1 \/ code[i - 1] = "newline"
                            /\ \A j \in i .. pos - 1 : code[j] /= "newline"
LineEnd(code, pos) ==
    CHOOSE i \in pos .. Len(code) + 1 :
        /\ i = Len(code) + 1 \/ code[i] = "newline"
        /\ \A j \in pos .. i - 1 : code[j] /= "newline"
GetSourceLine(code, pos) ==
    SubSeq(code, LineStart(code, pos), LineEnd(code, pos) - 1)
GetStartColumn(code, pos) == pos - LineStart(code, pos)
-----------------------------------------------------------------------------
(* The class Json. A call works on the object that was begun last. *)

Set(key, text)          == [op |-> "set", key |-> key, text |-> text]
SetMultLine(key, text)  == [op |-> "setMultLine", key |-> key, text |-> text]
Childen(key)            == [op |-> "childen", key |-> key, text |-> <<>>]
End                     == [op |-> "end", key |-> "", text |-> <<>>]

WriteKey(key) == (IF counts[Len(counts)] > 0 THEN <<"comma">> ELSE <<>>)
                    \o <<"quote", key, "quote", "colon">>
Counted == [counts EXCEPT ![Len(counts)] = @ + 1]

Escaped(c) == CASE c = "newline"   -> <<"backslash", "n">>
                [] c = "quote"     -> <<"backslash", "quote">>
                [] c = "backslash" -> <<"backslash", "backslash">>
                [] OTHER           -> <<c>>

(* What is written of the first i characters of a text; all of it.         *)
Escapes(text) ==
    LET esc[i \in 0 .. Len(text)] ==
            IF i = 0 THEN <<>> ELSE esc[i - 1] \o Escaped(text[i])
    IN  esc
Escape(text) == Escapes(text)[Len(text)]

\* Mutant: the child goes on with attr_count of its parent.
ChildCopied == Counted \o <<Counted[Len(counts)]>>

(* childen: the copy begins at 0. *)
Child == Counted \o <<0>>

(* buf with one more member, or with an object that was begun *)
Extended(key, text) ==
    json \o WriteKey(key) \o <<"quote">> \o text \o <<"quote">>
Begun(key) == json \o WriteKey(key) \o <<"open">>

Apply(call) ==
    CASE call.op = "set" ->
            json' = Extended(call.key, call.text) /\ counts' = Counted
      [] call.op = "setMultLine" ->
            json' = Extended(call.key, Escape(call.text)) /\ counts' = Counted
      [] call.op = "childen" ->
            json' = Begun(call.key) /\ counts' = Child
      [] call.op = "end" ->
            /\ json' = json \o <<"close">>
            /\ counts' = SubSeq(counts, 1, Len(counts) - 1)

(* A number, as the text of its digits: unary ones, since they only have   *)
(* to tell the numbers apart.                                              *)
Digits(n) == [i \in 1 .. n |-> "1"]

(* SEND_V8_ERR_EVENT *)
LineNumber(err) ==
    LET code == Code(err.libs, err.script)
    IN  GetLineNumber(code, Position(err), FindCodeOffset(code))
Calls(err) ==
    LET code == Code(err.libs, err.script)
    IN  <<Set("name", <<"error">>), Childen("data"),
          Set("name", <<"CompilerError">>),
          Set("message", err.message),
          SetMultLine("stack", err.stack),
          Set("linenum", Digits(LineNumber(err))),
          Set("columnnum", Digits(GetStartColumn(code, Position(err)))),
          Set("jscode", GetSourceLine(code, Position(err))), End, End>>
-----------------------------------------------------------------------------
(* JSON.parse, for objects of strings and objects, none of them empty. The *)
(* functions say for each place of the text what is read from there and    *)
(* where it ends: at 0 if that is no JSON. rest is the function itself,    *)
(* asked for later places.                                                 *)

At(text, i) == IF i \in 1 .. Len(text) THEN text[i] ELSE "nothing"

Unescaped == [quote |-> "quote", backslash |-> "backslash", n |-> "newline"]

(* The characters up to a quote *)
NoString == [read |-> <<>>, next |-> 0]
Prepend(c, str) == IF str.next = 0 THEN NoString
                   ELSE [read |-> <<c>> \o str.read, next |-> str.next]
StringAt(s, rest, i) ==
    CASE At(s, i) = "quote" -> [read |-> <<>>, next |-> i + 1]
      [] i > Len(s) \/ At(s, i) \in {"newline", "tab"} -> NoString
      [] At(s, i) = "backslash" ->
            IF At(s, i + 1) \in DOMAIN Unescaped
            THEN Prepend(Unescaped[At(s, i + 1)], rest[i + 2]) ELSE NoString
      [] OTHER -> Prepend(s[i], rest[i + 1])
Strings(s) == LET str[i \in 1 .. Len(s) + 2] == StringAt(s, str, i) IN str

(* The members of an object, from a key on, and the brace behind them, as  *)
(* pairs of a path and a text.                                             *)
NoMembers == [pairs |-> {}, next |-> 0]
ValueAt(s, str, rest, i) ==
    CASE At(s, i) = "open"     -> rest[i + 1]
      [] At(s, i) = "quote" -> [pairs |-> {<<<<>>, str[i + 1].read>>},
                                next |-> str[i + 1].next]
      [] OTHER              -> NoMembers
Below(key, pairs) == {<<<<key>> \o pair[1], pair[2]>> : pair \in pairs}
MembersAt(s, str, rest, i) ==
    LET key    == str[i + 1]
        value  == ValueAt(s, str, rest, key.next + 1)
        here   == Below(key.read, value.pairs)
        others == rest[value.next + 1]
    IN  IF \/ At(s, i) /= "quote" \/ key.next = 0 \/ At(s, key.next) /= "colon"
           \/ value.next = 0
        THEN NoMembers
        ELSE CASE At(s, value.next) = "close" ->
                    [pairs |-> here, next |-> value.next + 1]
               [] At(s, value.next) = "comma" /\ others.next /= 0 ->
                    [pairs |-> here \cup others.pairs, next |-> others.next]
               [] OTHER -> NoMembers
Members(s) == LET str == Strings(s)
                  mem[i \in 1 .. Len(s) + 1] == MembersAt(s, str, mem, i)
              IN  mem

Parse(s) == LET all == Members(s)[2]
            IN  IF At(s, 1) = "open" /\ all.next = Len(s) + 1
                THEN all.pairs ELSE {}
-----------------------------------------------------------------------------
Init ==
    /\ \E libs \in Libs, script \in Scripts, message, stack \in Messages :
        \E at \in 1 .. Len(script) + 1 :
            error = [libs |-> libs, script |-> script, at |-> at,
                     message |-> message, stack |-> stack]
    /\ json = <<"open">> /\ counts = <<0>> /\ done = 0 /\ received = {}

Write ==
    /\ done < Len(Calls(error))
    /\ Apply(Calls(error)[done + 1])
    /\ done' = done + 1
    /\ UNCHANGED <<error, received>>

Recv ==
    /\ done = Len(Calls(error))
    /\ received' = Parse(json)
    /\ done' = done + 1
    /\ UNCHANGED <<error, json, counts>>

Next == Write \/ Recv
Spec == Init /\ [][Next]_vars
-----------------------------------------------------------------------------
Received == done = Len(Calls(error)) + 1

(* What the listener of 'error' should be told: the line is that of the    *)
(* script alone.                                                           *)
Wanted(err) ==
    LET code == Code(err.libs, err.script)
        data(key, text) == <<<<<<"data">>, <<key>>>>, text>>
    IN  {<<<<<<"name">>>>, <<"error">>>>, data("name", <<"CompilerError">>),
         data("message", err.message), data("stack", err.stack),
         data("linenum", Digits(1 + Count("newline", err.script, err.at - 1))),
         data("columnnum", Digits(GetStartColumn(code, Position(err)))),
         data("jscode", GetSourceLine(code, Position(err)))}

Clean(text) == \A i \in 1 .. Len(text) :
                    text[i] \notin {"quote", "backslash", "newline", "tab"}

(* tools.h:284: the texts given to set contain no quotes. Then, and        *)
(* without backslashes and control characters other than the line breaks   *)
(* of a stack, the listener gets what was written, whatever the stack is;  *)
(* and the line number of the script: the code of the libraries, which     *)
(* thread-warp.js:58 forbids to contain the marker, does not shift it.     *)
ErrorIntact ==
    Received /\ Clean(error.message) /\ Clean(GetSourceLine(
                    Code(error.libs, error.script), Position(error)))
             /\ Count("tab", error.stack, Len(error.stack)) = 0
        => received = Wanted(error)

(* Every line of a script has its own number, from 1, whatever the script  *)
(* is: the marker may be in it.                                            *)
LineOfScript == LineNumber(error) = 1 + Count("newline", error.script, error.at - 1)
=============================================================================
