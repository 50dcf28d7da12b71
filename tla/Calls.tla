--------------------------------- MODULE Calls ---------------------------------
(***************************************************************************)
(* What a function that the main thread lends to a worker promises its     *)
(* callback: it hears the answers to its own call, in order and none       *)
(* twice; one answer, or if the function repeats every answer until the    *)
(* callback is closed.                                                     *)
(***************************************************************************)
EXTENDS Naturals, Sequences

CONSTANT Call

VARIABLES
    made,      \* the calls there ever were
    repeat,    \* those of functions that answer several times
    open,      \* those whose callback is waiting
    answers,   \* how often the function has answered each call
    heard      \* what the callback was called with, as <<call, number>>

vars == <<made, repeat, open, answers, heard>>

Init == /\ made = {} /\ repeat = {} /\ open = {}
        /\ answers = [c \in Call |-> 0] /\ heard = [c \in Call |-> <<>>]

Make(c, repeats) ==
    /\ c \notin made
    /\ made' = made \cup {c} /\ open' = open \cup {c}
    /\ repeat' = IF repeats THEN repeat \cup {c} ELSE repeat
    /\ UNCHANGED <<answers, heard>>

Answer(c) ==
    /\ c \in made
    /\ answers' = [answers EXCEPT ![c] = @ + 1]
    /\ UNCHANGED <<made, repeat, open, heard>>

Hear(c) ==
    /\ c \in open /\ Len(heard[c]) < answers[c]
    /\ heard' = [heard EXCEPT ![c] = Append(@, <<c, Len(@) + 1>>)]
    /\ open' = IF c \in repeat THEN open ELSE open \ {c}
    /\ UNCHANGED <<made, repeat, answers>>

(* The worker unbinds callbacks, or ends. *)
Close ==
    /\ \E gone \in SUBSET open : open' = open \ gone
    /\ UNCHANGED <<made, repeat, answers, heard>>

Next == \/ \E c \in Call : Make(c, TRUE) \/ Make(c, FALSE)
                            \/ Answer(c) \/ Hear(c)
        \/ Close

SafeSpec == Init /\ [][Next]_vars

Spec == SafeSpec /\ \A c \in Call : WF_vars(Hear(c))
=============================================================================
