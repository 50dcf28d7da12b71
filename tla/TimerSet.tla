------------------------------- MODULE TimerSet -------------------------------
(***************************************************************************)
(* What the timer functions of a plain thread promise its JavaScript: a    *)
(* set of timers, each of which is called sooner or later, by one call at  *)
(* a time, unless it is cleared or the set is dropped.                     *)
(***************************************************************************)
CONSTANT Timer

VARIABLES
    made,      \* the timers there ever were
    due,       \* those that are still to be called
    repeats,   \* those that stay due when they are called
    calling,   \* the one whose callback runs, in a set
    dropped    \* the thread has ended

vars == <<made, due, repeats, calling, dropped>>

Init == /\ made = {} /\ due = {} /\ repeats = {} /\ calling = {}
        /\ dropped = FALSE

Make(t, repeat) ==
    /\ t \notin made /\ ~dropped
    /\ made' = made \cup {t} /\ due' = due \cup {t}
    /\ repeats' = IF repeat THEN repeats \cup {t} ELSE repeats
    /\ UNCHANGED <<calling, dropped>>

(* A timer may be cleared at any time, and the one whose callback runs. *)
Clear(t) ==
    /\ due' = due \ {t}
    /\ UNCHANGED <<made, repeats, calling, dropped>>

Call(t) ==
    /\ calling = {} /\ t \in due
    /\ calling' = {t}
    /\ due' = IF t \in repeats THEN due ELSE due \ {t}
    /\ UNCHANGED <<made, repeats, dropped>>

Return ==
    /\ calling /= {}
    /\ calling' = {}
    /\ UNCHANGED <<made, due, repeats, dropped>>

Drop ==
    /\ due' = {} /\ calling' = {} /\ dropped' = TRUE
    /\ UNCHANGED <<made, repeats>>

Next == \/ \E t \in Timer : Make(t, TRUE) \/ Make(t, FALSE)
                             \/ Clear(t) \/ Call(t)
        \/ Return \/ Drop

Spec == /\ Init /\ [][Next]_vars
        /\ \A t \in Timer : SF_vars(Call(t))
=============================================================================
