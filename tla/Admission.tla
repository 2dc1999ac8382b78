----------------------------- MODULE Admission -----------------------------
(***************************************************************************)
(* What retiring the logger is for: a door that log calls go through and   *)
(* that a host shuts, so that it can work on the logger while nobody is    *)
(* inside.  It knows no atomics, no count and no condition variable.       *)
(*                                                                         *)
(* LoggerLifecycle implements it with State's atomics; AsyncDelivery has   *)
(* it as one variable and one step, and implements it as well.  What the   *)
(* two modules know of each other is this one.                             *)
(***************************************************************************)
CONSTANT Calls    \* threads, each of which makes one log call at a time

VARIABLES
    open,         \* whether a call can get in
    inside,       \* the calls that are in
    working       \* whether the host flushes, frees or replaces the logger

avars == <<open, inside, working>>

Init == open = FALSE /\ inside = {} /\ working = FALSE

Admit(t) ==
    /\ open /\ t \notin inside
    /\ inside' = inside \cup {t}
    /\ UNCHANGED <<open, working>>

\* Calls come out when they like, also while the door is shut.
Leave(t) ==
    /\ t \in inside
    /\ inside' = inside \ {t}
    /\ UNCHANGED <<open, working>>

Shut ==
    /\ open
    /\ open' = FALSE
    /\ UNCHANGED <<inside, working>>

StartWork ==
    /\ ~open /\ inside = {} /\ ~working
    /\ working' = TRUE
    /\ UNCHANGED <<open, inside>>

\* The host is done, and has left a logger behind or not.  Work that takes one step is
\* begun and done in it.
FinishWork ==
    /\ working \/ (~open /\ inside = {})
    /\ working' = FALSE
    /\ open' \in BOOLEAN
    /\ UNCHANGED inside

Next ==
    \/ \E t \in Calls : Admit(t) \/ Leave(t)
    \/ Shut \/ StartWork \/ FinishWork

Spec == Init /\ [][Next]_avars
=============================================================================
