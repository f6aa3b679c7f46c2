------------------------------ MODULE OneWake ------------------------------
(***************************************************************************)
(* What the watcher promises: button presses lead to wakes, one wake at a  *)
(* time and never more wakes than presses.                                 *)
(***************************************************************************)
EXTENDS Naturals

VARIABLES
    pressed,    \* how often the Home button was pressed
    woken,      \* how many wakes were started
    flying      \* is a wake under way

vars == << pressed, woken, flying >>

Init == pressed = 0 /\ woken = 0 /\ flying = FALSE

Press ==
    /\ pressed' = pressed + 1
    /\ UNCHANGED << woken, flying >>

Wake ==
    /\ ~flying /\ woken < pressed
    /\ woken' = woken + 1
    /\ flying' = TRUE
    /\ UNCHANGED pressed

Land ==
    /\ flying /\ flying' = FALSE
    /\ UNCHANGED << pressed, woken >>

Next == Press \/ Wake \/ Land

Spec == Init /\ [][Next]_vars
=============================================================================
