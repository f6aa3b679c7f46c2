---------------------------- MODULE HookContract ----------------------------
(***************************************************************************)
(* What one run of cec-hook promises, whatever the bus does: it asks       *)
(* before it tells, it tells again only after a repair and at most limit   *)
(* times, and it claims success only when nothing it owed the devices is   *)
(* unacknowledged.                                                         *)
(***************************************************************************)
EXTENDS Naturals

VARIABLES
    phase,      \* what the run is doing
    round,      \* which attempt this is; 0 while the adapter is being opened
    limit,      \* how many attempts it may make
    owed,       \* the required frames not yet acknowledged in this attempt
    result      \* how the process ended

vars == << phase, round, limit, owed, result >>

Init ==
    /\ phase = "opening" /\ round = 0 /\ limit \in Nat \ {0}
    /\ owed = {} /\ result = "running"

Open ==
    /\ phase = "opening" /\ phase' = "asking"
    /\ round' = 1
    /\ UNCHANGED << limit, owed, result >>

(* The answers were in: there is something to tell, or nothing is told.    *)
Decide ==
    /\ phase = "asking" /\ phase' = "telling"
    /\ owed' \in SUBSET Nat
    /\ UNCHANGED << round, limit, result >>

Stop ==
    /\ phase = "asking" /\ phase' = "done"
    /\ result' = "ok"
    /\ UNCHANGED << round, limit, owed >>

Acknowledged ==
    /\ phase = "telling"
    /\ owed' \subseteq owed
    /\ UNCHANGED << phase, round, limit, result >>

Succeed ==
    /\ phase = "telling" /\ phase' = "done"
    /\ owed' = {}
    /\ result' = "ok"
    /\ UNCHANGED << round, limit >>

TryAgain ==
    /\ phase = "telling" /\ owed # {} /\ round < limit
    /\ phase' = "repairing"
    /\ round' = round + 1
    /\ owed' = {}
    /\ UNCHANGED << limit, result >>

GiveUp ==
    /\ phase = "telling" /\ owed # {} /\ round = limit
    /\ phase' = "done"
    /\ result' = "failed"
    /\ owed' = {}
    /\ UNCHANGED << round, limit >>

Repair ==
    /\ phase = "repairing" /\ phase' = "asking"
    /\ UNCHANGED << round, limit, owed, result >>

(* An exception leaves the run at any point.                               *)
Break ==
    /\ phase # "done" /\ phase' = "done"
    /\ owed' = {}
    /\ result' \in {"failed", "traceback"}
    /\ UNCHANGED << round, limit >>

Next ==
    \/ Open \/ Decide \/ Stop \/ Acknowledged \/ Succeed
    \/ TryAgain \/ GiveUp \/ Repair \/ Break

Spec == Init /\ [][Next]_vars
=============================================================================
