------------------------ MODULE MCControllerWatcher ------------------------
(***************************************************************************)
(* Small instances of ControllerWatcher for TLC.                           *)
(***************************************************************************)
EXTENDS ControllerWatcher

Default == [gamepad_only |-> FALSE, dry_run |-> FALSE, cooldown |-> TRUE]
EveryDebounce == {[Default EXCEPT !.dry_run = d, !.gamepad_only = g] : d, g \in BOOLEAN}
JustDefault == {Default}
=============================================================================
