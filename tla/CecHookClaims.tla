--------------------------- MODULE CecHookClaims ---------------------------
(***************************************************************************)
(* What the comments, the shipped configuration and the tests say of       *)
(* cec-hook and the code does not do.  Each property is refuted by a run   *)
(* of its own; README.md gives the quotations.                             *)
(***************************************************************************)
EXTENDS CecHook

(* "How many times to survey, send and retry before giving up": a wake     *)
(* that got past opening the adapter fails only at its last attempt.       *)
GivesUpOnlyAtTheEnd ==
    \A h \in Hooks :
        command[h] = "on" /\ verdict[h] \in {"failed", "traceback"} /\ attempt[h] > 0
        => attempt[h] = config.wake_attempts

(* "Frames that the TV acknowledged are the real evidence a wake worked":  *)
(* a wake about to report "sent and acknowledged" had something acked.     *)
SomethingAcknowledged ==
    \A h \in Hooks : pc[h] = "confirm" => landed[h] # {}

(* "TV on and showing us, receiver pointed elsewhere: just the receiver    *)
(* request": a wake that exits 0 has pointed a receiver that is on at us.  *)
RepointsTheReceiver ==
    \A h \in Hooks :
        /\ command[h] = "on" /\ verdict[h] = "ok"
        /\ config.wake_audio /\ world.receiver = "on" /\ world.screen = Port
        => world.input = Port

(* "A broken config must never stop a wake": no wake dies of a traceback.  *)
BrokenConfigStillWakes ==
    \A h \in Hooks : On(h) => verdict[h] # "traceback"
=============================================================================
