----------------------------- MODULE MCCecHook -----------------------------
(***************************************************************************)
(* Small instances of CecHook for TLC.                                     *)
(***************************************************************************)
EXTENDS CecHookClaims

AnyHardware == [aux : BOOLEAN, connector : BOOLEAN]
Dongle == {[aux |-> TRUE, connector |-> TRUE]}
DongleOrHdmi == Dongle \cup {[aux |-> FALSE, connector |-> FALSE]}

(* The sound follows the picture, or comes from another port than ours.    *)
Following ==
    {w \in World : w.input = IF w.receiver = "on" THEN w.screen ELSE NoPhys}
(* Before a run under faults nothing is in motion.                         *)
Settled == {w \in Following : w.power \in {"on", "standby"}}
SoundElsewhere ==
    {[power |-> "on", screen |-> Port, receiver |-> "on", input |-> p] : p \in Phys \ {Port}}

Shipped ==  \* config.conf.default, with fewer attempts
    [wake_tv |-> TRUE, claim_source |-> TRUE, wake_audio |-> TRUE,
     send_stream_path |-> FALSE, send_remote_power_key |-> FALSE,
     standby_tv |-> TRUE, standby_audio |-> TRUE, standby_broadcast |-> FALSE,
     force_all_frames |-> FALSE, wake_attempts |-> 2, vendor_id |-> "usable",
     extra_wake_frames |-> << >>, extra_standby_frames |-> << >>]

(* Every switch of a wake and of a standby, and harmless extra frames.     *)
CleanConfigs ==
    {[Shipped EXCEPT !.wake_tv = t, !.claim_source = s, !.wake_audio = a,
                     !.send_stream_path = p, !.send_remote_power_key = ~p,
                     !.force_all_frames = f,
                     !.extra_wake_frames = IF f /\ t THEN << [op |-> "TextViewOn", to |-> "tv"] >>
                                           ELSE << >>] :
        t, s, a, p, f \in BOOLEAN}
    \cup {[Shipped EXCEPT !.standby_tv = t, !.standby_audio = a, !.standby_broadcast = b,
                          !.extra_standby_frames = << [op |-> "InactiveSource", to |-> "tv"] >>] :
        t, a, b \in BOOLEAN}

(* A wake that comes to re-probe, and one on a bus with no receiver asked.  *)
TunnelConfigs ==
    {[Shipped EXCEPT !.wake_attempts = 4],
     [Shipped EXCEPT !.wake_attempts = 2, !.wake_audio = FALSE, !.standby_audio = FALSE]}

(* A wake with a re-claim, one that sends it all whatever it sees, an      *)
(* extra frame the kernel refuses, and one that does not parse.            *)
FaultConfigs ==
    {[Shipped EXCEPT !.send_remote_power_key = TRUE],
     [Shipped EXCEPT !.force_all_frames = TRUE],
     [Shipped EXCEPT !.extra_wake_frames = << [op |-> "refused", to |-> "tv"] >>,
                     !.vendor_id = "garbage", !.wake_attempts = 1],
     [Shipped EXCEPT !.extra_wake_frames = << [op |-> "unknown", to |-> "tv"] >>,
                     !.standby_broadcast = TRUE, !.wake_attempts = 1]}

(* One configuration per claim that is refuted.                            *)
ShippedFive == {[Shipped EXCEPT !.wake_attempts = 5]}
OnlyShipped == {Shipped}
GarbageVendor == {[Shipped EXCEPT !.vendor_id = "garbage"]}
=============================================================================
