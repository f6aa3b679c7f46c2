---------------------------- MODULE MCCecSystem ----------------------------
(***************************************************************************)
(* Small instances of CecSystem for TLC.                                   *)
(***************************************************************************)
EXTENDS CecSystem

Dongle == {[aux |-> TRUE, connector |-> TRUE]}

(* config.conf.default with fewer attempts: a re-claim, and the receiver   *)
(* asked; a re-probe, and the receiver left alone.                         *)
SomeAttempts ==
    {[wake_tv |-> TRUE, claim_source |-> TRUE, wake_audio |-> n = 2,
      send_stream_path |-> FALSE, send_remote_power_key |-> FALSE,
      standby_tv |-> TRUE, standby_audio |-> n = 2, standby_broadcast |-> FALSE,
      force_all_frames |-> FALSE, wake_attempts |-> n, vendor_id |-> "usable",
      extra_wake_frames |-> << >>, extra_standby_frames |-> << >>] : n \in {2, 4}}

(* The TV asleep, on another input, or showing us, and a receiver.         *)
AnyRoom ==
    {w \in World :
        /\ << w.power, w.screen >> \in {<< "standby", NoPhys >>} \cup ({"on"} \X Phys)
        /\ w.receiver = "on" /\ w.input = w.screen}

(* What of a hook still matters: each variable only while it will be read. *)
Live(h) ==
    << pc[h], verdict[h],
       IF pc[h] = "done" THEN << >> ELSE << attempt[h], la[h], pa[h] >>,
       IF pc[h] \in {"set", "reclear", "await"} THEN tries[h] ELSE 0,
       IF pc[h] \in Asking \cup {"plan"} THEN << bus[h] >> ELSE << >>,
       IF pc[h] = "send" THEN << plan[h], at[h] >> ELSE << >> >>

SystemView ==
    << settings, device, world, machine, started, disturbed, [h \in Hooks |-> Live(h)] >>
=============================================================================
