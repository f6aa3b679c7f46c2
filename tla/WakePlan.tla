------------------------------ MODULE WakePlan ------------------------------
(***************************************************************************)
(* What a hook decides to send: BusState, plan_wake and plan_standby of    *)
(* cec_control.py and the frame builders of cec_frames.py they call.       *)
(* Everything here is a function of the configuration and of what the      *)
(* survey saw; the module has no state of its own.                         *)
(*                                                                         *)
(* A frame is abstracted to its message, its destination, the two          *)
(* addresses it carries, and the plan's "required" mark.  Destinations are *)
(* the TV (logical address 0), the audio system (5) and everybody (15).    *)
(***************************************************************************)
EXTENDS Naturals, Sequences

CONSTANTS
    Addr,       \* logical addresses a playback device may claim (4, 8, 11)
    NoAddr,     \* Python's None where a logical address is expected
    Phys,       \* physical addresses (HDMI ports)
    NoPhys      \* Python's None where a physical address is expected

ASSUME AddressAssumption == NoAddr \notin Addr /\ NoPhys \notin Phys

Power == {"on", "standby", "toOn", "toStandby"}
AudioMode == {"on", "off"}
Silent == "silent"      \* the question got no usable answer (None)

Destination == {"tv", "audio", "all"}

(* What EXTRA_*_FRAMES entries come to.  "unknown" is an entry             *)
(* parse_frame_spec refuses with ValueError; "refused" is a raw frame that *)
(* builds but that the kernel will not transmit.                           *)
ExtraOp == {"TextViewOn", "InactiveSource", "SetStreamPath", "refused", "unknown"}
Op == ExtraOp \cup {"UserControlPressed", "UserControlReleased", "ImageViewOn",
                    "ActiveSource", "SystemAudioModeRequest", "Standby"}
ExtraEntry == [op : ExtraOp, to : Destination]

Config == [wake_tv : BOOLEAN, claim_source : BOOLEAN, wake_audio : BOOLEAN,
           send_stream_path : BOOLEAN, send_remote_power_key : BOOLEAN,
           standby_tv : BOOLEAN, standby_audio : BOOLEAN,
           standby_broadcast : BOOLEAN, force_all_frames : BOOLEAN,
           wake_attempts : Nat \ {0}, vendor_id : {"usable", "garbage"},
           extra_wake_frames : Seq(ExtraEntry),
           extra_standby_frames : Seq(ExtraEntry)]

BusState == [our_addr : Addr \cup {NoAddr}, our_phys : Phys \cup {NoPhys},
             tv_present : BOOLEAN, tv_power : Power \cup {Silent},
             audio_present : BOOLEAN, audio_mode : AudioMode \cup {Silent},
             active_source : Phys \cup {NoPhys}]

Frame == [op : Op, to : Destination, from : Addr \cup {NoAddr},
          phys : Phys \cup {NoPhys}, required : BOOLEAN]

-----------------------------------------------------------------------------
NewBusState(addr, phys) ==
    [our_addr |-> addr, our_phys |-> phys, tv_present |-> FALSE,
     tv_power |-> Silent, audio_present |-> FALSE, audio_mode |-> Silent,
     active_source |-> NoPhys]

TvAwakeOnlyOn(s) ==         \* mutant: a TV still waking up counts as asleep
    s.tv_power = "on"

TvAwake(s) == s.tv_power \in {"on", "toOn"}

WeAreOnScreen(s) == s.our_phys # NoPhys /\ s.active_source = s.our_phys

(* The messages that carry our physical address as operands.               *)
CarriesPhys == {"ActiveSource", "InactiveSource", "SetStreamPath",
                "SystemAudioModeRequest"}

(* A builder raises TypeError when it is handed None: _header compares the *)
(* initiator, _phys_operands the physical address, with integers.          *)
Buildable(f) == f.from # NoAddr /\ (f.op \in CarriesPhys => f.phys # NoPhys)

Planned(s, op, to, required) ==
    [op |-> op, to |-> to, from |-> s.our_addr,
     phys |-> IF op \in CarriesPhys THEN s.our_phys ELSE NoPhys,
     required |-> required]

When(condition, frames) == IF condition THEN frames ELSE << >>

(* One bad entry drops the whole list, with a warning.                     *)
Extra(spec, s) ==
    When(\A i \in DOMAIN spec : spec[i].op # "unknown",
         [i \in DOMAIN spec |-> Planned(s, spec[i].op, spec[i].to, FALSE)])

-----------------------------------------------------------------------------
NeedTvOffScreen(c, s) ==    \* mutant: a TV believed to show us counts as awake
    c.wake_tv /\ (c.force_all_frames \/ ~(TvAwake(s) \/ WeAreOnScreen(s)))

NeedTv(c, s) == c.wake_tv /\ (c.force_all_frames \/ ~TvAwake(s))

NeedSourceStale(c, s) ==    \* mutant: a TV just woken is believed to show us
    c.claim_source /\ (c.force_all_frames \/ ~WeAreOnScreen(s))

NeedSource(c, s) ==
    c.claim_source /\ (c.force_all_frames \/ NeedTv(c, s) \/ ~WeAreOnScreen(s))

NeedAudioUnpolled(c, s) ==  \* mutant: FORCE_ALL_FRAMES invents a receiver
    /\ c.wake_audio
    /\ \/ c.force_all_frames
       \/ s.audio_present /\ (NeedSource(c, s) \/ s.audio_mode # "on")

NeedAudio(c, s) ==
    /\ c.wake_audio /\ s.audio_present
    /\ c.force_all_frames \/ NeedSource(c, s) \/ s.audio_mode # "on"

PlanWake(c, s) ==
    When(NeedTv(c, s) /\ c.send_remote_power_key,
         << Planned(s, "UserControlPressed", "tv", TRUE),
            Planned(s, "UserControlReleased", "tv", TRUE) >>)
    \o When(NeedTv(c, s), << Planned(s, "ImageViewOn", "tv", TRUE) >>)
    \o When(NeedSource(c, s) /\ c.send_stream_path,
            << Planned(s, "SetStreamPath", "all", FALSE) >>)
    \o When(NeedSource(c, s), << Planned(s, "ActiveSource", "all", FALSE) >>)
    \o When(NeedAudio(c, s), << Planned(s, "SystemAudioModeRequest", "audio", TRUE) >>)
    \o Extra(c.extra_wake_frames, s)

PlanStandbyEither(c, s) ==  \* mutant: elif instead of if
    IF c.standby_broadcast THEN << Planned(s, "Standby", "all", FALSE) >>
    ELSE IF c.standby_tv THEN << Planned(s, "Standby", "tv", TRUE) >>
    ELSE When(c.standby_audio, << Planned(s, "Standby", "audio", TRUE) >>)

PlanStandby(c, s) ==
    When(c.standby_broadcast, << Planned(s, "Standby", "all", FALSE) >>)
    \o When(~c.standby_broadcast /\ c.standby_tv,
            << Planned(s, "Standby", "tv", TRUE) >>)
    \o When(~c.standby_broadcast /\ c.standby_audio /\ s.audio_present,
            << Planned(s, "Standby", "audio", TRUE) >>)
    \o Extra(c.extra_standby_frames, s)
=============================================================================
