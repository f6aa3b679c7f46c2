----------------------- MODULE CecHookDeliveryProofs -----------------------
(***************************************************************************)
(* What the frames of a hook do to the TV and the receiver.  A receiver    *)
(* that is not there is never addressed, AbsentReceiverUntouched, for      *)
(* every number of hooks and with every fault allowed; nor does a wake     *)
(* that exits 0 then leave the TV asleep, WakeLights, if nobody else puts  *)
(* it to sleep.  Where frames are heard and nobody disturbs the only hook, *)
(* a wake that exits 0 has brought up what it may, WakeDelivers, a standby *)
(* has put to sleep what it should, StandbyDelivers, and a wake with       *)
(* nothing to do sends nothing, QuietWhenDone.                             *)
(***************************************************************************)
EXTENDS CecHookSuccessProofs

-----------------------------------------------------------------------------
(* The receiver that is not there.                                         *)

(* A list of frames or of extra entries that leaves address 5 alone.       *)
SparesAudio(frames) == \A i \in DOMAIN frames : frames[i].to # "audio"

(* The user's own frames go where the user says; these configurations send *)
(* none of them to the receiver.                                           *)
OwnFramesSpareAudio ==
    \A c \in Configs : SparesAudio(c.extra_wake_frames) /\ SparesAudio(c.extra_standby_frames)

ToAudio == {f \in Frame : f.to = "audio"}

(* The user's frames go where the user said.                               *)
LEMMA ExtraSpares ==
    ASSUME NEW s \in BusState, NEW spec \in Seq(ExtraEntry), SparesAudio(spec)
    PROVE  Extra(spec, s) \in Free(ToAudio)
BY ExtraFrames DEF SparesAudio, Planned, Free, Lacks, ToAudio

(* A list free of frames for the receiver leaves address 5 alone.          *)
LEMMA FreeSpares ==
    ASSUME NEW frames \in Free(ToAudio)
    PROVE  SparesAudio(frames)
<1>1. frames \in Seq(Frame) /\ Lacks(frames, ToAudio)
  BY DEF Free
<1>2. \A i \in DOMAIN frames : frames[i] \in Frame
  BY <1>1
<1> QED  BY <1>1, <1>2 DEF Lacks, ToAudio, SparesAudio

(* With no receiver found, neither plan addresses it, whatever             *)
(* FORCE_ALL_FRAMES says.                                                  *)
LEMMA PlansSpare ==
    ASSUME NEW c \in Config, NEW s \in BusState, ~s.audio_present
    PROVE  /\ SparesAudio(c.extra_wake_frames) => SparesAudio(PlanWake(c, s))
           /\ SparesAudio(c.extra_standby_frames) => SparesAudio(PlanStandby(c, s))
<1>1. /\ Planned(s, "UserControlPressed", "tv", TRUE) \notin ToAudio
      /\ Planned(s, "UserControlReleased", "tv", TRUE) \notin ToAudio
      /\ Planned(s, "ImageViewOn", "tv", TRUE) \notin ToAudio
      /\ Planned(s, "SetStreamPath", "all", FALSE) \notin ToAudio
      /\ Planned(s, "ActiveSource", "all", FALSE) \notin ToAudio
      /\ Planned(s, "Standby", "all", FALSE) \notin ToAudio
      /\ Planned(s, "Standby", "tv", TRUE) \notin ToAudio
  BY DEF Planned, ToAudio
<1>2. c.extra_wake_frames \in Seq(ExtraEntry) /\ c.extra_standby_frames \in Seq(ExtraEntry)
  BY DEF Config
<1>3. ~NeedAudio(c, s)
  BY DEF NeedAudio
<1>4. SparesAudio(c.extra_wake_frames) => PlanWake(c, s) \in Free(ToAudio)
  BY <1>1, <1>2, <1>3, ExtraSpares, WakeFree
<1>5. SparesAudio(c.extra_standby_frames) => PlanStandby(c, s) \in Free(ToAudio)
  BY <1>1, <1>2, ExtraSpares, StandbyFree
<1> QED  BY <1>4, <1>5, FreeSpares

(* The inductive form: while there is no receiver, no survey has found one *)
(* and no plan addresses it.                                               *)
Unheard(h) == ~bus[h].audio_present /\ SparesAudio(plan[h])

ReceiverInv ==
    /\ config \in Configs
    /\ world.receiver = "absent" => \A h \in Hooks : Unheard(h)

(* Nothing makes a receiver go away.                                       *)
LEMMA StaysPresent ==
    ASSUME TypeOK, [Next]_vars, world'.receiver = "absent"
    PROVE  world.receiver = "absent"
<1>1. ASSUME NEW f, world' \in Heard(world, f) PROVE world.receiver = "absent"
  <2>1. world'.receiver = IF f.op = "SystemAudioModeRequest" THEN "on"
                          ELSE IF world.receiver = "on" /\ "audio" \in {to \in {"tv", "audio"} :
                                      f.op = "Standby" /\ f.to \in {to, "all"}} THEN "off"
                          ELSE world.receiver
    BY <1>1 DEF Heard
  <2> QED  BY <2>1
<1>2. CASE UNCHANGED world
  BY <1>2
<1>3. CASE TvSettles
  BY <1>3 DEF TvSettles, TypeOK, World
<1>4. ASSUME NEW h \in Hooks, Hook(h)
      PROVE  UNCHANGED world \/ \E f : world' \in Heard(world, f)
  <2>1. CASE Send(h)
    BY <2>1, Zenon DEF Send
  <2>2. CASE ~Send(h)
    BY <1>4, <2>2, Zenon DEF Hook, Open, Info, Clear, Set, Reclear, Await, Tunnel, ReadPhys,
       Begin, PollTv, PollAudio, AskPower, AskSource, AskAudio, MakePlan, Confirm, Recover
  <2> QED  BY <2>1, <2>2
<1>5. CASE Environment
  BY <1>2, <1>3, <1>5 DEF Environment, KernelClaims, AdapterResets, AdapterGone
<1> QED  BY <1>1, <1>2, <1>4, <1>5 DEF Next, AllDone, vars

(* A poll of address 5 is not acknowledged by a receiver that is not there.*)
LEMMA PollUnheard ==
    ASSUME world.receiver = "absent", NEW from
    PROVE  "ok" \notin Outcome(from, "audio", TRUE)
BY DEF Outcome

(* Asking the other questions, and everything that is not asking or        *)
(* planning, leaves the plans and what was found of the receiver alone.    *)
LEMMA ApartKeeps ==
    ASSUME TypeOK, NEW h \in Hooks, Hook(h), ~PollTv(h), ~PollAudio(h), ~MakePlan(h)
    PROVE  /\ UNCHANGED << config, plan >>
           /\ \A g \in Hooks : bus'[g].audio_present = bus[g].audio_present
<1>1. UNCHANGED << config, plan >>
  BY Zenon DEF Hook, Open, Info, Clear, Set, Reclear, Await, Tunnel, ReadPhys, Begin, AskPower,
     AskSource, AskAudio, Send, Confirm, Recover, settings
<1>2. CASE AskPower(h) \/ AskSource(h) \/ AskAudio(h)
  <2>1. \/ UNCHANGED bus
        \/ \E p : bus' = [bus EXCEPT ![h].tv_power = p]
        \/ \E p : bus' = [bus EXCEPT ![h].active_source = p]
        \/ \E p : bus' = [bus EXCEPT ![h].audio_mode = p]
    BY <1>2, Zenon DEF AskPower, AskSource, AskAudio, Breaks
  <2>2. bus \in [Hooks -> BusState]
    BY DEF TypeOK
  <2> QED  BY <1>1, <2>1, <2>2 DEF BusState
<1>3. CASE ~AskPower(h) /\ ~AskSource(h) /\ ~AskAudio(h)
  <2>1. UNCHANGED bus
    BY <1>3, Zenon DEF Hook, Open, Info, Clear, Set, Reclear, Await, Tunnel, ReadPhys, Begin,
       Send, Confirm, Recover
  <2> QED  BY <1>1, <2>1
<1> QED  BY <1>2, <1>3

(* A hook that polls where there is no receiver finds none.                *)
LEMMA PollingKeeps ==
    ASSUME TypeOK, NEW h \in Hooks, PollTv(h) \/ PollAudio(h),
           world.receiver = "absent", \A g \in Hooks : Unheard(g)
    PROVE  UNCHANGED config /\ \A g \in Hooks : Unheard(g)'
<1>1. UNCHANGED << config, plan >>
  BY DEF PollTv, PollAudio, settings
<1>2. \/ UNCHANGED bus
      \/ \E ok \in BOOLEAN : bus' = [bus EXCEPT ![h] = [NewBusState(la[h], pa[h])
                                                     EXCEPT !.tv_present = ok]]
      \/ bus' = [bus EXCEPT ![h].audio_present = FALSE]
  <2>1. CASE PollTv(h)
    BY <2>1 DEF PollTv, Breaks
  <2>2. CASE PollAudio(h)
    BY <2>2, PollUnheard DEF PollAudio, Breaks
  <2> QED  BY <2>1, <2>2
<1>3. bus \in [Hooks -> BusState]
  BY DEF TypeOK
<1>4. \A g \in Hooks : ~bus'[g].audio_present
  BY <1>2, <1>3 DEF Unheard, NewBusState, BusState
<1> QED  BY <1>1, <1>4 DEF Unheard, SparesAudio

(* And plans for none.                                                     *)
LEMMA PlanningQuiet ==
    ASSUME OwnFramesSpareAudio, TypeOK, config \in Configs, NEW h \in Hooks, MakePlan(h),
           \A g \in Hooks : Unheard(g)
    PROVE  UNCHANGED config /\ \A g \in Hooks : Unheard(g)'
<1> DEFINE frames == IF On(h) THEN PlanWake(config, bus[h]) ELSE PlanStandby(config, bus[h])
<1>1. SparesAudio(frames)
  <2>1. config \in Config /\ bus[h] \in BusState /\ ~bus[h].audio_present
    BY DEF TypeOK, Unheard
  <2>2. SparesAudio(config.extra_wake_frames) /\ SparesAudio(config.extra_standby_frames)
    BY DEF OwnFramesSpareAudio
  <2> QED  BY <2>1, <2>2, PlansSpare
<1>2. UNCHANGED << config, bus >> /\ (UNCHANGED plan \/ plan' = [plan EXCEPT ![h] = frames])
  BY DEF MakePlan, settings
<1> HIDE DEF frames
<1>3. plan \in [Hooks -> Seq(Frame)]
  BY DEF TypeOK
<1>4. \A g \in Hooks : SparesAudio(plan'[g])
  BY <1>1, <1>2, <1>3 DEF Unheard
<1> QED  BY <1>2, <1>4 DEF Unheard, SparesAudio

(* Every step keeps ReceiverInv.                                           *)
LEMMA ReceiverStep ==
    ASSUME OwnFramesSpareAudio, TypeOK, ReceiverInv, [Next]_vars
    PROVE  ReceiverInv'
<1>1. CASE Environment \/ UNCHANGED vars \/ AllDone
  <2>1. UNCHANGED << config, bus, plan >>
    BY <1>1 DEF Environment, TvSettles, KernelClaims, AdapterResets, AdapterGone, AllDone,
                vars, settings, self
  <2> QED  BY <2>1, StaysPresent DEF ReceiverInv, Unheard, SparesAudio
<1>2. ASSUME NEW h \in Hooks, Hook(h) PROVE ReceiverInv'
  <2>1. CASE PollTv(h) \/ PollAudio(h)
    <3>1. UNCHANGED config
      BY <2>1 DEF PollTv, PollAudio, settings
    <3> QED  BY <2>1, <3>1, PollingKeeps, StaysPresent DEF ReceiverInv
  <2>2. CASE MakePlan(h)
    <3>1. UNCHANGED config
      BY <2>2 DEF MakePlan, settings
    <3> QED  BY <2>2, <3>1, PlanningQuiet, StaysPresent DEF ReceiverInv
  <2>3. CASE ~PollTv(h) /\ ~PollAudio(h) /\ ~MakePlan(h)
    BY <1>2, <2>3, ApartKeeps, StaysPresent DEF ReceiverInv, Unheard, SparesAudio
  <2> QED  BY <2>1, <2>2, <2>3
<1> QED  BY <1>1, <1>2 DEF Next

(* On a bus with no receiver nothing is planned for address 5, not even    *)
(* with FORCE_ALL_FRAMES, unless the user's own frames address it.         *)
THEOREM AbsentReceiverCorrect ==
    ASSUME OwnFramesSpareAudio
    PROVE  Spec => []AbsentReceiverUntouched
<1>1. ReceiverInv => AbsentReceiverUntouched
  BY DEF ReceiverInv, Unheard, SparesAudio, AbsentReceiverUntouched
<1>2. Init => TypeOK /\ ReceiverInv
  BY InitType DEF Init, ReceiverInv, Unheard, SparesAudio, NewBusState
<1>3. TypeOK /\ ReceiverInv /\ [Next]_vars => (TypeOK /\ ReceiverInv)'
  BY TypeStep, ReceiverStep
<1> QED  BY <1>1, <1>2, <1>3, PTL DEF Spec

-----------------------------------------------------------------------------
(* The TV that is woken.  Where no hook puts it to sleep it stays awake    *)
(* once it is, whoever woke it.                                            *)

(* The hooks are all wakes, or there is only one.                          *)
NobodySleeps ==
    \/ Commands \cap {"off", "off --dry-run"} = {}
    \/ \A g, h \in Hooks : g = h

AllWake == \A h \in Hooks : On(h)

PutsOut == {f \in Frame : f.op = "Standby"}
Lights(f) == f.op = "ImageViewOn" /\ f.to = "tv"
Telling(h) == pc[h] \in {"send", "confirm"} \/ verdict[h] = "ok"

(* The inductive form of WakeLights: a TV that said it is awake is, one    *)
(* that was told to wake up does, and a plan has a frame to tell it unless *)
(* it is awake already.                                                    *)
Lightens(h) ==
    /\ Lacks(plan[h], PutsOut)
    /\ TvAwake(bus[h]) => Lit
    /\ \A i \in DOMAIN plan[h] : Lights(plan[h][i]) /\ i \in landed[h] => Lit
    /\ Telling(h) /\ config.wake_tv =>
          Lit \/ \E i \in DOMAIN plan[h] : Lights(plan[h][i]) /\ plan[h][i].required

LightInv ==
    /\ command \in [Hooks -> Commands]
    /\ AllWake => \A h \in Hooks : Lightens(h)

(* A wake plans no <Standby>, and wakes the TV unless it said it is awake. *)
LEMMA WakePlansLight ==
    ASSUME NEW c \in Config, NEW s \in BusState
    PROVE  /\ Lacks(PlanWake(c, s), PutsOut)
           /\ c.wake_tv => \/ TvAwake(s)
                           \/ \E i \in DOMAIN PlanWake(c, s) :
                                 Lights(PlanWake(c, s)[i]) /\ PlanWake(c, s)[i].required
<1>1. /\ Planned(s, "UserControlPressed", "tv", TRUE) \notin PutsOut
      /\ Planned(s, "UserControlReleased", "tv", TRUE) \notin PutsOut
      /\ Planned(s, "ImageViewOn", "tv", TRUE) \notin PutsOut
      /\ Planned(s, "SetStreamPath", "all", FALSE) \notin PutsOut
      /\ Planned(s, "ActiveSource", "all", FALSE) \notin PutsOut
      /\ Planned(s, "SystemAudioModeRequest", "audio", TRUE) \notin PutsOut
  BY DEF Planned, PutsOut
<1>2. c.extra_wake_frames \in Seq(ExtraEntry)
  BY DEF Config
<1>3. \A i \in DOMAIN c.extra_wake_frames :
         Planned(s, c.extra_wake_frames[i].op, c.extra_wake_frames[i].to, FALSE) \notin PutsOut
  <2>1. \A e \in ExtraEntry : e.op # "Standby"
    BY DEF ExtraEntry, ExtraOp
  <2>2. \A i \in DOMAIN c.extra_wake_frames : c.extra_wake_frames[i] \in ExtraEntry
    BY <1>2
  <2> QED  BY <2>1, <2>2 DEF Planned, PutsOut
<1>4. PlanWake(c, s) \in Free(PutsOut)
  BY <1>1, <1>2, <1>3, ExtraFree, WakeFree
<1>5. ASSUME c.wake_tv, ~TvAwake(s)
      PROVE  \E i \in DOMAIN PlanWake(c, s) :
                Lights(PlanWake(c, s)[i]) /\ PlanWake(c, s)[i].required
  <2>1. NeedTv(c, s)
    BY <1>5 DEF NeedTv
  <2>2. PlanWake(c, s) \in Holding(Planned(s, "ImageViewOn", "tv", TRUE))
    BY <2>1, WakeHolds
  <2> QED  BY <2>2 DEF Holding, Has, Lights, Planned
<1> QED  BY <1>4, <1>5 DEF Free

(* What a frame other than <Standby> does to the TV.                       *)
LEMMA FrameLights ==
    ASSUME TypeOK, NEW f \in Frame, f \notin PutsOut, world' \in Heard(world, f)
    PROVE  Lit \/ Lights(f) => Lit'
<1>1. f.op # "Standby"
  BY DEF PutsOut
<1>2. world'.power = IF /\ f.op \in {"ImageViewOn", "TextViewOn", "UserControlPressed"}
                        /\ f.to = "tv" /\ ~Lit
                     THEN "toOn" ELSE world.power
  BY <1>1 DEF Heard, Lit
<1> QED  BY <1>2 DEF Lit, Lights

(* A turn of the send loop leaves a TV that is awake so, and wakes one     *)
(* that acknowledges being told to.                                        *)
LEMMA SendLights ==
    ASSUME TypeOK, NEW h \in Hooks, Send(h), Lacks(plan[h], PutsOut)
    PROVE  /\ Lit => Lit'
           /\ \A i \in DOMAIN plan[h] :
                 Lights(plan[h][i]) /\ i \in landed'[h] => i \in landed[h] \/ Lit'
<1> DEFINE f == plan[h][at[h]]
<1>1. plan[h] \in Seq(Frame) /\ at[h] \in DOMAIN plan[h] /\ f \in Frame /\ f \notin PutsOut
  BY DEF Send, TypeOK, IndexInPlan, Lacks
<1>2. PICK outcome :
         /\ outcome \in IF f.op = "refused" THEN {"raise"} ELSE Outcome(la[h], f.to, FALSE)
         /\ world' \in IF outcome = "ok" /\ TunnelOpen THEN Heard(world, f) ELSE {world}
         /\ landed' = [landed EXCEPT ![h] = IF outcome = "ok" THEN @ \cup {at[h]} ELSE @]
  BY Zenon DEF Send
<1> HIDE DEF f
<1>3. Lit => Lit'
  <2>1. world' \in Heard(world, f) \/ UNCHANGED world
    BY <1>2
  <2> QED  BY <1>1, <2>1, FrameLights DEF Lit
<1>4. outcome = "ok" /\ Lights(f) => Lit'
  <2>1. ASSUME outcome = "ok", Lights(f) PROVE TunnelOpen
    BY <1>2, <2>1 DEF Lights, Outcome
  <2> QED  BY <1>1, <1>2, <2>1, FrameLights
<1>5. landed'[h] = IF outcome = "ok" THEN landed[h] \cup {at[h]} ELSE landed[h]
  BY <1>2 DEF TypeOK
<1> QED  BY <1>3, <1>4, <1>5 DEF f

(* What a hook can tell of the room is the same after as before.           *)
SameRoom ==
    /\ Lit' = Lit
    /\ world'.screen = world.screen /\ world'.receiver = world.receiver
    /\ world'.input = world.input

(* The environment leaves the room and the hooks alone: a TV that is       *)
(* waking up was awake, and will be.                                       *)
LEMMA RoomKeeps ==
    ASSUME TypeOK, UNCHANGED world \/ Environment
    PROVE  SameRoom /\ (Environment => UNCHANGED << settings, self >>)
<1>1. CASE TvSettles
  <2>1. /\ world' = [world EXCEPT !.power = IF @ = "toOn" THEN "on" ELSE "standby"]
        /\ world.power \in {"toOn", "toStandby"} /\ world \in World
    BY <1>1 DEF TvSettles, TypeOK
  <2>2. world'.power = (IF world.power = "toOn" THEN "on" ELSE "standby")
    BY <2>1 DEF World
  <2>3. Lit' = Lit
    BY <2>1, <2>2 DEF Lit
  <2>4. /\ world'.screen = world.screen /\ world'.receiver = world.receiver
        /\ world'.input = world.input
    BY <2>1 DEF World
  <2> QED  BY <1>1, <2>3, <2>4 DEF SameRoom, TvSettles, Environment, KernelClaims,
                                  AdapterResets, AdapterGone
<1>2. CASE UNCHANGED world
  BY <1>2 DEF SameRoom, Lit, Environment, TvSettles, KernelClaims, AdapterResets, AdapterGone
<1> QED  BY <1>1, <1>2 DEF Environment, KernelClaims, AdapterResets, AdapterGone

(* A TV that is awake stays awake among hooks that plan no <Standby>.      *)
LEMMA LitStays ==
    ASSUME TypeOK, [Next]_vars, \A h \in Hooks : Lacks(plan[h], PutsOut), Lit
    PROVE  Lit'
<1>1. CASE UNCHANGED world
  BY <1>1 DEF Lit
<1>2. CASE Environment
  BY <1>2, RoomKeeps DEF SameRoom
<1>3. ASSUME NEW h \in Hooks, Hook(h) PROVE Lit'
  <2>1. CASE Send(h)
    BY <2>1, SendLights
  <2>2. CASE ~Send(h)
    <3>1. UNCHANGED world
      BY <1>3, <2>2, Zenon DEF Hook, Open, Info, Clear, Set, Reclear, Await, Tunnel, ReadPhys,
         Begin, PollTv, PollAudio, AskPower, AskSource, AskAudio, MakePlan, Confirm, Recover
    <3> QED  BY <1>1, <3>1
  <2> QED  BY <2>1, <2>2
<1> QED  BY <1>1, <1>2, <1>3 DEF Next, AllDone, vars

(* A hook believes a TV awake only on the TV's own word.                   *)
LEMMA AwakeIsSaid ==
    ASSUME TypeOK, NEW h \in Hooks, Hook(h), \A g \in Hooks : TvAwake(bus[g]) => Lit
    PROVE  \A g \in Hooks : TvAwake(bus'[g]) => Lit
<1>1. bus \in [Hooks -> BusState]
  BY DEF TypeOK
<1>2. CASE PollTv(h)
  <2>1. \/ UNCHANGED bus
        \/ \E ok \in BOOLEAN : bus' = [bus EXCEPT ![h] = [NewBusState(la[h], pa[h])
                                                       EXCEPT !.tv_present = ok]]
    BY <1>2 DEF PollTv, Breaks
  <2>2. \A ok : ~TvAwake([NewBusState(la[h], pa[h]) EXCEPT !.tv_present = ok])
    BY DEF TvAwake, NewBusState, Silent
  <2> QED  BY <1>1, <2>1, <2>2
<1>3. CASE AskPower(h)
  <2>1. \/ UNCHANGED bus
        \/ \E p \in {world.power, Silent} : bus' = [bus EXCEPT ![h].tv_power = p]
    <3>1. \A outcome : Answer(outcome, world.power, Silent) \subseteq {world.power, Silent}
      BY DEF Answer
    <3> QED  BY <1>3, <3>1, Zenon DEF AskPower, Breaks
  <2> QED  BY <1>1, <2>1 DEF TvAwake, Lit, Silent, BusState
<1>4. CASE PollAudio(h) \/ AskSource(h) \/ AskAudio(h)
  <2>1. \/ UNCHANGED bus
        \/ \E p : bus' = [bus EXCEPT ![h].audio_present = p]
        \/ \E p : bus' = [bus EXCEPT ![h].active_source = p]
        \/ \E p : bus' = [bus EXCEPT ![h].audio_mode = p]
    BY <1>4, Zenon DEF PollAudio, AskSource, AskAudio, Breaks
  <2> QED  BY <1>1, <2>1 DEF TvAwake, BusState
<1>5. CASE ~PollTv(h) /\ ~AskPower(h) /\ ~PollAudio(h) /\ ~AskSource(h) /\ ~AskAudio(h)
  <2>1. UNCHANGED bus
    BY <1>5, Zenon DEF Hook, Open, Info, Clear, Set, Reclear, Await, Tunnel, ReadPhys, Begin,
       MakePlan, Send, Confirm, Recover
  <2> QED  BY <2>1
<1> QED  BY <1>2, <1>3, <1>4, <1>5

(* The step of a hook that does not plan tells nothing new.                *)
LEMMA TellingStays ==
    ASSUME TypeOK, LandedInv, NEW h \in Hooks, Hook(h), ~MakePlan(h)
    PROVE  /\ Telling(h)' => Telling(h)
           /\ UNCHANGED plan /\ (~Send(h) => UNCHANGED landed)
<1>1. pc[h] # "done" => verdict[h] = "running"
  BY DEF LandedInv, SuccessInv
<1>2. Aside(h) => pc'[h] \notin {"send", "confirm"} /\ verdict'[h] \in {verdict[h], "failed", "traceback"}
  BY DEF Aside, Ends, Goto, TypeOK
<1>3. CASE Send(h) \/ Confirm(h)
  BY <1>3, SendTurns DEF Telling, Send, Confirm
<1>4. CASE ~Send(h) /\ ~Confirm(h)
  <2>1. Aside(h) /\ UNCHANGED << plan, landed >>
    BY <1>4, ClaimingAside, AskingAside DEF Hook
  <2> QED  BY <1>2, <2>1 DEF Telling
<1> QED  BY <1>3, <1>4

(* A hook that plans lets the TV be woken if it is asleep.                 *)
LEMMA PlanningLights ==
    ASSUME TypeOK, LandedInv, NEW h \in Hooks, MakePlan(h), On(h), Lightens(h)
    PROVE  Lightens(h)'
<1> DEFINE frames == PlanWake(config, bus[h])
<1>1. /\ UNCHANGED << config, world, bus >> /\ pc[h] = "plan" /\ verdict[h] = "running"
      /\ config \in Config /\ bus[h] \in BusState
  BY DEF MakePlan, settings, LandedInv, SuccessInv, TypeOK
<1>2. /\ Lacks(frames, PutsOut)
      /\ config.wake_tv => \/ Lit
                           \/ \E i \in DOMAIN frames : Lights(frames[i]) /\ frames[i].required
  BY <1>1, WakePlansLight DEF Lightens
<1>3. \/ Ends(h, "traceback") /\ UNCHANGED << plan, at, landed >>
      \/ plan' = [plan EXCEPT ![h] = frames] /\ landed' = [landed EXCEPT ![h] = {}]
  BY DEF MakePlan
<1> HIDE DEF frames
<1>4. (Lit' <=> Lit) /\ (TvAwake(bus[h])' <=> TvAwake(bus[h]))
  BY <1>1 DEF Lit, TvAwake
<1>5. CASE Ends(h, "traceback") /\ UNCHANGED << plan, at, landed >>
  <2>1. pc'[h] = "done" /\ verdict'[h] = "traceback"
    BY <1>5 DEF Ends, TypeOK
  <2> QED  BY <1>1, <1>4, <1>5, <2>1 DEF Lightens, Telling, Lacks, PutsOut
<1>6. CASE plan' = [plan EXCEPT ![h] = frames] /\ landed' = [landed EXCEPT ![h] = {}]
  <2>1. plan'[h] = frames /\ landed'[h] = {}
    BY <1>6 DEF TypeOK
  <2> QED  BY <1>1, <1>2, <1>4, <2>1 DEF Lightens, Lacks, PutsOut, Lights
<1> QED  BY <1>3, <1>5, <1>6

(* What is left alone goes on as it is.                                    *)
LEMMA LightensOn ==
    ASSUME NEW g \in Hooks, Lightens(g), Lit => Lit', TvAwake(bus[g])' => Lit,
           UNCHANGED config, plan'[g] = plan[g], Telling(g)' => Telling(g),
           \A i \in DOMAIN plan[g] :
              Lights(plan[g][i]) /\ i \in landed'[g] => i \in landed[g] \/ Lit'
    PROVE  Lightens(g)'
<1>1. Lacks(plan[g], PutsOut)'
  BY DEF Lightens, Lacks, PutsOut
<1>2. TvAwake(bus[g])' => Lit'
  OBVIOUS
<1>3. \A i \in DOMAIN plan'[g] : Lights(plan'[g][i]) /\ i \in landed'[g] => Lit'
  BY DEF Lightens
<1>4. Telling(g)' /\ config'.wake_tv =>
         Lit' \/ \E i \in DOMAIN plan'[g] : Lights(plan'[g][i]) /\ plan'[g][i].required
  BY DEF Lightens
<1> QED  BY <1>1, <1>2, <1>3, <1>4 DEF Lightens, Lights

(* Every step keeps LightInv.                                              *)
LEMMA LightStep ==
    ASSUME TypeOK, LandedInv, LightInv, [Next]_vars
    PROVE  LightInv'
<1>1. UNCHANGED << config, command >>
  BY Zenon DEF Next, Hook, Open, Info, Clear, Set, Reclear, Await, Tunnel, ReadPhys, Begin,
     PollTv, PollAudio, AskPower, AskSource, AskAudio, MakePlan, Send, Confirm, Recover,
     Environment, TvSettles, KernelClaims, AdapterResets, AdapterGone, AllDone, settings, vars
<1>2. AllWake' => AllWake
  BY <1>1 DEF AllWake, On
<1> SUFFICES ASSUME AllWake, NEW g \in Hooks PROVE Lightens(g)'
  BY <1>1, <1>2 DEF LightInv
<1>3. \A h \in Hooks : Lightens(h) /\ Lacks(plan[h], PutsOut) /\ (TvAwake(bus[h]) => Lit)
  BY DEF LightInv, Lightens
<1>4. Lit => Lit'
  BY <1>3, LitStays
<1>5. CASE Environment \/ UNCHANGED vars \/ AllDone
  <2>1. UNCHANGED << bus, plan, landed, pc, verdict >>
    BY <1>5 DEF Environment, TvSettles, KernelClaims, AdapterResets, AdapterGone, AllDone,
                vars, self
  <2>2. (TvAwake(bus[g])' => Lit) /\ (Telling(g)' => Telling(g))
    BY <1>3, <2>1 DEF TvAwake, Telling
  <2> QED  BY <1>1, <1>3, <1>4, <2>1, <2>2, LightensOn
<1>6. ASSUME NEW h \in Hooks, Hook(h) PROVE Lightens(g)'
  <2>1. TvAwake(bus[g])' => Lit
    <3>1. TvAwake(bus'[g]) => Lit
      BY <1>3, <1>6, AwakeIsSaid
    <3> QED  BY <3>1 DEF TvAwake
  <2>2. CASE g # h
    <3>1. plan'[g] = plan[g] /\ landed'[g] = landed[g] /\ (Telling(g)' => Telling(g))
      BY <1>6, <2>2, HookAlone DEF Telling
    <3> QED  BY <1>1, <1>3, <1>4, <2>1, <3>1, LightensOn
  <2>3. CASE g = h /\ MakePlan(h)
    BY <1>3, <2>3, PlanningLights DEF AllWake
  <2>4. CASE g = h /\ ~MakePlan(h)
    <3>1. (Telling(g)' => Telling(g)) /\ UNCHANGED plan /\ (~Send(g) => UNCHANGED landed)
      BY <1>6, <2>4, TellingStays
    <3>2. \A i \in DOMAIN plan[g] :
             Lights(plan[g][i]) /\ i \in landed'[g] => i \in landed[g] \/ Lit'
      BY <1>3, <3>1, SendLights
    <3> QED  BY <1>1, <1>3, <1>4, <2>1, <3>1, <3>2, LightensOn
  <2> QED  BY <2>2, <2>3, <2>4
<1> QED  BY <1>5, <1>6 DEF Next

(* A wake that exits 0 leaves the TV awake if it may wake it, whatever was *)
(* lost, refused, retried, reset or answered late: for every number of     *)
(* wakes, every configuration whose extra frames are in ExtraOp (none is a *)
(* <Standby>) and every fault, unless another hook puts the TV to sleep.   *)
THEOREM WakeLightsCorrect ==
    ASSUME NobodySleeps
    PROVE  Spec => []WakeLights
<1>1. LandedInv /\ LightInv => WakeLights
  <2> SUFFICES ASSUME LandedInv, LightInv, NEW h \in Hooks,
                      command[h] = "on", verdict[h] = "ok", config.wake_tv
               PROVE  Lit
    BY DEF WakeLights
  <2>1. AllWake
    <3>1. CASE Commands \cap {"off", "off --dry-run"} = {}
      <4>1. \A g \in Hooks : command[g] \in Commands /\ Commands \subseteq Command
        BY HookAssumption DEF LightInv, HookAssumption
      <4> QED  BY <3>1, <4>1 DEF AllWake, On, Command
    <3>2. CASE \A g \in Hooks : g = h
      BY <3>2 DEF AllWake, On
    <3> QED  BY <3>1, <3>2 DEF NobodySleeps
  <2>2. AllLanded(h)
    BY DEF LandedInv, SuccessInv, DryRun
  <2>3. Lightens(h) /\ Telling(h)
    BY <2>1 DEF LightInv, Telling
  <2> QED  BY <2>2, <2>3 DEF Lightens, AllLanded
<1>2. Init => TypeOK /\ LandedInv /\ LightInv
  BY InitType, LandedInit DEF Init, LightInv, Lightens, Lacks, TvAwake, NewBusState, Silent, Telling
<1>3. TypeOK /\ LandedInv /\ LightInv /\ [Next]_vars => (TypeOK /\ LandedInv /\ LightInv)'
  BY TypeStep, LandedStep, LightStep
<1> QED  BY <1>1, <1>2, <1>3, PTL DEF Spec

-----------------------------------------------------------------------------
(***************************************************************************)
(* The only hook on a bus where frames are heard.  The adapter may still   *)
(* not open or go away, refuse an address or have none to give, and a      *)
(* transmit may fail with an error of its own: a hook that meets one of    *)
(* these fails, or goes on where it may.                                   *)
(***************************************************************************)

Heeded == Faults \cap {"contended", "nack", "late"} = {}

(* Where the hook stands.  A claim comes before the first attempt, and     *)
(* none of the attempts ever ends in a recovery; a hook that has claimed   *)
(* knows its address, which is the adapter's for as long as there is one,  *)
(* and the port we are plugged into.                                       *)
Stands(h) ==
    /\ pc[h] # "recover"
    /\ pc[h] \in Claiming \cup {"open"} => attempt[h] = 0
    /\ pc[h] \in {"tunnel", "phys", "begin"} \cup Talking =>
          la[h] # NoAddr /\ (la[h] = adapter.addr \/ adapter.gone)
    /\ pc[h] \in {"begin"} \cup Talking => pa[h] = Port

(* A claim that fails ends the hook.                                       *)
LEMMA FailedClaimEnds ==
    ASSUME TypeOK, NEW h \in Hooks, Stands(h), pc[h] \in Claiming
    PROVE  /\ ClaimFails(h) => pc'[h] = "done"
           /\ \A next : ClearLogAddrs(h, next) => pc'[h] \in {next, "done"}
<1>1. attempt[h] = 0
  BY DEF Stands
<1>2. ClaimFails(h) => pc'[h] = "done"
  BY <1>1 DEF ClaimFails, Ends, TypeOK
<1> QED  BY <1>2, Arrives DEF ClearLogAddrs

(* What is still to be claimed has no address to lose.                     *)
LEMMA StandsBefore ==
    ASSUME NEW h \in Hooks,
           pc'[h] \in {"info", "clear", "set", "reclear", "await", "done"},
           attempt'[h] = 0
    PROVE  Stands(h)'
BY DEF Stands, Talking, Asking

(* A hook that talks keeps its addresses.                                  *)
LEMMA StandsOn ==
    ASSUME NEW h \in Hooks, Stands(h), UNCHANGED << la, pa, adapter >>,
           \/ pc'[h] = "done"
           \/ pc[h] \in Talking /\ pc'[h] \in Talking
    PROVE  Stands(h)'
BY DEF Stands, Talking, Asking, Claiming

(* Claiming an address leaves the hook knowing it.                         *)
LEMMA ClaimingStands ==
    ASSUME TypeOK, NEW h \in Hooks, Stands(h),
           \/ Open(h) \/ Info(h) \/ Clear(h) \/ Set(h) \/ Reclear(h) \/ Await(h)
    PROVE  Stands(h)'
<1>1. pc[h] \in Claiming \cup {"open"} /\ attempt[h] = 0 /\ UNCHANGED attempt
  BY DEF Open, Info, Clear, Set, Reclear, Await, Claiming, Stands
<1>2. ASSUME pc'[h] = "tunnel", la'[h] # NoAddr, la'[h] = adapter'.addr
      PROVE  Stands(h)'
  BY <1>1, <1>2 DEF Stands, Talking, Asking, Claiming
<1>3. CASE Open(h)
  BY <1>1, <1>3, Arrives, StandsBefore DEF Open
<1>4. CASE Info(h)
  <2>1. pc[h] \in Claiming
    BY <1>4 DEF Info, Claiming
  <2>2. CASE adapter.gone /\ ClaimFails(h)
    BY <1>1, <2>1, <2>2, FailedClaimEnds, StandsBefore
  <2>3. CASE /\ adapter.addr # NoAddr /\ la' = [la EXCEPT ![h] = adapter.addr]
             /\ Goto(h, "tunnel")
    <3>1. pc'[h] = "tunnel" /\ la'[h] = adapter.addr /\ UNCHANGED adapter
      BY <1>4, <2>3, Arrives DEF Info, device, TypeOK
    <3> QED  BY <1>2, <2>3, <3>1
  <2>4. CASE Goto(h, IF adapter.count THEN "clear" ELSE "set")
    <3>1. pc'[h] \in {"clear", "set"}
      BY <2>4, Arrives
    <3> QED  BY <1>1, <3>1, StandsBefore
  <2> QED  BY <1>4, <2>2, <2>3, <2>4 DEF Info
<1>5. CASE Clear(h)
  <2>1. pc'[h] \in {"set", "done"}
    BY <1>5, FailedClaimEnds DEF Clear, Claiming
  <2> QED  BY <1>1, <2>1, StandsBefore
<1>6. CASE Set(h)
  <2>1. CASE SetLogAddrs(h)
    <3>1. ASSUME NEW a \in Addr \cup {NoAddr}, NEW polling \in BOOLEAN,
                 adapter' = [adapter EXCEPT !.addr = a, !.busy = polling,
                                            !.count = TRUE, !.matches = TRUE],
                 la' = [la EXCEPT ![h] = a],
                 Goto(h, IF a = NoAddr THEN "await" ELSE "tunnel")
          PROVE  Stands(h)'
      <4>1. la'[h] = a /\ adapter'.addr = a
        BY <3>1 DEF TypeOK, Adapter
      <4>2. CASE a = NoAddr
        BY <1>1, <3>1, <4>2, Arrives, StandsBefore
      <4>3. CASE a # NoAddr
        BY <1>2, <3>1, <4>1, <4>3, Arrives
      <4> QED  BY <4>2, <4>3
    <3>2. \/ \E a \in Addr \cup {NoAddr}, polling \in BOOLEAN :
                /\ adapter' = [adapter EXCEPT !.addr = a, !.busy = polling,
                                              !.count = TRUE, !.matches = TRUE]
                /\ la' = [la EXCEPT ![h] = a]
                /\ Goto(h, IF a = NoAddr THEN "await" ELSE "tunnel")
          \/ ClaimFails(h) \/ Goto(h, "reclear")
      BY <2>1, Zenon DEF SetLogAddrs
    <3>3. ClaimFails(h) \/ Goto(h, "reclear") => pc'[h] \in {"done", "reclear"}
      BY <1>6, Arrives, FailedClaimEnds DEF Set, Claiming
    <3> QED  BY <1>1, <3>1, <3>2, <3>3, StandsBefore
  <2>2. CASE Ends(h, "traceback")
    BY <1>1, <2>2, Arrives, StandsBefore
  <2> QED  BY <1>6, <2>1, <2>2 DEF Set
<1>7. CASE Reclear(h)
  BY <1>1, <1>7, Arrives, StandsBefore DEF Reclear
<1>8. CASE Await(h)
  <2>1. pc[h] \in Claiming /\ UNCHANGED adapter
    BY <1>8 DEF Await, Claiming, device
  <2>2. CASE ~adapter.gone /\ adapter.addr # NoAddr
    <3>1. pc'[h] = "tunnel" /\ la'[h] = adapter.addr
      BY <1>8, <2>2, Arrives DEF Await, TypeOK
    <3> QED  BY <1>2, <2>1, <2>2, <3>1
  <2>3. CASE adapter.gone \/ adapter.addr = NoAddr
    <3>1. pc'[h] \in {"done", "await"}
      BY <1>8, <2>1, <2>3, Arrives, FailedClaimEnds DEF Await
    <3> QED  BY <1>1, <3>1, StandsBefore
  <2> QED  BY <2>2, <2>3
<1> QED  BY <1>3, <1>4, <1>5, <1>6, <1>7, <1>8

(* The repair, the physical address and the head of the loop keep it.      *)
LEMMA ReadyingStands ==
    ASSUME TypeOK, NEW h \in Hooks, Stands(h), Tunnel(h) \/ ReadPhys(h) \/ Begin(h)
    PROVE  Stands(h)'
<1>1. CASE Tunnel(h)
  <2>1. UNCHANGED << adapter, la, pa, attempt >> /\ pc[h] = "tunnel" /\ pc'[h] = "phys"
    BY <1>1, Arrives DEF Tunnel
  <2> QED  BY <2>1 DEF Stands, Talking, Asking, Claiming
<1>2. CASE ReadPhys(h)
  <2>1. pc[h] = "phys" /\ UNCHANGED << adapter, la >> /\ attempt[h] = 0
    BY <1>2 DEF ReadPhys, device, Stands, Claiming
  <2>2. CASE adapter.gone \/ adapter.phys = NoPhys
    <3>1. pc'[h] = "done"
      BY <1>2, <2>1, <2>2, FailedClaimEnds DEF ReadPhys, Claiming
    <3> QED  BY <3>1 DEF Stands, Talking, Asking, Claiming
  <2>3. CASE ~adapter.gone /\ adapter.phys # NoPhys
    <3>1. pa'[h] = Port
      BY <1>2, <2>3 DEF ReadPhys, TypeOK, Adapter
    <3>2. pc'[h] \in {"begin", "pollTv"}
      BY <1>2, <2>3, Arrives DEF ReadPhys, Ready
    <3> QED  BY <2>1, <3>1, <3>2 DEF Stands, Claiming
  <2> QED  BY <2>2, <2>3
<1>3. CASE Begin(h)
  <2>1. UNCHANGED << adapter, la, pa >> /\ pc[h] = "begin" /\ pc'[h] = "pollTv"
    BY <1>3, Arrives DEF Begin
  <2> QED  BY <2>1 DEF Stands, Talking, Asking, Claiming
<1> QED  BY <1>1, <1>2, <1>3

(* So do the questions, the plan and the confirmation.                     *)
LEMMA TalkingStands ==
    ASSUME TypeOK, NEW h \in Hooks, Stands(h),
           \/ PollTv(h) \/ PollAudio(h) \/ AskPower(h) \/ AskSource(h) \/ AskAudio(h)
           \/ MakePlan(h) \/ Confirm(h)
    PROVE  Stands(h)'
<1>1. UNCHANGED << la, pa, adapter >> /\ pc[h] \in Talking
  BY DEF PollTv, PollAudio, AskPower, AskSource, AskAudio, MakePlan, Confirm, device,
         Talking, Asking
<1>2. CASE \/ PollTv(h) \/ PollAudio(h) \/ AskPower(h) \/ AskSource(h) \/ AskAudio(h)
  <2>1. \/ \E how : Ends(h, how)
        \/ \E where \in Asking \cup {"plan"} : Goto(h, where)
    BY <1>2 DEF PollTv, PollAudio, AskPower, AskSource, AskAudio, Breaks, AfterPolls, Asking
  <2>2. pc'[h] = "done" \/ pc'[h] \in Talking
    BY <2>1, Arrives DEF Talking
  <2> QED  BY <1>1, <2>2, StandsOn
<1>3. CASE MakePlan(h) \/ Confirm(h)
  <2>1. (\E how : Ends(h, how)) \/ Goto(h, "send")
    BY <1>3 DEF MakePlan, Confirm
  <2>2. pc'[h] = "done" \/ pc'[h] \in Talking
    BY <2>1, Arrives DEF Talking
  <2> QED  BY <1>1, <2>2, StandsOn
<1> QED  BY <1>2, <1>3

(* The kernel never takes the address of a hook that stands: it polls only *)
(* for one that has none.                                                  *)
LEMMA EnvironmentStands ==
    ASSUME Steady, TypeOK, NEW h \in Hooks, Repaired(h), Stands(h), Environment
    PROVE  Stands(h)'
<1>1. UNCHANGED << pc, attempt, la, pa >>
  BY DEF Environment, TvSettles, KernelClaims, AdapterResets, AdapterGone, self
<1>2. CASE TvSettles
  BY <1>1, <1>2 DEF TvSettles, device, Stands
<1>3. CASE KernelClaims
  <2>1. pc[h] \notin {"tunnel", "phys", "begin"} \cup Talking
    BY <1>3 DEF KernelClaims, Stands, Repaired, RepairInv
  <2> QED  BY <1>1, <2>1 DEF Stands
<1>4. CASE AdapterGone
  <2>1. adapter'.gone
    BY <1>4 DEF AdapterGone, TypeOK, Adapter
  <2> QED  BY <1>1, <2>1 DEF Stands
<1> QED  BY <1>2, <1>3, <1>4 DEF Environment, AdapterResets, Steady

-----------------------------------------------------------------------------
(* What a survey sees.                                                     *)

(* A frame that does not raise is acknowledged, but by a receiver that is  *)
(* not there, or a sleeping TV that is polled.                             *)
LEMMA FramesHeeded ==
    ASSUME Heeded, TypeOK, NEW h \in Hooks, Repaired(h), Stands(h), pc[h] \in Talking,
           NEW to \in Destination, NEW poll \in BOOLEAN,
           NEW outcome \in Outcome(la[h], to, poll), outcome # "raise"
    PROVE  /\ TunnelOpen
           /\ outcome \in {"ok", "nack"}
           /\ to = "audio" /\ world.receiver = "absent" => outcome = "nack"
           /\ outcome = "nack" => \/ to = "audio" /\ world.receiver = "absent"
                                  \/ to = "tv" /\ poll = TRUE /\ ~Lit
<1>1. la[h] # NoAddr /\ ~adapter.gone /\ la[h] = adapter.addr
  BY DEF Outcome, Stands
<1>2. TunnelOpen
  BY <1>1 DEF Repaired, RepairInv
<1>3. outcome \in {f \in {"raise", "contended"} : f \in Faults}
         \cup IF to = "audio" /\ world.receiver = "absent" THEN {"nack"}
              ELSE IF "nack" \in Faults \/ (to = "tv" /\ poll /\ ~Lit)
              THEN {"ok", "nack"} ELSE {"ok"}
  BY <1>1, <1>2 DEF Outcome
<1>4. "contended" \notin Faults /\ "nack" \notin Faults
  BY DEF Heeded
<1>5. outcome \in IF to = "audio" /\ world.receiver = "absent" THEN {"nack"}
                  ELSE IF to = "tv" /\ poll /\ ~Lit THEN {"ok", "nack"} ELSE {"ok"}
  BY <1>3, <1>4
<1>6. CASE to = "audio" /\ world.receiver = "absent"
  BY <1>2, <1>5, <1>6
<1>7. CASE to = "tv" /\ poll /\ ~Lit
  BY <1>2, <1>5, <1>7
<1>8. CASE /\ ~(to = "audio" /\ world.receiver = "absent")
           /\ ~(to = "tv" /\ poll /\ ~Lit)
  <2>1. outcome = "ok"
    BY <1>5, <1>8, Zenon
  <2> QED  BY <1>2, <1>8, <2>1
<1> QED  BY <1>6, <1>7, <1>8

(* The same of a question.                                                 *)
LEMMA QuestionsHeeded ==
    ASSUME Heeded, TypeOK, NEW h \in Hooks, Repaired(h), Stands(h), pc[h] \in Talking,
           NEW to \in Destination, NEW outcome \in Question(h, to), outcome # "raise"
    PROVE  /\ TunnelOpen
           /\ outcome = "ok" \/ (to = "audio" /\ world.receiver = "absent")
<1>1. outcome \in Outcome(la[h], to, FALSE)
  BY DEF Question, Stands
<1> QED  BY <1>1, FramesHeeded

Surveying == {"pollAudio", "askPower", "askSource", "askAudio", "plan"}

(* What a hook believes of the devices is so, and it has not missed a      *)
(* receiver it asked after.                                                *)
Seen(h) ==
    LET s == bus[h]
    IN  /\ s.our_addr = la[h] /\ s.our_phys = Port
        /\ TvAwake(s) => Lit
        /\ s.active_source \in {NoPhys, world.screen}
        /\ s.audio_mode = "on" => world.receiver = "on"
        /\ s.audio_present => world.receiver # "absent"
        /\ /\ pc[h] # "pollAudio" /\ world.receiver # "absent"
           /\ config.wake_audio \/ config.standby_audio
           => s.audio_present

(* A hook that answers a question learns what is so.                       *)
LEMMA SurveySees ==
    ASSUME Heeded, TypeOK, NEW h \in Hooks, Repaired(h), Stands(h),
           pc[h] \in Surveying => Seen(h),
           \/ PollTv(h) \/ PollAudio(h) \/ AskPower(h) \/ AskSource(h) \/ AskAudio(h),
           pc'[h] # "done"
    PROVE  pc'[h] \in Surveying /\ Seen(h)'
<1>1. /\ UNCHANGED << config, world, la >> /\ pc[h] \in Talking /\ pa[h] = Port
      /\ bus \in [Hooks -> BusState]
  BY DEF PollTv, PollAudio, AskPower, AskSource, AskAudio, settings, Talking, Asking, Stands,
         TypeOK
<1>2. Lit' = Lit
  BY <1>1 DEF Lit
<1>3. \A outcome : Breaks(h, outcome) => pc'[h] = "done"
  BY Arrives DEF Breaks
<1>4. CASE PollTv(h)
  <2>1. PICK outcome \in Outcome(la[h], "tv", TRUE) :
           /\ outcome # "raise"
           /\ bus' = [bus EXCEPT ![h] = [NewBusState(la[h], pa[h])
                            EXCEPT !.tv_present = (outcome = "ok")]]
           /\ Goto(h, IF config.wake_audio \/ config.standby_audio THEN "pollAudio"
                      ELSE AfterPolls(h, outcome = "ok"))
    BY <1>3, <1>4 DEF PollTv
  <2>2. bus'[h] = [NewBusState(la[h], pa[h]) EXCEPT !.tv_present = (outcome = "ok")]
    BY <1>1, <2>1
  <2>3. /\ bus'[h].our_addr = la[h] /\ bus'[h].our_phys = Port
        /\ bus'[h].tv_power = Silent /\ bus'[h].active_source = NoPhys
        /\ bus'[h].audio_mode = Silent /\ ~bus'[h].audio_present
    BY <1>1, <2>2 DEF NewBusState
  <2>4. pc'[h] \in Surveying
    BY <2>1, Arrives DEF AfterPolls, Surveying
  <2>5. pc'[h] = "pollAudio" \/ ~(config.wake_audio \/ config.standby_audio)
    BY <2>1, Arrives
  <2> QED  BY <1>1, <2>3, <2>4, <2>5 DEF Seen, TvAwake, Silent
<1>5. CASE PollAudio(h)
  <2>1. PICK outcome \in Outcome(la[h], "audio", TRUE) :
           /\ outcome # "raise"
           /\ bus' = [bus EXCEPT ![h].audio_present = (outcome = "ok")]
           /\ Goto(h, AfterPolls(h, bus[h].tv_present))
    BY <1>3, <1>5 DEF PollAudio
  <2>2. outcome = "ok" <=> world.receiver # "absent"
    BY <1>1, <2>1, FramesHeeded DEF Destination
  <2>3. bus'[h] = [bus[h] EXCEPT !.audio_present = (world.receiver # "absent")]
    BY <1>1, <2>1, <2>2
  <2>4. pc'[h] \in Surveying
    BY <2>1, Arrives DEF AfterPolls, Surveying
  <2>5. Seen(h)
    BY <1>5 DEF PollAudio, Surveying
  <2> QED  BY <1>1, <1>2, <2>3, <2>4, <2>5 DEF Seen, TvAwake, BusState
<1>6. CASE AskPower(h)
  <2>1. PICK outcome, answer :
           /\ outcome \in Question(h, "tv") /\ answer \in Answer(outcome, world.power, Silent)
           /\ bus' = [bus EXCEPT ![h].tv_power = answer]
           /\ Goto(h, "askSource")
    BY <1>3, <1>6 DEF AskPower
  <2>2. answer = world.power \/ answer = Silent
    BY <2>1, AnswerType
  <2>3. bus'[h] = [bus[h] EXCEPT !.tv_power = answer]
    BY <1>1, <2>1
  <2>4. pc'[h] \in Surveying /\ pc[h] # "pollAudio"
    BY <1>6, <2>1, Arrives DEF Surveying, AskPower
  <2>5. Seen(h)
    BY <1>6 DEF AskPower, Surveying
  <2> QED  BY <1>1, <1>2, <2>2, <2>3, <2>4, <2>5 DEF Seen, TvAwake, BusState, Lit, Silent
<1>7. CASE AskSource(h)
  <2>1. PICK outcome, answer :
           /\ outcome \in Question(h, "all")
           /\ answer \in Answer(outcome, world.screen, NoPhys) \cup Queued
           /\ bus' = [bus EXCEPT ![h].active_source = answer]
           /\ Goto(h, IF bus[h].audio_present THEN "askAudio" ELSE "plan")
    BY <1>3, <1>7 DEF AskSource
  <2>2. answer = world.screen \/ answer = NoPhys
    BY <2>1, AnswerType DEF Queued, Heeded
  <2>3. bus'[h] = [bus[h] EXCEPT !.active_source = answer]
    BY <1>1, <2>1
  <2>4. pc'[h] \in Surveying /\ pc[h] # "pollAudio"
    BY <1>7, <2>1, Arrives DEF Surveying, AskSource
  <2>5. Seen(h)
    BY <1>7 DEF AskSource, Surveying
  <2> QED  BY <1>1, <1>2, <2>2, <2>3, <2>4, <2>5 DEF Seen, TvAwake, BusState
<1>8. CASE AskAudio(h)
  <2>1. PICK outcome, answer :
           /\ outcome \in Question(h, "audio")
           /\ answer \in Answer(outcome, IF world.receiver = "on" THEN "on" ELSE "off", Silent)
           /\ bus' = [bus EXCEPT ![h].audio_mode = answer]
           /\ Goto(h, "plan")
    BY <1>3, <1>8 DEF AskAudio
  <2>2. answer = "on" => world.receiver = "on"
    BY <2>1, AnswerType DEF Silent
  <2>3. bus'[h] = [bus[h] EXCEPT !.audio_mode = answer]
    BY <1>1, <2>1
  <2>4. pc'[h] \in Surveying /\ pc[h] # "pollAudio"
    BY <1>8, <2>1, Arrives DEF Surveying, AskAudio
  <2>5. Seen(h)
    BY <1>8 DEF AskAudio, Surveying
  <2> QED  BY <1>1, <1>2, <2>2, <2>3, <2>4, <2>5 DEF Seen, TvAwake, BusState
<1> QED  BY <1>4, <1>5, <1>6, <1>7, <1>8

-----------------------------------------------------------------------------
(* Plans made of what was seen.                                            *)

(* The user's own frames go where the user says.  In these configurations  *)
(* they neither take the picture away nor wake a TV that is not to be      *)
(* woken, and those of a standby wake nothing.                             *)
OwnFramesHarmless ==
    \A c \in Configs :
        /\ \A i \in DOMAIN c.extra_wake_frames :
              LET entry == c.extra_wake_frames[i]
              IN  /\ entry.op # "InactiveSource"
                  /\ entry.op = "TextViewOn" /\ entry.to = "tv" => c.wake_tv \/ ~c.claim_source
        /\ \A i \in DOMAIN c.extra_standby_frames :
              LET entry == c.extra_standby_frames[i]
              IN  ~(entry.op = "TextViewOn" /\ entry.to = "tv")

(* What a wake never sends: what takes the picture away, the address of    *)
(* another port, a message to a device it is not for, what a receiver that *)
(* is not there would have to acknowledge, and what wakes a TV behind the  *)
(* back of the claim.                                                      *)
Unfit ==
    {f \in Frame :
        \/ f.op \in {"Standby", "InactiveSource"}
        \/ f.op \in CarriesPhys /\ f.phys # Port
        \/ f.op = "ImageViewOn" /\ f.to # "tv"
        \/ f.op = "ActiveSource" /\ f.to # "all"
        \/ f.required /\ f.to = "audio" /\ world.receiver = "absent"
        \/ /\ f.op = "TextViewOn" /\ f.to = "tv"
           /\ config.claim_source /\ ~config.wake_tv}

Wakers == Of({"UserControlPressed", "ImageViewOn"})
Claims == Of({"ActiveSource"})

(* A wake's plan: the TV is woken before its input is claimed, and before  *)
(* the user's own frames, and if it is woken its input is claimed.         *)
WakeFit(frames) ==
    /\ Lacks(frames, Unfit)
    /\ Before(frames, Wakers, Claims) /\ Before(frames, Wakers, Of({"TextViewOn"}))
    /\ config.claim_source => Lacks(frames, Wakers) \/ ~Lacks(frames, Claims)

(* What a standby never sends: what wakes something up.                    *)
Rousing ==
    {f \in Frame :
        \/ f.op \in {"ImageViewOn", "UserControlPressed", "SystemAudioModeRequest"}
        \/ f.op = "TextViewOn" /\ f.to = "tv"
        \/ f.required /\ f.to = "audio" /\ world.receiver = "absent"}

(* A frame of this kind is still to be sent, from the n-th on.             *)
ToCome(frames, n, op) == \E i \in DOMAIN frames : i >= n /\ frames[i].op = op
SleepToCome(frames, n, who) ==
    \E i \in DOMAIN frames :
        i >= n /\ frames[i].op = "Standby" /\ frames[i].to \in {who, "all"}

(* Whatever is missing of what a wake is for is still to come.             *)
PictureOwed(frames, n) ==
    /\ config.wake_tv => Lit \/ ToCome(frames, n, "ImageViewOn")
    /\ config.claim_source => world.screen = Port \/ ToCome(frames, n, "ActiveSource")

SoundOn ==
    config.wake_audio /\ world.receiver # "absent" =>
        world.receiver = "on" /\ (config.claim_source => world.input = Port)

SoundOwed(frames, n) == SoundOn \/ ToCome(frames, n, "SystemAudioModeRequest")

(* And of a standby.                                                       *)
Asleep ==
    /\ config.standby_tv \/ config.standby_broadcast => ~Lit
    /\ config.standby_audio \/ config.standby_broadcast => world.receiver # "on"

SleepOwed(frames, n) ==
    /\ config.standby_tv \/ config.standby_broadcast => ~Lit \/ SleepToCome(frames, n, "tv")
    /\ config.standby_audio \/ config.standby_broadcast =>
          world.receiver # "on" \/ SleepToCome(frames, n, "audio")

(* A plan that holds a frame has one of its kind to come.                  *)
LEMMA HoldsToCome ==
    ASSUME NEW f \in Frame, NEW frames \in Holding(f)
    PROVE  /\ ToCome(frames, 1, f.op)
           /\ \A A : f \in A => ~Lacks(frames, A)
           /\ \A who : f.op = "Standby" /\ f.to \in {who, "all"} => SleepToCome(frames, 1, who)
<1>1. PICK i \in DOMAIN frames : frames[i] = f
  BY DEF Holding, Has
<1>2. frames \in Seq(Frame)
  BY DEF Holding
<1>3. i >= 1
  BY <1>2
<1> QED  BY <1>1, <1>3 DEF ToCome, SleepToCome, Lacks

(* The user's own frames fit.                                              *)
LEMMA OwnFit ==
    ASSUME OwnFramesHarmless, TypeOK, config \in Configs, NEW s \in BusState,
           s.our_phys = Port
    PROVE  /\ Extra(config.extra_wake_frames, s) \in Free(Unfit)
           /\ Extra(config.extra_standby_frames, s) \in Free(Rousing)
<1>1. /\ config.extra_wake_frames \in Seq(ExtraEntry)
      /\ config.extra_standby_frames \in Seq(ExtraEntry)
  BY DEF TypeOK, Config
<1>2. ASSUME NEW i \in DOMAIN config.extra_wake_frames
      PROVE  Planned(s, config.extra_wake_frames[i].op, config.extra_wake_frames[i].to, FALSE)
             \notin Unfit
  <2> DEFINE entry == config.extra_wake_frames[i]
  <2>1. entry \in ExtraEntry
    BY <1>1
  <2>2. /\ entry.op \in ExtraOp \ {"InactiveSource"}
        /\ entry.op = "TextViewOn" /\ entry.to = "tv" =>
              config.wake_tv \/ ~config.claim_source
    BY <2>1 DEF OwnFramesHarmless, ExtraEntry
  <2> HIDE DEF entry
  <2>3. Planned(s, entry.op, entry.to, FALSE) \notin Unfit
    BY <2>1, <2>2 DEF Planned, Unfit, ExtraOp, CarriesPhys
  <2> QED  BY <2>3 DEF entry
<1>3. ASSUME NEW i \in DOMAIN config.extra_standby_frames
      PROVE  Planned(s, config.extra_standby_frames[i].op,
                     config.extra_standby_frames[i].to, FALSE) \notin Rousing
  <2> DEFINE entry == config.extra_standby_frames[i]
  <2>1. entry \in ExtraEntry
    BY <1>1
  <2>2. entry.op \in ExtraOp /\ ~(entry.op = "TextViewOn" /\ entry.to = "tv")
    BY <2>1 DEF OwnFramesHarmless, ExtraEntry
  <2> HIDE DEF entry
  <2>3. Planned(s, entry.op, entry.to, FALSE) \notin Rousing
    BY <2>1, <2>2 DEF Planned, Rousing, ExtraOp
  <2> QED  BY <2>3 DEF entry
<1> QED  BY <1>1, <1>2, <1>3, ExtraFree

(* A wake's plan fits what was seen, and brings what is missing.           *)
LEMMA WakeFits ==
    ASSUME OwnFramesHarmless, TypeOK, config \in Configs,
           NEW h \in Hooks, Seen(h), pc[h] = "plan"
    PROVE  /\ WakeFit(PlanWake(config, bus[h]))
           /\ PictureOwed(PlanWake(config, bus[h]), 1)
           /\ (world.receiver = "on" => world.input = world.screen)
              => SoundOwed(PlanWake(config, bus[h]), 1)
<1> DEFINE s == bus[h]
           frames == PlanWake(config, s)
<1>1. /\ config \in Config /\ s \in BusState /\ world \in World /\ s.our_phys = Port
      /\ TvAwake(s) => Lit
      /\ s.active_source \in {NoPhys, world.screen}
      /\ s.audio_mode = "on" => world.receiver = "on"
      /\ s.audio_present => world.receiver # "absent"
      /\ world.receiver # "absent" /\ config.wake_audio => s.audio_present
  BY DEF TypeOK, Seen
<1> HIDE DEF s
<1>2. /\ NeedTv(config, s) => ~Lacks(frames, Wakers) /\ ToCome(frames, 1, "ImageViewOn")
      /\ NeedSource(config, s) => ~Lacks(frames, Claims) /\ ToCome(frames, 1, "ActiveSource")
      /\ NeedAudio(config, s) => ToCome(frames, 1, "SystemAudioModeRequest")
  <2>1. ASSUME NeedTv(config, s)
        PROVE  ~Lacks(frames, Wakers) /\ ToCome(frames, 1, "ImageViewOn")
    <3> DEFINE f == Planned(s, "ImageViewOn", "tv", TRUE)
    <3>1. f \in Frame /\ f.op = "ImageViewOn"
      BY <1>1, BuiltInFrames DEF Planned
    <3>2. frames \in Holding(f)
      BY <1>1, <2>1, WakeHolds
    <3> HIDE DEF f, frames
    <3> QED  BY <3>1, <3>2, HoldsToCome DEF Wakers, Of
  <2>2. ASSUME NeedSource(config, s)
        PROVE  ~Lacks(frames, Claims) /\ ToCome(frames, 1, "ActiveSource")
    <3> DEFINE f == Planned(s, "ActiveSource", "all", FALSE)
    <3>1. f \in Frame /\ f.op = "ActiveSource"
      BY <1>1, BuiltInFrames DEF Planned
    <3>2. frames \in Holding(f)
      BY <1>1, <2>2, WakeHolds
    <3> HIDE DEF f, frames
    <3> QED  BY <3>1, <3>2, HoldsToCome DEF Claims, Of
  <2>3. ASSUME NeedAudio(config, s)
        PROVE  ToCome(frames, 1, "SystemAudioModeRequest")
    <3> DEFINE f == Planned(s, "SystemAudioModeRequest", "audio", TRUE)
    <3>1. f \in Frame /\ f.op = "SystemAudioModeRequest"
      BY <1>1, BuiltInFrames DEF Planned
    <3>2. frames \in Holding(f)
      BY <1>1, <2>3, WakeHolds
    <3> HIDE DEF f, frames
    <3> QED  BY <3>1, <3>2, HoldsToCome
  <2> QED  BY <2>1, <2>2, <2>3
<1>3. Lacks(frames, Unfit)
  <2>1. /\ Planned(s, "UserControlPressed", "tv", TRUE) \notin Unfit
        /\ Planned(s, "UserControlReleased", "tv", TRUE) \notin Unfit
        /\ Planned(s, "ImageViewOn", "tv", TRUE) \notin Unfit
    BY DEF Planned, Unfit, CarriesPhys
  <2>2. /\ Planned(s, "SetStreamPath", "all", FALSE) \notin Unfit
        /\ Planned(s, "ActiveSource", "all", FALSE) \notin Unfit
    BY <1>1 DEF Planned, Unfit, CarriesPhys
  <2>3. NeedAudio(config, s) =>
           Planned(s, "SystemAudioModeRequest", "audio", TRUE) \notin Unfit
    BY <1>1 DEF Planned, Unfit, NeedAudio
  <2>4. frames \in Free(Unfit)
    BY <1>1, <2>1, <2>2, <2>3, OwnFit, WakeFree
  <2> QED  BY <2>4 DEF Free
<1>4. Before(frames, Wakers, Claims) /\ Before(frames, Wakers, Of({"TextViewOn"}))
  <2>1. Before(frames, Wakers, Of({"ActiveSource", "TextViewOn"}))
    BY <1>1, WakeOrder DEF Wakers
  <2> QED  BY <2>1 DEF Before, Of, Claims
<1>5. config.claim_source => Lacks(frames, Wakers) \/ ~Lacks(frames, Claims)
  <2>1. ASSUME config.claim_source, ~NeedSource(config, s) PROVE Lacks(frames, Wakers)
    <3>1. /\ Planned(s, "SystemAudioModeRequest", "audio", TRUE) \notin Wakers
          /\ ~NeedTv(config, s) /\ ~NeedSource(config, s)
      BY <2>1 DEF Planned, Wakers, Of, NeedSource
    <3>2. Extra(config.extra_wake_frames, s) \in Free(Wakers)
      <4>1. config.extra_wake_frames \in Seq(ExtraEntry)
        BY <1>1 DEF Config
      <4>2. \A entry \in ExtraEntry : Planned(s, entry.op, entry.to, FALSE) \notin Wakers
        BY DEF ExtraEntry, ExtraOp, Planned, Wakers, Of
      <4>3. \A i \in DOMAIN config.extra_wake_frames : config.extra_wake_frames[i] \in ExtraEntry
        BY <4>1
      <4> QED  BY <1>1, <4>1, <4>2, <4>3, ExtraFree
    <3>3. frames \in Free(Wakers)
      BY <1>1, <3>1, <3>2, WakeFree
    <3> QED  BY <3>3 DEF Free
  <2> QED  BY <1>2, <2>1
<1>6. PictureOwed(frames, 1)
  <2>1. ASSUME config.wake_tv, ~Lit PROVE ToCome(frames, 1, "ImageViewOn")
    BY <1>1, <1>2, <2>1 DEF NeedTv
  <2>2. ASSUME config.claim_source, world.screen # Port
        PROVE  ToCome(frames, 1, "ActiveSource")
    BY <1>1, <1>2, <2>2 DEF NeedSource, WeAreOnScreen
  <2> QED  BY <2>1, <2>2 DEF PictureOwed
<1>7. ASSUME world.receiver = "on" => world.input = world.screen
      PROVE  SoundOwed(frames, 1)
  <2>1. ASSUME config.wake_audio, world.receiver # "absent", ~NeedAudio(config, s)
        PROVE  world.receiver = "on" /\ (config.claim_source => world.input = Port)
    <3>1. s.audio_mode = "on" /\ ~NeedSource(config, s)
      BY <1>1, <2>1 DEF NeedAudio
    <3>2. config.claim_source => world.screen = Port
      BY <1>1, <3>1 DEF NeedSource, WeAreOnScreen
    <3> QED  BY <1>1, <1>7, <3>1, <3>2
  <2> QED  BY <1>2, <2>1 DEF SoundOwed, SoundOn
<1> QED  BY <1>3, <1>4, <1>5, <1>6, <1>7 DEF WakeFit, s

(* A standby's plan wakes nothing, and puts to sleep what is awake.        *)
LEMMA StandbyFits ==
    ASSUME OwnFramesHarmless, TypeOK, config \in Configs,
           NEW h \in Hooks, Seen(h), pc[h] = "plan"
    PROVE  /\ Lacks(PlanStandby(config, bus[h]), Rousing)
           /\ SleepOwed(PlanStandby(config, bus[h]), 1)
<1> DEFINE s == bus[h]
           frames == PlanStandby(config, s)
<1>1. /\ config \in Config /\ s \in BusState /\ world \in World /\ s.our_phys = Port
      /\ s.audio_present => world.receiver # "absent"
      /\ world.receiver # "absent" /\ config.standby_audio => s.audio_present
  BY DEF TypeOK, Seen
<1> HIDE DEF s
<1>2. Lacks(frames, Rousing)
  <2>1. /\ Planned(s, "Standby", "all", FALSE) \notin Rousing
        /\ Planned(s, "Standby", "tv", TRUE) \notin Rousing
        /\ s.audio_present => Planned(s, "Standby", "audio", TRUE) \notin Rousing
    BY <1>1 DEF Planned, Rousing
  <2>2. frames \in Free(Rousing)
    BY <1>1, <2>1, OwnFit, StandbyFree
  <2> QED  BY <2>2 DEF Free
<1>3. /\ Planned(s, "Standby", "all", FALSE) \in Of({"Standby"})
      /\ Planned(s, "Standby", "tv", TRUE) \in Of({"Standby"})
      /\ Planned(s, "Standby", "audio", TRUE) \in Of({"Standby"})
      /\ Planned(s, "Standby", "all", FALSE).to = "all"
      /\ Planned(s, "Standby", "tv", TRUE).to = "tv"
      /\ Planned(s, "Standby", "audio", TRUE).to = "audio"
  BY <1>1, BuiltInFrames DEF Planned, Of
<1>4. \A f \in Of({"Standby"}) : f \in Frame /\ f.op = "Standby"
  BY DEF Of
<1>5. config.standby_broadcast =>
         SleepToCome(frames, 1, "tv") /\ SleepToCome(frames, 1, "audio")
  BY <1>1, <1>3, <1>4, StandbyHolds, HoldsToCome
<1>6. ~config.standby_broadcast /\ config.standby_tv => SleepToCome(frames, 1, "tv")
  BY <1>1, <1>3, <1>4, StandbyHolds, HoldsToCome
<1>7. /\ ~config.standby_broadcast /\ config.standby_audio /\ world.receiver = "on"
      => SleepToCome(frames, 1, "audio")
  BY <1>1, <1>3, <1>4, StandbyHolds, HoldsToCome
<1> QED  BY <1>2, <1>5, <1>6, <1>7 DEF SleepOwed, s

-----------------------------------------------------------------------------
(* What the frames do.                                                     *)

(* What a turn does with a frame, when it raises no error.                 *)
Told(f) == \/ world' \in Heard(world, f)
           \/ f.to = "audio" /\ world.receiver = "absent" /\ UNCHANGED world

(* A turn of the loop, given that nothing required goes to a receiver that *)
(* is not there: either the transmit raises, and nothing was heard, or the *)
(* frame is heard, or nobody is there to hear it, and the loop goes on.    *)
LEMMA SendHeard ==
    ASSUME Heeded, TypeOK, NEW h \in Hooks, Repaired(h), Stands(h), Send(h),
           LET f == plan[h][at[h]]
           IN  ~(f.required /\ f.to = "audio" /\ world.receiver = "absent")
    PROVE  /\ UNCHANGED << config, command, la, pa, adapter, plan >>
           /\ pc[h] = "send" /\ plan[h] \in Seq(Frame) /\ at[h] \in DOMAIN plan[h]
           /\ at'[h] = at[h] + 1
           /\ \/ UNCHANGED world /\ Ends(h, "failed")
              \/ /\ Told(plan[h][at[h]])
                 /\ \/ at[h] # Len(plan[h]) /\ Goto(h, "send")
                    \/ at[h] = Len(plan[h]) /\ On(h) /\ Goto(h, "confirm")
                    \/ at[h] = Len(plan[h]) /\ ~On(h) /\ Ends(h, "ok")
<1> DEFINE f == plan[h][at[h]]
<1>1. /\ UNCHANGED << config, command, la, pa, adapter, plan >> /\ pc[h] = "send"
      /\ at' = [at EXCEPT ![h] = @ + 1]
  BY DEF Send, settings, device
<1>2. plan[h] \in Seq(Frame) /\ at[h] \in DOMAIN plan[h] /\ f \in Frame
  BY <1>1 DEF TypeOK, IndexInPlan
<1>3. PICK outcome :
         /\ outcome \in IF f.op = "refused" THEN {"raise"} ELSE Outcome(la[h], f.to, FALSE)
         /\ world' \in IF outcome = "ok" /\ TunnelOpen THEN Heard(world, f) ELSE {world}
         /\ IF outcome = "raise" THEN Ends(h, "failed") /\ UNCHANGED attempt
            ELSE IF outcome = "ok" \/ Shrug(f, outcome)
                 THEN IF at[h] = Len(plan[h]) THEN SendReturns(h, TRUE)
                      ELSE Goto(h, "send") /\ UNCHANGED attempt
            ELSE SendReturns(h, FALSE)
  BY Zenon DEF Send
<1>4. ~(f.required /\ f.to = "audio" /\ world.receiver = "absent")
  OBVIOUS
<1> HIDE DEF f
<1>5. at'[h] = at[h] + 1
  BY <1>1 DEF TypeOK
<1>6. CASE outcome = "raise"
  BY <1>1, <1>2, <1>3, <1>5, <1>6 DEF f
<1>7. CASE outcome # "raise"
  <2>1. outcome \in Outcome(la[h], f.to, FALSE) /\ f.to \in Destination /\ pc[h] \in Talking
    BY <1>1, <1>2, <1>3, <1>7 DEF Frame, Talking
  <2>2. /\ TunnelOpen /\ outcome \in {"ok", "nack"}
        /\ f.to = "audio" /\ world.receiver = "absent" => outcome = "nack"
        /\ outcome = "nack" => f.to = "audio" /\ world.receiver = "absent"
    BY <1>7, <2>1, FramesHeeded
  <2>3. Told(f)
    BY <1>3, <2>2 DEF Told
  <2>4. outcome = "ok" \/ Shrug(f, outcome)
    BY <1>4, <2>2 DEF Shrug
  <2>5. IF at[h] = Len(plan[h]) THEN SendReturns(h, TRUE)
        ELSE Goto(h, "send") /\ UNCHANGED attempt
    BY <1>3, <1>7, <2>4, Zenon
  <2>6. \/ at[h] # Len(plan[h]) /\ Goto(h, "send")
        \/ at[h] = Len(plan[h]) /\ On(h) /\ Goto(h, "confirm")
        \/ at[h] = Len(plan[h]) /\ ~On(h) /\ Ends(h, "ok")
    BY <2>5, Zenon DEF SendReturns
  <2> QED  BY <1>1, <1>2, <1>5, <2>3, <2>6 DEF f
<1> QED  BY <1>6, <1>7

(* What a frame of a wake does to the room.                                *)
LEMMA WakeHeard ==
    ASSUME TypeOK, NEW f \in Frame, f \notin Unfit, world' \in Heard(world, f)
    PROVE  /\ Lit \/ f.op = "ImageViewOn" => Lit'
           /\ \/ /\ f.op \in {"ImageViewOn", "TextViewOn", "UserControlPressed"}
                 /\ f.to = "tv" /\ ~Lit
              \/ f.op = "ActiveSource" /\ world'.screen = Port
              \/ f.op # "ActiveSource" /\ world'.screen \in {world.screen, Port}
           /\ f.op = "SystemAudioModeRequest" =>
                 world'.receiver = "on" /\ world'.input = Port
           /\ \/ world'.receiver = "on" /\ world'.input = Port
              \/ world'.receiver = world.receiver /\ world'.input = world.input
<1>1. /\ f.op \notin {"Standby", "InactiveSource"}
      /\ f.op \in CarriesPhys => f.phys = Port
      /\ f.op = "ImageViewOn" => f.to = "tv"
  BY DEF Unfit
<1> DEFINE wakes == /\ f.op \in {"ImageViewOn", "TextViewOn", "UserControlPressed"}
                    /\ f.to = "tv" /\ ~Lit
<1>2. /\ world'.power = IF wakes THEN "toOn" ELSE world.power
      /\ wakes \/ world'.screen = IF f.op \in {"ActiveSource", "SetStreamPath"} THEN f.phys
                                  ELSE world.screen
      /\ world'.receiver = IF f.op = "SystemAudioModeRequest" THEN "on" ELSE world.receiver
      /\ world'.input = IF f.op = "SystemAudioModeRequest" THEN f.phys ELSE world.input
  BY <1>1 DEF Heard, Lit
<1>3. Lit \/ f.op = "ImageViewOn" => Lit'
  BY <1>1, <1>2 DEF Lit
<1> HIDE DEF wakes
<1>4. \/ wakes
      \/ f.op = "ActiveSource" /\ world'.screen = Port
      \/ f.op # "ActiveSource" /\ world'.screen \in {world.screen, Port}
  BY <1>1, <1>2 DEF CarriesPhys
<1>5. CASE f.op = "SystemAudioModeRequest"
  BY <1>1, <1>2, <1>3, <1>4, <1>5 DEF wakes, CarriesPhys
<1>6. CASE f.op # "SystemAudioModeRequest"
  BY <1>2, <1>3, <1>4, <1>6 DEF wakes
<1> QED  BY <1>5, <1>6

(* And one of a standby.                                                   *)
LEMMA SleepHeard ==
    ASSUME TypeOK, NEW f \in Frame, f \notin Rousing, world' \in Heard(world, f)
    PROVE  /\ Lit' => Lit /\ ~(f.op = "Standby" /\ f.to \in {"tv", "all"})
           /\ world'.receiver = "on" =>
                 world.receiver = "on" /\ ~(f.op = "Standby" /\ f.to \in {"audio", "all"})
<1>1. /\ f.op \notin {"ImageViewOn", "UserControlPressed", "SystemAudioModeRequest"}
      /\ ~(f.op = "TextViewOn" /\ f.to = "tv")
  BY DEF Rousing
<1> DEFINE sleeps == {to \in {"tv", "audio"} : f.op = "Standby" /\ f.to \in {to, "all"}}
<1>2. /\ world'.power = IF Lit /\ "tv" \in sleeps THEN "toStandby" ELSE world.power
      /\ world'.receiver = IF world.receiver = "on" /\ "audio" \in sleeps THEN "off"
                           ELSE world.receiver
  BY <1>1 DEF Heard, Lit
<1>3. /\ "tv" \in sleeps <=> f.op = "Standby" /\ f.to \in {"tv", "all"}
      /\ "audio" \in sleeps <=> f.op = "Standby" /\ f.to \in {"audio", "all"}
  OBVIOUS
<1> HIDE DEF sleeps
<1>4. Lit' => Lit /\ "tv" \notin sleeps
  BY <1>2 DEF Lit
<1>5. world'.receiver = "on" => world.receiver = "on" /\ "audio" \notin sleeps
  BY <1>2
<1> QED  BY <1>3, <1>4, <1>5

(* What remains to come of a plan once a frame of it was told.             *)
LEMMA Onward ==
    ASSUME NEW frames \in Seq(Frame), NEW n \in DOMAIN frames
    PROVE  /\ \A op : ToCome(frames, n, op) => frames[n].op = op \/ ToCome(frames, n + 1, op)
           /\ \A who : SleepToCome(frames, n, who) =>
                 \/ frames[n].op = "Standby" /\ frames[n].to \in {who, "all"}
                 \/ SleepToCome(frames, n + 1, who)
           /\ \A op : ~ToCome(frames, Len(frames) + 1, op)
           /\ \A who : ~SleepToCome(frames, Len(frames) + 1, who)
<1>1. Len(frames) \in Nat /\ DOMAIN frames = 1 .. Len(frames)
  OBVIOUS
<1>2. \A i \in DOMAIN frames : i >= n => i = n \/ i >= n + 1
  BY <1>1
<1>3. \A i \in DOMAIN frames : ~(i >= Len(frames) + 1)
  BY <1>1
<1> QED  BY <1>2, <1>3 DEF ToCome, SleepToCome

(* A receiver that is there stays there, whatever it is told.              *)
LEMMA ToldPresent ==
    ASSUME TypeOK, NEW f, Told(f), world'.receiver = "absent"
    PROVE  world.receiver = "absent"
<1>1. CASE UNCHANGED world
  BY <1>1
<1>2. CASE world' \in Heard(world, f)
  <2>1. world'.receiver = IF f.op = "SystemAudioModeRequest" THEN "on"
                          ELSE IF world.receiver = "on" /\ "audio" \in {to \in {"tv", "audio"} :
                                      f.op = "Standby" /\ f.to \in {to, "all"}} THEN "off"
                          ELSE world.receiver
    BY <1>2 DEF Heard
  <2> QED  BY <2>1
<1> QED  BY <1>1, <1>2 DEF Told

(* A plan that fits still fits, and what the picture wants still comes:    *)
(* a TV that is woken loses the screen only before it is claimed.          *)
LEMMA PictureTurn ==
    ASSUME TypeOK, UNCHANGED config, NEW frames \in Seq(Frame), NEW n \in DOMAIN frames,
           WakeFit(frames), PictureOwed(frames, n), Told(frames[n])
    PROVE  WakeFit(frames)' /\ PictureOwed(frames, n + 1)'
<1> DEFINE f == frames[n]
<1>1. /\ f \in Frame /\ f \notin Unfit /\ n \in Nat
      /\ Before(frames, Wakers, Claims) /\ Before(frames, Wakers, Of({"TextViewOn"}))
      /\ config.claim_source => Lacks(frames, Wakers) \/ ~Lacks(frames, Claims)
  BY DEF WakeFit, Lacks
<1>2. WakeFit(frames)'
  <2>1. \A g : g \in Unfit' => g \in Unfit
    BY ToldPresent DEF Unfit
  <2>2. Lacks(frames, Unfit)'
    BY <2>1 DEF WakeFit, Lacks
  <2> QED  BY <2>2 DEF WakeFit
<1>3. f.op = "ImageViewOn" => f.to = "tv"
  BY <1>1 DEF Unfit
<1> HIDE DEF f
<1>4. ASSUME UNCHANGED world, f.to = "audio" PROVE PictureOwed(frames, n + 1)'
  <2>1. f.op \notin {"ImageViewOn", "ActiveSource"}
    BY <1>1, <1>4 DEF Unfit
  <2>2. Lit' = Lit
    BY <1>4 DEF Lit
  <2> QED  BY <1>4, <2>1, <2>2, Onward DEF PictureOwed, f
<1>5. ASSUME world' \in Heard(world, f) PROVE PictureOwed(frames, n + 1)'
  <2>1. ASSUME config.wake_tv PROVE Lit' \/ ToCome(frames, n + 1, "ImageViewOn")
    BY <1>1, <1>5, <2>1, WakeHeard, Onward DEF PictureOwed, f
  <2>2. ASSUME config.claim_source
        PROVE  world'.screen = Port \/ ToCome(frames, n + 1, "ActiveSource")
    <3>1. CASE /\ f.op \in {"ImageViewOn", "TextViewOn", "UserControlPressed"}
               /\ f.to = "tv" /\ ~Lit
      <4>1. CASE f.op \in {"ImageViewOn", "UserControlPressed"}
        <5>1. f \in Wakers
          BY <1>1, <4>1 DEF Wakers, Of
        <5>2. PICK i \in DOMAIN frames : frames[i] \in Claims
          BY <1>1, <2>2, <5>1 DEF Lacks, f
        <5>3. n < i
          BY <1>1, <5>1, <5>2 DEF Before, f
        <5>4. i >= n + 1
          BY <1>1, <5>3
        <5> QED  BY <5>2, <5>4 DEF ToCome, Claims, Of
      <4>2. CASE f.op = "TextViewOn"
        <5>1. config.wake_tv
          BY <1>1, <2>2, <3>1, <4>2 DEF Unfit
        <5>2. PICK i \in DOMAIN frames : i >= n /\ frames[i].op = "ImageViewOn"
          BY <3>1, <5>1 DEF PictureOwed, ToCome
        <5>3. frames[i] \in Frame
          OBVIOUS
        <5>4. frames[i] \in Wakers /\ f \in Of({"TextViewOn"})
          BY <1>1, <4>2, <5>2, <5>3 DEF Wakers, Of
        <5>5. i < n
          BY <1>1, <5>4 DEF Before, f
        <5> QED  BY <1>1, <5>2, <5>5
      <4> QED  BY <3>1, <4>1, <4>2
    <3>2. CASE f.op = "ActiveSource" /\ world'.screen = Port
      BY <3>2
    <3>3. CASE f.op # "ActiveSource" /\ world'.screen \in {world.screen, Port}
      BY <2>2, <3>3, Onward DEF PictureOwed, f
    <3> QED  BY <1>1, <1>5, <3>1, <3>2, <3>3, WakeHeard
  <2> QED  BY <2>1, <2>2 DEF PictureOwed, ToCome
<1> QED  BY <1>2, <1>4, <1>5 DEF Told, f

(* The receiver keeps what it was told, and what it was not told yet still *)
(* comes.                                                                  *)
LEMMA SoundTurn ==
    ASSUME TypeOK, UNCHANGED config, NEW frames \in Seq(Frame), NEW n \in DOMAIN frames,
           WakeFit(frames), SoundOwed(frames, n), Told(frames[n])
    PROVE  SoundOwed(frames, n + 1)'
<1> DEFINE f == frames[n]
<1>1. f \in Frame /\ f \notin Unfit
  BY DEF WakeFit, Lacks
<1> HIDE DEF f
<1>2. SoundOn \/ f.op = "SystemAudioModeRequest"
      \/ ToCome(frames, n + 1, "SystemAudioModeRequest")
  BY Onward DEF SoundOwed, f
<1>3. CASE UNCHANGED world /\ world.receiver = "absent"
  BY <1>3 DEF SoundOwed, SoundOn
<1>4. CASE world' \in Heard(world, f)
  <2>1. SoundOn \/ f.op = "SystemAudioModeRequest" => SoundOn'
    BY <1>1, <1>4, WakeHeard DEF SoundOn
  <2> QED  BY <1>2, <2>1 DEF SoundOwed, ToCome
<1> QED  BY <1>3, <1>4 DEF Told, f

(* What was put to sleep stays asleep, and what was not yet still will be. *)
LEMMA SleepTurn ==
    ASSUME TypeOK, UNCHANGED config, NEW frames \in Seq(Frame), NEW n \in DOMAIN frames,
           Lacks(frames, Rousing), SleepOwed(frames, n), Told(frames[n])
    PROVE  Lacks(frames, Rousing)' /\ SleepOwed(frames, n + 1)'
<1> DEFINE f == frames[n]
<1>1. f \in Frame /\ f \notin Rousing
  BY DEF Lacks
<1>2. Lacks(frames, Rousing)'
  <2>1. \A g : g \in Rousing' => g \in Rousing
    BY ToldPresent DEF Rousing
  <2> QED  BY <2>1 DEF Lacks
<1> HIDE DEF f
<1>3. ASSUME UNCHANGED world, f.to = "audio", world.receiver = "absent"
      PROVE  SleepOwed(frames, n + 1)'
  <2>1. Lit' = Lit
    BY <1>3 DEF Lit
  <2>2. SleepToCome(frames, n, "tv") => SleepToCome(frames, n + 1, "tv")
    BY <1>3, Onward DEF f
  <2> QED  BY <1>3, <2>1, <2>2 DEF SleepOwed, SleepToCome
<1>4. ASSUME world' \in Heard(world, f) PROVE SleepOwed(frames, n + 1)'
  <2>1. \/ SleepToCome(frames, n + 1, "tv")
        \/ ~SleepToCome(frames, n, "tv")
        \/ ~Lit'
    BY <1>1, <1>4, SleepHeard, Onward DEF f
  <2>2. \/ SleepToCome(frames, n + 1, "audio")
        \/ ~SleepToCome(frames, n, "audio")
        \/ world'.receiver # "on"
    BY <1>1, <1>4, SleepHeard, Onward DEF f
  <2>3. (Lit' => Lit) /\ (world'.receiver = "on" => world.receiver = "on")
    BY <1>1, <1>4, SleepHeard
  <2> QED  BY <2>1, <2>2, <2>3 DEF SleepOwed, SleepToCome
<1> QED  BY <1>2, <1>3, <1>4 DEF Told, f

-----------------------------------------------------------------------------
(* The inductive forms of WakeDelivers and StandbyDelivers.                *)

(* Rooms in which a receiver that plays, plays what the screen shows.      *)
InStep == \A w \in Rooms : w.receiver = "on" => w.input = w.screen

(* For a wake: whatever it is for is there or still to be sent.  The sound *)
(* can be promised only in rooms where it was in step with the screen: the *)
(* survey asks a receiver whether it plays, not what.                      *)
WakeInv(h) ==
    /\ pc[h] = "send" /\ On(h) => WakeFit(plan[h]) /\ PictureOwed(plan[h], at[h])
    /\ pc[h] = "confirm" => On(h) /\ OnScreen
    /\ command[h] = "on" /\ verdict[h] = "ok" => OnScreen

SoundInv(h) ==
    /\ pc[h] \notin {"send", "confirm", "done"} =>
          (world.receiver = "on" => world.input = world.screen)
    /\ pc[h] = "send" /\ On(h) => SoundOwed(plan[h], at[h])
    /\ pc[h] = "confirm" => SoundOn
    /\ command[h] = "on" /\ verdict[h] = "ok" => SoundOn

(* And for a standby.                                                      *)
SleepInv(h) ==
    /\ pc[h] = "send" /\ ~On(h) => Lacks(plan[h], Rousing) /\ SleepOwed(plan[h], at[h])
    /\ command[h] = "off" /\ verdict[h] = "ok" => Asleep

DeliveryInv(h) ==
    /\ config \in Configs
    /\ Stands(h)
    /\ pc[h] \in Surveying => Seen(h)
    /\ WakeInv(h) /\ SleepInv(h)
    /\ InStep => SoundInv(h)

(* A hook that asks, fails or goes on to what is not telling promises      *)
(* nothing new.                                                            *)
LEMMA QuietKeeps ==
    ASSUME TypeOK, NEW h \in Hooks, SuccessInv(h), DeliveryInv(h),
           pc[h] \notin {"send", "confirm", "done"},
           UNCHANGED << config, world >>, Aside(h), Stands(h)',
           pc'[h] \in Surveying => Seen(h)'
    PROVE  DeliveryInv(h)'
<1>1. verdict[h] = "running"
  BY DEF SuccessInv
<1>2. \/ pc'[h] = "done" /\ verdict'[h] # "ok"
      \/ pc'[h] \notin {"send", "confirm", "done"} /\ verdict'[h] = "running"
  BY <1>1 DEF Aside, Ends, Goto, TypeOK
<1>3. config' \in Configs
  BY DEF DeliveryInv
<1>4. WakeInv(h)' /\ SleepInv(h)'
  BY <1>2 DEF WakeInv, SleepInv
<1>5. InStep => SoundInv(h)'
  BY <1>2 DEF DeliveryInv, SoundInv
<1> QED  BY <1>3, <1>4, <1>5 DEF DeliveryInv

(* Whatever leaves the hooks and the room as they are.                     *)
LEMMA RoomDelivers ==
    ASSUME TypeOK, NEW h \in Hooks, DeliveryInv(h), UNCHANGED << settings, self >>,
           SameRoom, Stands(h)'
    PROVE  DeliveryInv(h)'
<1>1. /\ Lit' = Lit /\ world'.screen = world.screen
      /\ world'.receiver = world.receiver /\ world'.input = world.input
      /\ UNCHANGED << config, command, pc, la, bus, plan, at, verdict >>
  BY DEF SameRoom, settings, self
<1>2. /\ Seen(h) => Seen(h)'
      /\ OnScreen => OnScreen'
      /\ Asleep => Asleep'
      /\ SoundOn => SoundOn'
  BY <1>1 DEF Seen, OnScreen, Asleep, SoundOn
<1>3. \A frames : Lacks(frames, Unfit) => Lacks(frames, Unfit)'
  <2>1. \A g : g \in Unfit' => g \in Unfit
    BY <1>1 DEF Unfit
  <2> QED  BY <2>1 DEF Lacks
<1>4. \A frames : Lacks(frames, Rousing) => Lacks(frames, Rousing)'
  <2>1. \A g : g \in Rousing' => g \in Rousing
    BY <1>1 DEF Rousing
  <2> QED  BY <2>1 DEF Lacks
<1>5. /\ WakeFit(plan[h]) => WakeFit(plan[h])'
      /\ PictureOwed(plan[h], at[h]) => PictureOwed(plan[h], at[h])'
      /\ SoundOwed(plan[h], at[h]) => SoundOwed(plan[h], at[h])'
      /\ SleepOwed(plan[h], at[h]) => SleepOwed(plan[h], at[h])'
  BY <1>1, <1>2, <1>3 DEF WakeFit, PictureOwed, SoundOwed, SleepOwed, ToCome, SleepToCome,
                          Lacks
<1>6. On(h)' = On(h)
  BY <1>1 DEF On
<1>7. (WakeInv(h) => WakeInv(h)') /\ (SoundInv(h) => SoundInv(h)')
  BY <1>1, <1>2, <1>5, <1>6 DEF WakeInv, SoundInv
<1>8. SleepInv(h) => SleepInv(h)'
  BY <1>1, <1>2, <1>4, <1>5, <1>6 DEF SleepInv, Lacks
<1> QED  BY <1>1, <1>2, <1>7, <1>8 DEF DeliveryInv

(* Making the plan: what is missing is in it.                              *)
LEMMA PlanDelivers ==
    ASSUME OwnFramesHarmless, TypeOK, NEW h \in Hooks, SuccessInv(h), DeliveryInv(h),
           MakePlan(h), Stands(h)'
    PROVE  DeliveryInv(h)'
<1> DEFINE frames == IF On(h) THEN PlanWake(config, bus[h]) ELSE PlanStandby(config, bus[h])
<1>1. /\ UNCHANGED << config, command, world >> /\ pc[h] = "plan" /\ verdict[h] = "running"
      /\ config \in Configs /\ Seen(h)
  BY DEF MakePlan, settings, SuccessInv, DeliveryInv, Surveying
<1>2. On(h) => /\ WakeFit(frames) /\ PictureOwed(frames, 1)
               /\ InStep => SoundOwed(frames, 1)
  BY <1>1, WakeFits DEF DeliveryInv, SoundInv
<1>3. ~On(h) => Lacks(frames, Rousing) /\ SleepOwed(frames, 1)
  BY <1>1, StandbyFits
<1>4. \/ Ends(h, "traceback")
      \/ /\ plan' = [plan EXCEPT ![h] = frames] /\ at' = [at EXCEPT ![h] = 1]
         /\ \/ frames = << >> /\ Ends(h, "ok")
            \/ DryRun(h) /\ Ends(h, "ok")
            \/ Goto(h, "send")
  BY DEF MakePlan
<1>5. frames = << >> => /\ On(h) => OnScreen /\ (InStep => SoundOn)
                        /\ ~On(h) => Asleep
  BY <1>2, <1>3 DEF PictureOwed, SoundOwed, SleepOwed, ToCome, SleepToCome, OnScreen, Asleep
<1> HIDE DEF frames
<1>6. /\ command[h] = "on" => On(h) /\ ~DryRun(h)
      /\ command[h] = "off" => ~On(h) /\ ~DryRun(h)
      /\ On(h)' = On(h)
  BY <1>1 DEF On, DryRun
<1>7. (OnScreen' <=> OnScreen) /\ (Asleep' <=> Asleep) /\ (SoundOn' <=> SoundOn)
  BY <1>1 DEF OnScreen, Asleep, SoundOn, Lit
<1>8. CASE Ends(h, "traceback")
  <2>1. pc'[h] = "done" /\ verdict'[h] = "traceback"
    BY <1>8 DEF Ends, TypeOK
  <2> QED  BY <1>1, <2>1 DEF DeliveryInv, WakeInv, SleepInv, SoundInv, Surveying
<1>9. CASE Ends(h, "ok") /\ (frames = << >> \/ DryRun(h))
  <2>1. pc'[h] = "done" /\ verdict'[h] = "ok"
    BY <1>9 DEF Ends, TypeOK
  <2>2. WakeInv(h)' /\ SleepInv(h)'
    BY <1>1, <1>5, <1>6, <1>7, <1>9, <2>1 DEF WakeInv, SleepInv
  <2>3. InStep => SoundInv(h)'
    BY <1>1, <1>5, <1>6, <1>7, <1>9, <2>1 DEF SoundInv
  <2> QED  BY <1>1, <2>1, <2>2, <2>3 DEF DeliveryInv, Surveying
<1>10. CASE /\ plan' = [plan EXCEPT ![h] = frames] /\ at' = [at EXCEPT ![h] = 1]
            /\ Goto(h, "send")
  <2>1. pc'[h] = "send" /\ verdict'[h] = "running" /\ plan'[h] = frames /\ at'[h] = 1
    BY <1>1, <1>10 DEF Goto, TypeOK
  <2>2. /\ WakeFit(frames) => WakeFit(plan[h])'
        /\ PictureOwed(frames, 1) => PictureOwed(plan[h], at[h])'
        /\ SoundOwed(frames, 1) => SoundOwed(plan[h], at[h])'
    BY <1>1, <1>7, <2>1 DEF WakeFit, PictureOwed, SoundOwed, ToCome, Lacks, Unfit, Lit
  <2>3. /\ Lacks(frames, Rousing) => Lacks(plan[h], Rousing)'
        /\ SleepOwed(frames, 1) => SleepOwed(plan[h], at[h])'
    BY <1>1, <2>1 DEF SleepOwed, SleepToCome, Lacks, Rousing, Lit
  <2>4. WakeInv(h)' /\ SleepInv(h)'
    BY <1>2, <1>3, <1>6, <2>1, <2>2, <2>3 DEF WakeInv, SleepInv
  <2>5. InStep => SoundInv(h)'
    BY <1>2, <1>6, <2>1, <2>2 DEF SoundInv
  <2> QED  BY <1>1, <2>1, <2>4, <2>5 DEF DeliveryInv, Surveying
<1> QED  BY <1>4, <1>8, <1>9, <1>10

(* Nothing a plan requires is for a receiver that is not there.            *)
LEMMA RequiredHeard ==
    ASSUME TypeOK, NEW h \in Hooks, DeliveryInv(h), pc[h] = "send",
           NEW f, f = plan[h][at[h]]
    PROVE  ~(f.required /\ f.to = "audio" /\ world.receiver = "absent")
<1>1. f \in Frame /\ at[h] \in DOMAIN plan[h]
  BY DEF TypeOK, IndexInPlan
<1>2. CASE On(h)
  <2>1. f \notin Unfit
    BY <1>1, <1>2 DEF DeliveryInv, WakeInv, WakeFit, Lacks
  <2> QED  BY <1>1, <2>1 DEF Unfit
<1>3. CASE ~On(h)
  <2>1. f \notin Rousing
    BY <1>1, <1>3 DEF DeliveryInv, SleepInv, Lacks
  <2> QED  BY <1>1, <2>1 DEF Rousing
<1> QED  BY <1>2, <1>3

(* Sending it: what was missing came, or still comes.                      *)
LEMMA SendDelivers ==
    ASSUME Heeded, TypeOK, NEW h \in Hooks, Repaired(h), SuccessInv(h), DeliveryInv(h), Send(h)
    PROVE  DeliveryInv(h)'
<1>1. PICK frames, n : frames = plan[h] /\ n = at[h]
  OBVIOUS
<1> DEFINE f == frames[n]
<1>2. /\ UNCHANGED << config, command, la, pa, adapter >>
      /\ pc[h] = "send" /\ frames \in Seq(Frame) /\ n \in DOMAIN frames
      /\ plan'[h] = frames /\ at'[h] = n + 1
      /\ \/ UNCHANGED world /\ Ends(h, "failed")
         \/ /\ Told(f)
            /\ \/ n # Len(frames) /\ Goto(h, "send")
               \/ n = Len(frames) /\ On(h) /\ Goto(h, "confirm")
               \/ n = Len(frames) /\ ~On(h) /\ Ends(h, "ok")
  <2>1. pc[h] = "send" /\ Stands(h)
    BY DEF Send, DeliveryInv
  <2> QED  BY <1>1, <2>1, RequiredHeard, SendHeard
<1>3. /\ verdict[h] = "running" /\ On(h)' = On(h) /\ config' \in Configs
      /\ command[h] = "on" => On(h)
      /\ command[h] = "off" => ~On(h)
  BY <1>2 DEF SuccessInv, On, DeliveryInv
<1> HIDE DEF f
<1>4. Stands(h)'
  <2>1. pc'[h] = "done" \/ pc'[h] \in Talking
    BY <1>2, Arrives DEF Talking
  <2> QED  BY <1>2, <2>1, StandsOn DEF Talking, DeliveryInv
<1>5. CASE UNCHANGED world /\ Ends(h, "failed")
  <2>1. pc'[h] = "done" /\ verdict'[h] = "failed"
    BY <1>5 DEF Ends, TypeOK
  <2> QED  BY <1>3, <1>4, <2>1 DEF DeliveryInv, WakeInv, SleepInv, SoundInv, Surveying
<1>6. ASSUME Told(f), On(h)
      PROVE  /\ WakeFit(frames)' /\ PictureOwed(frames, n + 1)'
             /\ InStep => SoundOwed(frames, n + 1)'
  <2>1. WakeFit(frames) /\ PictureOwed(frames, n) /\ (InStep => SoundOwed(frames, n))
    BY <1>1, <1>2, <1>6 DEF DeliveryInv, WakeInv, SoundInv
  <2> QED  BY <1>2, <1>6, <2>1, PictureTurn, SoundTurn DEF f
<1>7. ASSUME Told(f), ~On(h) PROVE Lacks(frames, Rousing)' /\ SleepOwed(frames, n + 1)'
  <2>1. Lacks(frames, Rousing) /\ SleepOwed(frames, n)
    BY <1>1, <1>2, <1>7 DEF DeliveryInv, SleepInv
  <2> QED  BY <1>2, <1>7, <2>1, SleepTurn DEF f
<1>8. CASE Told(f) /\ n # Len(frames) /\ Goto(h, "send")
  <2>1. pc'[h] = "send" /\ verdict'[h] = "running"
    BY <1>3, <1>8 DEF Goto, TypeOK
  <2>2. On(h) => /\ WakeFit(plan[h])' /\ PictureOwed(plan[h], at[h])'
                 /\ InStep => SoundOwed(plan[h], at[h])'
    BY <1>2, <1>6, <1>8 DEF WakeFit, PictureOwed, SoundOwed, ToCome, Lacks
  <2>3. ~On(h) => Lacks(plan[h], Rousing)' /\ SleepOwed(plan[h], at[h])'
    BY <1>2, <1>7, <1>8 DEF SleepOwed, SleepToCome, Lacks
  <2>4. WakeInv(h)' /\ SleepInv(h)'
    BY <1>3, <2>1, <2>2, <2>3 DEF WakeInv, SleepInv
  <2>5. InStep => SoundInv(h)'
    BY <1>3, <2>1, <2>2 DEF SoundInv
  <2> QED  BY <1>3, <1>4, <2>1, <2>4, <2>5 DEF DeliveryInv, Surveying
<1>9. CASE Told(f) /\ n = Len(frames) /\ On(h) /\ Goto(h, "confirm")
  <2>1. pc'[h] = "confirm" /\ verdict'[h] = "running"
    BY <1>3, <1>9 DEF Goto, TypeOK
  <2>2. OnScreen' /\ (InStep => SoundOn')
    BY <1>2, <1>6, <1>9, Onward DEF PictureOwed, SoundOwed, OnScreen
  <2>3. WakeInv(h)' /\ SleepInv(h)' /\ (InStep => SoundInv(h)')
    BY <1>3, <1>9, <2>1, <2>2 DEF WakeInv, SleepInv, SoundInv
  <2> QED  BY <1>3, <1>4, <2>1, <2>3 DEF DeliveryInv, Surveying
<1>10. CASE Told(f) /\ n = Len(frames) /\ ~On(h) /\ Ends(h, "ok")
  <2>1. pc'[h] = "done" /\ verdict'[h] = "ok"
    BY <1>10 DEF Ends, TypeOK
  <2>2. Asleep'
    BY <1>2, <1>7, <1>10, Onward DEF SleepOwed, Asleep
  <2>3. WakeInv(h)' /\ SleepInv(h)' /\ (InStep => SoundInv(h)')
    BY <1>2, <1>3, <1>10, <2>1, <2>2 DEF WakeInv, SleepInv, SoundInv
  <2> QED  BY <1>3, <1>4, <2>1, <2>3 DEF DeliveryInv, Surveying
<1> QED  BY <1>2, <1>5, <1>8, <1>9, <1>10

(* Asking for confirmation changes nothing.                                *)
LEMMA ConfirmDelivers ==
    ASSUME TypeOK, NEW h \in Hooks, DeliveryInv(h), Confirm(h), Stands(h)'
    PROVE  DeliveryInv(h)'
<1>1. UNCHANGED << config, command, world >> /\ pc[h] = "confirm"
  BY DEF Confirm, settings
<1>2. pc'[h] = "done"
  BY Arrives DEF Confirm
<1>3. (OnScreen' <=> OnScreen) /\ (SoundOn' <=> SoundOn)
  BY <1>1 DEF OnScreen, SoundOn, Lit
<1>4. On(h) /\ OnScreen /\ (command'[h] # "off")
  BY <1>1 DEF DeliveryInv, WakeInv, On
<1>5. WakeInv(h)' /\ SleepInv(h)' /\ (InStep => SoundInv(h)')
  BY <1>1, <1>2, <1>3, <1>4 DEF DeliveryInv, WakeInv, SleepInv, SoundInv
<1> QED  BY <1>1, <1>2, <1>5 DEF DeliveryInv, Surveying

(* Claiming an address surveys nothing and touches no device.              *)
LEMMA ClaimingApart ==
    ASSUME TypeOK, NEW h \in Hooks,
           \/ Open(h) \/ Info(h) \/ Clear(h) \/ Set(h) \/ Reclear(h) \/ Await(h)
           \/ Tunnel(h) \/ ReadPhys(h) \/ Begin(h)
    PROVE  /\ UNCHANGED << config, world >> /\ pc[h] \in Claiming \cup {"open", "begin"}
           /\ pc'[h] \notin Surveying
<1>1. UNCHANGED << config, world >> /\ pc[h] \in Claiming \cup {"open", "begin"}
  BY DEF Open, Info, Clear, Set, Reclear, Await, Tunnel, ReadPhys, Begin, settings, Claiming
<1>2. /\ \A how : Ends(h, how) => pc'[h] \notin Surveying
      /\ ClaimFails(h) => pc'[h] \notin Surveying
      /\ \A where : Goto(h, where) /\ where \notin Surveying => pc'[h] \notin Surveying
  BY Arrives DEF Surveying
<1>3. CASE Open(h) \/ Info(h)
  BY <1>1, <1>2, <1>3 DEF Open, Info, Surveying
<1>4. CASE Clear(h) \/ Reclear(h)
  BY <1>1, <1>2, <1>4 DEF Clear, ClearLogAddrs, Reclear, Surveying
<1>5. CASE Set(h)
  <2>1. SetLogAddrs(h) => pc'[h] \notin Surveying
    BY <1>2 DEF SetLogAddrs, Surveying
  <2> QED  BY <1>1, <1>2, <1>5, <2>1 DEF Set
<1>6. CASE Await(h) \/ Tunnel(h)
  BY <1>1, <1>2, <1>6 DEF Await, Tunnel, Surveying
<1>7. CASE ReadPhys(h) \/ Begin(h)
  BY <1>1, <1>2, <1>7 DEF ReadPhys, Ready, Begin, Surveying
<1> QED  BY <1>3, <1>4, <1>5, <1>6, <1>7

(* At the start nothing is promised.                                       *)
LEMMA DeliveryInit ==
    ASSUME Init, NEW h \in Hooks
    PROVE  DeliveryInv(h)
<1>1. /\ config \in Configs /\ world \in Rooms
      /\ pc[h] = "open" /\ attempt[h] = 0 /\ verdict[h] = "running"
  BY DEF Init
<1>2. Stands(h) /\ pc[h] \notin Surveying
  BY <1>1 DEF Stands, Surveying, Talking, Asking
<1> QED  BY <1>1, <1>2 DEF DeliveryInv, WakeInv, SleepInv, SoundInv, InStep

(* Every step of the only hook keeps its promise.                          *)
LEMMA HookDelivers ==
    ASSUME Heeded, OwnFramesHarmless, TypeOK, NEW h \in Hooks,
           Repaired(h), SuccessInv(h), DeliveryInv(h), Hook(h)
    PROVE  DeliveryInv(h)'
<1>1. Stands(h) /\ (pc[h] \in Surveying => Seen(h))
  BY DEF DeliveryInv
<1>2. CASE \/ Open(h) \/ Info(h) \/ Clear(h) \/ Set(h) \/ Reclear(h) \/ Await(h)
           \/ Tunnel(h) \/ ReadPhys(h) \/ Begin(h)
  <2>1. Stands(h)'
    BY <1>1, <1>2, ClaimingStands, ReadyingStands
  <2>2. Aside(h) /\ UNCHANGED << config, world >> /\ pc'[h] \notin Surveying
    BY <1>2, ClaimingAside, ClaimingApart
  <2>3. pc[h] \notin {"send", "confirm", "done"}
    BY <1>2, ClaimingApart DEF Claiming
  <2> QED  BY <2>1, <2>2, <2>3, QuietKeeps
<1>3. CASE \/ PollTv(h) \/ PollAudio(h) \/ AskPower(h) \/ AskSource(h) \/ AskAudio(h)
  <2>1. Stands(h)'
    BY <1>1, <1>3, TalkingStands
  <2>2. Aside(h) /\ UNCHANGED << config, world >> /\ pc[h] \notin {"send", "confirm", "done"}
    BY <1>3, AskingAside DEF PollTv, PollAudio, AskPower, AskSource, AskAudio, settings
  <2>3. pc'[h] \in Surveying => Seen(h)'
    BY <1>1, <1>3, SurveySees DEF Surveying
  <2> QED  BY <2>1, <2>2, <2>3, QuietKeeps
<1>4. CASE MakePlan(h) \/ Confirm(h)
  BY <1>1, <1>4, TalkingStands, PlanDelivers, ConfirmDelivers
<1>5. CASE Send(h)
  BY <1>5, SendDelivers
<1>6. ~Recover(h)
  BY <1>1 DEF Recover, Stands
<1> QED  BY <1>2, <1>3, <1>4, <1>5, <1>6 DEF Hook

(* So does what happens to the adapter and the TV by themselves.           *)
LEMMA DeliveryStep ==
    ASSUME Undisturbed, Heeded, OwnFramesHarmless, TypeOK, TunnelInv, LandedInv,
           \A h \in Hooks : DeliveryInv(h), [Next]_vars
    PROVE  \A h \in Hooks : DeliveryInv(h)'
<1> SUFFICES ASSUME NEW h \in Hooks PROVE DeliveryInv(h)'
  OBVIOUS
<1>1. Repaired(h) /\ SuccessInv(h) /\ DeliveryInv(h) /\ Stands(h)
  BY DEF TunnelInv, Repaired, LandedInv, DeliveryInv
<1>2. CASE Hook(h)
  BY <1>1, <1>2, HookDelivers
<1>3. CASE Environment
  <2>1. Stands(h)'
    BY <1>1, <1>3, EnvironmentStands DEF Undisturbed
  <2> QED  BY <1>1, <1>3, <2>1, RoomKeeps, RoomDelivers
<1>4. CASE UNCHANGED vars
  <2>1. UNCHANGED << settings, self, world, adapter >>
    BY <1>4 DEF vars, device
  <2>2. Stands(h)'
    BY <1>1, <2>1 DEF Stands, self
  <2> QED  BY <1>1, <2>1, <2>2, RoomKeeps, RoomDelivers
<1>5. ASSUME NEW g \in Hooks, Hook(g) PROVE Hook(h)
  BY <1>5 DEF Undisturbed
<1> QED  BY <1>2, <1>3, <1>4, <1>5 DEF Next, AllDone

HooksDeliver == TypeOK /\ TunnelInv /\ LandedInv /\ \A h \in Hooks : DeliveryInv(h)

(* The whole of it is an invariant.                                        *)
LEMMA DeliveryInvariant ==
    ASSUME Undisturbed, Heeded, OwnFramesHarmless
    PROVE  Spec => []HooksDeliver
<1>1. Init => HooksDeliver
  BY InitType, TunnelInit, LandedInit, DeliveryInit DEF HooksDeliver
<1>2. HooksDeliver /\ [Next]_vars => HooksDeliver'
  BY TypeStep, TunnelStep, LandedStep, DeliveryStep DEF HooksDeliver
<1> QED  BY <1>1, <1>2, PTL DEF Spec

(* The half of WakeDelivers about the TV.                                  *)
WakeShows == \A h \in Hooks : command[h] = "on" /\ verdict[h] = "ok" => OnScreen

(* A wake that exits 0 leaves the TV awake and showing us, whatever the    *)
(* receiver played before.                                                 *)
THEOREM WakeShowsCorrect ==
    ASSUME Undisturbed, Heeded, OwnFramesHarmless
    PROVE  Spec => []WakeShows
<1>1. HooksDeliver => WakeShows
  BY DEF HooksDeliver, DeliveryInv, WakeInv, WakeShows
<1> QED  BY <1>1, DeliveryInvariant, PTL

(* And, in a room where the sound was in step with the picture, playing    *)
(* our sound: the claim came after the wake, and the receiver followed.    *)
THEOREM WakeDeliversCorrect ==
    ASSUME Undisturbed, Heeded, OwnFramesHarmless, InStep
    PROVE  Spec => []WakeDelivers
<1>1. HooksDeliver => WakeDelivers
  BY DEF HooksDeliver, DeliveryInv, WakeInv, SoundInv, SoundOn, OnScreenWithSound, WakeDelivers
<1> QED  BY <1>1, DeliveryInvariant, PTL

(* A standby that exits 0 has put to sleep what it was configured to.      *)
THEOREM StandbyDeliversCorrect ==
    ASSUME Undisturbed, Heeded, OwnFramesHarmless
    PROVE  Spec => []StandbyDelivers
<1>1. HooksDeliver => StandbyDelivers
  BY DEF HooksDeliver, DeliveryInv, SleepInv, Asleep, StandbyDelivers
<1> QED  BY <1>1, DeliveryInvariant, PTL

-----------------------------------------------------------------------------
(***************************************************************************)
(* QuietWhenDone, on a bus where questions are answered as well.           *)
(***************************************************************************)

Answered == "silence" \notin Faults

(* A survey misses nothing that is there to be seen.                       *)
SeenAll(h) ==
    LET s == bus[h]
    IN  /\ Lit => s.tv_present
        /\ pc[h] \in {"askSource", "askAudio", "plan"} /\ On(h) /\ Lit => TvAwake(s)
        /\ pc[h] \in {"askAudio", "plan"} /\ On(h) => s.active_source = world.screen
        /\ pc[h] = "plan" /\ On(h) /\ s.audio_present /\ world.receiver = "on"
           => s.audio_mode = "on"

(* The inductive form of QuietWhenDone.                                    *)
QuietInv(h) ==
    /\ pc[h] \in Surveying => SeenAll(h)
    /\ /\ command[h] = "on" /\ pc[h] = "send" /\ at[h] = 1
       /\ ~config.force_all_frames /\ config.extra_wake_frames = << >>
       => ~OnScreenWithSound

(* A question that does not raise is answered with what is so.             *)
LEMMA QuestionsAnswered ==
    ASSUME Heeded, Answered, TypeOK, NEW h \in Hooks, Repaired(h), Stands(h), pc[h] \in Talking,
           NEW to \in Destination, NEW outcome \in Question(h, to), outcome # "raise",
           NEW truth, NEW none, NEW answer \in Answer(outcome, truth, none),
           ~(to = "audio" /\ world.receiver = "absent")
    PROVE  answer = truth
<1>1. outcome = "ok" /\ TunnelOpen
  BY QuestionsHeeded
<1> QED  BY <1>1 DEF Answer, Answered

(* A hook that answers a question misses nothing.                          *)
LEMMA SurveySeesAll ==
    ASSUME Heeded, Answered, TypeOK, NEW h \in Hooks, Repaired(h), Stands(h),
           pc[h] \in Surveying => Seen(h) /\ SeenAll(h),
           \/ PollTv(h) \/ PollAudio(h) \/ AskPower(h) \/ AskSource(h) \/ AskAudio(h),
           pc'[h] # "done"
    PROVE  SeenAll(h)'
<1>1. /\ UNCHANGED << config, world, command >> /\ pc[h] \in Talking
      /\ bus \in [Hooks -> BusState]
  BY DEF PollTv, PollAudio, AskPower, AskSource, AskAudio, settings, Talking, Asking, TypeOK
<1>2. Lit' = Lit /\ On(h)' = On(h)
  BY <1>1 DEF Lit, On
<1>3. \A outcome : Breaks(h, outcome) => pc'[h] = "done"
  BY Arrives DEF Breaks
<1>4. CASE PollTv(h)
  <2>1. PICK outcome \in Outcome(la[h], "tv", TRUE) :
           /\ outcome # "raise"
           /\ bus' = [bus EXCEPT ![h] = [NewBusState(la[h], pa[h])
                            EXCEPT !.tv_present = (outcome = "ok")]]
           /\ Goto(h, IF config.wake_audio \/ config.standby_audio THEN "pollAudio"
                      ELSE AfterPolls(h, outcome = "ok"))
    BY <1>3, <1>4 DEF PollTv
  <2>2. Lit => outcome = "ok"
    BY <1>1, <2>1, FramesHeeded DEF Destination
  <2>3. bus'[h].tv_present = (outcome = "ok") /\ ~bus'[h].audio_present
    BY <1>1, <2>1 DEF NewBusState
  <2>4. /\ pc'[h] \in {"pollAudio", "askPower", "askSource", "plan"}
        /\ pc'[h] = "plan" => ~On(h)
        /\ pc'[h] = "askSource" => outcome # "ok"
    BY <2>1, Arrives DEF AfterPolls
  <2> QED  BY <1>2, <2>2, <2>3, <2>4 DEF SeenAll
<1>5. CASE PollAudio(h)
  <2>1. PICK outcome :
           /\ bus' = [bus EXCEPT ![h].audio_present = (outcome = "ok")]
           /\ Goto(h, AfterPolls(h, bus[h].tv_present))
    BY <1>3, <1>5 DEF PollAudio
  <2>2. bus'[h].tv_present = bus[h].tv_present
    BY <1>1, <2>1 DEF BusState
  <2>3. /\ pc'[h] \in {"askPower", "askSource", "plan"}
        /\ pc'[h] = "plan" => ~On(h)
        /\ pc'[h] = "askSource" => ~bus[h].tv_present
    BY <2>1, Arrives DEF AfterPolls
  <2>4. Lit => bus[h].tv_present
    BY <1>5 DEF PollAudio, Surveying, SeenAll
  <2> QED  BY <1>2, <2>2, <2>3, <2>4 DEF SeenAll
<1>6. CASE AskPower(h)
  <2>1. PICK outcome, answer :
           /\ outcome \in Question(h, "tv") /\ outcome # "raise"
           /\ answer \in Answer(outcome, world.power, Silent)
           /\ bus' = [bus EXCEPT ![h].tv_power = answer]
           /\ Goto(h, "askSource")
    BY <1>3, <1>6 DEF AskPower
  <2>2. answer = world.power
    BY <1>1, <2>1, QuestionsAnswered DEF Destination
  <2>3. bus'[h].tv_power = answer /\ bus'[h].tv_present = bus[h].tv_present
    BY <1>1, <2>1 DEF BusState
  <2>4. pc'[h] = "askSource"
    BY <2>1, Arrives
  <2>5. Lit => bus[h].tv_present
    BY <1>6 DEF AskPower, Surveying, SeenAll
  <2> QED  BY <1>2, <2>2, <2>3, <2>4, <2>5 DEF SeenAll, TvAwake, Lit
<1>7. CASE AskSource(h)
  <2>1. PICK outcome, answer :
           /\ outcome \in Question(h, "all") /\ outcome # "raise"
           /\ answer \in Answer(outcome, world.screen, NoPhys)
           /\ bus' = [bus EXCEPT ![h].active_source = answer]
           /\ Goto(h, IF bus[h].audio_present THEN "askAudio" ELSE "plan")
    BY <1>3, <1>7 DEF AskSource, Queued, Heeded
  <2>2. answer = world.screen
    BY <1>1, <2>1, QuestionsAnswered DEF Destination
  <2>3. /\ bus'[h].active_source = answer /\ bus'[h].tv_present = bus[h].tv_present
        /\ bus'[h].tv_power = bus[h].tv_power
        /\ bus'[h].audio_present = bus[h].audio_present
    BY <1>1, <2>1 DEF BusState
  <2>4. pc'[h] \in {"askAudio", "plan"} /\ (pc'[h] = "plan" => ~bus[h].audio_present)
    BY <2>1, Arrives
  <2>5. (Lit => bus[h].tv_present) /\ (On(h) /\ Lit => TvAwake(bus[h]))
    BY <1>7 DEF AskSource, Surveying, SeenAll
  <2> QED  BY <1>1, <1>2, <2>2, <2>3, <2>4, <2>5 DEF SeenAll, TvAwake
<1>8. CASE AskAudio(h)
  <2>1. PICK outcome, answer :
           /\ outcome \in Question(h, "audio") /\ outcome # "raise"
           /\ answer \in Answer(outcome, IF world.receiver = "on" THEN "on" ELSE "off", Silent)
           /\ bus' = [bus EXCEPT ![h].audio_mode = answer]
           /\ Goto(h, "plan")
    BY <1>3, <1>8 DEF AskAudio
  <2>2. world.receiver = "on" => answer = "on"
    BY <1>1, <2>1, QuestionsAnswered DEF Destination
  <2>3. /\ bus'[h].audio_mode = answer /\ bus'[h].tv_present = bus[h].tv_present
        /\ bus'[h].tv_power = bus[h].tv_power
        /\ bus'[h].active_source = bus[h].active_source
    BY <1>1, <2>1 DEF BusState
  <2>4. /\ Lit => bus[h].tv_present
        /\ On(h) => (Lit => TvAwake(bus[h])) /\ bus[h].active_source = world.screen
    BY <1>8 DEF AskAudio, Surveying, SeenAll
  <2> QED  BY <1>1, <1>2, <2>2, <2>3, <2>4 DEF SeenAll, TvAwake
<1> QED  BY <1>4, <1>5, <1>6, <1>7, <1>8

(* A wake that sees everything in place plans nothing.                     *)
LEMMA NothingToDo ==
    ASSUME TypeOK, NEW h \in Hooks, pc[h] = "plan", On(h), Seen(h), SeenAll(h),
           OnScreenWithSound, ~config.force_all_frames, config.extra_wake_frames = << >>
    PROVE  PlanWake(config, bus[h]) = << >>
<1>1. config \in Config /\ bus[h] \in BusState /\ Port # NoPhys
  BY AddressAssumption, HookAssumption DEF TypeOK, AddressAssumption, HookAssumption
<1>2. ~NeedTv(config, bus[h])
  BY DEF NeedTv, SeenAll, OnScreenWithSound, OnScreen
<1>3. ~NeedSource(config, bus[h])
  BY <1>1, <1>2 DEF NeedSource, WeAreOnScreen, Seen, SeenAll, OnScreenWithSound, OnScreen
<1>4. ~NeedAudio(config, bus[h])
  BY <1>3 DEF NeedAudio, Seen, SeenAll, OnScreenWithSound
<1> QED  BY <1>1, <1>2, <1>3, <1>4, WakeNothing

(* Every step of the only hook keeps quiet.                                *)
LEMMA HookQuiet ==
    ASSUME Heeded, Answered, TypeOK, NEW h \in Hooks, Repaired(h), DeliveryInv(h),
           QuietInv(h), Hook(h)
    PROVE  QuietInv(h)'
<1>1. Stands(h) /\ (pc[h] \in Surveying => Seen(h))
  BY DEF DeliveryInv
<1>2. CASE \/ Open(h) \/ Info(h) \/ Clear(h) \/ Set(h) \/ Reclear(h) \/ Await(h)
           \/ Tunnel(h) \/ ReadPhys(h) \/ Begin(h)
  <2>1. pc'[h] # "send"
    BY <1>2, ClaimingAside, Arrives DEF Aside
  <2> QED  BY <1>2, <2>1, ClaimingApart DEF QuietInv
<1>3. CASE \/ PollTv(h) \/ PollAudio(h) \/ AskPower(h) \/ AskSource(h) \/ AskAudio(h)
  <2>1. pc'[h] # "send"
    BY <1>3, AskingAside, Arrives DEF Aside
  <2>2. pc'[h] # "done" => SeenAll(h)'
    BY <1>1, <1>3, SurveySeesAll DEF QuietInv
  <2> QED  BY <2>1, <2>2 DEF QuietInv, Surveying
<1>4. CASE MakePlan(h)
  <2>1. /\ UNCHANGED << config, world, command >> /\ pc[h] = "plan" /\ Seen(h) /\ SeenAll(h)
    BY <1>1, <1>4 DEF MakePlan, settings, QuietInv, Surveying
  <2>2. OnScreenWithSound' <=> OnScreenWithSound
    BY <2>1 DEF OnScreenWithSound, OnScreen, Lit
  <2>3. /\ pc'[h] \in {"done", "send"}
        /\ On(h) /\ PlanWake(config, bus[h]) = << >> => pc'[h] = "done"
    BY <1>4, Arrives DEF MakePlan
  <2>4. command[h] = "on" => On(h)
    BY DEF On
  <2> QED  BY <2>1, <2>2, <2>3, <2>4, NothingToDo DEF QuietInv, Surveying
<1>5. CASE Send(h) \/ Confirm(h)
  <2>1. pc'[h] \in {"send", "confirm", "recover", "done"}
    <3>1. \/ \E how : Ends(h, how)
          \/ \E where \in {"send", "confirm", "recover"} : Goto(h, where)
      BY <1>5 DEF Send, SendReturns, Confirm
    <3> QED  BY <3>1, Arrives
  <2>2. pc'[h] = "send" => at'[h] = at[h] + 1
    BY <1>5, SendTurns, Arrives DEF Confirm
  <2>3. at[h] \in Nat \ {0}
    BY DEF TypeOK
  <2> QED  BY <2>1, <2>2, <2>3 DEF QuietInv, Surveying
<1>6. ~Recover(h)
  BY <1>1 DEF Recover, Stands
<1> QED  BY <1>2, <1>3, <1>4, <1>5, <1>6 DEF Hook

(* So does what happens by itself.                                         *)
LEMMA RoomQuiet ==
    ASSUME TypeOK, NEW h \in Hooks, QuietInv(h), UNCHANGED << settings, self >>, SameRoom
    PROVE  QuietInv(h)'
<1>1. /\ Lit' = Lit /\ world'.screen = world.screen
      /\ world'.receiver = world.receiver /\ world'.input = world.input
      /\ UNCHANGED << config, command, pc, bus, at >>
  BY DEF SameRoom, settings, self
<1>2. (SeenAll(h) => SeenAll(h)') /\ (OnScreenWithSound' <=> OnScreenWithSound)
  BY <1>1 DEF SeenAll, On, OnScreenWithSound, OnScreen
<1> QED  BY <1>1, <1>2 DEF QuietInv

(* On a bus that works a wake that finds the TV awake, our input shown and *)
(* our sound played sends nothing, unless it is told to send all frames or *)
(* given some of the user's own.                                           *)
THEOREM QuietWhenDoneCorrect ==
    ASSUME Undisturbed, Heeded, Answered, OwnFramesHarmless
    PROVE  Spec => []QuietWhenDone
<1> DEFINE Quiet == \A h \in Hooks : QuietInv(h)
<1>1. Init => Quiet
  BY DEF Init, QuietInv, Surveying
<1>2. HooksDeliver /\ Quiet /\ [Next]_vars => Quiet'
  <2> SUFFICES ASSUME HooksDeliver, Quiet, [Next]_vars, NEW h \in Hooks PROVE QuietInv(h)'
    OBVIOUS
  <2>1. TypeOK /\ Repaired(h) /\ DeliveryInv(h) /\ QuietInv(h)
    BY DEF HooksDeliver, TunnelInv, Repaired
  <2>2. CASE Hook(h)
    BY <2>1, <2>2, HookQuiet
  <2>3. CASE Environment
    BY <2>1, <2>3, RoomKeeps, RoomQuiet
  <2>4. CASE UNCHANGED vars
    <3>1. UNCHANGED << settings, self, world >>
      BY <2>4 DEF vars
    <3> QED  BY <2>1, <3>1, RoomKeeps, RoomQuiet
  <2>5. ASSUME NEW g \in Hooks, Hook(g) PROVE Hook(h)
    BY <2>5 DEF Undisturbed
  <2> QED  BY <2>2, <2>3, <2>4, <2>5 DEF Next, AllDone
<1>3. Quiet => QuietWhenDone
  BY DEF QuietInv, QuietWhenDone
<1> QED  BY <1>1, <1>2, <1>3, DeliveryInvariant, PTL DEF Spec
=============================================================================
