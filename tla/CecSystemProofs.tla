-------------------------- MODULE CecSystemProofs --------------------------
(***************************************************************************)
(* What CecHookProofs and CecHookSuccessProofs show of hooks running side  *)
(* by side holds on a machine that suspends, resumes and kills them too;   *)
(* and what CecHookDeliveryProofs shows of one wake alone, that it brings  *)
(* the picture, holds of all the wakes after a resume together.            *)
(***************************************************************************)
EXTENDS CecSystem, CecHookDeliveryProofs

(* A system step is a step of a hook or of the environment, one of         *)
(* systemd's, or one of the machine's, which change little else.           *)
LEMMA SystemSteps ==
    ASSUME [SystemNext]_systemVars
    PROVE  \/ [Next]_vars
           \/ \E h \in Hooks : Kill(h)
           \/ Suspend
           \/ Wake
<1>1. CASE \E h \in Hooks : HookStep(h)
  BY <1>1 DEF HookStep, Next
<1>2. CASE EnvironmentStep
  BY <1>2 DEF EnvironmentStep, Next
<1>3. CASE (\E h \in Hooks : Press(h)) \/ GoToSleep \/ StartResume \/ SystemDone
  BY <1>3 DEF Press, GoToSleep, StartResume, SystemDone, systemVars
<1>4. CASE UNCHANGED systemVars
  BY <1>4 DEF systemVars
<1> QED  BY <1>1, <1>2, <1>3, <1>4 DEF SystemNext

(* A kill, a suspend and a resume keep the hooks' variables in their       *)
(* domains: a killed hook is done, and a suspend does to the adapter what  *)
(* a hotplug may do.                                                       *)
LEMMA MachineType ==
    ASSUME TypeOK, (\E h \in Hooks : Kill(h)) \/ Suspend \/ Wake
    PROVE  TypeOK'
<1>1. ASSUME NEW h \in Hooks, Kill(h) PROVE TypeOK'
  <2>1. Moves(h)
    BY <1>1 DEF Kill, Moves, Verdict
  <2> QED  BY <1>1, <2>1, MovesType DEF Kill, TypeOK, settings, device
<1>2. CASE Suspend
  <2>1. adapter' \in Adapter /\ dpcd' \in BOOLEAN
    BY <1>2, DeviceType DEF Suspend, TypeOK
  <2> QED  BY <1>2, <2>1 DEF Suspend, TypeOK, IndexInPlan, settings, self
<1>3. CASE Wake
  BY <1>3, HookAssumption DEF Wake, TypeOK, IndexInPlan, settings, device, self
<1> QED  BY <1>1, <1>2, <1>3

(* A hook that is killed owes nothing; the others are where they were.     *)
LEMMA MachineKeepsLanded ==
    ASSUME TypeOK, LandedInv, (\E h \in Hooks : Kill(h)) \/ Suspend \/ Wake
    PROVE  LandedInv'
<1>1. ASSUME NEW h \in Hooks, Kill(h) PROVE LandedInv'
  <2>1. pc[h] # "done" /\ UNCHANGED << command, plan, at, landed >>
    BY <1>1 DEF Kill, Running, settings
  <2>2. Aside(h)
    BY <1>1 DEF Kill, Aside
  <2> QED  BY <2>1, <2>2, AsideKeeps
<1>2. CASE Suspend \/ Wake
  <2>1. UNCHANGED << command, pc, plan, at, landed, verdict >>
    BY <1>2 DEF Suspend, Wake, settings, self
  <2> QED  BY <2>1 DEF LandedInv, SuccessInv, LandedBelow, AllLanded, Directed, DryRun
<1> QED  BY <1>1, <1>2

-----------------------------------------------------------------------------
(* However hooks are started beside each other, killed and frozen, every   *)
(* variable stays in its domain, and only a hook that was started is ever  *)
(* said to be disturbed.                                                   *)
THEOREM SystemTypeCorrect == SystemSpec => []SystemTypeOK
<1>1. SystemInit => SystemTypeOK
  BY InitType DEF SystemInit, SystemTypeOK
<1>2. ASSUME SystemTypeOK, [SystemNext]_systemVars PROVE SystemTypeOK'
  <2>1. TypeOK'
    BY <1>2, SystemSteps, TypeStep, MachineType DEF SystemTypeOK
  <2>2. machine' \in {"up", "sleeping", "suspended", "resumed"}
    BY <1>2 DEF SystemTypeOK, SystemNext, systemVars, Press, Kill, HookStep, GoToSleep,
                Suspend, Wake, StartResume, EnvironmentStep, SystemDone
  <2>3. started' \subseteq Hooks /\ disturbed' \subseteq started'
    <3>1. ASSUME NEW h \in Hooks, Starts(h)
          PROVE  started' \subseteq Hooks /\ disturbed' \subseteq started'
      BY <1>2, <3>1 DEF SystemTypeOK, Starts, Running
    <3>2. CASE UNCHANGED << started, disturbed >>
      BY <1>2, <3>2 DEF SystemTypeOK
    <3>3. CASE /\ started' = started
               /\ \/ disturbed' = disturbed \cup Running
                  \/ \E h \in Running : disturbed' = disturbed \cup {h}
      BY <1>2, <3>3 DEF SystemTypeOK, Running
    <3> QED
      BY <1>2, <3>1, <3>2, <3>3, SystemAssumption
         DEF SystemNext, systemVars, Press, Kill, HookStep, GoToSleep, Suspend, Wake,
             StartResume, EnvironmentStep, SystemDone
  <2> QED  BY <2>1, <2>2, <2>3 DEF SystemTypeOK
<1> QED  BY <1>1, <1>2, PTL DEF SystemSpec

(* Exit status 0 of a real run still means that every required frame was   *)
(* acknowledged, whatever other hooks and the suspend did to the adapter   *)
(* meanwhile.                                                              *)
THEOREM SystemRequiredLanded == SystemSpec => []RequiredLanded
<1>1. LandedInv => RequiredLanded
  BY DEF LandedInv, SuccessInv, AllLanded, RequiredLanded
<1>2. SystemInit => TypeOK /\ LandedInv
  BY InitType, LandedInit DEF SystemInit
<1>3. TypeOK /\ LandedInv /\ [SystemNext]_systemVars => (TypeOK /\ LandedInv)'
  BY SystemSteps, TypeStep, LandedStep, MachineType, MachineKeepsLanded
<1> QED  BY <1>1, <1>2, <1>3, PTL DEF SystemSpec

-----------------------------------------------------------------------------
(* A hook that nothing has disturbed is the only one running, and has kept *)
(* its part of TunnelInv; one that was not started has yet to open.        *)
AloneInv ==
    /\ \A h \in Hooks : h \notin started => pc[h] = "open"
    /\ \A h \in Running \ disturbed : Running = {h} /\ RepairInv(h)

(* A new process disturbs every other, and is disturbed by it.             *)
LEMMA StartsAlone ==
    ASSUME SystemTypeOK, AloneInv, KernelInv, UNCHANGED vars, NEW g \in Hooks, Starts(g)
    PROVE  AloneInv' /\ KernelInv'
<1>1. KernelInv' /\ pc' = pc /\ pc[g] = "open"
  BY DEF vars, device, self, KernelInv, AloneInv, Starts
<1>2. Running' = Running \cup {g} /\ (Running # {} => Running' \subseteq disturbed')
  BY <1>1 DEF Running, Starts
<1>3. ASSUME NEW h \in Hooks, h \notin started' PROVE pc'[h] = "open"
  BY <1>1, <1>3 DEF AloneInv, Starts
<1>4. ASSUME NEW h \in Running' \ disturbed' PROVE Running' = {h} /\ RepairInv(h)'
  <2>1. Running = {} /\ h = g
    BY <1>2, <1>4
  <2> QED  BY <1>1, <1>2, <2>1 DEF RepairInv, Talking, Asking
<1> QED  BY <1>1, <1>3, <1>4 DEF AloneInv

(* A step of a hook moves that hook.                                       *)
LEMMA HookMoves ==
    ASSUME TypeOK, NEW g \in Hooks, Hook(g)
    PROVE  \A h \in Hooks \ {g} : pc'[h] = pc[h]
<1>1. \E where : pc' = [pc EXCEPT ![g] = where]
  <2>1. CASE \/ Open(g) \/ Info(g) \/ Clear(g) \/ Set(g) \/ Reclear(g) \/ Await(g)
             \/ Tunnel(g) \/ ReadPhys(g) \/ Begin(g) \/ Recover(g)
    BY <2>1, Zenon DEF Open, Info, Clear, Set, Reclear, Await, Tunnel, ReadPhys, Begin, Recover,
                Ready, ClearLogAddrs, SetLogAddrs, ClaimFails, Ends, Goto
  <2>2. CASE \/ PollTv(g) \/ PollAudio(g) \/ AskPower(g) \/ AskSource(g) \/ AskAudio(g)
             \/ MakePlan(g) \/ Send(g) \/ Confirm(g)
    BY <2>2, Zenon DEF PollTv, PollAudio, AskPower, AskSource, AskAudio, MakePlan, Send, Confirm,
                SendReturns, Breaks, Ends, Goto
  <2> QED  BY <2>1, <2>2 DEF Hook
<1> QED  BY <1>1 DEF TypeOK

(* A hook's step is its own only: the undisturbed one is the one that      *)
(* takes it, or there is none.                                             *)
LEMMA AloneThroughHooks ==
    ASSUME Steady, SystemTypeOK, AloneInv, KernelInv, NEW g \in Hooks, HookStep(g)
    PROVE  AloneInv' /\ KernelInv'
<1>1. /\ g \in Running /\ Hook(g) /\ UNCHANGED << started, disturbed >>
      /\ TypeOK
  BY DEF HookStep, SystemTypeOK
<1>2. KernelInv'
  BY <1>1, HookKernel
<1>3. \A h \in Hooks \ {g} : pc'[h] = pc[h]
  BY <1>1, HookMoves
<1>4. ASSUME NEW h \in Hooks, h \notin started' PROVE pc'[h] = "open"
  BY <1>1, <1>3, <1>4 DEF AloneInv, Running
<1>5. Running' \subseteq Running
  BY <1>1, <1>3 DEF Running, SystemTypeOK
<1>6. ASSUME NEW h \in Running' \ disturbed' PROVE Running' = {h} /\ RepairInv(h)'
  <2>1. h \in Running \ disturbed
    BY <1>1, <1>5, <1>6
  <2>2. Running = {h} /\ RepairInv(h) /\ h = g
    BY <1>1, <2>1 DEF AloneInv
  <2>3. RepairInv(h)'
    BY <1>1, <2>2, HookRepaired DEF Repaired
  <2> QED  BY <1>5, <1>6, <2>2, <2>3
<1> QED  BY <1>2, <1>4, <1>6 DEF AloneInv

(* Nor do the other steps of the machine, a suspend least of all: a hook   *)
(* frozen by it counts as disturbed.                                       *)
LEMMA MachineAlone ==
    ASSUME Steady, SystemTypeOK, AloneInv, KernelInv,
           (\E h \in Hooks : Kill(h)) \/ Suspend \/ Wake
    PROVE  AloneInv' /\ KernelInv'
<1>1. ASSUME NEW g \in Hooks, Kill(g) PROVE AloneInv' /\ KernelInv'
  <2>1. /\ UNCHANGED << hw, adapter, dpcd, la, started >>
        /\ g \in started /\ pc' = [pc EXCEPT ![g] = "done"]
        /\ disturbed' = disturbed \cup {g}
    BY <1>1 DEF Kill, Ends, Running, settings, device
  <2>2. pc'[g] = "done" /\ \A h \in Hooks \ {g} : pc'[h] = pc[h]
    BY <2>1 DEF SystemTypeOK, TypeOK
  <2>3. Running' = Running \ {g}
    BY <2>1, <2>2 DEF Running, SystemTypeOK
  <2>4. ASSUME NEW h \in Running' \ disturbed' PROVE Running' = {h} /\ RepairInv(h)'
    <3>1. h \in Running \ disturbed /\ h # g /\ h \in Hooks
      BY <2>1, <2>3, <2>4 DEF Running, SystemTypeOK
    <3>2. Running = {h} /\ RepairInv(h)
      BY <3>1 DEF AloneInv
    <3> QED  BY <2>1, <2>2, <2>3, <3>1, <3>2 DEF RepairInv, TunnelOpen
  <2>5. KernelInv' /\ \A h \in Hooks : h \notin started' => pc'[h] = "open"
    BY <2>1, <2>2 DEF KernelInv, AloneInv
  <2> QED  BY <2>4, <2>5 DEF AloneInv
<1>2. CASE Suspend
  <2>1. KernelInv'
    BY <1>2, DeviceKernel DEF Suspend, SystemTypeOK
  <2>2. pc' = pc /\ started' = started /\ disturbed' = disturbed \cup Running
    BY <1>2 DEF Suspend, self
  <2>3. Running' = Running
    BY <2>2 DEF Running
  <2> QED  BY <2>1, <2>2, <2>3 DEF AloneInv
<1>3. CASE Wake
  <2>1. UNCHANGED << hw, adapter, dpcd, pc, la, started, disturbed >>
    BY <1>3 DEF Wake, settings, device, self
  <2>2. Running' = Running
    BY <2>1 DEF Running
  <2> QED  BY <2>1, <2>2 DEF AloneInv, KernelInv, RepairInv, TunnelOpen
<1> QED  BY <1>1, <1>2, <1>3

(* What nobody does, and what happens outside, reads no hook's variables   *)
(* but the undisturbed one's.                                              *)
LEMMA OutsideAlone ==
    ASSUME Steady, SystemTypeOK, AloneInv, KernelInv,
           EnvironmentStep \/ UNCHANGED systemVars
    PROVE  AloneInv' /\ KernelInv'
<1>1. CASE EnvironmentStep
  <2>1. /\ TypeOK /\ Environment /\ KernelInv'
        /\ UNCHANGED << pc, started, disturbed >>
    BY <1>1, EnvironmentKernel
       DEF EnvironmentStep, SystemTypeOK, Environment, TvSettles, KernelClaims, AdapterResets,
           AdapterGone, self
  <2>2. Running' = Running /\ Running \subseteq Hooks
    BY <2>1 DEF Running, SystemTypeOK
  <2>3. ASSUME NEW h \in Running \ disturbed PROVE RepairInv(h)'
    BY <2>1, <2>2, <2>3, EnvironmentInv DEF AloneInv, Repaired
  <2> QED  BY <2>1, <2>2, <2>3 DEF AloneInv
<1>2. CASE UNCHANGED systemVars
  <2>1. UNCHANGED << hw, adapter, dpcd, pc, la, started, disturbed >>
    BY <1>2 DEF systemVars, vars, settings, device, self
  <2>2. Running' = Running
    BY <2>1 DEF Running
  <2> QED  BY <2>1, <2>2 DEF AloneInv, KernelInv, RepairInv, TunnelOpen
<1> QED  BY <1>1, <1>2

(* On a bus whose adapter is steady, however many wakes a machine starts,  *)
(* kills and freezes: a hook that ran alone talks only after a repair, so  *)
(* the bit that a suspend cleared under an address the kernel still holds  *)
(* is set again before the first frame.                                    *)
THEOREM SystemTunnelCorrect ==
    ASSUME Steady
    PROVE  SystemSpec => []TunnelAfterSuspend
<1>1. AloneInv => TunnelAfterSuspend
  BY DEF AloneInv, RepairInv, TunnelAfterSuspend
<1>2. SystemInit => SystemTypeOK /\ AloneInv /\ KernelInv
  <2>1. SystemInit => AloneInv /\ KernelInv
    BY DEF SystemInit, Init, AloneInv, KernelInv, Running
  <2> QED  BY <2>1, InitType DEF SystemInit, SystemTypeOK
<1>3. ASSUME SystemTypeOK, AloneInv, KernelInv, [SystemNext]_systemVars
      PROVE  (AloneInv /\ KernelInv)'
  <2>1. ASSUME NEW h \in Hooks, Press(h) \/ HookStep(h) PROVE AloneInv' /\ KernelInv'
    BY <1>3, <2>1, StartsAlone, AloneThroughHooks DEF Press
  <2>2. CASE GoToSleep \/ StartResume
    BY <1>3, <2>2, StartsAlone, SystemAssumption DEF GoToSleep, StartResume
  <2>3. CASE (\E h \in Hooks : Kill(h)) \/ Suspend \/ Wake
    BY <1>3, <2>3, MachineAlone
  <2>4. CASE EnvironmentStep \/ SystemDone \/ UNCHANGED systemVars
    BY <1>3, <2>4, OutsideAlone DEF SystemDone
  <2> QED  BY <1>3, <2>1, <2>2, <2>3, <2>4 DEF SystemNext
<1> QED  BY <1>1, <1>2, <1>3, SystemTypeCorrect, PTL DEF SystemSpec

-----------------------------------------------------------------------------
(***************************************************************************)
(* WakesDeliverTogether.  After the resume only wakes run, and none of     *)
(* them takes the picture away: unless it is there, some wake that is      *)
(* still running will bring it.                                            *)
(***************************************************************************)

(* The user's own wake frames go where the user says.  As in               *)
(* OwnFramesHarmless, they neither take the picture away nor wake a TV     *)
(* that is not to be woken; what a standby sends does not matter here.     *)
WakeFramesHarmless ==
    \A c \in Configs : \A i \in DOMAIN c.extra_wake_frames :
        LET entry == c.extra_wake_frames[i]
        IN  /\ entry.op # "InactiveSource"
            /\ entry.op = "TextViewOn" /\ entry.to = "tv" => c.wake_tv \/ ~c.claim_source

(* What no wake sends, whenever it looked and whatever it saw.             *)
Astray ==
    {f \in Frame :
        \/ f.op \in {"Standby", "InactiveSource"}
        \/ f.op \in CarriesPhys /\ f.phys # Port
        \/ f.op = "ImageViewOn" /\ f.to # "tv"
        \/ f.op = "ActiveSource" /\ f.to # "all"
        \/ f \in Wakers /\ ~config.wake_tv
        \/ f.op = "TextViewOn" /\ f.to = "tv" /\ config.claim_source /\ ~config.wake_tv}

(* Any wake's plan, fresh or made before the suspend: it holds nothing     *)
(* astray, and what wakes the TV comes before a claim of its input.        *)
Guided(frames) ==
    /\ Lacks(frames, Astray)
    /\ Before(frames, Wakers, Claims)
    /\ config.claim_source => Lacks(frames, Wakers) \/ ~Lacks(frames, Claims)

(* A step at which the TV stays awake, and turns from our input only when  *)
(* it was asleep and is one we may wake.                                   *)
Faithful ==
    /\ Lit => Lit'
    /\ config.claim_source =>
          world'.screen \in {world.screen, Port} \/ (config.wake_tv /\ ~Lit)

(* What a frame of a wake does.                                            *)
LEMMA GuidedHeard ==
    ASSUME TypeOK, NEW f \in Frame, f \notin Astray, world' \in Heard(world, f)
    PROVE  /\ Faithful
           /\ f.op = "ImageViewOn" => Lit'
           /\ f.op = "ActiveSource" => world'.screen = Port
<1>1. /\ f.op \notin {"Standby", "InactiveSource"}
      /\ f.op \in CarriesPhys => f.phys = Port
      /\ f.op = "ImageViewOn" => f.to = "tv"
      /\ f.op \in {"UserControlPressed", "ImageViewOn"} => config.wake_tv
      /\ f.op = "TextViewOn" /\ f.to = "tv" => config.wake_tv \/ ~config.claim_source
  BY DEF Astray, Wakers, Of
<1> DEFINE wakes == /\ f.op \in {"ImageViewOn", "TextViewOn", "UserControlPressed"}
                    /\ f.to = "tv" /\ ~Lit
<1>2. /\ world'.power = IF wakes THEN "toOn" ELSE world.power
      /\ wakes \/ world'.screen = IF f.op \in {"ActiveSource", "SetStreamPath"} THEN f.phys
                                  ELSE world.screen
  BY <1>1 DEF Heard, Lit
<1>3. (Lit => Lit') /\ (f.op = "ImageViewOn" => Lit')
  BY <1>1, <1>2 DEF Lit
<1>4. wakes => ~Lit /\ (config.claim_source => config.wake_tv)
  BY <1>1
<1>5. f.op = "ActiveSource" => ~wakes
  OBVIOUS
<1> HIDE DEF wakes
<1>6. f.op \in {"ActiveSource", "SetStreamPath"} => f.phys = Port
  BY <1>1 DEF CarriesPhys
<1>7. ~wakes => world'.screen \in {world.screen, Port}
  BY <1>2, <1>6
<1>8. f.op = "ActiveSource" => world'.screen = Port
  BY <1>2, <1>5, <1>6
<1> QED  BY <1>3, <1>4, <1>7, <1>8 DEF Faithful

(* A TV that is to be woken by a plan is claimed after it is.              *)
LEMMA ClaimAfterWaking ==
    ASSUME TypeOK, NEW frames \in Seq(Frame), Guided(frames), NEW n \in Nat,
           config.claim_source, ToCome(frames, n, "ImageViewOn")
    PROVE  ToCome(frames, n, "ActiveSource")
<1>1. PICK i \in DOMAIN frames : i >= n /\ frames[i].op = "ImageViewOn"
  BY DEF ToCome
<1>2. frames[i] \in Wakers
  BY <1>1 DEF Wakers, Of
<1>3. PICK j \in DOMAIN frames : frames[j] \in Claims
  BY <1>2 DEF Guided, Lacks
<1>4. i < j /\ i \in Nat /\ j \in Nat
  BY <1>2, <1>3 DEF Guided, Before
<1>5. j >= n /\ frames[j].op = "ActiveSource"
  BY <1>1, <1>3, <1>4 DEF Claims, Of
<1> QED  BY <1>5 DEF ToCome

(* What a wake has seen, as far as it may leave something undone for it: a *)
(* TV it saw awake is, and one it then saw showing us still does.          *)
Sees(h) ==
    /\ TvAwake(bus[h]) => Lit
    /\ config.claim_source /\ (config.wake_tv => TvAwake(bus[h])) /\ WeAreOnScreen(bus[h])
       => world.screen = Port

(* A faithful step undoes nothing, and leaves what is owed to come.        *)
LEMMA FaithfulKeeps ==
    ASSUME TypeOK, Faithful, UNCHANGED config
    PROVE  /\ OnScreen => OnScreen'
           /\ \A h \in Hooks : Sees(h) /\ bus'[h] = bus[h] => Sees(h)'
           /\ \A frames \in Seq(Frame), n \in Nat :
                 Guided(frames) /\ PictureOwed(frames, n) => PictureOwed(frames, n)'
<1>1. OnScreen => OnScreen'
  BY DEF OnScreen, Faithful
<1>2. ASSUME NEW h \in Hooks, Sees(h), bus'[h] = bus[h] PROVE Sees(h)'
  BY <1>2 DEF Sees, Faithful, TvAwake, WeAreOnScreen
<1>3. ASSUME NEW frames \in Seq(Frame), NEW n \in Nat, Guided(frames), PictureOwed(frames, n)
      PROVE  PictureOwed(frames, n)'
  <2>1. config.wake_tv => Lit' \/ ToCome(frames, n, "ImageViewOn")
    BY <1>3 DEF PictureOwed, Faithful
  <2>2. ASSUME config.claim_source
        PROVE  world'.screen = Port \/ ToCome(frames, n, "ActiveSource")
    <3>1. CASE world'.screen \in {world.screen, Port}
      BY <1>3, <2>2, <3>1 DEF PictureOwed
    <3>2. CASE config.wake_tv /\ ~Lit
      BY <1>3, <2>2, <3>2, ClaimAfterWaking DEF PictureOwed
    <3> QED  BY <2>2, <3>1, <3>2 DEF Faithful
  <2> QED  BY <2>1, <2>2 DEF PictureOwed, ToCome
<1> QED  BY <1>1, <1>2, <1>3

(* With the last frame of a plan told, all that was owed is there.         *)
LEMMA NothingOwed ==
    ASSUME NEW frames \in Seq(Frame), PictureOwed(frames, Len(frames) + 1)
    PROVE  OnScreen
<1>1. Len(frames) \in Nat /\ DOMAIN frames = 1 .. Len(frames)
  OBVIOUS
<1>2. \A op : ~ToCome(frames, Len(frames) + 1, op)
  BY <1>1 DEF ToCome
<1> QED  BY <1>2 DEF PictureOwed, OnScreen

(* A frame that was heard is owed no more; one that nobody was there to    *)
(* hear was for the receiver, and the picture does not need it.            *)
LEMMA OwedTurn ==
    ASSUME TypeOK, UNCHANGED config, NEW frames \in Seq(Frame), NEW n \in DOMAIN frames,
           Guided(frames), PictureOwed(frames, n),
           \/ world' \in Heard(world, frames[n])
           \/ frames[n].to = "audio" /\ UNCHANGED world
    PROVE  PictureOwed(frames, n + 1)'
<1> DEFINE f == frames[n]
<1>1. f \in Frame /\ f \notin Astray /\ n \in Nat
  BY DEF Guided, Lacks
<1>2. \A op : ToCome(frames, n, op) => f.op = op \/ ToCome(frames, n + 1, op)
  BY Onward
<1> HIDE DEF f
<1>3. CASE f.to = "audio" /\ UNCHANGED world
  <2>1. f.op \notin {"ImageViewOn", "ActiveSource"}
    BY <1>1, <1>3 DEF Astray
  <2>2. Lit' = Lit
    BY <1>3 DEF Lit
  <2> QED  BY <1>2, <1>3, <2>1, <2>2 DEF PictureOwed, ToCome
<1>4. CASE world' \in Heard(world, f)
  <2>1. /\ Faithful
        /\ f.op = "ImageViewOn" => Lit'
        /\ f.op = "ActiveSource" => world'.screen = Port
    BY <1>1, <1>4, GuidedHeard
  <2>2. PictureOwed(frames, n)'
    BY <1>1, <2>1, FaithfulKeeps
  <2>3. /\ config.wake_tv => Lit' \/ ToCome(frames, n, "ImageViewOn")
        /\ config.claim_source => world'.screen = Port \/ ToCome(frames, n, "ActiveSource")
    BY <2>2 DEF PictureOwed, ToCome
  <2> QED  BY <1>2, <2>1, <2>3 DEF PictureOwed, ToCome
<1> QED  BY <1>3, <1>4 DEF f

-----------------------------------------------------------------------------
(* Plans.                                                                  *)

(* Whatever a wake saw, a plan of it that can be built guides: its frames  *)
(* carry our port, or there are none that carry a physical address.        *)
LEMMA PlanGuided ==
    ASSUME WakeFramesHarmless, TypeOK, config \in Configs, NEW s \in BusState,
           s.our_phys \in {Port, NoPhys},
           \A i \in DOMAIN PlanWake(config, s) : Buildable(PlanWake(config, s)[i])
    PROVE  Guided(PlanWake(config, s))
<1> DEFINE frames == PlanWake(config, s)
           Elsewhere == {f \in Frame :
               \/ f.op \in {"Standby", "InactiveSource"}
               \/ f.op \in CarriesPhys /\ f.phys # s.our_phys
               \/ f.op = "ImageViewOn" /\ f.to # "tv"
               \/ f.op = "ActiveSource" /\ f.to # "all"
               \/ f \in Wakers /\ ~config.wake_tv
               \/ /\ f.op = "TextViewOn" /\ f.to = "tv"
                  /\ config.claim_source /\ ~config.wake_tv}
<1>1. config \in Config /\ config.extra_wake_frames \in Seq(ExtraEntry)
  BY DEF TypeOK, Config
<1>2. Extra(config.extra_wake_frames, s) \in Free(Elsewhere)
  <2>1. ASSUME NEW i \in DOMAIN config.extra_wake_frames
        PROVE  Planned(s, config.extra_wake_frames[i].op, config.extra_wake_frames[i].to, FALSE)
               \notin Elsewhere
    <3> DEFINE entry == config.extra_wake_frames[i]
    <3>1. entry \in ExtraEntry
      BY <1>1
    <3>2. /\ entry.op \in ExtraOp \ {"InactiveSource"}
          /\ entry.op = "TextViewOn" /\ entry.to = "tv" =>
                config.wake_tv \/ ~config.claim_source
      BY <3>1 DEF WakeFramesHarmless, ExtraEntry
    <3> HIDE DEF entry
    <3>3. Planned(s, entry.op, entry.to, FALSE) \notin Elsewhere
      BY <3>1, <3>2 DEF Planned, Wakers, Of, ExtraOp, CarriesPhys
    <3> QED  BY <3>3 DEF entry
  <2> HIDE DEF Elsewhere
  <2> QED  BY <1>1, <2>1, ExtraFree
<1>3. NeedTv(config, s) => /\ Planned(s, "UserControlPressed", "tv", TRUE) \notin Elsewhere
                           /\ Planned(s, "UserControlReleased", "tv", TRUE) \notin Elsewhere
                           /\ Planned(s, "ImageViewOn", "tv", TRUE) \notin Elsewhere
  BY DEF Planned, CarriesPhys, Wakers, Of, NeedTv
<1>4. /\ Planned(s, "SetStreamPath", "all", FALSE) \notin Elsewhere
      /\ Planned(s, "ActiveSource", "all", FALSE) \notin Elsewhere
      /\ Planned(s, "SystemAudioModeRequest", "audio", TRUE) \notin Elsewhere
  BY DEF Planned, CarriesPhys, Wakers, Of
<1>5. frames \in Seq(Frame) /\ Lacks(frames, Elsewhere)
  <2> HIDE DEF Elsewhere
  <2>1. frames \in Free(Elsewhere)
    BY <1>1, <1>2, <1>3, <1>4, WakeFree
  <2> QED  BY <2>1 DEF Free
<1>6. Lacks(frames, Astray)
  <2> SUFFICES ASSUME NEW i \in DOMAIN frames, frames[i] \in Astray PROVE FALSE
    BY DEF Lacks
  <2> DEFINE f == frames[i]
  <2>1. f \in Frame /\ f \notin Elsewhere /\ f \in Astray /\ Buildable(f)
    BY <1>5 DEF Lacks
  <2> HIDE DEF f, frames
  <2>2. f.op \in CarriesPhys => f.phys = Port
    BY <2>1 DEF Buildable
  <2> QED  BY <2>1, <2>2 DEF Astray
<1>7. Before(frames, Wakers, Claims)
  <2>1. Before(frames, Wakers, Of({"ActiveSource", "TextViewOn"}))
    BY <1>1, WakeOrder DEF Wakers
  <2> QED  BY <2>1 DEF Before, Of, Claims
<1>8. ASSUME config.claim_source, ~Lacks(frames, Wakers) PROVE ~Lacks(frames, Claims)
  <2>1. NeedTv(config, s)
    <3> SUFFICES ASSUME ~NeedTv(config, s) PROVE FALSE
      OBVIOUS
    <3>1. /\ Planned(s, "SystemAudioModeRequest", "audio", TRUE) \notin Wakers
          /\ Planned(s, "SetStreamPath", "all", FALSE) \notin Wakers
          /\ Planned(s, "ActiveSource", "all", FALSE) \notin Wakers
      BY DEF Planned, Wakers, Of
    <3>2. \A entry \in ExtraEntry : Planned(s, entry.op, entry.to, FALSE) \notin Wakers
      BY DEF ExtraEntry, ExtraOp, Planned, Wakers, Of
    <3>3. \A i \in DOMAIN config.extra_wake_frames : config.extra_wake_frames[i] \in ExtraEntry
      BY <1>1
    <3>4. frames \in Free(Wakers)
      BY <1>1, <3>1, <3>2, <3>3, ExtraFree, WakeFree
    <3> QED  BY <1>8, <3>4 DEF Free
  <2>2. NeedSource(config, s)
    BY <1>8, <2>1 DEF NeedSource
  <2>3. frames \in Holding(Planned(s, "ActiveSource", "all", FALSE))
    BY <1>1, <2>2, WakeHolds
  <2>4. Planned(s, "ActiveSource", "all", FALSE) \in Claims
    BY BuiltInFrames DEF Claims, Of, Planned
  <2>5. Planned(s, "ActiveSource", "all", FALSE) \in Frame
    BY BuiltInFrames
  <2> HIDE DEF frames
  <2> QED  BY <2>3, <2>4, <2>5, HoldsToCome
<1> QED  BY <1>6, <1>7, <1>8 DEF Guided

(* A plan brings what its survey has not seen in place.                    *)
LEMMA PlanOwes ==
    ASSUME TypeOK, NEW h \in Hooks, Sees(h)
    PROVE  PictureOwed(PlanWake(config, bus[h]), 1)
<1> DEFINE s == bus[h]
           frames == PlanWake(config, s)
<1>1. config \in Config /\ s \in BusState
  BY DEF TypeOK
<1>2. /\ TvAwake(s) => Lit
      /\ config.claim_source /\ (config.wake_tv => TvAwake(s)) /\ WeAreOnScreen(s)
         => world.screen = Port
  BY DEF Sees
<1> HIDE DEF s
<1>3. ASSUME NeedTv(config, s) PROVE ToCome(frames, 1, "ImageViewOn")
  <2> DEFINE f == Planned(s, "ImageViewOn", "tv", TRUE)
  <2>1. f \in Frame /\ f.op = "ImageViewOn"
    BY <1>1, BuiltInFrames DEF Planned
  <2>2. frames \in Holding(f)
    BY <1>1, <1>3, WakeHolds
  <2> HIDE DEF f, frames
  <2> QED  BY <2>1, <2>2, HoldsToCome
<1>4. ASSUME NeedSource(config, s) PROVE ToCome(frames, 1, "ActiveSource")
  <2> DEFINE f == Planned(s, "ActiveSource", "all", FALSE)
  <2>1. f \in Frame /\ f.op = "ActiveSource"
    BY <1>1, BuiltInFrames DEF Planned
  <2>2. frames \in Holding(f)
    BY <1>1, <1>4, WakeHolds
  <2> HIDE DEF f, frames
  <2> QED  BY <2>1, <2>2, HoldsToCome
<1>5. config.wake_tv => Lit \/ ToCome(frames, 1, "ImageViewOn")
  BY <1>2, <1>3 DEF NeedTv
<1>6. config.claim_source => world.screen = Port \/ ToCome(frames, 1, "ActiveSource")
  BY <1>2, <1>4 DEF NeedSource, NeedTv
<1> QED  BY <1>5, <1>6 DEF PictureOwed, s

-----------------------------------------------------------------------------
(* What a wake that is still running will see to: it has yet to look, or   *)
(* has so far seen nothing in place that is not, or is still to send what  *)
(* is missing, with an address to send it from.                            *)
Afresh == Claiming \cup {"open", "begin", "recover", "pollTv"}

Owes(h) ==
    \/ pc[h] \in Afresh
    \/ /\ pc[h] \in Surveying /\ Sees(h)
       /\ pc[h] \in {"pollAudio", "askPower", "askSource"} => bus[h].active_source = NoPhys
       /\ pc[h] \in {"askAudio", "plan"} => la[h] # NoAddr
    \/ pc[h] = "send" /\ PictureOwed(plan[h], at[h]) /\ la[h] # NoAddr

(* A hook that neither fails nor raises goes on.                           *)
Thrives(h) == verdict'[h] \in {"running", "ok"}

LEMMA AsideThrives ==
    ASSUME TypeOK, NEW h \in Hooks, Aside(h), Thrives(h)
    PROVE  pc'[h] \notin {"send", "confirm", "done"}
<1>1. ASSUME NEW how \in {"failed", "traceback"}, Ends(h, how) PROVE FALSE
  BY <1>1 DEF Ends, TypeOK, Thrives
<1>2. ASSUME NEW where \in Pc \ {"send", "confirm", "done"}, Goto(h, where)
      PROVE  pc'[h] \notin {"send", "confirm", "done"}
  BY <1>2, Arrives
<1> QED  BY <1>1, <1>2 DEF Aside

(* Opening, claiming and recovering lead to another look.                  *)
LEMMA ClaimingOwes ==
    ASSUME TypeOK, NEW h \in Hooks, Thrives(h),
           \/ Open(h) \/ Info(h) \/ Clear(h) \/ Set(h) \/ Reclear(h) \/ Await(h)
           \/ Tunnel(h) \/ ReadPhys(h) \/ Begin(h) \/ Recover(h)
    PROVE  UNCHANGED << config, world >> /\ Owes(h)'
<1>1. UNCHANGED << config, world >>
  BY DEF Open, Info, Clear, Set, Reclear, Await, Tunnel, ReadPhys, Begin, Recover, settings
<1>2. pc'[h] \notin {"send", "confirm", "done"}
  BY ClaimingAside, AsideThrives
<1>3. pc'[h] \notin Surveying
  <2>1. CASE Recover(h)
    <3>1. Goto(h, "info") \/ ClaimFails(h)
      BY <2>1 DEF Recover, ClearLogAddrs
    <3> QED  BY <3>1, Arrives DEF Surveying
  <2> QED  BY <2>1, ClaimingApart
<1>4. pc'[h] \in Pc
  <2>1. \/ \E how : Ends(h, how)
        \/ \E where \in Pc : Goto(h, where)
    BY ClaimingAside DEF Aside
  <2> QED  BY <2>1, Arrives DEF Pc
<1>5. pc'[h] \in Afresh
  BY <1>2, <1>3, <1>4 DEF Pc, Talking, Asking, Surveying, Afresh
<1> QED  BY <1>1, <1>5 DEF Owes

(* A wake that asks believes nothing that is not so, however many frames   *)
(* of others come between its questions.                                   *)
LEMMA SurveyOwes ==
    ASSUME Heeded, TypeOK, NEW h \in Hooks, On(h), Owes(h), Thrives(h),
           bus[h].our_phys \in {Port, NoPhys},
           \/ PollTv(h) \/ PollAudio(h) \/ AskPower(h) \/ AskSource(h) \/ AskAudio(h)
    PROVE  UNCHANGED << config, world >> /\ Owes(h)'
<1>1. /\ UNCHANGED << config, world, la >> /\ bus \in [Hooks -> BusState]
      /\ Lit' = Lit
  BY DEF PollTv, PollAudio, AskPower, AskSource, AskAudio, settings, TypeOK, Lit
<1>2. \A outcome : ~Breaks(h, outcome)
  <2> SUFFICES ASSUME NEW outcome, Breaks(h, outcome) PROVE FALSE
    OBVIOUS
  <2>1. \E how \in {"failed", "traceback"} : Ends(h, how)
    BY DEF Breaks
  <2> QED  BY <2>1 DEF Ends, TypeOK, Thrives
<1>3. /\ pc'[h] \in Surveying /\ Sees(h)'
      /\ pc'[h] \in {"pollAudio", "askPower", "askSource"} => bus'[h].active_source = NoPhys
      /\ pc'[h] \in {"askAudio", "plan"} => la[h] # NoAddr
      => Owes(h)'
  BY <1>1 DEF Owes
<1>4. CASE PollTv(h)
  <2>1. PICK outcome :
           /\ bus' = [bus EXCEPT ![h] = [NewBusState(la[h], pa[h])
                            EXCEPT !.tv_present = (outcome = "ok")]]
           /\ Goto(h, IF config.wake_audio \/ config.standby_audio THEN "pollAudio"
                      ELSE AfterPolls(h, outcome = "ok"))
    BY <1>2, <1>4 DEF PollTv
  <2>2. bus'[h].tv_power = Silent /\ bus'[h].active_source = NoPhys
    BY <1>1, <2>1 DEF NewBusState
  <2>3. pc'[h] \in {"pollAudio", "askPower", "askSource"}
    BY <2>1, Arrives DEF AfterPolls
  <2>4. Sees(h)'
    BY <2>2 DEF Sees, TvAwake, WeAreOnScreen, Silent
  <2> QED  BY <1>1, <1>3, <2>2, <2>3, <2>4 DEF Surveying
<1>5. CASE PollAudio(h)
  <2>1. PICK outcome :
           /\ bus' = [bus EXCEPT ![h].audio_present = (outcome = "ok")]
           /\ Goto(h, AfterPolls(h, bus[h].tv_present))
    BY <1>2, <1>5 DEF PollAudio
  <2>2. /\ bus'[h].tv_power = bus[h].tv_power
        /\ bus'[h].active_source = bus[h].active_source
        /\ bus'[h].our_phys = bus[h].our_phys
    BY <1>1, <2>1 DEF BusState
  <2>3. pc'[h] \in {"askPower", "askSource"}
    BY <2>1, Arrives DEF AfterPolls
  <2>4. pc[h] = "pollAudio" /\ Sees(h) /\ bus[h].active_source = NoPhys
    BY <1>5 DEF PollAudio, Owes, Afresh, Claiming
  <2>5. Sees(h)'
    BY <1>1, <2>2, <2>4 DEF Sees, TvAwake, WeAreOnScreen
  <2> QED  BY <1>1, <1>3, <2>2, <2>3, <2>4, <2>5 DEF Surveying
<1>6. CASE AskPower(h)
  <2>1. PICK outcome, answer :
           /\ answer \in Answer(outcome, world.power, Silent)
           /\ bus' = [bus EXCEPT ![h].tv_power = answer]
           /\ Goto(h, "askSource")
    BY <1>2, <1>6 DEF AskPower
  <2>2. answer = world.power \/ answer = Silent
    BY <2>1, AnswerType
  <2>3. /\ bus'[h].tv_power = answer
        /\ bus'[h].active_source = bus[h].active_source
        /\ bus'[h].our_phys = bus[h].our_phys
    BY <1>1, <2>1 DEF BusState
  <2>4. pc[h] = "askPower" /\ bus[h].active_source = NoPhys
    BY <1>6 DEF AskPower, Owes, Afresh, Claiming
  <2>5. pc'[h] = "askSource"
    BY <2>1, Arrives
  <2>6. Sees(h)'
    BY <1>1, <2>2, <2>3, <2>4 DEF Sees, TvAwake, WeAreOnScreen, Silent, Lit
  <2> QED  BY <1>1, <1>3, <2>3, <2>4, <2>5, <2>6 DEF Surveying
<1>7. CASE AskSource(h)
  <2>1. PICK outcome, answer :
           /\ outcome \in Question(h, "all") /\ outcome # "typeError"
           /\ answer \in Answer(outcome, world.screen, NoPhys) \cup Queued
           /\ bus' = [bus EXCEPT ![h].active_source = answer]
           /\ Goto(h, IF bus[h].audio_present THEN "askAudio" ELSE "plan")
    BY <1>2, <1>7 DEF AskSource
  <2>2. answer = world.screen \/ answer = NoPhys
    BY <2>1, AnswerType DEF Queued, Heeded
  <2>3. /\ bus'[h].active_source = answer
        /\ bus'[h].tv_power = bus[h].tv_power
        /\ bus'[h].our_phys = bus[h].our_phys
    BY <1>1, <2>1 DEF BusState
  <2>4. pc[h] = "askSource" /\ Sees(h)
    BY <1>7 DEF AskSource, Owes, Afresh, Claiming
  <2>5. pc'[h] \in {"askAudio", "plan"}
    BY <2>1, Arrives
  <2>6. la[h] # NoAddr
    BY <2>1 DEF Question
  <2>7. Sees(h)'
    BY <1>1, <2>2, <2>3, <2>4 DEF Sees, TvAwake, WeAreOnScreen
  <2> QED  BY <1>1, <1>3, <2>3, <2>5, <2>6, <2>7 DEF Surveying
<1>8. CASE AskAudio(h)
  <2>1. PICK outcome, answer :
           /\ bus' = [bus EXCEPT ![h].audio_mode = answer]
           /\ Goto(h, "plan")
    BY <1>2, <1>8 DEF AskAudio
  <2>2. /\ bus'[h].active_source = bus[h].active_source
        /\ bus'[h].tv_power = bus[h].tv_power
        /\ bus'[h].our_phys = bus[h].our_phys
    BY <1>1, <2>1 DEF BusState
  <2>3. pc[h] = "askAudio" /\ Sees(h) /\ la[h] # NoAddr
    BY <1>8 DEF AskAudio, Owes, Afresh, Claiming
  <2>4. pc'[h] = "plan"
    BY <2>1, Arrives
  <2>5. Sees(h)'
    BY <1>1, <2>2, <2>3 DEF Sees, TvAwake, WeAreOnScreen
  <2> QED  BY <1>1, <1>3, <2>3, <2>4, <2>5 DEF Surveying
<1> QED  BY <1>1, <1>4, <1>5, <1>6, <1>7, <1>8

(* A wake that plans goes on to send what is missing, or nothing is.       *)
LEMMA PlanningOwes ==
    ASSUME TypeOK, NEW h \in Hooks, command[h] = "on", Owes(h), Thrives(h), MakePlan(h)
    PROVE  UNCHANGED << config, world >> /\ (Owes(h)' \/ OnScreen')
<1> DEFINE frames == PlanWake(config, bus[h])
<1>1. UNCHANGED << config, world, la >> /\ pc[h] = "plan"
  BY DEF MakePlan, settings
<1>2. Sees(h) /\ la[h] # NoAddr
  BY <1>1 DEF Owes, Afresh, Claiming
<1>3. PictureOwed(frames, 1)
  BY <1>2, PlanOwes
<1>4. On(h) /\ ~DryRun(h)
  BY DEF On, DryRun
<1>5. ~Ends(h, "traceback")
  BY DEF Ends, TypeOK, Thrives
<1>6. /\ plan' = [plan EXCEPT ![h] = frames] /\ at' = [at EXCEPT ![h] = 1]
      /\ frames # << >> => Goto(h, "send")
  BY <1>4, <1>5 DEF MakePlan
<1> HIDE DEF frames
<1>7. plan'[h] = frames /\ at'[h] = 1
  BY <1>6 DEF TypeOK
<1>8. CASE frames = << >>
  <2>1. PictureOwed(<< >>, Len(<< >>) + 1) /\ << >> \in Seq(Frame)
    BY <1>3, <1>8
  <2>2. OnScreen
    BY <2>1, NothingOwed
  <2>3. OnScreen'
    BY <1>1, <2>2 DEF OnScreen, Lit
  <2> QED  BY <1>1, <2>3
<1>9. CASE frames # << >>
  <2>1. pc'[h] = "send"
    BY <1>6, <1>9, Arrives
  <2>2. PictureOwed(plan[h], at[h])'
    BY <1>1, <1>3, <1>7 DEF PictureOwed, ToCome, Lit
  <2> QED  BY <1>1, <1>2, <2>1, <2>2 DEF Owes
<1> QED  BY <1>8, <1>9

(* The plan of a wake guides from the moment it is made.                   *)
LEMMA PlanningGuided ==
    ASSUME WakeFramesHarmless, TypeOK, config \in Configs, NEW h \in Hooks, command[h] = "on",
           bus[h].our_phys \in {Port, NoPhys}, MakePlan(h), pc'[h] = "send"
    PROVE  Guided(plan'[h])
<1> DEFINE frames == PlanWake(config, bus[h])
<1>1. On(h)
  BY DEF On
<1>2. ~Ends(h, "traceback")
  BY Arrives
<1>3. /\ \A i \in DOMAIN frames : Buildable(frames[i])
      /\ plan' = [plan EXCEPT ![h] = frames]
  BY <1>1, <1>2 DEF MakePlan
<1>4. bus[h] \in BusState
  BY DEF TypeOK
<1>5. Guided(frames)
  BY <1>3, <1>4, PlanGuided
<1> HIDE DEF frames
<1>6. plan'[h] = frames
  BY <1>3 DEF TypeOK
<1> QED  BY <1>5, <1>6

(* With the bit on and an address that is the adapter's, a frame that does *)
(* not raise is heard, but by a receiver that is not there.                *)
LEMMA HeededFrame ==
    ASSUME Heeded, TunnelOpen, NEW from, from # NoAddr, NEW to,
           NEW outcome \in Outcome(from, to, FALSE), outcome # "raise"
    PROVE  outcome = "ok" \/ (outcome = "nack" /\ to = "audio")
<1>1. "contended" \notin Faults /\ "nack" \notin Faults
  BY DEF Heeded
<1>2. ~adapter.gone /\ from = adapter.addr
  BY DEF Outcome
<1>3. outcome \in {f \in {"raise", "contended"} : f \in Faults}
         \cup IF to = "audio" /\ world.receiver = "absent" THEN {"nack"} ELSE {"ok"}
  BY <1>1, <1>2 DEF Outcome
<1> QED  BY <1>1, <1>3

(* A frame of a wake does no harm, whoever sends it; and one sent through  *)
(* an open tunnel is owed no more.                                         *)
LEMMA SendingOwes ==
    ASSUME Heeded, TypeOK, NEW h \in Hooks, On(h), Guided(plan[h]), Thrives(h), Send(h)
    PROVE  /\ UNCHANGED config /\ Faithful
           /\ Owes(h) /\ TunnelOpen => Owes(h)' \/ OnScreen'
<1> DEFINE f == plan[h][at[h]]
<1>1. UNCHANGED << config, la, plan >> /\ pc[h] = "send"
  BY DEF Send, settings
<1>2. /\ plan[h] \in Seq(Frame) /\ at[h] \in DOMAIN plan[h] /\ f \in Frame
      /\ at[h] \in Nat /\ f \notin Astray
  BY <1>1 DEF TypeOK, IndexInPlan, Guided, Lacks
<1>3. PICK outcome :
         /\ outcome \in IF f.op = "refused" THEN {"raise"} ELSE Outcome(la[h], f.to, FALSE)
         /\ world' \in IF outcome = "ok" /\ TunnelOpen THEN Heard(world, f) ELSE {world}
         /\ IF outcome = "raise" THEN Ends(h, "failed") /\ UNCHANGED attempt
            ELSE IF outcome = "ok" \/ Shrug(f, outcome)
                 THEN IF at[h] = Len(plan[h]) THEN SendReturns(h, TRUE)
                      ELSE Goto(h, "send") /\ UNCHANGED attempt
            ELSE SendReturns(h, FALSE)
  BY Zenon DEF Send
<1>4. at'[h] = at[h] + 1
  BY DEF Send, TypeOK
<1> HIDE DEF f
<1>5. ~Ends(h, "failed")
  BY DEF Ends, TypeOK, Thrives
<1>6. Faithful
  <2>1. CASE world' \in Heard(world, f)
    BY <1>2, <2>1, GuidedHeard
  <2>2. CASE UNCHANGED world
    BY <2>2 DEF Faithful, Lit
  <2> QED  BY <1>3, <2>1, <2>2
<1>7. ASSUME Owes(h), TunnelOpen PROVE Owes(h)' \/ OnScreen'
  <2>1. PictureOwed(plan[h], at[h]) /\ la[h] # NoAddr
    BY <1>1, <1>7 DEF Owes, Afresh, Claiming, Surveying
  <2>2. outcome # "raise" /\ outcome \in Outcome(la[h], f.to, FALSE)
    BY <1>3, <1>5
  <2>3. outcome = "ok" \/ (outcome = "nack" /\ f.to = "audio")
    BY <1>7, <2>1, <2>2, HeededFrame
  <2>4. world' \in Heard(world, f) \/ (f.to = "audio" /\ UNCHANGED world)
    BY <1>3, <1>7, <2>3
  <2>5. /\ config.wake_tv => Lit' \/ ToCome(plan[h], at[h] + 1, "ImageViewOn")
        /\ config.claim_source =>
              world'.screen = Port \/ ToCome(plan[h], at[h] + 1, "ActiveSource")
    <3> SUFFICES ASSUME NEW frames \in Seq(Frame), frames = plan[h],
                        NEW n \in DOMAIN frames, n = at[h]
                 PROVE  /\ config.wake_tv => Lit' \/ ToCome(frames, n + 1, "ImageViewOn")
                        /\ config.claim_source =>
                              world'.screen = Port \/ ToCome(frames, n + 1, "ActiveSource")
      BY <1>2
    <3>1. Guided(frames) /\ PictureOwed(frames, n)
      BY <2>1
    <3>2. world' \in Heard(world, frames[n]) \/ (frames[n].to = "audio" /\ UNCHANGED world)
      BY <2>4 DEF f
    <3>3. PictureOwed(frames, n + 1)'
      BY <1>1, <3>1, <3>2, OwedTurn
    <3> QED  BY <1>1, <3>3 DEF PictureOwed, ToCome
  <2>6. \/ Goto(h, "send")
        \/ at[h] = Len(plan[h])
        \/ Goto(h, "recover")
    BY <1>3, <1>5, <2>2 DEF SendReturns
  <2>7. CASE Goto(h, "send")
    <3>1. pc'[h] = "send" /\ la'[h] # NoAddr
      BY <1>1, <2>1, <2>7, Arrives
    <3>2. PictureOwed(plan[h], at[h])'
      BY <1>1, <1>4, <2>5 DEF PictureOwed, ToCome
    <3> QED  BY <3>1, <3>2 DEF Owes
  <2>8. CASE at[h] = Len(plan[h])
    <3>1. \A op : ~ToCome(plan[h], at[h] + 1, op)
      BY <1>2, <2>8, Onward
    <3> QED  BY <1>1, <2>5, <3>1 DEF OnScreen
  <2>9. CASE Goto(h, "recover")
    BY <2>9, Arrives DEF Owes, Afresh
  <2> QED  BY <2>6, <2>7, <2>8, <2>9
<1> QED  BY <1>1, <1>6, <1>7

-----------------------------------------------------------------------------
(* What keeps the adapter going: while the kernel polls for an address     *)
(* some wake has yet to take what it finds, and while the tunneling bit is *)
(* off some wake has yet to set it.                                        *)
Waiting == {"open", "info", "clear", "await"}
Mending == Waiting \cup {"set", "reclear", "tunnel", "begin"}

(* Only a wake that goes on to wait makes the kernel poll, and one that    *)
(* waits goes on waiting while it does: it looks often enough.             *)
LEMMA PollingWaits ==
    ASSUME Steady, "slow" \notin Faults, TypeOK, KernelInv,
           NEW h \in Hooks, Hook(h), OnTime(h), Thrives(h), adapter'.busy
    PROVE  pc'[h] \in Waiting \/ (adapter.busy /\ pc[h] \notin Waiting)
<1>1. ~Ends(h, "failed") /\ ~Ends(h, "traceback")
  BY DEF Ends, TypeOK, Thrives
<1>2. ~Unconfigure
  BY DEF Unconfigure, TypeOK, Adapter
<1>3. ~(UNCHANGED adapter /\ adapter.gone)
  BY DEF KernelInv
<1>4. UnconfigureFails => FALSE
  BY <1>3 DEF UnconfigureFails, Steady, device
<1>5. CASE Open(h)
  BY <1>1, <1>5, Arrives DEF Open, Waiting
<1>6. CASE Info(h)
  <2>1. UNCHANGED adapter
    BY <1>6 DEF Info, device
  <2>2. adapter.busy /\ adapter.addr = NoAddr /\ adapter.count
    BY <2>1 DEF KernelInv
  <2>3. Goto(h, "clear")
    BY <1>3, <1>6, <2>1, <2>2 DEF Info
  <2> QED  BY <2>3, Arrives DEF Waiting
<1>7. CASE Clear(h)
  BY <1>2, <1>4, <1>7 DEF Clear, ClearLogAddrs
<1>8. CASE Set(h)
  <2>1. pc[h] \notin Waiting
    BY <1>8 DEF Set, Waiting
  <2>2. CASE UNCHANGED device
    BY <2>1, <2>2 DEF device
  <2>3. ASSUME NEW a \in Addr \cup {NoAddr}, NEW polling \in BOOLEAN,
               a # NoAddr => ~polling,
               adapter' = [adapter EXCEPT !.addr = a, !.busy = polling,
                                          !.count = TRUE, !.matches = TRUE],
               Goto(h, IF a = NoAddr THEN "await" ELSE "tunnel")
        PROVE  pc'[h] \in Waiting
    <3>1. polling = TRUE
      BY <2>3 DEF TypeOK, Adapter
    <3> QED  BY <2>3, <3>1, Arrives DEF Waiting
  <2>4. SetLogAddrs(h) \/ UNCHANGED device
    BY <1>8 DEF Set
  <2>5. \/ UNCHANGED device
        \/ \E a \in Addr \cup {NoAddr}, polling \in BOOLEAN :
              /\ a # NoAddr => ~polling
              /\ adapter' = [adapter EXCEPT !.addr = a, !.busy = polling,
                                            !.count = TRUE, !.matches = TRUE]
              /\ Goto(h, IF a = NoAddr THEN "await" ELSE "tunnel")
    BY <2>4, Zenon DEF SetLogAddrs
  <2> QED  BY <2>2, <2>3, <2>5
<1>9. CASE Await(h)
  <2>1. UNCHANGED adapter /\ pc[h] = "await"
    BY <1>9 DEF Await, device
  <2>2. adapter.busy /\ adapter.addr = NoAddr /\ ~adapter.gone
    BY <2>1 DEF KernelInv
  <2>3. tries[h] # Retries - 1
    BY <2>1, <2>2 DEF OnTime
  <2>4. Goto(h, "await")
    BY <1>9, <2>2, <2>3 DEF Await
  <2> QED  BY <2>4, Arrives DEF Waiting
<1>10. CASE Recover(h)
  <2>1. pc[h] \notin Waiting
    BY <1>10 DEF Recover, Waiting
  <2>2. UNCHANGED adapter \/ Goto(h, "info")
    BY <1>2, <1>4, <1>10 DEF Recover, ClearLogAddrs
  <2> QED  BY <2>1, <2>2, Arrives DEF Waiting
<1>11. CASE Reclear(h)
  BY <1>2, <1>4, <1>11 DEF Reclear
<1>12. CASE \/ Tunnel(h) \/ ReadPhys(h) \/ Begin(h)
            \/ PollTv(h) \/ PollAudio(h) \/ AskPower(h) \/ AskSource(h) \/ AskAudio(h)
            \/ MakePlan(h) \/ Send(h) \/ Confirm(h)
  <2>1. UNCHANGED adapter /\ pc[h] \notin Waiting
    BY <1>12 DEF Tunnel, ReadPhys, Begin, PollTv, PollAudio, AskPower, AskSource, AskAudio,
       MakePlan, Send, Confirm, Waiting, device
  <2> QED  BY <2>1
<1> QED  BY <1>5, <1>6, <1>7, <1>8, <1>9, <1>10, <1>11, <1>12 DEF Hook

(* Only a wake that goes on to set it clears the bit.                      *)
LEMMA ClearingMends ==
    ASSUME Steady, TypeOK, NEW h \in Hooks, Hook(h), Thrives(h), ~TunnelOpen'
    PROVE  pc'[h] \in Mending \/ (~TunnelOpen /\ pc[h] \notin Mending)
<1>1. ~Ends(h, "failed") /\ ~Ends(h, "traceback")
  BY DEF Ends, TypeOK, Thrives
<1>2. ClaimFails(h) => pc'[h] \in Mending
  BY <1>1, Arrives DEF ClaimFails, Mending
<1>3. \A where \in Mending : Goto(h, where) => pc'[h] \in Mending
  BY Arrives
<1>4. CASE Open(h) \/ Info(h)
  BY <1>1, <1>2, <1>3, <1>4 DEF Open, Info, Mending, Waiting
<1>5. CASE Clear(h) \/ Recover(h)
  BY <1>2, <1>3, <1>5 DEF Clear, Recover, ClearLogAddrs, Mending, Waiting
<1>6. CASE Set(h)
  <2>1. \/ ClaimFails(h)
        \/ \E where \in {"await", "tunnel", "reclear"} : Goto(h, where)
    BY <1>1, <1>6 DEF Set, SetLogAddrs
  <2> QED  BY <1>2, <1>3, <2>1 DEF Mending, Waiting
<1>7. CASE Reclear(h) \/ Await(h)
  BY <1>2, <1>3, <1>7 DEF Reclear, Await, Mending, Waiting
<1>8. CASE Tunnel(h) \/ Begin(h)
  <2>1. EnsureEnabled /\ UNCHANGED hw
    BY <1>8 DEF Tunnel, Begin, settings
  <2> QED  BY <2>1 DEF EnsureEnabled, TunnelOpen, Steady
<1>9. CASE \/ ReadPhys(h)
           \/ PollTv(h) \/ PollAudio(h) \/ AskPower(h) \/ AskSource(h) \/ AskAudio(h)
           \/ MakePlan(h) \/ Send(h) \/ Confirm(h)
  <2>1. UNCHANGED << hw, dpcd >> /\ pc[h] \notin Mending
    BY <1>9 DEF ReadPhys, PollTv, PollAudio, AskPower, AskSource, AskAudio,
       MakePlan, Send, Confirm, Mending, Waiting, settings, device
  <2> QED  BY <2>1 DEF TunnelOpen
<1> QED  BY <1>4, <1>5, <1>6, <1>7, <1>8, <1>9 DEF Hook

-----------------------------------------------------------------------------
(* The hooks together.                                                     *)

(* A hook's step is about its own addresses and its own survey.            *)
LEMMA OwnSurvey ==
    ASSUME TypeOK, NEW h \in Hooks, Hook(h), NEW g \in Hooks \ {h}
    PROVE  la'[g] = la[g] /\ pa'[g] = pa[g] /\ bus'[g] = bus[g]
<1>1. /\ la \in [Hooks -> Addr \cup {NoAddr}] /\ pa \in [Hooks -> Phys \cup {NoPhys}]
      /\ bus \in [Hooks -> BusState]
  BY DEF TypeOK
<1>2. UNCHANGED la \/ \E a : la' = [la EXCEPT ![h] = a]
  BY Zenon DEF Hook, Open, Info, Clear, ClearLogAddrs, Set, SetLogAddrs, Reclear, Await, Tunnel,
     ReadPhys, Begin, PollTv, PollAudio, AskPower, AskSource, AskAudio, MakePlan, Send,
     Confirm, Recover
<1>3. UNCHANGED pa \/ \E p : pa' = [pa EXCEPT ![h] = p]
  BY Zenon DEF Hook, Open, Info, Clear, Set, Reclear, Await, Tunnel, ReadPhys, Begin,
     PollTv, PollAudio, AskPower, AskSource, AskAudio, MakePlan, Send, Confirm, Recover
<1>4. \/ UNCHANGED bus
      \/ \E s : \/ bus' = [bus EXCEPT ![h] = s]
                \/ bus' = [bus EXCEPT ![h].audio_present = s]
                \/ bus' = [bus EXCEPT ![h].tv_power = s]
                \/ bus' = [bus EXCEPT ![h].active_source = s]
                \/ bus' = [bus EXCEPT ![h].audio_mode = s]
  BY Zenon DEF Hook, Open, Info, Clear, Set, Reclear, Await, Tunnel, ReadPhys, Begin, PollTv,
     PollAudio, AskPower, AskSource, AskAudio, MakePlan, Send, Confirm, Recover, Breaks
<1> QED  BY <1>1, <1>2, <1>3, <1>4

(* There is one port a hook can believe itself plugged into.               *)
OnePort(h) == pa[h] \in {Port, NoPhys} /\ bus[h].our_phys \in {Port, NoPhys}

LEMMA PortStep ==
    ASSUME TypeOK, NEW h \in Hooks, Hook(h), OnePort(h)
    PROVE  OnePort(h)'
<1>1. /\ pa \in [Hooks -> Phys \cup {NoPhys}] /\ bus \in [Hooks -> BusState]
      /\ adapter \in Adapter
  BY DEF TypeOK
<1>2. CASE ReadPhys(h)
  BY <1>1, <1>2 DEF ReadPhys, OnePort, Adapter
<1>3. CASE PollTv(h)
  BY <1>1, <1>3 DEF PollTv, Breaks, NewBusState, OnePort
<1>4. CASE PollAudio(h) \/ AskPower(h) \/ AskSource(h) \/ AskAudio(h)
  <2>1. /\ UNCHANGED pa
        /\ \/ UNCHANGED bus
           \/ \E s : \/ bus' = [bus EXCEPT ![h].audio_present = s]
                     \/ bus' = [bus EXCEPT ![h].tv_power = s]
                     \/ bus' = [bus EXCEPT ![h].active_source = s]
                     \/ bus' = [bus EXCEPT ![h].audio_mode = s]
    BY <1>4, Zenon DEF PollAudio, AskPower, AskSource, AskAudio, Breaks
  <2>2. bus'[h].our_phys = bus[h].our_phys
    BY <1>1, <2>1 DEF BusState
  <2> QED  BY <2>1, <2>2 DEF OnePort
<1>5. CASE \/ Open(h) \/ Info(h) \/ Clear(h) \/ Set(h) \/ Reclear(h) \/ Await(h)
           \/ Tunnel(h) \/ Begin(h) \/ MakePlan(h) \/ Send(h) \/ Confirm(h) \/ Recover(h)
  <2>1. UNCHANGED << pa, bus >>
    BY <1>5, Zenon DEF Open, Info, Clear, Set, Reclear, Await, Tunnel, Begin, MakePlan, Send,
       Confirm, Recover
  <2> QED  BY <2>1 DEF OnePort
<1> QED  BY <1>2, <1>3, <1>4, <1>5 DEF Hook

(* Who runs when, and what all of the wakes have in common.                *)
WakesInv ==
    /\ config \in Configs
    /\ \A h \in Hooks : OnePort(h)
    /\ \A h \in Hooks \ {Sleep} :
          command[h] = "on" /\ (pc[h] = "send" => Guided(plan[h]))
    /\ \A h \in Hooks \ started : pc[h] = "open"
    /\ machine \in {"suspended", "resumed"} => pc[Sleep] = "done"
    /\ machine # "resumed" => Resume \notin started

(* After the resume, as long as no wake has failed: whatever is missing is *)
(* some running wake's concern, the picture as well as the means to it.    *)
Late ==
    /\ machine = "resumed" /\ Resume \in started
    /\ \A h \in started \ {Sleep} : verdict[h] \in {"running", "ok"}

Wakes == Running \ {Sleep}

CaredFor ==
    /\ adapter.busy => \E h \in Wakes : pc[h] \in Waiting
    /\ ~TunnelOpen => \E h \in Wakes : pc[h] \in Mending
    /\ OnScreen \/ \E h \in Wakes : Owes(h)

TogetherInv == WakesInv /\ (Late => CaredFor)

(* A wake's plan goes on guiding.                                          *)
LEMMA StaysGuided ==
    ASSUME UNCHANGED config, NEW h \in Hooks, Guided(plan[h]), plan'[h] = plan[h]
    PROVE  Guided(plan[h])'
BY DEF Guided, Lacks, Before, Astray

(* A step of a hook keeps what the wakes have in common.                   *)
LEMMA WakesThroughHooks ==
    ASSUME WakeFramesHarmless, SystemTypeOK, WakesInv, NEW g \in Hooks, HookStep(g)
    PROVE  WakesInv'
<1>1. /\ g \in started /\ pc[g] # "done" /\ Hook(g) /\ UNCHANGED << machine, started >>
      /\ TypeOK
  BY DEF HookStep, Running, SystemTypeOK
<1>2. \A h \in Hooks \ {g} :
         /\ pc'[h] = pc[h] /\ plan'[h] = plan[h]
         /\ la'[h] = la[h] /\ pa'[h] = pa[h] /\ bus'[h] = bus[h]
  BY <1>1, HookAlone, OwnSurvey
<1>3. UNCHANGED << config, command >>
  BY <1>1, Zenon DEF Hook, Open, Info, Clear, Set, Reclear, Await, Tunnel, ReadPhys, Begin,
     PollTv, PollAudio, AskPower, AskSource, AskAudio, MakePlan, Send, Confirm, Recover, settings
<1>4. ASSUME NEW h \in Hooks PROVE OnePort(h)'
  BY <1>1, <1>2, PortStep DEF WakesInv, OnePort
<1>5. ASSUME g # Sleep, pc'[g] = "send" PROVE Guided(plan[g])'
  <2>1. command[g] = "on" /\ bus[g].our_phys \in {Port, NoPhys} /\ config \in Configs
    BY <1>5 DEF WakesInv, OnePort
  <2>2. CASE MakePlan(g)
    <3>1. Guided(plan'[g])
      BY <1>1, <1>5, <2>1, <2>2, PlanningGuided
    <3> QED  BY <1>3, <3>1 DEF Guided, Lacks, Before, Astray
  <2>3. CASE Send(g)
    <3>1. pc[g] = "send" /\ UNCHANGED plan
      BY <2>3 DEF Send
    <3>2. Guided(plan[g])
      BY <1>5, <3>1 DEF WakesInv
    <3> QED  BY <1>3, <3>1, <3>2, StaysGuided
  <2>4. CASE ~MakePlan(g) /\ ~Send(g)
    <3>1. Aside(g) \/ \E how : Ends(g, how)
      BY <1>1, <2>4, ClaimingAside, AskingAside DEF Hook, Confirm
    <3> QED  BY <1>1, <1>5, <3>1, Arrives DEF Aside
  <2> QED  BY <2>2, <2>3, <2>4
<1>6. ASSUME NEW h \in Hooks \ {Sleep}
      PROVE  command'[h] = "on" /\ (pc'[h] = "send" => Guided(plan[h])')
  <2>1. CASE h = g
    BY <1>3, <1>5, <1>6, <2>1 DEF WakesInv
  <2>2. CASE h # g
    BY <1>2, <1>3, <1>6, <2>2, StaysGuided DEF WakesInv
  <2> QED  BY <2>1, <2>2
<1>7. /\ \A h \in Hooks \ started' : pc'[h] = "open"
      /\ machine' \in {"suspended", "resumed"} => pc'[Sleep] = "done"
      /\ machine' # "resumed" => Resume \notin started'
  BY <1>1, <1>2, SystemAssumption DEF WakesInv
<1> QED  BY <1>3, <1>4, <1>6, <1>7 DEF WakesInv

(* A step of any wake is faithful, and it sees to what it owed before,     *)
(* unless it sends where nothing is heard.                                 *)
LEMMA HookOwes ==
    ASSUME Heeded, SystemTypeOK, WakesInv, NEW g \in Hooks \ {Sleep}, Hook(g), Thrives(g)
    PROVE  /\ UNCHANGED config /\ Faithful
           /\ Owes(g) /\ (TunnelOpen \/ pc[g] # "send") => Owes(g)' \/ OnScreen'
<1>1. TypeOK /\ command[g] = "on" /\ On(g) /\ bus[g].our_phys \in {Port, NoPhys}
  BY DEF SystemTypeOK, WakesInv, OnePort, On
<1>2. UNCHANGED world => Faithful
  BY DEF Faithful, Lit
<1>3. CASE \/ Open(g) \/ Info(g) \/ Clear(g) \/ Set(g) \/ Reclear(g) \/ Await(g)
           \/ Tunnel(g) \/ ReadPhys(g) \/ Begin(g) \/ Recover(g)
  BY <1>1, <1>2, <1>3, ClaimingOwes
<1>4. CASE \/ PollTv(g) \/ PollAudio(g) \/ AskPower(g) \/ AskSource(g) \/ AskAudio(g)
  <2>1. UNCHANGED << config, world >>
    BY <1>4 DEF PollTv, PollAudio, AskPower, AskSource, AskAudio, settings
  <2> QED  BY <1>1, <1>2, <1>4, <2>1, SurveyOwes
<1>5. CASE MakePlan(g)
  <2>1. UNCHANGED << config, world >>
    BY <1>5 DEF MakePlan, settings
  <2> QED  BY <1>1, <1>2, <1>5, <2>1, PlanningOwes
<1>6. CASE Send(g)
  <2>1. Guided(plan[g]) /\ pc[g] = "send"
    BY <1>6 DEF Send, WakesInv
  <2> QED  BY <1>1, <1>6, <2>1, SendingOwes
<1>7. CASE Confirm(g)
  <2>1. UNCHANGED << config, world >> /\ ~Owes(g)
    BY <1>7 DEF Confirm, settings, Owes, Afresh, Claiming, Surveying
  <2> QED  BY <1>2, <2>1
<1> QED  BY <1>3, <1>4, <1>5, <1>6, <1>7 DEF Hook

(* What one wake owes, no step of another settles behind its back, nor     *)
(* breaks.                                                                 *)
LEMMA OthersOwe ==
    ASSUME TypeOK, WakesInv, NEW h \in Hooks \ {Sleep}, Owes(h), Faithful,
           UNCHANGED config,
           pc'[h] = pc[h], plan'[h] = plan[h], at'[h] = at[h],
           la'[h] = la[h], bus'[h] = bus[h]
    PROVE  Owes(h)'
<1>1. CASE pc[h] \in Afresh
  BY <1>1 DEF Owes
<1>2. CASE pc[h] \in Surveying
  <2>1. /\ Sees(h)
        /\ pc[h] \in {"pollAudio", "askPower", "askSource"} => bus[h].active_source = NoPhys
        /\ pc[h] \in {"askAudio", "plan"} => la[h] # NoAddr
    BY <1>2 DEF Owes, Surveying, Afresh, Claiming
  <2>2. Sees(h)'
    BY <2>1, FaithfulKeeps
  <2> QED  BY <1>2, <2>1, <2>2 DEF Owes
<1>3. CASE pc[h] = "send"
  <2>1. PictureOwed(plan[h], at[h]) /\ la[h] # NoAddr /\ Guided(plan[h])
    BY <1>3 DEF Owes, Surveying, Afresh, Claiming, WakesInv
  <2>2. plan[h] \in Seq(Frame) /\ at[h] \in Nat
    BY DEF TypeOK
  <2>3. \A frames \in Seq(Frame), n \in Nat :
           frames = plan[h] /\ n = at[h] => PictureOwed(frames, n)'
    BY <2>1, FaithfulKeeps
  <2>4. /\ config.wake_tv => Lit' \/ ToCome(plan[h], at[h], "ImageViewOn")
        /\ config.claim_source =>
              world'.screen = Port \/ ToCome(plan[h], at[h], "ActiveSource")
    BY <2>2, <2>3 DEF PictureOwed, ToCome
  <2>5. PictureOwed(plan[h], at[h])'
    BY <2>4 DEF PictureOwed, ToCome
  <2> QED  BY <1>3, <2>1, <2>5 DEF Owes
<1> QED  BY <1>1, <1>2, <1>3 DEF Owes

(* A wake that owes something is not done, nor is one that waits or mends. *)
LEMMA Unfinished ==
    ASSUME NEW h \in Hooks
    PROVE  /\ Owes(h) => pc[h] # "done"
           /\ pc[h] \in Mending => Owes(h)
           /\ pc[h] \in Waiting => pc[h] \in Mending
BY DEF Owes, Afresh, Surveying, Claiming, Mending, Waiting

(* Whatever step a hook takes, all that was somebody's concern still is.   *)
LEMMA CareThroughHooks ==
    ASSUME Steady, Heeded, "slow" \notin Faults, SystemTypeOK, KernelInv, LandedInv, WakesInv,
           Late => CaredFor, NEW g \in Hooks, HookStep(g), Late'
    PROVE  CaredFor'
<1>1. /\ g \in started /\ pc[g] # "done" /\ Hook(g) /\ OnTime(g)
      /\ UNCHANGED << machine, started >> /\ TypeOK /\ started \subseteq Hooks
  BY DEF HookStep, Running, SystemTypeOK
<1>2. g # Sleep
  BY <1>1 DEF Late, WakesInv
<1>3. \A h \in Hooks \ {g} :
         /\ pc'[h] = pc[h] /\ plan'[h] = plan[h] /\ at'[h] = at[h] /\ verdict'[h] = verdict[h]
         /\ la'[h] = la[h] /\ pa'[h] = pa[h] /\ bus'[h] = bus[h]
  BY <1>1, HookAlone, OwnSurvey
<1>4. Thrives(g)
  BY <1>1, <1>2 DEF Late, Thrives
<1>5. CaredFor
  <2>1. verdict[g] = "running"
    BY <1>1 DEF LandedInv, SuccessInv
  <2>2. \A h \in started \ {Sleep} : verdict[h] \in {"running", "ok"}
    BY <1>1, <1>3, <2>1 DEF Late
  <2>3. Late
    BY <1>1, <2>2 DEF Late
  <2> QED  BY <2>3
<1>6. \A h \in Wakes \ {g} : h \in Hooks \ {Sleep, g} /\ h \in Wakes'
  BY <1>1, <1>3 DEF Wakes, Running
<1>7. pc'[g] # "done" => g \in Wakes'
  BY <1>1, <1>2 DEF Wakes, Running
<1>8. ASSUME adapter'.busy PROVE \E h \in Wakes' : pc'[h] \in Waiting
  <2>1. CASE pc'[g] \in Waiting
    BY <1>7, <2>1 DEF Waiting
  <2>2. CASE adapter.busy /\ pc[g] \notin Waiting
    <3>1. PICK h \in Wakes : pc[h] \in Waiting
      BY <1>5, <2>2 DEF CaredFor
    <3> QED  BY <1>3, <1>6, <2>2, <3>1
  <2> QED  BY <1>1, <1>4, <1>8, <2>1, <2>2, PollingWaits
<1>9. ASSUME ~TunnelOpen' PROVE \E h \in Wakes' : pc'[h] \in Mending
  <2>1. CASE pc'[g] \in Mending
    BY <1>7, <2>1 DEF Mending, Waiting
  <2>2. CASE ~TunnelOpen /\ pc[g] \notin Mending
    <3>1. PICK h \in Wakes : pc[h] \in Mending
      BY <1>5, <2>2 DEF CaredFor
    <3> QED  BY <1>3, <1>6, <2>2, <3>1
  <2> QED  BY <1>1, <1>4, <1>9, <2>1, <2>2, ClearingMends
<1>10. /\ UNCHANGED config /\ Faithful
       /\ Owes(g) /\ (TunnelOpen \/ pc[g] # "send") => Owes(g)' \/ OnScreen'
  BY <1>1, <1>2, <1>4, HookOwes
<1>11. ASSUME NEW h \in Wakes \ {g}, Owes(h) PROVE h \in Wakes' /\ Owes(h)'
  BY <1>1, <1>3, <1>6, <1>10, <1>11, OthersOwe
<1>12. OnScreen' \/ \E h \in Wakes' : Owes(h)'
  <2>1. CASE OnScreen
    BY <1>1, <1>10, <2>1, FaithfulKeeps
  <2>2. ASSUME NEW h \in Wakes \ {g}, Owes(h) PROVE \E k \in Wakes' : Owes(k)'
    BY <1>11, <2>2
  <2>3. CASE Owes(g) /\ (TunnelOpen \/ pc[g] # "send")
    <3>1. Owes(g)' => pc'[g] # "done"
      BY DEF Owes, Afresh, Surveying, Claiming
    <3> QED  BY <1>7, <1>10, <2>3, <3>1
  <2>4. CASE ~TunnelOpen /\ pc[g] = "send"
    <3>1. PICK h \in Wakes : pc[h] \in Mending
      BY <1>5, <2>4 DEF CaredFor
    <3>2. h # g /\ h \in Hooks
      BY <1>1, <2>4, <3>1 DEF Mending, Waiting, Wakes, Running
    <3>3. Owes(h)
      BY <3>1, <3>2, Unfinished
    <3> QED  BY <1>11, <3>2, <3>3
  <2>5. OnScreen \/ \E h \in Wakes : Owes(h)
    BY <1>5 DEF CaredFor
  <2> QED  BY <2>1, <2>2, <2>3, <2>4, <2>5
<1>13. CaredFor' <=> /\ adapter'.busy => \E h \in Wakes' : pc'[h] \in Waiting
                     /\ ~TunnelOpen' => \E h \in Wakes' : pc'[h] \in Mending
                     /\ OnScreen' \/ \E h \in Wakes' : Owes(h)'
  BY DEF CaredFor
<1> QED  BY <1>8, <1>9, <1>12, <1>13

(* The environment turns nothing from us: a TV that settles was as awake   *)
(* before, an address that is found is found for a wake that waits, and an *)
(* adapter that goes away stops polling.                                   *)
LEMMA OutsideTogether ==
    ASSUME Steady, SystemTypeOK, KernelInv, TogetherInv,
           EnvironmentStep \/ UNCHANGED systemVars
    PROVE  TogetherInv'
<1>1. /\ UNCHANGED << settings, self, machine, started >> /\ SameRoom /\ TypeOK
  BY RoomKeeps DEF EnvironmentStep, systemVars, vars, SystemTypeOK
<1>2. WakesInv'
  BY <1>1 DEF TogetherInv, WakesInv, OnePort, Guided, Lacks, Before, Astray, settings, self
<1>3. ASSUME Late' PROVE CaredFor'
  <2>1. CaredFor
    BY <1>1, <1>3 DEF TogetherInv, Late, self
  <2>2. Wakes' = Wakes /\ \A h \in Wakes : h \in Hooks
    BY <1>1 DEF Wakes, Running, self, SystemTypeOK
  <2>3. \/ UNCHANGED device
        \/ adapter.busy /\ ~adapter'.busy
        \/ UNCHANGED dpcd /\ ~adapter'.busy
    <3>1. CASE KernelClaims
      BY <1>1, <3>1 DEF KernelClaims, TypeOK, Adapter
    <3>2. CASE AdapterGone
      BY <1>1, <3>2 DEF AdapterGone, TypeOK, Adapter
    <3>3. CASE TvSettles \/ UNCHANGED systemVars
      BY <3>3 DEF TvSettles, systemVars, vars
    <3> QED  BY <3>1, <3>2, <3>3 DEF EnvironmentStep, Environment, AdapterResets, Steady
  <2>4. ASSUME adapter'.busy PROVE \E h \in Wakes : pc[h] \in Waiting
    BY <2>1, <2>3, <2>4 DEF CaredFor, device
  <2>5. ASSUME ~TunnelOpen' PROVE \E h \in Wakes : pc[h] \in Mending
    <3>1. CASE adapter.busy
      BY <2>1, <3>1 DEF CaredFor, Mending
    <3>2. CASE ~adapter.busy
      <4>1. UNCHANGED << hw, dpcd >>
        BY <1>1, <2>3, <3>2 DEF device, settings
      <4> QED  BY <2>1, <2>5, <4>1 DEF CaredFor, TunnelOpen
    <3> QED  BY <3>1, <3>2
  <2>6. Faithful /\ UNCHANGED << config, pc, plan, at, la, bus >>
    BY <1>1 DEF SameRoom, Faithful, settings, self
  <2>7. OnScreen => OnScreen'
    BY <1>1, <2>6, FaithfulKeeps
  <2>8. ASSUME NEW h \in Wakes, Owes(h) PROVE Owes(h)'
    <3>1. h \in Hooks \ {Sleep}
      BY <2>2, <2>8 DEF Wakes
    <3> QED  BY <1>1, <2>6, <2>8, <3>1, OthersOwe DEF TogetherInv
  <2>9. OnScreen' \/ \E h \in Wakes' : Owes(h)'
    BY <2>1, <2>2, <2>7, <2>8 DEF CaredFor
  <2>10. CaredFor' <=> /\ adapter'.busy => \E h \in Wakes' : pc'[h] \in Waiting
                       /\ ~TunnelOpen' => \E h \in Wakes' : pc'[h] \in Mending
                       /\ OnScreen' \/ \E h \in Wakes' : Owes(h)'
    BY DEF CaredFor
  <2> QED  BY <2>2, <2>4, <2>5, <2>6, <2>9, <2>10
<1> QED  BY <1>2, <1>3 DEF TogetherInv

(* A process that is created changes nothing else, and the resume unit's   *)
(* has yet to look.                                                        *)
LEMMA StartsTogether ==
    ASSUME SystemTypeOK, TogetherInv,
           (\E h \in Hooks : Press(h)) \/ GoToSleep \/ StartResume
    PROVE  TogetherInv'
<1>1. /\ UNCHANGED vars
      /\ UNCHANGED << config, command, hw, adapter, dpcd, world, pc, la, pa, bus, plan, at,
                      verdict >>
      /\ started \subseteq started'
  BY DEF Press, GoToSleep, StartResume, Starts, vars, settings, device, self
<1>2. \/ UNCHANGED machine /\ (Resume \in started' => Resume \in started)
      \/ machine' = "sleeping" /\ (machine # "resumed") /\ (Resume \in started' => Resume \in started)
      \/ UNCHANGED machine /\ machine = "resumed" /\ Resume \in started' /\ Resume \notin started
  BY SystemAssumption DEF Press, GoToSleep, StartResume, Starts
<1>3. WakesInv'
  <2>1. /\ config' \in Configs
        /\ \A h \in Hooks : OnePort(h)'
        /\ \A h \in Hooks \ {Sleep} :
              command'[h] = "on" /\ (pc'[h] = "send" => Guided(plan[h])')
    BY <1>1, StaysGuided DEF TogetherInv, WakesInv, OnePort
  <2>2. /\ \A h \in Hooks \ started' : pc'[h] = "open"
        /\ machine' \in {"suspended", "resumed"} => pc'[Sleep] = "done"
        /\ machine' # "resumed" => Resume \notin started'
    BY <1>1, <1>2 DEF TogetherInv, WakesInv
  <2> QED  BY <2>1, <2>2 DEF WakesInv
<1>4. ASSUME Late' PROVE CaredFor'
  <2>1. Wakes \subseteq Wakes'
    BY <1>1 DEF Wakes, Running
  <2>2. CASE Resume \in started
    <3>1. Late
      BY <1>1, <1>2, <1>4, <2>2 DEF Late, TogetherInv, WakesInv
    <3>2. CaredFor
      BY <3>1 DEF TogetherInv
    <3>3. \A h : Owes(h) => Owes(h)'
      BY <1>1 DEF Owes, Sees, PictureOwed, ToCome, Lit
    <3> QED  BY <1>1, <2>1, <3>2, <3>3 DEF CaredFor, OnScreen, Lit, TunnelOpen
  <2>3. CASE Resume \notin started
    <3>1. pc'[Resume] = "open" /\ Resume \in Wakes'
      BY <1>1, <1>2, <1>4, <2>3, SystemAssumption
         DEF Late, TogetherInv, WakesInv, Wakes, Running
    <3> QED  BY <3>1 DEF CaredFor, Owes, Waiting, Mending, Afresh
  <2> QED  BY <2>2, <2>3
<1> QED  BY <1>3, <1>4 DEF TogetherInv

(* A wake that is killed has failed; and until the resume unit is started  *)
(* nothing is promised.                                                    *)
LEMMA MachineTogether ==
    ASSUME SystemTypeOK, TogetherInv, (\E h \in Hooks : Kill(h)) \/ Suspend \/ Wake
    PROVE  TogetherInv'
<1>1. UNCHANGED << config, command, plan, pa, bus, started >>
  BY DEF Kill, Suspend, Wake, settings, self, device
<1>2. ASSUME NEW g \in Hooks, Kill(g) PROVE TogetherInv'
  <2>1. /\ g \in started /\ pc[g] # "done" /\ UNCHANGED machine
        /\ pc'[g] = "done" /\ verdict'[g] = "failed"
        /\ \A h \in Hooks \ {g} : pc'[h] = pc[h]
    BY <1>2 DEF Kill, Ends, Running, SystemTypeOK, TypeOK
  <2>2. WakesInv'
    <3>1. /\ config' \in Configs
          /\ \A h \in Hooks : OnePort(h)'
          /\ \A h \in Hooks \ {Sleep} :
                command'[h] = "on" /\ (pc'[h] = "send" => Guided(plan[h])')
      BY <1>1, <2>1, StaysGuided DEF TogetherInv, WakesInv, OnePort
    <3>2. /\ \A h \in Hooks \ started' : pc'[h] = "open"
          /\ machine' \in {"suspended", "resumed"} => pc'[Sleep] = "done"
          /\ machine' # "resumed" => Resume \notin started'
      BY <1>1, <2>1, SystemAssumption DEF TogetherInv, WakesInv
    <3> QED  BY <3>1, <3>2 DEF WakesInv
  <2>3. ~Late'
    BY <1>1, <2>1 DEF Late, TogetherInv, WakesInv
  <2> QED  BY <2>2, <2>3 DEF TogetherInv
<1>3. CASE Suspend \/ Wake
  <2>1. /\ UNCHANGED pc /\ pc[Sleep] = "done" /\ Resume \notin started
    BY <1>3 DEF Suspend, Wake, self, TogetherInv, WakesInv
  <2>2. WakesInv'
    <3>1. /\ config' \in Configs
          /\ \A h \in Hooks : OnePort(h)'
          /\ \A h \in Hooks \ {Sleep} :
                command'[h] = "on" /\ (pc'[h] = "send" => Guided(plan[h])')
      BY <1>1, <2>1, StaysGuided DEF TogetherInv, WakesInv, OnePort
    <3> QED  BY <1>1, <2>1, <3>1 DEF TogetherInv, WakesInv
  <2>3. ~Late'
    BY <1>1, <2>1 DEF Late
  <2> QED  BY <2>2, <2>3 DEF TogetherInv
<1> QED  BY <1>2, <1>3

(* On a bus that works, and where no adapter resets by itself: however     *)
(* many wakes run beside each other, are frozen by the suspend, re-claim   *)
(* and re-probe under each other, once all is quiet after a resume and     *)
(* every one of them has exited 0 the picture is there.                    *)
THEOREM WakesTogetherCorrect ==
    ASSUME Steady, Heeded, "slow" \notin Faults, WakeFramesHarmless
    PROVE  SystemSpec => []WakesDeliverTogether
<1> DEFINE Whole == SystemTypeOK /\ KernelInv /\ LandedInv /\ TogetherInv
<1>1. Whole => WakesDeliverTogether
  <2> SUFFICES ASSUME Whole, machine = "resumed", Resume \in started, Running = {},
                      \A h \in started \ {Sleep} : verdict[h] = "ok"
               PROVE  OnScreen
    BY DEF WakesDeliverTogether
  <2>1. Late /\ Wakes = {}
    BY DEF Late, Wakes
  <2> QED  BY <2>1 DEF TogetherInv, CaredFor
<1>2. SystemInit => Whole
  <2>1. SystemInit => SystemTypeOK /\ KernelInv /\ LandedInv
    BY InitType, LandedInit DEF SystemInit, Init, SystemTypeOK, KernelInv
  <2>2. SystemInit => WakesInv /\ ~Late
    BY DEF SystemInit, Init, WakesInv, OnePort, NewBusState, Late
  <2> QED  BY <2>1, <2>2 DEF TogetherInv
<1>3. Whole /\ SystemTypeOK' /\ [SystemNext]_systemVars => Whole'
  <2> SUFFICES ASSUME Whole, SystemTypeOK', [SystemNext]_systemVars
               PROVE  KernelInv' /\ LandedInv' /\ TogetherInv'
    OBVIOUS
  <2>1. LandedInv'
    BY SystemSteps, LandedStep, MachineKeepsLanded DEF SystemTypeOK
  <2>2. ASSUME NEW g \in Hooks, HookStep(g) PROVE KernelInv' /\ TogetherInv'
    <3>1. KernelInv'
      BY <2>2, HookKernel DEF HookStep, SystemTypeOK
    <3> QED  BY <2>2, <3>1, WakesThroughHooks, CareThroughHooks DEF TogetherInv
  <2>3. CASE (\E h \in Hooks : Press(h)) \/ GoToSleep \/ StartResume
    <3>1. UNCHANGED adapter
      BY <2>3 DEF Press, GoToSleep, StartResume, vars, device
    <3> QED  BY <2>1, <2>3, <3>1, StartsTogether DEF KernelInv
  <2>4. CASE (\E h \in Hooks : Kill(h)) \/ Suspend \/ Wake
    <3>1. KernelInv'
      <4>1. CASE Suspend
        BY <4>1, DeviceKernel DEF Suspend, SystemTypeOK
      <4>2. CASE ~Suspend
        BY <2>4, <4>2 DEF Kill, Wake, device, KernelInv
      <4> QED  BY <4>1, <4>2
    <3> QED  BY <2>1, <2>4, <3>1, MachineTogether
  <2>5. CASE EnvironmentStep \/ SystemDone \/ UNCHANGED systemVars
    <3>1. EnvironmentStep \/ UNCHANGED systemVars
      BY <2>5 DEF SystemDone
    <3>2. KernelInv'
      BY <3>1, EnvironmentKernel DEF EnvironmentStep, SystemTypeOK, systemVars, vars, device,
                                     KernelInv
    <3> QED  BY <2>1, <3>1, <3>2, OutsideTogether
  <2> QED  BY <2>1, <2>2, <2>3, <2>4, <2>5 DEF SystemNext
<1> QED  BY <1>1, <1>2, <1>3, SystemTypeCorrect, PTL DEF SystemSpec
=============================================================================
