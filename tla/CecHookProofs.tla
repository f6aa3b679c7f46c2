---------------------------- MODULE CecHookProofs ----------------------------
(***************************************************************************)
(* What holds of CecHook for every number of hooks, every configuration,   *)
(* every set of addresses and every choice of Faults.                      *)
(***************************************************************************)
EXTENDS CecHook, WakePlanProofs

USE AddressAssumption, HookAssumption

-----------------------------------------------------------------------------
(* Type correctness.                                                       *)

(* A hook goes on, not to its send loop, or ends.                          *)
Moves(h) ==
    \/ \E how \in Verdict : Ends(h, how)
    \/ \E where \in Pc \ {"send"} : Goto(h, where)

(* Moving keeps control well-formed, and a hook in its send loop there.    *)
LEMMA MovesType ==
    ASSUME TypeOK, NEW h \in Hooks, Moves(h)
    PROVE  /\ pc' \in [Hooks -> Pc]
           /\ verdict' \in [Hooks -> Verdict]
           /\ UNCHANGED << plan, at >> => IndexInPlan'
<1>1. /\ pc \in [Hooks -> Pc] /\ verdict \in [Hooks -> Verdict]
      /\ IndexInPlan
  BY DEF TypeOK
<1>2. "done" \in Pc
  BY DEF Pc
<1>3. PICK where \in Pc \ {"send"} : pc' = [pc EXCEPT ![h] = where]
  BY <1>2 DEF Moves, Ends, Goto
<1>4. verdict' \in [Hooks -> Verdict]
  BY <1>1 DEF Moves, Ends, Goto
<1>5. \A g \in Hooks : pc'[g] = "send" => pc[g] = "send"
  BY <1>1, <1>3
<1>6. UNCHANGED << plan, at >> => IndexInPlan'
  BY <1>5, <1>1 DEF IndexInPlan
<1> QED  BY <1>1, <1>3, <1>4, <1>6

(* A failed claim is a move.                                               *)
LEMMA ClaimFailsMoves ==
    ASSUME NEW h \in Hooks, ClaimFails(h)
    PROVE  Moves(h)
BY DEF ClaimFails, Moves, Pc, Verdict

(* What the kernel claims by, as it was configured or anew, is an adapter. *)
LEMMA ReconfiguredType ==
    ASSUME TypeOK, NEW a \in Reconfigured
    PROVE  a \in Adapter /\ a.gone = adapter.gone
<1>1. CASE a = adapter
  BY <1>1 DEF TypeOK
<1>2. CASE \E m \in BOOLEAN : a = [adapter EXCEPT !.count = TRUE, !.matches = m]
  BY <1>2 DEF TypeOK, Adapter
<1> QED  BY <1>1, <1>2 DEF Reconfigured

(* A reset adapter is an adapter with no address, and claims one only if   *)
(* it is configured.                                                       *)
LEMMA ResetType ==
    ASSUME TypeOK, Reset
    PROVE  /\ adapter' \in Adapter /\ dpcd' = FALSE
           /\ adapter'.addr = NoAddr /\ adapter'.gone = adapter.gone
           /\ adapter'.busy => adapter'.count
<1>1. PICK p \in {Port, NoPhys}, a \in Reconfigured :
          adapter' = [a EXCEPT !.addr = NoAddr, !.phys = p,
                               !.busy = a.count /\ p # NoPhys]
  BY DEF Reset
<1>2. a \in Adapter /\ a.gone = adapter.gone
  BY ReconfiguredType
<1>3. (a.count /\ p # NoPhys) \in BOOLEAN
  OBVIOUS
<1>4. /\ adapter' \in Adapter /\ adapter'.addr = NoAddr /\ adapter'.gone = a.gone
      /\ adapter'.busy = (a.count /\ p # NoPhys) /\ adapter'.count = a.count
  BY <1>1, <1>2, <1>3 DEF Adapter
<1> QED  BY <1>2, <1>4 DEF Reset

(* The kernel keeps its side well-formed.                                  *)
LEMMA DeviceType ==
    ASSUME TypeOK
    PROVE  /\ Reset => adapter' \in Adapter /\ dpcd' \in BOOLEAN
           /\ Unconfigure => adapter' \in Adapter /\ dpcd' \in BOOLEAN
           /\ UnconfigureFails => adapter' \in Adapter /\ dpcd' \in BOOLEAN
           /\ Reprobe => adapter' \in Adapter /\ dpcd' \in BOOLEAN
           /\ KernelClaims => adapter' \in Adapter /\ dpcd' \in BOOLEAN
           /\ AdapterGone => adapter' \in Adapter /\ dpcd' \in BOOLEAN
           /\ EnsureEnabled => dpcd' \in BOOLEAN
<1>1. Reset => adapter' \in Adapter /\ dpcd' \in BOOLEAN
  BY ResetType
<1>2. Unconfigure => adapter' \in Adapter /\ dpcd' \in BOOLEAN
  BY DEF TypeOK, Unconfigure, Adapter
<1>3. UnconfigureFails => adapter' \in Adapter /\ dpcd' \in BOOLEAN
  BY DEF TypeOK, UnconfigureFails, device
<1>4. Reprobe => adapter' \in Adapter /\ dpcd' \in BOOLEAN
  BY <1>1 DEF TypeOK, Reprobe, device
<1>5. KernelClaims => adapter' \in Adapter /\ dpcd' \in BOOLEAN
  <2> SUFFICES ASSUME KernelClaims PROVE adapter' \in Adapter /\ dpcd' \in BOOLEAN
    OBVIOUS
  <2>1. PICK a \in Addr \cup {NoAddr} :
            adapter' = [adapter EXCEPT !.busy = FALSE, !.addr = a]
    BY DEF KernelClaims
  <2> QED  BY <2>1 DEF TypeOK, KernelClaims, Adapter
<1>6. AdapterGone => adapter' \in Adapter /\ dpcd' \in BOOLEAN
  BY DEF TypeOK, AdapterGone, Adapter
<1>7. EnsureEnabled => dpcd' \in BOOLEAN
  BY DEF TypeOK, EnsureEnabled
<1> QED  BY <1>1, <1>2, <1>3, <1>4, <1>5, <1>6, <1>7
-----------------------------------------------------------------------------
(* The initial states are well-typed.                                      *)
LEMMA InitType == Init => TypeOK
<1> SUFFICES ASSUME Init PROVE TypeOK
  OBVIOUS
<1>1. NewBusState(NoAddr, NoPhys) \in BusState
  BY DEF NewBusState, BusState, Silent
<1>2. << >> \in Seq(Frame)
  OBVIOUS
<1>3. /\ config \in Config /\ hw \in [aux : BOOLEAN, connector : BOOLEAN]
      /\ command \in [Hooks -> Command]
  BY DEF Init
<1>4. /\ adapter \in Adapter /\ dpcd \in BOOLEAN /\ world \in World
  BY HookAssumption DEF Init
<1>5. /\ pc \in [Hooks -> Pc] /\ verdict \in [Hooks -> Verdict]
      /\ IndexInPlan
  BY DEF Init, Pc, Verdict, IndexInPlan
<1>6. /\ attempt \in [Hooks -> Nat] /\ tries \in [Hooks -> Nat]
      /\ la \in [Hooks -> Addr \cup {NoAddr}]
      /\ pa \in [Hooks -> Phys \cup {NoPhys}]
      /\ bus \in [Hooks -> BusState]
      /\ plan \in [Hooks -> Seq(Frame)]
      /\ at \in [Hooks -> Nat \ {0}]
      /\ landed \in [Hooks -> SUBSET Nat]
  BY <1>1, <1>2 DEF Init
<1> QED  BY <1>3, <1>4, <1>5, <1>6 DEF TypeOK

(* Claiming an address keeps everything well-typed.                        *)
LEMMA ClaimingType ==
    ASSUME TypeOK, NEW h \in Hooks,
           \/ Open(h) \/ Info(h) \/ Clear(h) \/ Set(h) \/ Reclear(h) \/ Await(h)
           \/ Tunnel(h) \/ ReadPhys(h) \/ Begin(h) \/ Recover(h)
    PROVE  TypeOK'
<1> USE DEF settings, device
<1>1. CASE Open(h)
  <2>1. Moves(h)
    BY <1>1 DEF Open, Moves, Pc, Claiming, Verdict
  <2> QED  BY <1>1, <2>1, MovesType DEF Open, TypeOK
<1>2. CASE Info(h)
  <2>1. Moves(h)
    BY <1>2, ClaimFailsMoves DEF Info, Moves, Pc, Claiming
  <2>2. tries' \in [Hooks -> Nat] /\ la' \in [Hooks -> Addr \cup {NoAddr}]
    BY <1>2 DEF Info, TypeOK, Adapter
  <2> QED  BY <1>2, <2>1, <2>2, MovesType DEF Info, TypeOK
<1>3. ASSUME NEW next \in Pc \ {"send"}, ClearLogAddrs(h, next)
      PROVE  /\ adapter' \in Adapter /\ dpcd' \in BOOLEAN
             /\ la' \in [Hooks -> Addr \cup {NoAddr}] /\ Moves(h)
  <2>1. la' \in [Hooks -> Addr \cup {NoAddr}] /\ Moves(h)
    BY <1>3, ClaimFailsMoves DEF ClearLogAddrs, Moves, TypeOK
  <2> QED  BY <1>3, <2>1, DeviceType DEF ClearLogAddrs
<1>4. CASE Clear(h)
  <2>1. "set" \in Pc \ {"send"}
    BY DEF Pc, Claiming
  <2> QED  BY <1>3, <1>4, <2>1, MovesType DEF Clear, TypeOK
<1>5. CASE Set(h)
  <2>1. CASE SetLogAddrs(h)
    <3>1. adapter' \in Adapter
      <4>1. CASE UNCHANGED device
        BY <4>1 DEF TypeOK
      <4>2. ASSUME NEW a \in Addr \cup {NoAddr}, NEW polling \in BOOLEAN,
                   adapter' = [adapter EXCEPT !.addr = a, !.busy = polling,
                                              !.count = TRUE, !.matches = TRUE]
            PROVE  adapter' \in Adapter
        BY <4>2 DEF TypeOK, Adapter
      <4>3. \/ UNCHANGED device
            \/ \E a \in Addr \cup {NoAddr}, polling \in BOOLEAN :
                  adapter' = [adapter EXCEPT !.addr = a, !.busy = polling,
                                             !.count = TRUE, !.matches = TRUE]
        BY <2>1, Zenon DEF SetLogAddrs
      <4>4. CASE \E a \in Addr \cup {NoAddr}, polling \in BOOLEAN :
                    adapter' = [adapter EXCEPT !.addr = a, !.busy = polling,
                                               !.count = TRUE, !.matches = TRUE]
        BY <4>2, <4>4, Zenon
      <4> QED  BY <4>1, <4>3, <4>4, Zenon
    <3>2. dpcd' \in BOOLEAN /\ tries' \in [Hooks -> Nat]
      <4>1. /\ dpcd' = FALSE \/ UNCHANGED dpcd
            /\ tries' = [tries EXCEPT ![h] = 0] \/ UNCHANGED tries
        BY <2>1, Zenon DEF SetLogAddrs
      <4>2. dpcd \in BOOLEAN /\ tries \in [Hooks -> Nat]
        BY DEF TypeOK
      <4>3. dpcd' \in BOOLEAN
        BY <4>1, <4>2, Zenon
      <4> QED  BY <4>1, <4>2, <4>3
    <3>3. la' \in [Hooks -> Addr \cup {NoAddr}]
      <4>1. \/ UNCHANGED la
            \/ \E a \in Addr \cup {NoAddr} : la' = [la EXCEPT ![h] = a]
        BY <2>1, Zenon DEF SetLogAddrs
      <4> QED  BY <4>1 DEF TypeOK
    <3>4. Moves(h)
      BY <2>1, ClaimFailsMoves DEF SetLogAddrs, Moves, Pc, Claiming
    <3> QED  BY <1>5, <3>1, <3>2, <3>3, <3>4, MovesType DEF Set, TypeOK
  <2>2. CASE Ends(h, "traceback") /\ UNCHANGED << device, la, tries >>
    <3>1. Moves(h)
      BY <2>2 DEF Moves, Verdict
    <3> QED  BY <1>5, <2>2, <3>1, MovesType DEF Set, TypeOK
  <2> QED  BY <1>5, <2>1, <2>2 DEF Set
<1>6. CASE Reclear(h)
  <2>1. Moves(h)
    BY <1>6 DEF Reclear, Moves, Pc, Claiming
  <2>2. tries' \in [Hooks -> Nat] /\ la' \in [Hooks -> Addr \cup {NoAddr}]
    BY <1>6 DEF Reclear, TypeOK
  <2>3. adapter' \in Adapter /\ dpcd' \in BOOLEAN
    BY <1>6, DeviceType DEF Reclear
  <2> QED  BY <1>6, <2>1, <2>2, <2>3, MovesType DEF Reclear, TypeOK
<1>7. CASE Await(h)
  <2>1. Moves(h)
    BY <1>7, ClaimFailsMoves DEF Await, Moves, Pc, Claiming
  <2>2. tries' \in [Hooks -> Nat] /\ la' \in [Hooks -> Addr \cup {NoAddr}]
    BY <1>7 DEF Await, TypeOK, Adapter
  <2> QED  BY <1>7, <2>1, <2>2, MovesType DEF Await, TypeOK
<1>8. CASE Tunnel(h)
  <2>1. Moves(h)
    BY <1>8 DEF Tunnel, Moves, Pc, Claiming
  <2> QED  BY <1>8, <2>1, MovesType, DeviceType DEF Tunnel, TypeOK
<1>9. CASE ReadPhys(h)
  <2>1. Moves(h)
    BY <1>9, ClaimFailsMoves DEF ReadPhys, Ready, Moves, Pc, Talking, Asking
  <2>2. attempt' \in [Hooks -> Nat] /\ pa' \in [Hooks -> Phys \cup {NoPhys}]
    BY <1>9 DEF ReadPhys, Ready, TypeOK, Adapter
  <2> QED  BY <1>9, <2>1, <2>2, MovesType DEF ReadPhys, TypeOK
<1>10. CASE Begin(h)
  <2>1. Moves(h)
    BY <1>10 DEF Begin, Moves, Pc, Talking, Asking
  <2> QED  BY <1>10, <2>1, MovesType, DeviceType DEF Begin, TypeOK
<1>11. CASE Recover(h)
  <2>1. "info" \in Pc \ {"send"}
    BY DEF Pc, Claiming
  <2>2. CASE ClearLogAddrs(h, "info")
    BY <1>3, <1>11, <2>1, <2>2, MovesType DEF Recover, TypeOK
  <2>3. CASE Reprobe /\ Goto(h, "info") /\ UNCHANGED la
    <3>1. Moves(h)
      BY <2>1, <2>3 DEF Moves
    <3> QED  BY <1>11, <2>3, <3>1, MovesType, DeviceType DEF Recover, TypeOK
  <2> QED  BY <1>11, <2>2, <2>3 DEF Recover
<1> QED  BY <1>1, <1>2, <1>4, <1>5, <1>6, <1>7, <1>8, <1>9, <1>10, <1>11

(* An answer is the truth or nothing.                                      *)
LEMMA AnswerType ==
    ASSUME NEW outcome, NEW truth, NEW none, NEW answer \in Answer(outcome, truth, none)
    PROVE  answer = truth \/ answer = none
BY DEF Answer

(* A transmission that leaves the hook through main leaves the survey.     *)
LEMMA BreaksMoves ==
    ASSUME NEW h \in Hooks, NEW outcome, Breaks(h, outcome)
    PROVE  Moves(h) /\ UNCHANGED bus
BY DEF Breaks, Moves, Verdict

(* Writing one field of the survey, with a value of its type, keeps it.    *)
LEMMA BusType ==
    ASSUME TypeOK, NEW h \in Hooks
    PROVE  /\ \A b \in BOOLEAN : [bus EXCEPT ![h].audio_present = b] \in [Hooks -> BusState]
           /\ \A p \in Power \cup {Silent} :
                [bus EXCEPT ![h].tv_power = p] \in [Hooks -> BusState]
           /\ \A m \in AudioMode \cup {Silent} :
                [bus EXCEPT ![h].audio_mode = m] \in [Hooks -> BusState]
           /\ \A p \in Phys \cup {NoPhys} :
                [bus EXCEPT ![h].active_source = p] \in [Hooks -> BusState]
<1>1. bus \in [Hooks -> BusState] /\ bus[h] \in BusState
  BY DEF TypeOK
<1>2. ASSUME NEW b \in BOOLEAN
      PROVE  [bus EXCEPT ![h].audio_present = b] \in [Hooks -> BusState]
  BY <1>1 DEF BusState
<1>3. ASSUME NEW p \in Power \cup {Silent}
      PROVE  [bus EXCEPT ![h].tv_power = p] \in [Hooks -> BusState]
  BY <1>1 DEF BusState
<1>4. ASSUME NEW m \in AudioMode \cup {Silent}
      PROVE  [bus EXCEPT ![h].audio_mode = m] \in [Hooks -> BusState]
  BY <1>1 DEF BusState
<1>5. ASSUME NEW p \in Phys \cup {NoPhys}
      PROVE  [bus EXCEPT ![h].active_source = p] \in [Hooks -> BusState]
  BY <1>1 DEF BusState
<1> QED  BY <1>2, <1>3, <1>4, <1>5

(* Surveying keeps everything well-typed.                                  *)
LEMMA AskingType ==
    ASSUME TypeOK, NEW h \in Hooks,
           \/ PollTv(h) \/ PollAudio(h) \/ AskPower(h) \/ AskSource(h) \/ AskAudio(h)
    PROVE  TypeOK'
<1> USE DEF settings, device
<1>1. bus \in [Hooks -> BusState] /\ la[h] \in Addr \cup {NoAddr}
      /\ pa[h] \in Phys \cup {NoPhys} /\ world \in World
  BY DEF TypeOK
<1>2. CASE PollTv(h)
  <2>1. ASSUME NEW outcome
        PROVE  [NewBusState(la[h], pa[h]) EXCEPT !.tv_present = (outcome = "ok")] \in BusState
    BY <1>1 DEF NewBusState, BusState
  <2>2. Moves(h)
    BY <1>2, BreaksMoves DEF PollTv, AfterPolls, Moves, Pc, Talking, Asking
  <2>3. \/ UNCHANGED bus
        \/ \E outcome : bus' = [bus EXCEPT ![h] = [NewBusState(la[h], pa[h])
                                   EXCEPT !.tv_present = (outcome = "ok")]]
    BY <1>2, BreaksMoves, Zenon DEF PollTv
  <2>4. ASSUME NEW s \in BusState PROVE [bus EXCEPT ![h] = s] \in [Hooks -> BusState]
    BY <1>1
  <2>5. bus' \in [Hooks -> BusState]
    BY <1>1, <2>1, <2>3, <2>4, Zenon
  <2> QED  BY <1>2, <2>2, <2>5, MovesType DEF PollTv, TypeOK
<1>3. CASE PollAudio(h)
  <2>1. Moves(h)
    BY <1>3, BreaksMoves DEF PollAudio, AfterPolls, Moves, Pc, Talking, Asking
  <2>2. bus' \in [Hooks -> BusState]
    <3>1. \/ UNCHANGED bus
          \/ \E outcome : bus' = [bus EXCEPT ![h].audio_present = (outcome = "ok")]
      BY <1>3, BreaksMoves, Zenon DEF PollAudio
    <3>2. ASSUME NEW outcome
          PROVE  [bus EXCEPT ![h].audio_present = (outcome = "ok")] \in [Hooks -> BusState]
      BY BusType
    <3> QED  BY <1>1, <3>1, <3>2, Zenon
  <2> QED  BY <1>3, <2>1, <2>2, MovesType DEF PollAudio, TypeOK
<1>4. CASE AskPower(h)
  <2>1. Moves(h)
    BY <1>4, BreaksMoves DEF AskPower, Moves, Pc, Talking, Asking
  <2>2. bus' \in [Hooks -> BusState]
    BY <1>1, <1>4, BusType, BreaksMoves, AnswerType DEF AskPower, World
  <2> QED  BY <1>4, <2>1, <2>2, MovesType DEF AskPower, TypeOK
<1>5. CASE AskSource(h)
  <2>1. Moves(h)
    BY <1>5, BreaksMoves DEF AskSource, Moves, Pc, Talking, Asking
  <2>2. bus' \in [Hooks -> BusState]
    BY <1>1, <1>5, BusType, BreaksMoves, AnswerType DEF AskSource, Queued, World
  <2> QED  BY <1>5, <2>1, <2>2, MovesType DEF AskSource, TypeOK
<1>6. CASE AskAudio(h)
  <2>1. Moves(h)
    BY <1>6, BreaksMoves DEF AskAudio, Moves, Pc, Talking, Asking
  <2>2. bus' \in [Hooks -> BusState]
    <3>1. \/ UNCHANGED bus
          \/ \E outcome : \E answer \in Answer(outcome, IF world.receiver = "on" THEN "on" ELSE "off",
                                               Silent) :
                bus' = [bus EXCEPT ![h].audio_mode = answer]
      BY <1>6, BreaksMoves, Zenon DEF AskAudio
    <3>2. \/ UNCHANGED bus
          \/ \E answer \in AudioMode \cup {Silent} : bus' = [bus EXCEPT ![h].audio_mode = answer]
      BY <3>1, AnswerType DEF AudioMode
    <3>3. ASSUME NEW m \in AudioMode \cup {Silent}
          PROVE  [bus EXCEPT ![h].audio_mode = m] \in [Hooks -> BusState]
      BY BusType
    <3> QED  BY <1>1, <3>2, <3>3, Zenon
  <2> QED  BY <1>6, <2>1, <2>2, MovesType DEF AskAudio, TypeOK
<1> QED  BY <1>2, <1>3, <1>4, <1>5, <1>6

(* Planning leaves a plan of frames, and the send loop at its first one.   *)
LEMMA PlanningType ==
    ASSUME TypeOK, NEW h \in Hooks, MakePlan(h)
    PROVE  TypeOK'
<1> USE DEF settings, device
<1> DEFINE frames == IF On(h) THEN PlanWake(config, bus[h]) ELSE PlanStandby(config, bus[h])
<1>1. frames \in Seq(Frame)
  <2>1. config \in Config /\ bus[h] \in BusState
    BY DEF TypeOK
  <2> QED  BY <2>1, PlanWakePlans, PlanStandbyPlans DEF Plans
<1>2. \/ Ends(h, "traceback") /\ UNCHANGED << plan, at, landed >>
      \/ /\ plan' = [plan EXCEPT ![h] = frames]
         /\ at' = [at EXCEPT ![h] = 1]
         /\ landed' = [landed EXCEPT ![h] = {}]
         /\ IF frames = << >> \/ DryRun(h) THEN Ends(h, "ok") ELSE Goto(h, "send")
  BY DEF MakePlan
<1>3. UNCHANGED << config, hw, command, adapter, dpcd, world, attempt, tries, la, pa, bus >>
  BY DEF MakePlan
<1> HIDE DEF frames
<1>4. CASE Ends(h, "traceback") /\ UNCHANGED << plan, at, landed >>
  <2>1. Moves(h)
    BY <1>4 DEF Moves, Verdict
  <2> QED  BY <1>3, <1>4, <2>1, MovesType DEF TypeOK
<1>5. CASE /\ plan' = [plan EXCEPT ![h] = frames]
           /\ at' = [at EXCEPT ![h] = 1]
           /\ landed' = [landed EXCEPT ![h] = {}]
           /\ IF frames = << >> \/ DryRun(h) THEN Ends(h, "ok") ELSE Goto(h, "send")
  <2>1. /\ plan' \in [Hooks -> Seq(Frame)]
        /\ at' \in [Hooks -> Nat \ {0}]
        /\ landed' \in [Hooks -> SUBSET Nat]
    BY <1>1, <1>5 DEF TypeOK
  <2>2. pc' \in [Hooks -> Pc] /\ verdict' \in [Hooks -> Verdict]
    BY <1>5 DEF TypeOK, Ends, Goto, Pc, Talking, Verdict
  <2>3. IndexInPlan'
    <3> SUFFICES ASSUME NEW g \in Hooks, pc'[g] = "send"
                 PROVE  at'[g] \in DOMAIN plan'[g]
      BY DEF IndexInPlan
    <3>1. CASE g # h
      <4>1. pc[g] = "send" /\ plan'[g] = plan[g] /\ at'[g] = at[g]
        BY <1>5, <3>1 DEF TypeOK, Ends, Goto
      <4> QED  BY <4>1 DEF TypeOK, IndexInPlan
    <3>2. CASE g = h
      <4>1. frames # << >> /\ plan'[g] = frames /\ at'[g] = 1
        BY <1>5, <3>2 DEF TypeOK, Ends
      <4> QED  BY <1>1, <4>1
    <3> QED  BY <3>1, <3>2
  <2> QED  BY <1>3, <2>1, <2>2, <2>3 DEF TypeOK
<1> QED  BY <1>2, <1>4, <1>5

(* When send() returns, the hook leaves the loop, at most one attempt on.  *)
LEMMA SendReturnsMoves ==
    ASSUME TypeOK, NEW h \in Hooks, NEW ok, SendReturns(h, ok)
    PROVE  Moves(h) /\ attempt' \in [Hooks -> Nat]
<1>1. Moves(h)
  BY DEF SendReturns, Moves, Verdict, Pc, Talking
<1>2. attempt' = [attempt EXCEPT ![h] = @ + 1] \/ UNCHANGED attempt
  BY DEF SendReturns
<1>3. attempt \in [Hooks -> Nat]
  BY DEF TypeOK
<1>4. attempt' \in [Hooks -> Nat]
  BY <1>2, <1>3
<1> QED  BY <1>1, <1>4

(* Sending one frame keeps everything well-typed: the loop goes on only    *)
(* while there is a next frame.                                            *)
LEMMA SendingType ==
    ASSUME TypeOK, NEW h \in Hooks, Send(h)
    PROVE  TypeOK'
<1> USE DEF settings, device
<1>1. /\ pc[h] = "send" /\ at[h] \in 1 .. Len(plan[h]) /\ plan[h] \in Seq(Frame)
      /\ Len(plan[h]) \in Nat /\ DOMAIN plan[h] = 1 .. Len(plan[h])
  BY DEF Send, TypeOK, IndexInPlan
<1>2. PICK outcome :
        /\ world' \in IF outcome = "ok" /\ TunnelOpen THEN Heard(world, plan[h][at[h]])
                      ELSE {world}
        /\ landed' = [landed EXCEPT ![h] = IF outcome = "ok" THEN @ \cup {at[h]} ELSE @]
        /\ at' = [at EXCEPT ![h] = @ + 1]
        /\ \/ Ends(h, "failed") /\ UNCHANGED attempt
           \/ at[h] # Len(plan[h]) /\ Goto(h, "send") /\ UNCHANGED attempt
           \/ \E ok : SendReturns(h, ok)
  BY Zenon DEF Send
<1>3. UNCHANGED << config, hw, command, adapter, dpcd, tries, la, pa, bus, plan >>
  BY DEF Send
<1>4. world' \in World
  BY <1>2 DEF Heard, TypeOK
<1>5. landed' \in [Hooks -> SUBSET Nat] /\ at' \in [Hooks -> Nat \ {0}]
  BY <1>1, <1>2 DEF TypeOK
<1>6. CASE Ends(h, "failed") /\ UNCHANGED attempt
  <2>1. \A g \in Hooks : pc'[g] = "send" => g # h /\ pc[g] = "send"
    BY <1>6 DEF Ends, TypeOK
  <2>2. IndexInPlan'
    BY <1>2, <1>3, <2>1 DEF IndexInPlan, TypeOK
  <2>3. Moves(h)
    BY <1>6 DEF Moves, Verdict
  <2> QED  BY <1>3, <1>4, <1>5, <1>6, <2>2, <2>3, MovesType DEF TypeOK
<1>7. CASE at[h] # Len(plan[h]) /\ Goto(h, "send") /\ UNCHANGED attempt
  <2>1. pc' \in [Hooks -> Pc] /\ verdict' \in [Hooks -> Verdict]
    BY <1>7 DEF Goto, TypeOK, Pc, Talking
  <2>2. \A g \in Hooks : pc'[g] = "send" => g = h \/ pc[g] = "send"
    BY <1>7 DEF Goto, TypeOK
  <2>3. at'[h] \in DOMAIN plan'[h]
    BY <1>1, <1>2, <1>3, <1>7 DEF TypeOK
  <2>4. IndexInPlan'
    BY <1>2, <1>3, <2>2, <2>3 DEF IndexInPlan, TypeOK
  <2> QED  BY <1>3, <1>4, <1>5, <1>7, <2>1, <2>4 DEF TypeOK
<1>8. CASE \E ok : SendReturns(h, ok)
  <2>1. Moves(h) /\ attempt' \in [Hooks -> Nat]
    BY <1>8, SendReturnsMoves
  <2>2. \A g \in Hooks : pc'[g] = "send" => g # h /\ pc[g] = "send"
    BY <2>1 DEF Moves, Ends, Goto, TypeOK
  <2>3. IndexInPlan'
    BY <1>2, <1>3, <2>2 DEF IndexInPlan, TypeOK
  <2> QED  BY <1>3, <1>4, <1>5, <2>1, <2>3, MovesType DEF TypeOK
<1> QED  BY <1>2, <1>6, <1>7, <1>8, Zenon

(* Confirming, and what the environment does, keep everything well-typed.  *)
LEMMA ConfirmType ==
    ASSUME TypeOK, NEW h \in Hooks, Confirm(h)
    PROVE  TypeOK'
<1>1. Moves(h)
  BY DEF Confirm, Moves, Verdict
<1> QED  BY <1>1, MovesType DEF Confirm, TypeOK, settings, device

(* The kernel, the TV and the end keep every variable in its domain.       *)
LEMMA EnvironmentType ==
    ASSUME TypeOK, Environment
    PROVE  TypeOK'
<1> USE DEF settings, device, self
<1>1. CASE TvSettles
  <2>1. world' \in World
    BY <1>1 DEF TvSettles, World, Power, TypeOK
  <2> QED  BY <1>1, <2>1 DEF TvSettles, TypeOK, IndexInPlan
<1>2. CASE KernelClaims
  BY <1>2, DeviceType DEF KernelClaims, TypeOK, IndexInPlan
<1>3. CASE AdapterResets
  BY <1>3, DeviceType DEF AdapterResets, TypeOK, IndexInPlan
<1>4. CASE AdapterGone
  BY <1>4, DeviceType DEF AdapterGone, TypeOK, IndexInPlan
<1> QED  BY <1>1, <1>2, <1>3, <1>4 DEF Environment

(* Every step keeps the types.                                             *)
LEMMA TypeStep == TypeOK /\ [Next]_vars => TypeOK'
<1> SUFFICES ASSUME TypeOK, [Next]_vars PROVE TypeOK'
  OBVIOUS
<1>1. ASSUME NEW h \in Hooks, Hook(h) PROVE TypeOK'
  BY <1>1, ClaimingType, AskingType, PlanningType, SendingType, ConfirmType DEF Hook
<1>2. CASE Environment
  BY <1>2, EnvironmentType
<1>3. CASE UNCHANGED vars
  BY <1>3 DEF vars, settings, device, self, TypeOK, IndexInPlan
<1> QED  BY <1>1, <1>2, <1>3 DEF Next, AllDone

(* Whatever the configuration and the faults, every variable stays in its  *)
(* domain and a hook in its send loop always has a frame to send.          *)
THEOREM TypeCorrect == Spec => []TypeOK
<1> QED  BY InitType, TypeStep, PTL DEF Spec

-----------------------------------------------------------------------------
(* The tunneling bit.  Nothing can be promised when a reset clears the bit *)
(* behind our back, when the register cannot be written, or when the       *)
(* kernel refuses to give an address up.  Otherwise the part of TunnelInv  *)
(* about a hook is kept by that hook's own steps and by the environment's, *)
(* and KernelInv by everybody's.                                           *)
Steady == Faults \cap {"reset", "write", "clear"} = {}
Repaired(h) == KernelInv /\ RepairInv(h)

(* Where a hook is after a step.                                           *)
LEMMA Arrives ==
    ASSUME TypeOK, NEW h \in Hooks
    PROVE  /\ \A how : Ends(h, how) => pc'[h] = "done"
           /\ \A where : Goto(h, where) => pc'[h] = where
           /\ ClaimFails(h) => pc'[h] \in {"done", "begin"}
BY DEF TypeOK, Ends, Goto, ClaimFails

(* The two parts together.                                                *)
LEMMA BothInv ==
    ASSUME NEW h \in Hooks, KernelInv', RepairInv(h)'
    PROVE  Repaired(h)'
BY DEF Repaired

(* Leaving off asserts nothing of a hook; nor does looking at the adapter  *)
(* anew, nor being about to clear it.                                      *)
LEMMA IdleInv ==
    ASSUME NEW h \in Hooks, pc'[h] \in {"done", "info", "clear", "recover"}
    PROVE  RepairInv(h)'
BY DEF RepairInv, Talking, Asking

(* A hook that talks goes on talking to the same adapter, or leaves off.   *)
LEMMA TalkInv ==
    ASSUME Steady, TypeOK, NEW h \in Hooks, Repaired(h),
           pc[h] \in Talking, pc'[h] \in Talking \cup {"done", "recover"},
           UNCHANGED << hw, device, la >>
    PROVE  Repaired(h)'
<1>1. KernelInv'
  BY DEF Repaired, KernelInv, device
<1>2. RepairInv(h)
  BY DEF Repaired
<1>3. RepairInv(h)'
  BY <1>2 DEF RepairInv, Talking, Asking, TunnelOpen, device
<1> QED  BY <1>1, <1>3, BothInv

(* Giving up the address: no polling, no address believed in.              *)
LEMMA ClearInv ==
    ASSUME Steady, TypeOK, NEW h \in Hooks, Repaired(h),
           NEW next \in {"set", "info"}, ClearLogAddrs(h, next)
    PROVE  Repaired(h)'
<1>1. CASE Unconfigure /\ la' = [la EXCEPT ![h] = NoAddr] /\ Goto(h, next)
  <2>1. /\ adapter' = [adapter EXCEPT !.addr = NoAddr, !.count = FALSE, !.busy = FALSE]
        /\ ~adapter.gone /\ adapter \in Adapter
    BY <1>1 DEF Unconfigure, TypeOK
  <2>2. adapter'.addr = NoAddr /\ ~adapter'.busy /\ ~adapter'.gone
    BY <2>1 DEF Adapter
  <2>3. KernelInv'
    BY <2>2 DEF KernelInv
  <2>4. la'[h] = NoAddr /\ pc'[h] = next
    BY <1>1, Arrives DEF TypeOK
  <2>5. RepairInv(h)'
    BY <2>4 DEF RepairInv
  <2> QED  BY <2>3, <2>5, BothInv
<1>2. CASE UnconfigureFails /\ ClaimFails(h) /\ UNCHANGED la
  <2>1. UNCHANGED adapter /\ adapter.gone
    BY <1>2 DEF UnconfigureFails, Steady, device
  <2>2. KernelInv' /\ ~adapter'.busy
    BY <2>1 DEF Repaired, KernelInv
  <2>3. pc'[h] \in {"done", "begin"}
    BY <1>2, Arrives
  <2>4. RepairInv(h)'
    BY <2>2, <2>3 DEF RepairInv, Talking, Asking
  <2> QED  BY <2>2, <2>4, BothInv
<1> QED  BY <1>1, <1>2 DEF ClearLogAddrs

(* Asking for an address: the hook believes in one only if it was taken at *)
(* once, in which case the kernel is not polling for it.                   *)
LEMMA SetInv ==
    ASSUME Steady, TypeOK, NEW h \in Hooks, Repaired(h),
           pc[h] = "set", SetLogAddrs(h)
    PROVE  Repaired(h)'
<1>1. KernelInv /\ RepairInv(h)
  BY DEF Repaired
<1>2. ASSUME NEW a \in Addr \cup {NoAddr}, NEW polling \in BOOLEAN,
             ~adapter.gone, a # NoAddr => ~polling,
             adapter' = [adapter EXCEPT !.addr = a, !.busy = polling,
                                        !.count = TRUE, !.matches = TRUE],
             la' = [la EXCEPT ![h] = a],
             Goto(h, IF a = NoAddr THEN "await" ELSE "tunnel")
      PROVE  Repaired(h)'
  <2>1. /\ adapter'.addr = a /\ adapter'.busy = polling
        /\ adapter'.count /\ ~adapter'.gone
    BY <1>2 DEF TypeOK, Adapter
  <2>2. la'[h] = a /\ pc'[h] = (IF a = NoAddr THEN "await" ELSE "tunnel")
    BY <1>2, Arrives DEF TypeOK
  <2>3. KernelInv'
    BY <1>2, <2>1 DEF KernelInv
  <2>4. RepairInv(h)'
    BY <1>2, <2>1, <2>2 DEF RepairInv, Talking, Asking
  <2> QED  BY <2>3, <2>4, BothInv
<1>3. ASSUME UNCHANGED << device, la >>, pc'[h] \in {"done", "begin", "reclear"}
      PROVE  Repaired(h)'
  <2>1. KernelInv'
    BY <1>1, <1>3 DEF KernelInv, device
  <2>2. RepairInv(h)'
    BY <1>1, <1>3 DEF RepairInv, Talking, Asking, device
  <2> QED  BY <2>1, <2>2, BothInv
<1>4. \/ \E a \in Addr \cup {NoAddr}, polling \in BOOLEAN :
            /\ ~adapter.gone /\ (a # NoAddr => ~polling)
            /\ adapter' = [adapter EXCEPT !.addr = a, !.busy = polling,
                                          !.count = TRUE, !.matches = TRUE]
            /\ la' = [la EXCEPT ![h] = a]
            /\ Goto(h, IF a = NoAddr THEN "await" ELSE "tunnel")
      \/ UNCHANGED << device, la >> /\ (ClaimFails(h) \/ Goto(h, "reclear"))
  BY Zenon DEF SetLogAddrs, device
<1>5. ClaimFails(h) \/ Goto(h, "reclear") => pc'[h] \in {"done", "begin", "reclear"}
  BY Arrives
<1> QED  BY <1>2, <1>3, <1>4, <1>5, Zenon

(* A look at the adapter finds a claimed address settled, and asks for one *)
(* only if the kernel is not looking for one already.                      *)
LEMMA InfoInv ==
    ASSUME Steady, TypeOK, NEW h \in Hooks, Repaired(h), Info(h)
    PROVE  Repaired(h)'
<1>1. KernelInv /\ UNCHANGED << hw, adapter, dpcd >>
  BY DEF Repaired, Info, settings, device
<1>2. KernelInv'
  BY <1>1 DEF KernelInv
<1>3. CASE adapter.gone /\ ClaimFails(h)
  <2>1. pc'[h] \in {"done", "begin"} /\ ~adapter'.busy
    BY <1>1, <1>3, Arrives DEF KernelInv
  <2> QED  BY <1>2, <2>1, BothInv DEF RepairInv, Talking, Asking
<1>4. CASE adapter.addr # NoAddr /\ Goto(h, "tunnel")
  <2>1. pc'[h] = "tunnel" /\ ~adapter'.busy
    BY <1>1, <1>4, Arrives DEF KernelInv
  <2> QED  BY <1>2, <2>1, BothInv DEF RepairInv, Talking, Asking
<1>5. CASE Goto(h, IF adapter.count THEN "clear" ELSE "set")
  <2>1. CASE adapter.count
    BY <1>2, <1>5, <2>1, Arrives, IdleInv, BothInv
  <2>2. CASE ~adapter.count
    <3>1. pc'[h] = "set" /\ ~adapter'.busy
      BY <1>1, <1>5, <2>2, Arrives DEF KernelInv
    <3> QED  BY <1>2, <3>1, BothInv DEF RepairInv, Talking, Asking
  <2> QED  BY <2>1, <2>2
<1> QED  BY <1>3, <1>4, <1>5 DEF Info

(* After EBUSY no address is believed in, whether or not clearing worked.  *)
LEMMA ReclearInv ==
    ASSUME Steady, TypeOK, NEW h \in Hooks, Repaired(h), Reclear(h)
    PROVE  Repaired(h)'
<1>1. la'[h] = NoAddr /\ pc'[h] = "set"
  BY Arrives DEF Reclear, TypeOK
<1>2. RepairInv(h)'
  BY <1>1 DEF RepairInv
<1>3. CASE UnconfigureFails
  BY <1>3, <1>2, BothInv DEF UnconfigureFails, Repaired, KernelInv, device
<1>4. CASE Unconfigure
  <2>1. adapter'.addr = NoAddr /\ ~adapter'.busy /\ ~adapter'.gone
    BY <1>4 DEF Unconfigure, TypeOK, Adapter
  <2> QED  BY <1>2, <2>1, BothInv DEF KernelInv
<1> QED  BY <1>3, <1>4 DEF Reclear

(* An address read back has settled.                                       *)
LEMMA AwaitInv ==
    ASSUME Steady, TypeOK, NEW h \in Hooks, Repaired(h), Await(h)
    PROVE  Repaired(h)'
<1>1. KernelInv /\ RepairInv(h) /\ pc[h] = "await" /\ UNCHANGED << hw, adapter, dpcd >>
  BY DEF Repaired, Await, settings, device
<1>2. KernelInv' /\ la[h] = NoAddr
  BY <1>1 DEF KernelInv, RepairInv
<1>3. la'[h] = IF adapter.gone THEN NoAddr ELSE adapter.addr
  BY <1>2 DEF Await, TypeOK
<1>4. CASE adapter.addr # NoAddr
  <2>1. pc'[h] = "tunnel" /\ ~adapter'.busy
    BY <1>1, <1>4, Arrives DEF Await, KernelInv
  <2> QED  BY <1>2, <2>1, BothInv DEF RepairInv, Talking, Asking
<1>5. CASE adapter.addr = NoAddr
  <2>1. la'[h] = NoAddr /\ pc'[h] \in {"done", "begin", "await"}
    BY <1>3, <1>5, Arrives DEF Await
  <2> QED  BY <1>2, <2>1, BothInv DEF RepairInv
<1> QED  BY <1>4, <1>5

(* The repair sets the bit.                                                *)
LEMMA RepairSets ==
    ASSUME TypeOK, Steady, EnsureEnabled, UNCHANGED hw
    PROVE  TunnelOpen'
BY DEF EnsureEnabled, TunnelOpen, Steady

(* The repair and the head of the wake loop establish the invariant: they  *)
(* leave the bit set for an address that has settled.                      *)
LEMMA RepairingInv ==
    ASSUME Steady, TypeOK, NEW h \in Hooks, Repaired(h), Tunnel(h) \/ Begin(h)
    PROVE  Repaired(h)'
<1>1. KernelInv /\ RepairInv(h) /\ UNCHANGED << hw, adapter, la >> /\ EnsureEnabled
  BY DEF Repaired, Tunnel, Begin, settings
<1>2. pc[h] \in {"tunnel", "begin"} /\ pc'[h] \in {"phys", "pollTv"}
  BY Arrives DEF Tunnel, Begin
<1>3. TunnelOpen' /\ KernelInv'
  BY <1>1, RepairSets DEF KernelInv
<1>4. RepairInv(h)'
  BY <1>1, <1>2, <1>3 DEF RepairInv
<1> QED  BY <1>3, <1>4, BothInv

(* Reading the physical address moves on to talking, or off; the bit the   *)
(* repair has set stays set.                                               *)
LEMMA ReadPhysInv ==
    ASSUME Steady, TypeOK, NEW h \in Hooks, Repaired(h), ReadPhys(h)
    PROVE  Repaired(h)'
<1>1. KernelInv /\ RepairInv(h) /\ UNCHANGED << hw, adapter, dpcd, la >> /\ pc[h] = "phys"
  BY DEF Repaired, ReadPhys, settings, device
<1>2. pc'[h] \in {"done", "begin", "pollTv"}
  BY Arrives DEF ReadPhys, Ready
<1>3. KernelInv'
  BY <1>1 DEF KernelInv
<1>4. RepairInv(h)'
  BY <1>1, <1>2 DEF RepairInv, TunnelOpen, Talking, Asking
<1> QED  BY <1>3, <1>4, BothInv

(* The kernel claims only under a hook that believes in no address.        *)
LEMMA EnvironmentInv ==
    ASSUME Steady, TypeOK, NEW h \in Hooks, Repaired(h), Environment
    PROVE  Repaired(h)'
<1>1. KernelInv
  BY DEF Repaired
<1>2. CASE TvSettles
  BY <1>2 DEF TvSettles, settings, device, self, Repaired, KernelInv, RepairInv, TunnelOpen
<1>3. CASE KernelClaims
  <2>1. PICK a \in Addr \cup {NoAddr} :
            adapter' = [adapter EXCEPT !.busy = FALSE, !.addr = a]
    BY <1>3 DEF KernelClaims
  <2>2. ~adapter'.busy /\ ~adapter'.gone
    BY <1>1, <1>3, <2>1 DEF KernelClaims, KernelInv, TypeOK, Adapter
  <2>3. KernelInv'
    BY <2>2 DEF KernelInv
  <2>4. RepairInv(h) /\ adapter.busy /\ UNCHANGED << pc, la >>
    BY <1>3 DEF Repaired, KernelClaims, self
  <2>5. RepairInv(h)'
    BY <2>2, <2>4 DEF RepairInv
  <2> QED  BY <2>3, <2>5, BothInv
<1>4. CASE AdapterResets
  BY <1>4 DEF AdapterResets, Steady
<1>5. CASE AdapterGone
  <2>1. adapter'.addr = NoAddr /\ ~adapter'.busy
    BY <1>5 DEF AdapterGone, TypeOK, Adapter
  <2>2. UNCHANGED << pc, la >>
    BY <1>5 DEF AdapterGone, self
  <2> QED  BY <2>1, <2>2 DEF Repaired, KernelInv, RepairInv
<1> QED  BY <1>2, <1>3, <1>4, <1>5 DEF Environment

(* A recovery gives up the address, or resets the adapter and claims anew. *)
LEMMA RecoverInv ==
    ASSUME Steady, TypeOK, NEW h \in Hooks, Repaired(h), Recover(h)
    PROVE  Repaired(h)'
<1>1. CASE ClearLogAddrs(h, "info")
  BY <1>1, ClearInv
<1>2. CASE Reprobe /\ Goto(h, "info")
  <2>1. RepairInv(h)'
    BY <1>2, Arrives, IdleInv
  <2>2. CASE UNCHANGED device
    BY <2>1, <2>2, BothInv DEF Repaired, KernelInv, device
  <2>3. CASE ~adapter.gone /\ Reset
    BY <2>1, <2>3, ResetType, BothInv DEF KernelInv
  <2> QED  BY <1>2, <2>2, <2>3 DEF Reprobe
<1> QED  BY <1>1, <1>2 DEF Recover

(* Every step that talks is a case of TalkInv.                             *)
LEMMA TalkingInv ==
    ASSUME Steady, TypeOK, NEW h \in Hooks, Repaired(h),
           \/ PollTv(h) \/ PollAudio(h) \/ AskPower(h) \/ AskSource(h) \/ AskAudio(h)
           \/ MakePlan(h) \/ Send(h) \/ Confirm(h)
    PROVE  Repaired(h)'
<1>1. UNCHANGED << hw, device, la >> /\ pc[h] \in Talking
  BY DEF PollTv, PollAudio, AskPower, AskSource, AskAudio, MakePlan, Send, Confirm,
         settings, device, Talking, Asking
<1>2. pc'[h] \in Talking \cup {"done", "recover"}
  <2>1. CASE \/ PollTv(h) \/ PollAudio(h) \/ AskPower(h) \/ AskSource(h) \/ AskAudio(h)
    <3>1. \/ \E how : Ends(h, how)
          \/ \E where \in Asking \cup {"plan"} : Goto(h, where)
      BY <2>1 DEF PollTv, PollAudio, AskPower, AskSource, AskAudio, Breaks, AfterPolls, Asking
    <3> QED  BY <3>1, Arrives DEF Talking
  <2>2. CASE MakePlan(h) \/ Confirm(h)
    <3>1. (\E how : Ends(h, how)) \/ Goto(h, "send")
      BY <2>2 DEF MakePlan, Confirm
    <3> QED  BY <3>1, Arrives DEF Talking
  <2>3. CASE Send(h)
    <3>1. \/ \E how : Ends(h, how)
          \/ \E where \in {"send", "confirm", "recover"} : Goto(h, where)
      BY <2>3 DEF Send, SendReturns
    <3> QED  BY <3>1, Arrives DEF Talking
  <2> QED  BY <2>1, <2>2, <2>3
<1> QED  BY <1>1, <1>2, TalkInv

(* What the calls of a hook do to the adapter, and what a reset does.      *)
LEMMA DeviceKernel ==
    ASSUME TypeOK, KernelInv,
           \/ UNCHANGED adapter
           \/ Unconfigure
           \/ ~adapter.gone /\ Reset
    PROVE  KernelInv'
<1>1. CASE UNCHANGED adapter
  BY <1>1 DEF KernelInv
<1>2. CASE Unconfigure
  BY <1>2 DEF Unconfigure, KernelInv, TypeOK, Adapter
<1>3. CASE ~adapter.gone /\ Reset
  BY <1>3, ResetType DEF KernelInv
<1> QED  BY <1>1, <1>2, <1>3

(* Asking for addresses does as SetInv shows, whatever the hook believes.  *)
LEMMA SetKernel ==
    ASSUME TypeOK, KernelInv, NEW h \in Hooks, SetLogAddrs(h)
    PROVE  KernelInv'
<1>1. ASSUME NEW a \in Addr \cup {NoAddr}, NEW polling \in BOOLEAN,
             ~adapter.gone, a # NoAddr => ~polling,
             adapter' = [adapter EXCEPT !.addr = a, !.busy = polling,
                                        !.count = TRUE, !.matches = TRUE]
      PROVE  KernelInv'
  BY <1>1 DEF KernelInv, TypeOK, Adapter
<1>2. \/ \E a \in Addr \cup {NoAddr}, polling \in BOOLEAN :
            /\ ~adapter.gone /\ (a # NoAddr => ~polling)
            /\ adapter' = [adapter EXCEPT !.addr = a, !.busy = polling,
                                          !.count = TRUE, !.matches = TRUE]
      \/ UNCHANGED device
  BY Zenon DEF SetLogAddrs
<1> QED  BY <1>1, <1>2, DeviceKernel DEF device

(* Nor does what happens to the adapter by itself break KernelInv.         *)
LEMMA EnvironmentKernel ==
    ASSUME TypeOK, KernelInv, Environment
    PROVE  KernelInv'
<1>1. CASE TvSettles
  BY <1>1, DeviceKernel DEF TvSettles, device
<1>2. CASE KernelClaims
  <2>1. PICK a \in Addr \cup {NoAddr} :
            adapter' = [adapter EXCEPT !.busy = FALSE, !.addr = a]
    BY <1>2 DEF KernelClaims
  <2> QED  BY <1>2, <2>1 DEF KernelClaims, KernelInv, TypeOK, Adapter
<1>3. CASE AdapterResets
  BY <1>3, DeviceKernel DEF AdapterResets
<1>4. CASE AdapterGone
  BY <1>4 DEF AdapterGone, KernelInv, TypeOK, Adapter
<1> QED  BY <1>1, <1>2, <1>3, <1>4 DEF Environment

(* Whatever the faults and however many the hooks, the kernel polls only   *)
(* while it has no address.                                                *)
LEMMA HookKernel ==
    ASSUME TypeOK, KernelInv, NEW h \in Hooks, Hook(h)
    PROVE  KernelInv'
<1>1. CASE Set(h)
  BY <1>1, SetKernel, DeviceKernel DEF Set, device
<1>2. CASE Clear(h) \/ Reclear(h) \/ Recover(h)
  BY <1>2, DeviceKernel
     DEF Clear, Reclear, Recover, ClearLogAddrs, Reprobe, UnconfigureFails, device
<1>3. CASE Open(h) \/ Info(h) \/ Await(h) \/ Tunnel(h) \/ ReadPhys(h) \/ Begin(h)
  BY <1>3, DeviceKernel DEF Open, Info, Await, Tunnel, ReadPhys, Begin, device
<1>4. CASE \/ PollTv(h) \/ PollAudio(h) \/ AskPower(h) \/ AskSource(h) \/ AskAudio(h)
           \/ MakePlan(h) \/ Send(h) \/ Confirm(h)
  BY <1>4, DeviceKernel DEF PollTv, PollAudio, AskPower, AskSource, AskAudio, MakePlan, Send,
                            Confirm, device
<1> QED  BY <1>1, <1>2, <1>3, <1>4 DEF Hook

(* At the start no hook holds an address, nor believes to.                 *)
LEMMA TunnelInit == Init => TunnelInv
BY DEF Init, TunnelInv, KernelInv, RepairInv, Talking, Asking

(* A hook's own step keeps its part of the invariant.                      *)
LEMMA HookRepaired ==
    ASSUME Steady, TypeOK, NEW h \in Hooks, Repaired(h), Hook(h)
    PROVE  Repaired(h)'
<1>1. CASE Open(h)
  <2>1. pc'[h] \in {"info", "done"} /\ UNCHANGED adapter
    BY <1>1, Arrives DEF Open, device
  <2>2. KernelInv'
    BY <2>1 DEF Repaired, KernelInv
  <2> QED  BY <2>1, <2>2, IdleInv, BothInv
<1>2. CASE Clear(h)
  BY <1>2, ClearInv DEF Clear
<1>3. CASE Set(h)
  <2>1. CASE SetLogAddrs(h)
    BY <1>3, <2>1, SetInv DEF Set
  <2>2. CASE Ends(h, "traceback") /\ UNCHANGED device
    <3>1. KernelInv' /\ pc'[h] = "done"
      BY <2>2, Arrives DEF Repaired, KernelInv, device
    <3> QED  BY <3>1, IdleInv, BothInv
  <2> QED  BY <1>3, <2>1, <2>2 DEF Set
<1>4. CASE Info(h) \/ Reclear(h) \/ Await(h)
  BY <1>4, InfoInv, ReclearInv, AwaitInv
<1>5. CASE Tunnel(h) \/ Begin(h) \/ ReadPhys(h) \/ Recover(h)
  BY <1>5, RepairingInv, ReadPhysInv, RecoverInv
<1>6. CASE \/ PollTv(h) \/ PollAudio(h) \/ AskPower(h) \/ AskSource(h) \/ AskAudio(h)
           \/ MakePlan(h) \/ Send(h) \/ Confirm(h)
  BY <1>6, TalkingInv
<1> QED  BY <1>1, <1>2, <1>3, <1>4, <1>5, <1>6 DEF Hook

Undisturbed == Steady /\ \A g, h \in Hooks : g = h

(* Every step of the only hook, and of its adapter, keeps TunnelInv.       *)
LEMMA TunnelStep ==
    ASSUME Undisturbed, TypeOK, TunnelInv, [Next]_vars
    PROVE  TunnelInv'
<1>1. ASSUME NEW h \in Hooks, Hook(h) PROVE TunnelInv'
  BY <1>1, HookRepaired DEF Undisturbed, TunnelInv, Repaired
<1>2. CASE Environment
  <2>1. KernelInv'
    BY <1>2, EnvironmentKernel DEF Undisturbed, TunnelInv
  <2> QED  BY <1>2, <2>1, EnvironmentInv DEF Undisturbed, TunnelInv, Repaired
<1>3. CASE UNCHANGED vars
  BY <1>3 DEF vars, settings, device, self, TunnelInv, KernelInv, RepairInv, TunnelOpen
<1> QED  BY <1>1, <1>2, <1>3 DEF Next, AllDone

(* The invariant TLC checks is inductive: once a hook has repaired, the    *)
(* kernel is not waiting to claim under it.                                *)
THEOREM TunnelInvCorrect ==
    ASSUME Undisturbed
    PROVE  Spec => []TunnelInv
<1>1. Init => TypeOK /\ TunnelInv
  BY InitType, TunnelInit
<1>2. TypeOK /\ TunnelInv /\ [Next]_vars => (TypeOK /\ TunnelInv)'
  BY TypeStep, TunnelStep
<1> QED  BY <1>1, <1>2, PTL DEF Spec

(* With one hook that nothing resets from outside, a register that can be  *)
(* written and a kernel that lets go of an address when told to, no frame  *)
(* of ours ever leaves before the tunneling bit has been set again.        *)
THEOREM TunnelCorrect ==
    ASSUME Undisturbed
    PROVE  Spec => []TunnelBeforeTalk
<1>1. TunnelInv => TunnelBeforeTalk
  BY DEF TunnelInv, RepairInv, TunnelBeforeTalk
<1> QED  BY <1>1, TunnelInvCorrect, PTL
=============================================================================
