------------------------------ MODULE CecHook ------------------------------
(***************************************************************************)
(* cec-hook.py on | off: Controller of cec_control.py over CecDevice and   *)
(* DpcdTunneling, one process per member of Hooks, against one adapter and *)
(* one HDMI bus.  Every ioctl is a step of its own; what Python computes   *)
(* between two ioctls belongs to the step before it.                       *)
(*                                                                         *)
(* The adapter as the kernel keeps it, the TV and the receiver are not     *)
(* code of this repository.  They are modelled as the code uses them, and  *)
(* Faults says which of their misbehaviours may occur:                     *)
(*   "open"       the device node never appears or cannot be opened        *)
(*   "gone"       the adapter is unregistered: every later ioctl fails     *)
(*   "raise"      a transmit ioctl may fail with an errno of its own       *)
(*   "contended"  arbitration lost, low drive or a line error              *)
(*   "nack"       a device that is there does not acknowledge a frame      *)
(*   "silence"    a question is acknowledged and not answered              *)
(*   "late"       an <Active Source> said earlier is taken for the answer  *)
(*   "claim"      the kernel refuses to take a logical address, or finds   *)
(*                every candidate taken                                    *)
(*   "clear"      the kernel refuses to give one up ("always permitted")   *)
(*   "write"      DPCD 0x3001 cannot be written, or does not stick         *)
(*   "noedid"     the display is not probed: no physical address           *)
(*   "reset"      hotplug or resume resets the adapter behind our back     *)
(***************************************************************************)
EXTENDS WakePlan

CONSTANTS
    Hooks,      \* the cec-hook processes
    Configs,    \* the configurations to start from
    Hardware,   \* what DpcdTunneling may find: an AUX device, a DRM connector
    Commands,   \* what hooks may be started with, a subset of Command
    Faults,     \* see above
    Port,       \* the physical address of the HDMI port we are plugged into
    Rooms,      \* how the TV and the receiver may be found, a subset of World
    Retries     \* S_LOG_ADDRS_RETRIES, 5 in the code

Command == {"on", "off", "on --dry-run", "off --dry-run"}
World == [power : Power, screen : Phys \cup {NoPhys},
          receiver : {"absent", "off", "on"}, input : Phys \cup {NoPhys}]

ASSUME HookAssumption ==
    /\ Configs \subseteq Config
    /\ Hardware \subseteq [aux : BOOLEAN, connector : BOOLEAN]
    /\ Commands \subseteq Command
    /\ Port \in Phys
    /\ Retries \in Nat \ {0}
    /\ Rooms \subseteq World

VARIABLES
    config,     \* the Config every hook reads; the file is not edited meanwhile
    hw,         \* which of the AUX device and the DRM connector were found
    adapter,    \* the kernel's side of /dev/cec0
    dpcd,       \* bit 0 of DPCD 0x3001
    world,      \* the TV, the receiver and what the screen shows
    command,    \* per hook: its command line
    pc,         \* per hook: the next call it makes
    attempt,    \* per hook: 0 while the controller opens, then wake's attempt
    tries,      \* per hook: loop counter of CecDevice.configure
    la, pa,     \* per hook: CecDevice.logical_addr and .physical_addr
    bus,        \* per hook: the BusState of the current survey
    plan, at,   \* per hook: the plan, and the index of the frame to send next
    landed,     \* per hook: history, the indices acknowledged in this attempt
    verdict     \* per hook: how the process ended

settings == << config, hw, command >>
device == << adapter, dpcd >>
self == << pc, attempt, tries, la, pa, bus, plan, at, landed, verdict >>
vars == << settings, device, world, self >>

Claiming == {"info", "clear", "set", "reclear", "await", "tunnel", "phys"}
Asking == {"pollTv", "pollAudio", "askPower", "askSource", "askAudio"}
Talking == Asking \cup {"plan", "send", "confirm"}
Pc == Claiming \cup Talking \cup {"open", "begin", "recover", "done"}
Verdict == {"running", "ok", "failed", "traceback"}

Adapter == [addr : Addr \cup {NoAddr}, count : BOOLEAN, busy : BOOLEAN,
            matches : BOOLEAN, phys : {Port, NoPhys}, gone : BOOLEAN]

On(h) == command[h] \in {"on", "on --dry-run"}
DryRun(h) == command[h] \in {"on --dry-run", "off --dry-run"}

-----------------------------------------------------------------------------
(* The bus and the devices on it.                                          *)

Lit == world.power \in {"on", "toOn"}
TunnelOpen == hw.aux => dpcd

(* What becomes of a frame, as TxResult and CecError report it.            *)
Outcome(from, to, poll) ==
    IF adapter.gone THEN {"raise"}
    ELSE IF from = NoAddr       \* only a poll gets here, from address 15
    THEN IF adapter.addr = NoAddr THEN {"raise", "nack"} ELSE {"raise"}
    ELSE IF from # adapter.addr THEN {"raise"}
    ELSE {f \in {"raise", "contended"} : f \in Faults}
         \cup IF ~TunnelOpen THEN IF to = "all" THEN {"ok"} ELSE {"nack"}
              ELSE IF to = "audio" /\ world.receiver = "absent" THEN {"nack"}
              ELSE IF "nack" \in Faults \/ (to = "tv" /\ poll /\ ~Lit)
              THEN {"ok", "nack"} ELSE {"ok"}

(* An answer, given that the question met this outcome.                    *)
Answer(outcome, truth, none) ==
    IF outcome # "ok" \/ ~TunnelOpen THEN {none}
    ELSE {truth} \cup IF "silence" \in Faults THEN {none} ELSE {}

(* What an acknowledged frame does to the devices.  A TV that wakes up     *)
(* shows whatever it likes until somebody claims the input.                *)
Heard(w, f) ==
    LET awake == w.power \in {"on", "toOn"}
        wakes == /\ f.op \in {"ImageViewOn", "TextViewOn", "UserControlPressed"}
                 /\ f.to = "tv" /\ ~awake
        sleeps == {to \in {"tv", "audio"} : f.op = "Standby" /\ f.to \in {to, "all"}}
        plays == f.op = "SystemAudioModeRequest"
    IN  {v \in World :
            /\ v.power = IF wakes THEN "toOn"
                         ELSE IF awake /\ "tv" \in sleeps THEN "toStandby" ELSE w.power
            /\ wakes \/ v.screen =
                  IF f.op \in {"ActiveSource", "SetStreamPath"} THEN f.phys
                  ELSE IF f.op = "InactiveSource" THEN NoPhys ELSE w.screen
            /\ v.receiver = IF plays THEN "on"
                            ELSE IF w.receiver = "on" /\ "audio" \in sleeps THEN "off"
                            ELSE w.receiver
            /\ v.input = IF plays THEN f.phys ELSE w.input}

TvSettles ==
    /\ world.power \in {"toOn", "toStandby"}
    /\ world' = [world EXCEPT !.power = IF @ = "toOn" THEN "on" ELSE "standby"]
    /\ UNCHANGED << settings, device, self >>

-----------------------------------------------------------------------------
(* The kernel's side of the adapter.  Giving up an address and taking one  *)
(* both reset the dongle, which clears the tunneling bit.                  *)

KernelClaims ==
    /\ adapter.busy
    /\ \E a \in Addr \cup (IF "claim" \in Faults THEN {NoAddr} ELSE {}) :
          adapter' = [adapter EXCEPT !.busy = FALSE, !.addr = a]
    /\ dpcd' = FALSE
    /\ UNCHANGED << settings, world, self >>

(* A reset loses the address.  The kernel then claims again by itself, as  *)
(* it was configured or, when it was not, as its driver may choose to; the *)
(* EDID may not be back yet, and without it there is nothing to claim.     *)
Reconfigured ==
    {adapter} \cup {[adapter EXCEPT !.count = TRUE, !.matches = m] :
                       m \in IF adapter.count THEN {} ELSE BOOLEAN}

Reset ==
    /\ \E p \in {Port} \cup (IF "noedid" \in Faults THEN {NoPhys} ELSE {}), a \in Reconfigured :
          adapter' = [a EXCEPT !.addr = NoAddr, !.phys = p, !.busy = a.count /\ p # NoPhys]
    /\ dpcd' = FALSE

AdapterResets ==
    /\ "reset" \in Faults
    /\ ~adapter.gone
    /\ Reset
    /\ UNCHANGED << settings, world, self >>

AdapterGone ==
    /\ "gone" \in Faults
    /\ ~adapter.gone
    /\ adapter' = [adapter EXCEPT !.gone = TRUE, !.addr = NoAddr, !.busy = FALSE]
    /\ UNCHANGED << settings, dpcd, world, self >>

(* CEC_ADAP_S_LOG_ADDRS with no addresses.                                 *)
Unconfigure ==
    /\ ~adapter.gone
    /\ adapter' = [adapter EXCEPT !.addr = NoAddr, !.count = FALSE, !.busy = FALSE]
    /\ dpcd' = FALSE

UnconfigureFails ==
    /\ adapter.gone \/ "clear" \in Faults
    /\ UNCHANGED device

-----------------------------------------------------------------------------
(* How a hook's process ends, and how a failed claim is handled: open()    *)
(* lets the CecError through to main, _recover logs it and goes on.        *)

Ends(h, how) ==
    /\ pc' = [pc EXCEPT ![h] = "done"]
    /\ verdict' = [verdict EXCEPT ![h] = how]

Goto(h, where) ==
    /\ pc' = [pc EXCEPT ![h] = where]
    /\ UNCHANGED verdict

ClaimFails(h) == IF attempt[h] = 0 THEN Ends(h, "failed") ELSE Goto(h, "begin")

(* CecDevice.wait_for_device, CecDevice.open, DpcdTunneling().             *)
Open(h) ==
    /\ pc[h] = "open"
    /\ \/ ~adapter.gone /\ Goto(h, "info")
       \/ (adapter.gone \/ "open" \in Faults) /\ Ends(h, "failed")
    /\ UNCHANGED << settings, device, world, attempt, tries, la, pa, bus, plan, at, landed >>

(* CecDevice.configure: look at what the adapter holds.                    *)
Info(h) ==
    /\ pc[h] = "info"
    /\ tries' = [tries EXCEPT ![h] = 0]
    /\ \/ /\ adapter.gone
          /\ ClaimFails(h)
          /\ UNCHANGED la
       \/ /\ ~adapter.gone /\ adapter.addr # NoAddr /\ adapter.matches
          /\ la' = [la EXCEPT ![h] = adapter.addr]
          /\ Goto(h, "tunnel")
       \/ /\ ~adapter.gone /\ ~(adapter.addr # NoAddr /\ adapter.matches)
          /\ Goto(h, IF adapter.count THEN "clear" ELSE "set")
          /\ UNCHANGED la
    /\ UNCHANGED << settings, device, world, attempt, pa, bus, plan, at, landed >>

(* clear_log_addrs(), an error of which is a CecError.                     *)
ClearLogAddrs(h, next) ==
    \/ /\ Unconfigure
       /\ la' = [la EXCEPT ![h] = NoAddr]
       /\ Goto(h, next)
    \/ /\ UnconfigureFails
       /\ ClaimFails(h)
       /\ UNCHANGED la

Clear(h) ==
    /\ pc[h] = "clear"
    /\ ClearLogAddrs(h, "set")
    /\ UNCHANGED << settings, world, attempt, tries, pa, bus, plan, at, landed >>

(* CEC_ADAP_S_LOG_ADDRS: taken at once, taken and still polling for a free *)
(* address, taken in vain, refused with EBUSY, or refused for good.        *)
SetLogAddrs(h) ==
    \/ /\ ~adapter.gone /\ ~adapter.busy /\ adapter.addr = NoAddr
       /\ \E a \in Addr \cup {NoAddr}, polling \in BOOLEAN :
             /\ adapter.phys = NoPhys => a = NoAddr /\ ~polling
             /\ a # NoAddr => ~polling
             /\ a = NoAddr /\ ~polling => adapter.phys = NoPhys \/ "claim" \in Faults
             /\ adapter' = [adapter EXCEPT !.addr = a, !.busy = polling,
                                           !.count = TRUE, !.matches = TRUE]
             /\ la' = [la EXCEPT ![h] = a]
             /\ Goto(h, IF a = NoAddr THEN "await" ELSE "tunnel")
       /\ dpcd' = FALSE
       /\ tries' = [tries EXCEPT ![h] = 0]
    \/ /\ ~adapter.gone /\ (adapter.busy \/ adapter.addr # NoAddr)
       /\ IF tries[h] = Retries - 1 THEN ClaimFails(h) ELSE Goto(h, "reclear")
       /\ UNCHANGED << device, la, tries >>
    \/ /\ adapter.gone \/ "claim" \in Faults
       /\ ClaimFails(h)
       /\ UNCHANGED << device, la, tries >>

(* The payload is packed first, and int(vendor_id) may raise ValueError.   *)
Set(h) ==
    /\ pc[h] = "set"
    /\ IF config.vendor_id = "usable" THEN SetLogAddrs(h)
       ELSE Ends(h, "traceback") /\ UNCHANGED << device, la, tries >>
    /\ UNCHANGED << settings, world, attempt, pa, bus, plan, at, landed >>

(* After EBUSY: clear_log_addrs(ignore_errors=True), and try again.        *)
Reclear(h) ==
    /\ pc[h] = "reclear"
    /\ Unconfigure \/ UnconfigureFails
    /\ la' = [la EXCEPT ![h] = NoAddr]
    /\ tries' = [tries EXCEPT ![h] = @ + 1]
    /\ Goto(h, "set")
    /\ UNCHANGED << settings, world, attempt, pa, bus, plan, at, landed >>

AwaitOnce(h) ==             \* mutant: the address must be there at the first look
    /\ pc[h] = "await"
    /\ tries' = [tries EXCEPT ![h] = @ + 1]
    /\ la' = [la EXCEPT ![h] = IF adapter.gone THEN @ ELSE adapter.addr]
    /\ IF adapter.gone \/ adapter.addr = NoAddr THEN ClaimFails(h) ELSE Goto(h, "tunnel")
    /\ UNCHANGED << settings, device, world, attempt, pa, bus, plan, at, landed >>

(* Polling read_log_addrs until an address settles.                        *)
Await(h) ==
    /\ pc[h] = "await"
    /\ tries' = [tries EXCEPT ![h] = @ + 1]
    /\ la' = [la EXCEPT ![h] = IF adapter.gone THEN @ ELSE adapter.addr]
    /\ IF adapter.gone THEN ClaimFails(h)
       ELSE IF adapter.addr # NoAddr THEN Goto(h, "tunnel")
       ELSE IF tries[h] = Retries - 1 THEN ClaimFails(h)
       ELSE Goto(h, "await")
    /\ UNCHANGED << settings, device, world, attempt, pa, bus, plan, at, landed >>
-----------------------------------------------------------------------------
(* DpcdTunneling.ensure_enabled, whose result neither caller looks at.     *)
EnsureEnabled ==
    \/ ~hw.aux /\ UNCHANGED dpcd
    \/ hw.aux /\ dpcd' = TRUE
    \/ hw.aux /\ ~dpcd /\ "write" \in Faults /\ UNCHANGED dpcd

(* The end of _claim_address, from read_phys_addr.                         *)
Ready(h) ==
    /\ Goto(h, IF On(h) THEN "begin" ELSE "pollTv")
    /\ attempt' = [attempt EXCEPT ![h] = IF @ = 0 THEN 1 ELSE @]

TunnelTooEarly(h) ==        \* mutant: the repair ran before the claim, not after
    /\ pc[h] = "tunnel"
    /\ Goto(h, "phys")
    /\ UNCHANGED << settings, device, world, attempt, tries, la, pa, bus, plan, at, landed >>

Tunnel(h) ==
    /\ pc[h] = "tunnel"
    /\ EnsureEnabled
    /\ Goto(h, "phys")
    /\ UNCHANGED << settings, adapter, world, attempt, tries, la, pa, bus, plan, at, landed >>

ReadPhys(h) ==
    /\ pc[h] = "phys"
    /\ pa' = [pa EXCEPT ![h] = IF adapter.gone THEN @ ELSE adapter.phys]
    /\ IF adapter.gone \/ adapter.phys = NoPhys
       THEN ClaimFails(h) /\ UNCHANGED attempt
       ELSE Ready(h)
    /\ UNCHANGED << settings, device, world, tries, la, bus, plan, at, landed >>

(* The head of wake's loop.                                                *)
Begin(h) ==
    /\ pc[h] = "begin"
    /\ EnsureEnabled
    /\ Goto(h, "pollTv")
    /\ UNCHANGED << settings, adapter, world, attempt, tries, la, pa, bus, plan, at, landed >>

-----------------------------------------------------------------------------
(* Controller.survey, one question at a time.  A CecError from transmit    *)
(* leaves wake and standby through main; so does the TypeError of a frame  *)
(* built with no address of our own, which main does not catch.            *)
Question(h, to) ==
    IF la[h] = NoAddr THEN {"typeError"} ELSE Outcome(la[h], to, FALSE)

Breaks(h, outcome) ==
    /\ outcome \in {"raise", "typeError"}
    /\ Ends(h, IF outcome = "raise" THEN "failed" ELSE "traceback")
    /\ UNCHANGED bus

AfterPolls(h, present) ==
    IF ~On(h) THEN "plan" ELSE IF present THEN "askPower" ELSE "askSource"

PollTv(h) ==
    /\ pc[h] = "pollTv"
    /\ \E outcome \in Outcome(la[h], "tv", TRUE) :
          \/ Breaks(h, outcome)
          \/ /\ outcome # "raise"
             /\ bus' = [bus EXCEPT ![h] = [NewBusState(la[h], pa[h])
                            EXCEPT !.tv_present = (outcome = "ok")]]
             /\ Goto(h, IF config.wake_audio \/ config.standby_audio THEN "pollAudio"
                        ELSE AfterPolls(h, outcome = "ok"))
    /\ UNCHANGED << settings, device, world, attempt, tries, la, pa, plan, at, landed >>

PollAudio(h) ==
    /\ pc[h] = "pollAudio"
    /\ \E outcome \in Outcome(la[h], "audio", TRUE) :
          \/ Breaks(h, outcome)
          \/ /\ outcome # "raise"
             /\ bus' = [bus EXCEPT ![h].audio_present = (outcome = "ok")]
             /\ Goto(h, AfterPolls(h, bus[h].tv_present))
    /\ UNCHANGED << settings, device, world, attempt, tries, la, pa, plan, at, landed >>

AskPower(h) ==
    /\ pc[h] = "askPower"
    /\ \E outcome \in Question(h, "tv") :
          \/ Breaks(h, outcome)
          \/ /\ outcome \notin {"raise", "typeError"}
             /\ \E answer \in Answer(outcome, world.power, Silent) :
                   bus' = [bus EXCEPT ![h].tv_power = answer]
             /\ Goto(h, "askSource")
    /\ UNCHANGED << settings, device, world, attempt, tries, la, pa, plan, at, landed >>

(* wait_for takes the first <Active Source> of the follower queue, which   *)
(* may have been waiting there since before the question.                  *)
Queued == IF "late" \in Faults THEN Phys ELSE {}

(* transmit, its result ignored, and then wait_for an <Active Source>.     *)
AskSource(h) ==
    /\ pc[h] = "askSource"
    /\ \E outcome \in Question(h, "all") :
          \/ Breaks(h, outcome)
          \/ /\ outcome \notin {"raise", "typeError"}
             /\ \E answer \in Answer(outcome, world.screen, NoPhys) \cup Queued :
                   bus' = [bus EXCEPT ![h].active_source = answer]
             /\ Goto(h, IF bus[h].audio_present THEN "askAudio" ELSE "plan")
    /\ UNCHANGED << settings, device, world, attempt, tries, la, pa, plan, at, landed >>

AskAudio(h) ==
    /\ pc[h] = "askAudio"
    /\ \E outcome \in Question(h, "audio") :
          \/ Breaks(h, outcome)
          \/ /\ outcome \notin {"raise", "typeError"}
             /\ \E answer \in Answer(outcome, IF world.receiver = "on" THEN "on" ELSE "off",
                                     Silent) :
                   bus' = [bus EXCEPT ![h].audio_mode = answer]
             /\ Goto(h, "plan")
    /\ UNCHANGED << settings, device, world, attempt, tries, la, pa, plan, at, landed >>

-----------------------------------------------------------------------------
MakePlanSendAnyway(h) ==    \* mutant: an empty plan is sent like any other
    LET frames == IF On(h) THEN PlanWake(config, bus[h]) ELSE PlanStandby(config, bus[h])
    IN  /\ pc[h] = "plan"
        /\ plan' = [plan EXCEPT ![h] = frames]
        /\ at' = [at EXCEPT ![h] = 1]
        /\ landed' = [landed EXCEPT ![h] = {}]
        /\ IF DryRun(h) THEN Ends(h, "ok") ELSE Goto(h, "send")
        /\ UNCHANGED << settings, device, world, attempt, tries, la, pa, bus >>

(* The middle of wake and standby: plan, and stop here if there is nothing *)
(* to send or nothing is to be sent.                                       *)
MakePlan(h) ==
    LET frames == IF On(h) THEN PlanWake(config, bus[h]) ELSE PlanStandby(config, bus[h])
    IN  /\ pc[h] = "plan"
        /\ IF \E i \in DOMAIN frames : ~Buildable(frames[i])
           THEN Ends(h, "traceback") /\ UNCHANGED << plan, at, landed >>
           ELSE /\ plan' = [plan EXCEPT ![h] = frames]
                /\ at' = [at EXCEPT ![h] = 1]
                /\ landed' = [landed EXCEPT ![h] = {}]
                /\ IF frames = << >> \/ DryRun(h) THEN Ends(h, "ok") ELSE Goto(h, "send")
        /\ UNCHANGED << settings, device, world, attempt, tries, la, pa, bus >>

SendReturnsOneMore(h, ok) ==    \* mutant: one attempt too many
    IF ok
    THEN (IF On(h) THEN Goto(h, "confirm") ELSE Ends(h, "ok")) /\ UNCHANGED attempt
    ELSE IF On(h) /\ attempt[h] <= config.wake_attempts
    THEN Goto(h, "recover") /\ attempt' = [attempt EXCEPT ![h] = @ + 1]
    ELSE Ends(h, "failed") /\ UNCHANGED attempt

SendReturnsForever(h, ok) ==    \* mutant: attempts are not counted
    /\ IF ok THEN IF On(h) THEN Goto(h, "confirm") ELSE Ends(h, "ok")
       ELSE IF On(h) THEN Goto(h, "recover") ELSE Ends(h, "failed")
    /\ UNCHANGED attempt

(* send() returned True, or False.                                         *)
SendReturns(h, ok) ==
    IF ok
    THEN /\ IF On(h) THEN Goto(h, "confirm") ELSE Ends(h, "ok")
         /\ UNCHANGED attempt
    ELSE IF On(h) /\ attempt[h] < config.wake_attempts
    THEN /\ Goto(h, "recover")
         /\ attempt' = [attempt EXCEPT ![h] = @ + 1]
    ELSE Ends(h, "failed") /\ UNCHANGED attempt

ShrugAnyNack(frame, outcome) == \* mutant: a refusal never matters
    outcome = "nack" \/ ~frame.required

(* A frame that did not get through and does not matter: a refused         *)
(* broadcast, or one that is not required.                                 *)
Shrug(frame, outcome) == (frame.to = "all" /\ outcome = "nack") \/ ~frame.required

(* One turn of send()'s loop.                                              *)
Send(h) ==
    LET frame == plan[h][at[h]]
        Onward == IF at[h] = Len(plan[h]) THEN SendReturns(h, TRUE)
                 ELSE Goto(h, "send") /\ UNCHANGED attempt
    IN  /\ pc[h] = "send"
        /\ \E outcome \in IF frame.op = "refused" THEN {"raise"}
                          ELSE Outcome(la[h], frame.to, FALSE) :
              /\ world' \in IF outcome = "ok" /\ TunnelOpen THEN Heard(world, frame)
                            ELSE {world}
              /\ landed' = [landed EXCEPT ![h] =
                              IF outcome = "ok" THEN @ \cup {at[h]} ELSE @]
              /\ at' = [at EXCEPT ![h] = @ + 1]
              /\ IF outcome = "raise" THEN Ends(h, "failed") /\ UNCHANGED attempt
                 ELSE IF outcome = "ok" \/ Shrug(frame, outcome) THEN Onward
                 ELSE SendReturns(h, FALSE)
        /\ UNCHANGED << settings, device, tries, la, pa, bus, plan >>

(* _confirm asks for the power status and only reports it.                 *)
Confirm(h) ==
    /\ pc[h] = "confirm"
    /\ \E outcome \in Outcome(la[h], "tv", FALSE) :
          Ends(h, IF outcome = "raise" THEN "failed" ELSE "ok")
    /\ UNCHANGED << settings, device, world, attempt, tries, la, pa, bus, plan, at, landed >>

(* DpcdTunneling.reprobe_connector: "off" and then "detect".  Without a    *)
(* connector nothing is written; a failed write leaves the rest undone.    *)
Reprobe ==
    \/ ~hw.connector /\ UNCHANGED device
    \/ hw.connector /\ ~adapter.gone /\ Reset
    \/ hw.connector /\ ("write" \in Faults \/ adapter.gone) /\ UNCHANGED device

RecoverTrustsKernel(h) ==   \* mutant: no claim of our own after a re-probe
    /\ pc[h] = "recover"
    /\ IF attempt[h] <= 3 THEN ClearLogAddrs(h, "info")
       ELSE Reprobe /\ Goto(h, "begin") /\ UNCHANGED la
    /\ UNCHANGED << settings, world, attempt, tries, pa, bus, plan, at, landed >>

(* _recover: re-claim at attempts 2 and 3, re-probe from attempt 4.        *)
Recover(h) ==
    /\ pc[h] = "recover"
    /\ IF attempt[h] <= 3 THEN ClearLogAddrs(h, "info")
       ELSE Reprobe /\ Goto(h, "info") /\ UNCHANGED la
    /\ UNCHANGED << settings, world, attempt, tries, pa, bus, plan, at, landed >>

-----------------------------------------------------------------------------
Init ==
    /\ config \in Configs
    /\ hw \in Hardware
    /\ command \in [Hooks -> Commands]
    /\ adapter \in {a \in Adapter :
          /\ ~a.gone
          /\ a.addr # NoAddr => a.count /\ ~a.busy /\ a.phys # NoPhys
          /\ a.busy => a.count /\ a.phys # NoPhys
          /\ a.phys = NoPhys => "noedid" \in Faults
          /\ a.matches => a.count}
    /\ dpcd \in BOOLEAN
    /\ world \in Rooms
    /\ pc = [h \in Hooks |-> "open"]
    /\ attempt = [h \in Hooks |-> 0]
    /\ tries = [h \in Hooks |-> 0]
    /\ la = [h \in Hooks |-> NoAddr]
    /\ pa = [h \in Hooks |-> NoPhys]
    /\ bus = [h \in Hooks |-> NewBusState(NoAddr, NoPhys)]
    /\ plan = [h \in Hooks |-> << >>]
    /\ at = [h \in Hooks |-> 1]
    /\ landed = [h \in Hooks |-> {}]
    /\ verdict = [h \in Hooks |-> "running"]

Hook(h) ==
    \/ Open(h) \/ Info(h) \/ Clear(h) \/ Set(h) \/ Reclear(h) \/ Await(h)
    \/ Tunnel(h) \/ ReadPhys(h) \/ Begin(h)
    \/ PollTv(h) \/ PollAudio(h) \/ AskPower(h) \/ AskSource(h) \/ AskAudio(h)
    \/ MakePlan(h) \/ Send(h) \/ Confirm(h) \/ Recover(h)

Environment == TvSettles \/ KernelClaims \/ AdapterResets \/ AdapterGone

AllDone == (\A h \in Hooks : pc[h] = "done") /\ UNCHANGED vars

Next == (\E h \in Hooks : Hook(h)) \/ Environment \/ AllDone

Spec == Init /\ [][Next]_vars

(* The processes are scheduled: a hook always takes its next step.         *)
FairSpec == Spec /\ \A h \in Hooks : WF_vars(Hook(h))

-----------------------------------------------------------------------------
(***************************************************************************)
(* Properties.                                                             *)
(***************************************************************************)

IndexInPlan == \A h \in Hooks : pc[h] = "send" => at[h] \in DOMAIN plan[h]

(* Every variable stays in its domain; the plan is a sequence of frames    *)
(* and the index of the next one never runs past its end by more than one. *)
TypeOK ==
    /\ config \in Config
    /\ hw \in [aux : BOOLEAN, connector : BOOLEAN]
    /\ adapter \in Adapter
    /\ dpcd \in BOOLEAN
    /\ world \in World
    /\ command \in [Hooks -> Command]
    /\ pc \in [Hooks -> Pc]
    /\ attempt \in [Hooks -> Nat]
    /\ tries \in [Hooks -> Nat]
    /\ la \in [Hooks -> Addr \cup {NoAddr}]
    /\ pa \in [Hooks -> Phys \cup {NoPhys}]
    /\ bus \in [Hooks -> BusState]
    /\ plan \in [Hooks -> Seq(Frame)]
    /\ at \in [Hooks -> Nat \ {0}]
    /\ landed \in [Hooks -> SUBSET Nat]
    /\ verdict \in [Hooks -> Verdict]
    /\ IndexInPlan

(* What a wake is for: the devices it may touch are awake, show us, and    *)
(* play our sound.                                                         *)
OnScreen ==
    /\ config.wake_tv => Lit
    /\ config.claim_source => world.screen = Port

OnScreenWithSound ==
    /\ OnScreen
    /\ config.wake_audio /\ world.receiver # "absent" =>
          /\ world.receiver = "on"
          /\ config.claim_source => world.input = Port

(* On a bus that works, a wake that exits 0 has brought up everything it   *)
(* is allowed to bring up: the claim came after the wake, and the receiver *)
(* followed the claim.                                                     *)
WakeDelivers ==
    \A h \in Hooks : command[h] = "on" /\ verdict[h] = "ok" => OnScreenWithSound

(* On a bus that works, a wake finding everything in place sends nothing.  *)
QuietWhenDone ==
    \A h \in Hooks :
        /\ command[h] = "on" /\ pc[h] = "send" /\ at[h] = 1
        /\ ~config.force_all_frames /\ config.extra_wake_frames = << >>
        => ~OnScreenWithSound

(* On a bus that works, a standby that exits 0 has put to sleep what it    *)
(* was configured to put to sleep.                                         *)
StandbyDelivers ==
    \A h \in Hooks : command[h] = "off" /\ verdict[h] = "ok" =>
        /\ config.standby_tv \/ config.standby_broadcast => ~Lit
        /\ config.standby_audio \/ config.standby_broadcast => world.receiver # "on"

(* Exit status 0 of a real run means every required frame of the plan it   *)
(* ended with was acknowledged, whatever was lost or retried before.       *)
RequiredLanded ==
    \A h \in Hooks : verdict[h] = "ok" /\ ~DryRun(h) =>
        \A i \in DOMAIN plan[h] : plan[h][i].required => i \in landed[h]

(* Whatever was lost, retried or answered late, a real wake that exits 0   *)
(* leaves the TV awake or waking up, if it may wake it: nothing heard of   *)
(* the picture stands in for the TV's own word on its power.  (The user's  *)
(* own frames put no TV to sleep: ExtraOp has no <Standby>.)               *)
WakeLights ==
    \A h \in Hooks :
        command[h] = "on" /\ verdict[h] = "ok" /\ config.wake_tv => Lit

(* On a bus with no receiver nothing is ever planned for address 5,        *)
(* whatever is forced or tried again.                                      *)
AbsentReceiverUntouched ==
    \A h \in Hooks : pc[h] = "send" /\ world.receiver = "absent" =>
        \A i \in DOMAIN plan[h] : plan[h][i].to # "audio"

(* With one hook, a writable register and no reset from outside, the       *)
(* tunneling bit is on whenever the hook holding an address talks: every   *)
(* change of address is followed by a repair before the next frame.        *)
TunnelBeforeTalk ==
    \A h \in Hooks : pc[h] \in Talking /\ la[h] # NoAddr /\ la[h] = adapter.addr
                     => TunnelOpen

(* The kernel polls for an address only while it has none to offer, and    *)
(* only if it was told to; an adapter that is gone does neither.           *)
KernelInv ==
    /\ adapter.addr # NoAddr => ~adapter.busy
    /\ adapter.busy => adapter.count
    /\ adapter.gone => adapter.addr = NoAddr /\ ~adapter.busy

(* The bit is also on when the repair is done and the physical address is  *)
(* still to be read; a hook that believes it holds an address is not       *)
(* waiting for the kernel to find one, which would clear the bit.          *)
RepairInv(h) ==
    /\ pc[h] \in Talking \cup {"phys"} /\ la[h] # NoAddr /\ la[h] = adapter.addr
       => TunnelOpen
    /\ pc[h] \in Talking \cup {"phys", "begin", "tunnel", "set", "reclear"}
       /\ la[h] # NoAddr => ~adapter.busy
    /\ pc[h] = "await" => la[h] = NoAddr

(* The inductive form of TunnelBeforeTalk: the kernel never claims under   *)
(* a hook that repaired, so the bit a repair set is still set when the     *)
(* hook talks.                                                             *)
TunnelInv == KernelInv /\ \A h \in Hooks : RepairInv(h)

(* Every hook ends: neither the EBUSY loop, nor the wait for an address,   *)
(* nor the attempts of a wake go on for ever.                              *)
Terminates == \A h \in Hooks : <>(pc[h] = "done")

-----------------------------------------------------------------------------
(* Every run of cec-hook keeps the contract of HookContract.               *)
Phase(h) ==
    CASE pc[h] = "done" -> "done"
      [] pc[h] \in {"send", "confirm"} -> "telling"
      [] pc[h] \in Asking \cup {"begin", "plan"} -> "asking"
      [] OTHER -> IF attempt[h] = 0 THEN "opening" ELSE "repairing"

Owed(h) ==
    IF (Phase(h) = "telling" \/ verdict[h] = "ok") /\ ~DryRun(h)
    THEN {i \in DOMAIN plan[h] : plan[h][i].required} \ landed[h] ELSE {}

Contract(h) == INSTANCE HookContract WITH
    phase <- Phase(h), round <- attempt[h], owed <- Owed(h), result <- verdict[h],
    limit <- IF On(h) THEN config.wake_attempts ELSE 1

(* An action property and an initial condition: each hook asks, tells,     *)
(* repairs and ends only in the order the contract allows, succeeds only   *)
(* when nothing is owed, and never tells more often than wake_attempts.    *)
KeepsContract ==
    /\ \A h \in Hooks : Contract(h)!Init
    /\ [][\A h \in Hooks : [Contract(h)!Next]_(Contract(h)!vars)]_vars
=============================================================================
