----------------------------- MODULE CecSystem -----------------------------
(***************************************************************************)
(* The hooks of one machine together: cec-hdmi-sleep.service runs          *)
(* `cec-hook off` before a suspend, cec-hdmi-resume.service runs           *)
(* `cec-hook on` after it, and the watcher runs `cec-hook on` at a press,  *)
(* all against one adapter and with no lock between them.  systemd kills   *)
(* a unit that outlives its TimeoutStartSec, and a hook that is running    *)
(* when the machine is suspended is frozen and goes on after the resume.   *)
(*                                                                         *)
(* A behaviour has one suspend.  One fault is added to those of CecHook:   *)
(*   "slow"  the kernel polls for an address longer than a hook waits      *)
(***************************************************************************)
EXTENDS CecHook

CONSTANTS
    Sleep,      \* the hook of cec-hdmi-sleep.service
    Resume      \* the hook of cec-hdmi-resume.service; all others are the watcher's

ASSUME SystemAssumption == {Sleep, Resume} \subseteq Hooks /\ Sleep # Resume

VARIABLES
    machine,    \* "up", "sleeping", "suspended", "resumed"
    started,    \* the hooks whose process has been created
    disturbed   \* history: hooks that ran beside another, were frozen or killed

systemVars == << vars, machine, started, disturbed >>

Running == {h \in started : pc[h] # "done"}

Starts(h) ==
    /\ h \notin started
    /\ started' = started \cup {h}
    /\ disturbed' = disturbed \cup IF Running = {} THEN {} ELSE Running \cup {h}

(* A press, which the watcher ignores while a wake of its own is running.  *)
Press(h) ==
    /\ h \notin {Sleep, Resume} /\ Running \subseteq {Sleep, Resume}
    /\ machine # "suspended"
    /\ Starts(h)
    /\ UNCHANGED << vars, machine >>

(* sleep.target: the unit is Before it and wanted by it.                   *)
GoToSleep ==
    /\ machine = "up"
    /\ machine' = "sleeping"
    /\ Starts(Sleep)
    /\ UNCHANGED vars

(* TimeoutStartSec is over, 15 s for the sleep unit and 150 s for the      *)
(* other; or the watcher's service is stopped, and its hook with it.       *)
Kill(h) ==
    /\ h \in Running /\ machine # "suspended"
    /\ Ends(h, "failed")
    /\ disturbed' = disturbed \cup {h}
    /\ UNCHANGED << settings, device, world, attempt, tries, la, pa, bus, plan, at, landed,
                    machine, started >>

(* The adapter loses power: at least the tunneling bit is gone.            *)
Suspend ==
    /\ machine = "sleeping" /\ pc[Sleep] = "done"
    /\ machine' = "suspended"
    /\ disturbed' = disturbed \cup Running
    /\ \/ dpcd' = FALSE /\ UNCHANGED adapter
       \/ ~adapter.gone /\ Reset
    /\ UNCHANGED << settings, world, self, started >>

(* Meanwhile people have used the TV as they liked.                        *)
Wake ==
    /\ machine = "suspended"
    /\ machine' = "resumed"
    /\ world' \in {w \in Rooms : w.receiver = "absent" <=> world.receiver = "absent"}
    /\ UNCHANGED << settings, device, self, started, disturbed >>

(* systemd-suspend.service has ended.                                      *)
StartResume ==
    /\ machine = "resumed"
    /\ Starts(Resume)
    /\ UNCHANGED << vars, machine >>

OnTime(h) ==
    pc[h] = "await" /\ tries[h] = Retries - 1 /\ adapter.busy => "slow" \in Faults

HookStep(h) ==
    /\ h \in Running /\ machine # "suspended" /\ OnTime(h)
    /\ Hook(h)
    /\ UNCHANGED << machine, started, disturbed >>

EnvironmentStep == Environment /\ UNCHANGED << machine, started, disturbed >>

SystemDone == Resume \in started /\ Running = {} /\ UNCHANGED systemVars

(* The machine has been up for a while: nothing is in motion.              *)
SystemInit ==
    /\ Init
    /\ world.power \in {"on", "standby"} /\ ~adapter.busy
    /\ \A h \in Hooks : command[h] = IF h = Sleep THEN "off" ELSE "on"
    /\ machine = "up" /\ started = {} /\ disturbed = {}

SystemNext ==
    \/ \E h \in Hooks : Press(h) \/ Kill(h) \/ HookStep(h)
    \/ GoToSleep \/ Suspend \/ Wake \/ StartResume
    \/ EnvironmentStep \/ SystemDone

SystemSpec == SystemInit /\ [][SystemNext]_systemVars

(* Processes are scheduled, systemd does what it was asked to, and the     *)
(* kernel gets through its poll for an address.                            *)
FairSystemSpec ==
    /\ SystemSpec
    /\ \A h \in Hooks : WF_systemVars(HookStep(h))
    /\ WF_systemVars(StartResume)
    /\ WF_systemVars(EnvironmentStep)

-----------------------------------------------------------------------------
(* Every variable stays in its domain.                                     *)
SystemTypeOK ==
    /\ TypeOK
    /\ machine \in {"up", "sleeping", "suspended", "resumed"}
    /\ started \subseteq Hooks /\ disturbed \subseteq started

(* On a bus that works, when all is quiet after a resume and every wake    *)
(* has exited 0, the picture is there: wakes of the watcher and of the     *)
(* resume unit may overlap, re-claim under each other and be frozen across *)
(* the suspend, and what one of them lost another has made good.           *)
WakesDeliverTogether ==
    /\ machine = "resumed" /\ Resume \in started /\ Running = {}
    /\ \A h \in started \ {Sleep} : verdict[h] = "ok"
    => OnScreen

(* A hook that nothing has disturbed never talks while the tunneling bit   *)
(* is off, whatever a hook before it was killed in the middle of, and      *)
(* although the suspend has cleared the bit under an address still held.   *)
TunnelAfterSuspend ==
    \A h \in Running \ disturbed :
        pc[h] \in Talking /\ la[h] # NoAddr /\ la[h] = adapter.addr => TunnelOpen

(* On a bus that works, the resume unit's wake ends after every resume,    *)
(* and when nothing disturbed it it has brought the picture back, whatever *)
(* a killed standby or an earlier wake left in the adapter and whatever    *)
(* the suspend did to it.                                                  *)
ResumeWakes ==
    machine = "resumed" ~> \/ Resume \in disturbed /\ pc[Resume] = "done"
                           \/ verdict[Resume] = "ok" /\ OnScreen
=============================================================================
