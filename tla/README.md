# A verification of steam-hdmi-cec

TLA+ models of the program that wakes and puts to sleep a TV over HDMI-CEC, TLC
configurations that check them on small instances, and TLAPS proofs of what
matters most for every instance. The reference is the code under `src/src`; paths
below are relative to `src/`.

## The system

| part | state it keeps | operations | talks to |
| --- | --- | --- | --- |
| **Hook** `src/cec-hook.py`, `Controller` of `src/cec_control.py` | logical and physical address, survey, plan, attempt | open, claim, survey, plan, send, confirm, recover | adapter, DPCD, TV and receiver |
| **Adapter claim** `CecDevice` of `src/cec_device.py` | descriptor, `logical_addr`, `physical_addr` | configure, clear, transmit, receive, poll | the kernel's CEC core |
| **Tunneling repair** `src/cec_dpcd.py` | AUX path, connector | ensure_enabled, reprobe_connector | DPCD 0x3001, DRM |
| **Frames** `src/cec_frames.py` | none | builders, parse_frame_spec | the plan |
| **Watcher** `src/cec-watch.py` | open devices, timers, in-progress flag, last trigger | scan, hotplug, read, debounce, run the hook, stop | kernel input and uevents; starts a hook per press |
| **Configuration** `src/cec_config.py` | values, problems | read, typed accessors | read by the hook and the watcher |
| **Log** `src/cec_log.py` | the log file and its backups | write, rotate | shared by every hook |
| **Units** `systemd/*.service` | none | start hooks at boot, sleep, resume, shutdown | hook, watcher |

How they interact. The watcher starts a hook as a process and waits for its end;
systemd starts hooks of its own. A hook owns the adapter only by convention: what
it believes (`logical_addr`) and what the kernel holds can part company, because a
claim, a hotplug, a resume or another process changes the kernel's side. On a
DisplayPort dongle each such change also clears the tunneling bit, after which
directed frames are refused while everything else looks healthy.

What is hard: the order of claim and repair across retries; answers that are true
when given and stale when used; a step of several failing (each ioctl may raise, each
frame may be lost in three ways); bounded loops inside bounded loops; and for the
watcher, devices that come and go between looking and opening, datagrams that are
lost or late, mirrored presses, and a flag that must fall whatever the process does.

What makes each part correct:

- *Plan*: what is sent brings up everything allowed to be brought up, nothing when
  all is in place, and never addresses a receiver that did not answer.
- *Hook*: no frame before the repair; success only with every required frame
  acknowledged; every run ends; asking, telling and repairing only in the promised
  order and number.
- *Hooks together*: whatever a killed, frozen or overlapping hook and the suspend leave
  behind, the next hook repairs it before it talks, and the resume brings the picture.
- *Watcher*: one wake at a time and one per press; every connected controller ends
  up watched; no press is lost while the watcher is free; never deaf for good.
- *Log*: the recent lines, in order and without a gap; every file bounded.
- *Configuration, frames, lookup*: what the program runs with is what was written, or a
  problem is logged; an extra frame is one the bus takes; the device found is ours.

## Modules

| module | what it models |
| --- | --- |
| `WakePlan` | `BusState`, `plan_wake`, `plan_standby`, `_extra`, and when a frame builder raises `TypeError`; no state |
| `CecHook` | one process per member of `Hooks`: `Controller` over `CecDevice` and `DpcdTunneling`, with the kernel's adapter, the tunneling bit, the TV and the receiver as environment |
| `HookContract` | abstract specification of one run: it asks before it tells, repairs between attempts, owes nothing when it succeeds |
| `CecHookClaims` | what comments and documents say and the code does not do |
| `CecSystem` | composition: the hooks of `CecHook` as the sleep unit, the resume unit and the watcher start them, with systemd's kill and one suspend |
| `ControllerWatcher` | the asyncio loop of `cec-watch.py`, with devices, udev, uevents and hook processes as environment |
| `OneWake` | abstract specification of the watcher: one wake at a time, no more wakes than presses |
| `LogRotation` | `Logger.__call__` and `_rotate`, one action per system call, any number of processes on one file |
| `ConfigFile` | `read_config`, `_unquote`, `text`, `flag`, `number`, `button_codes` |
| `FrameSpec` | `parse_frame_spec`, `parse_frame_list` and the builders, down to the bytes |
| `DeviceNodes` | `parse_bitmap` against the kernel's printing; `find_connector`, `find_aux_device` |
| `Reading` | these three applied to given inputs |
| `MCCecHook`, `MCCecSystem`, `MCControllerWatcher`, `MCLogRotation`, `MCReading` | instances for TLC |
| `WakePlanProofs`, `CecHookProofs`, `CecHookSuccessProofs`, `CecHookDeliveryProofs`, `CecSystemProofs`, `LogRotationProofs`, `WatcherProofs`, `ReadingProofs` | theorems |

### CecHook and the code

One action is one ioctl (or one DPCD or DRM access) together with the Python that
follows it up to the next. `pc[h]` names the next call:

| pc | action | code |
| --- | --- | --- |
| open | `Open` | `wait_for_device`, `CecDevice.open`, `DpcdTunneling()` |
| info | `Info` | `log_addrs_info` and the decision to adopt, clear or set |
| clear, set, reclear, await | `Clear`, `Set`, `Reclear`, `Await` | the rest of `CecDevice.configure` |
| tunnel, phys | `Tunnel`, `ReadPhys` | the rest of `_claim_address` |
| begin | `Begin` | `ensure_enabled` at the head of wake's loop |
| pollTv ... askAudio | `PollTv` ... `AskAudio` | `survey` |
| plan | `MakePlan` | planning, the empty plan, the dry run |
| send | `Send` | one turn of `send`'s loop, and what follows its return |
| confirm | `Confirm` | `_confirm` |
| recover | `Recover` | `_recover` up to `_claim_address` |

`attempt` is 0 while the controller opens; a failed claim then leaves through `main`,
later it is logged and the attempt goes on (`ClaimFails`). `landed` is a history
variable. `device`, the pair of adapter and tunneling bit, changes in `Unconfigure`,
`SetLogAddrs`, `KernelClaims`, `Reset`, `AdapterGone` and `EnsureEnabled` only. After a
reset the kernel claims again by itself, as it was configured or, when it was not, as its
driver may choose to (the code says so of drivers, `src/cec_device.py:346`). `Outcome` lists what
a transmission may come to: acknowledged, refused, contended, or an exception.
`Faults` names the misbehaviour each run allows; the header of the module lists them.
`Rooms` is how the TV and the receiver may be found at the start. With the fault "late"
the question for the active source may be answered by an `<Active Source>` that somebody
said before it and that still waits in the follower queue (`Queued`,
`src/cec_device.py:500`); that queue is otherwise not kept.

Abstractions: frame bytes are a record; `send`'s gaps, the settle and the reply
timeouts take no time; `transmit` followed by `wait_for` in the active-source question
is one step, and an answer is the truth of that moment, nothing, or a late one; the TV shows
whatever it likes when it wakes; adapter discovery is the constant `Hardware`; the
configuration file does not change under a run.

### ControllerWatcher and the code

A callback runs to its end before the next, so `at` is "free" between callbacks; but
the world moves inside them, where the code looks first and opens afterwards
(`Scan`/`ScanOpens`, `Retry`/`RetryOpens`) and between two datagrams (`Drain`/`Drained`).
`node` is what is behind each path, with a new `id` for each device plugged in; a
descriptor in `opened` keeps the id it was opened on. `timers` counts the
`_try_add_path` calls to come. `tasks`, `children` and `ended` follow one `_run_hook`
from `create_task` through the process to the task's resumption. A batch of events is
the number of presses in it: after the first has started a wake, or stamped the
cooldown, the others are ignored (`OnPress`).

`CoolsDown` waits until what is unread has been read: `COOLDOWN_SECONDS` is seconds, the
loop's latency is milliseconds. The checked configurations have a cooldown above 0.

### CecSystem and the code

`CecSystem` EXTENDS `CecHook` and decides when its processes run. There is no lock
between them. `GoToSleep` and `StartResume` are the two units of `systemd/`; `Press`
is the watcher, reduced to its rule that it starts no wake while one of its own runs
(`OneWake` is what justifies the reduction). `Kill` is systemd at `TimeoutStartSec`, 15 s
for the sleep unit and 150 s for the other, or the stop of the watcher's service: it may
fall between any two calls. `Suspend` comes when the sleep unit has ended and freezes
whatever still runs; it clears the tunneling bit and may reset the adapter. `Wake` finds
the TV and receiver as people may have left them.

`started` says which processes exist. `disturbed` is a history: the hooks that ran
beside another, were frozen or were killed; the properties that need a hook to have been
left alone say so with it. `OnTime` leaves out, unless the fault "slow" is on, that the
kernel's poll for an address outlasts the last wait of a claim.

### LogRotation and the code

The hooks of a machine append to one file without a lock. `getsize`, `exists`, each
`replace`, the `remove` or last `replace`, `open` and `write` are actions of their own;
`slot[i]` is the inode at `path.i`, so a process may write to a file that another has
renamed since it was opened. `Lose` kills a process anywhere, and a new one takes its
place. Lines are numbered, so that order and gaps show; sizes count lines. The model
leaves out the echo to standard output (`src/cec_log.py:43`).

### ConfigFile, FrameSpec, DeviceNodes and the code

These are functions from inputs to results, with no state. `Reading` makes the inputs its
constants and each of them an initial state in which nothing happens; `MCReading` gives
it small ones. The loops of the code (`for line in handle`, `while value`, the list
comprehension over entries) are recursive functions of how far the loop has come. Five
keys stand for all, one per accessor: a free text, a flag, an integer, a number that may
be NaN, and the list of buttons. A value is a sequence of words; what `int()`, `float()`
and `int(token, 0)` make of them are constants, and characters are not modelled. `Unquote`
follows `_unquote` (`src/cec_config.py:104`) on what a line may hold. A text without quotes
loses its comment, and a text in quotes its quotes. A text in quotes with a comment behind
it keeps both quotes, which makes its first and last words spoilt; if the comment ends with
the same quote, the outer quotes go, the comment stays, and the quote inside is stuck to
the text's last word. `flag` and `number` take no spoilt word, `button_codes` takes the
others, `text` takes the value as it is. Frames are bytes. A word of a bitmap is its
number. Connectors have a card and a number, of which one may be a prefix of another
("DP-1", "DP-10"), or are the card's HDMI connector, whose name is in no other's path.

## Runs

| run | question | instance |
| --- | --- | --- |
| `hook_clean` | where frames are heard, does a wake deliver picture and sound, a standby sleep, and a wake in place silence? | an adapter that may be missing, vanish, fail to open, raise or refuse an address; every switch of a wake and of a standby, every combination of AUX and connector, every initial TV, receiver and adapter state, two ports |
| `hook_tunnel` | is the tunneling bit set before each frame, whatever fails in claiming? | up to 4 attempts (so both recoveries), dongle and plain HDMI |
| `hook_faults` | with all twelve faults: does exit 0 mean the required frames landed and the TV is not left asleep, is an absent receiver left alone, does the hook implement `HookContract`, do its loops end? | a two-attempt wake with the remote key, refused and unknown extra frames, a bad vendor id, all frames forced, standbys and dry runs |
| `system` | may hooks overlap, be killed and be frozen across a suspend, and the picture still come back? | one wake of the watcher's, one standby, one resume; 2 attempts with the receiver asked, 4 without |
| `watcher_promise` | does the watcher implement `OneWake`; does its flag tell the truth? | two nodes, two devices, two presses, mirrored or not |
| `watcher_live` | does every controller get watched, every press wake, every wake end? | one node that two devices may use in turn |
| `log_rotation` | do the recent lines stay, in order; does every file stay bounded? | two processes, 9 calls, limits of 0 to 2 lines, 0 to 3 backups |
| `reading` | is what the program reads what was written? | files of 2 lines over the five keys, each text with and without quotes and comment, lists of 2 frames, 9 bits in words of 2 to 4, two cards and up to two AUX devices |
| `claim_*` | refuted, one property each | see Findings |

Why these bounds are enough to see what matters. Two physical addresses tell "us" from
"somebody else"; `hook_faults`, whose properties do not ask who is shown, has one, and
starts with nothing in motion (`Settled`). Wakes of 2 attempts take the re-claim, of 4
the re-probe as well; what follows the fourth is the same as the fourth. `Retries = 2`
has a retry and a last try; the code's 5 only repeats the first. One logical address
suffices because no run compares two. Two devices on one path are the path reuse the
code must survive; two paths mirror one press; with `RetryDelays` 1 or 2 a retry fails
and another or a rescan succeeds. In `system` one press may come before, during or after
either unit; a second would meet what the first has met. In `log_rotation` nine calls
fill the log and rotate it through the largest number of backups, with lines to spare
for two kills; `Symmetry` swaps the two processes, which are alike.

`system` uses `SystemView`, which drops a variable of a hook while nothing will read it
before it is assigned again (a plan outside the send loop, the counter of a loop that is
over, everything of a process that has ended but its verdict). States equal in the view
have the same steps and the same value of every property of the run.

`watcher_*` and `log_rotation` switch deadlock checking off: a stopped watcher stops,
and a log is called no more than `MaxCalls` times. A hook's end is `AllDone`, a
system's `SystemDone`.

What the properties say that a reader might not expect. `WakesDeliverTogether` is about
the picture only: while two wakes overlap, the sound is asked for by one, and taken for
done by the other, at moments that need not agree. `KeepsRecent` holds while no two
processes log at a time: two that rotate one after the other drop more history than one
would. It counts full
files, less one for each rotation cut short (`cut`): a kill between two renames leaves a
gap that the next rotation shifts along. `Bounded` then bounds the damage of several
processes: each other one may add a line to a full file, and one more whenever a backup
moves that it was to move next, which ends its rotation (`Overshoot`).
`TunnelBeforeTalk` and `TunnelAfterSuspend` speak of a hook whose address is the one the
kernel holds; frames of any other are refused by the kernel itself.

### Fairness

Hooks: weak fairness of each process's next step, nothing of the environment. Every
wait of the code is bounded, so `Terminates` needs no more.

Watcher: asyncio runs every ready callback in turn, so a callback that keeps coming
back ready (a timer, the rescan, a readable descriptor) runs again and again: strong
fairness, because other callbacks disable it in between. Inside a callback
(`ScanOpens`, `RetryOpens`, `Drained`, `StartNetlink`) weak fairness is enough. Of
the world: udev gets to a node that stays (`Chmod`), and a hook process ends
(`ChildEnds`), which is `Terminates` of `CecHook`. Nothing is assumed of `Stop`,
`NetlinkFails`, plugging or pressing.

System: weak fairness of each hook's steps (the scheduler), of `StartResume` (systemd has
been asked to) and of the kernel's own steps, without which a hook could outrun an
address poll for ever. Nothing is assumed of presses, kills, suspend or resume:
`ResumeWakes` starts from a machine that has resumed.

## Proofs

Each theorem holds for every value of the constants that the named assumptions of its
module admit, with the further assumptions it states.

The hook, over every number of hooks, every configuration, fault set, address set and
retry bound:

- `TypeCorrect` (`CecHookProofs`): `Spec => []TypeOK`. `TypeOK` is inductive with one
  conjunct that is more than a type, `IndexInPlan`: a hook in its send loop has a frame
  to send. Planning starts the loop only with a non-empty plan, and `Send` goes on only
  below the end. The lemmas go action group by action group; `WakePlanProofs` gives that
  plans are plans: sequences of frames whose required ones are directed at one device.
- `TunnelCorrect` (`CecHookProofs`): `Spec => []TunnelBeforeTalk`, assuming `Undisturbed`:
  at most one hook, and `Steady`: no reset from outside, no failing register write, no
  refused release. Each is needed: with any of them TLC finds a hook that talks with the
  bit off. `TunnelBeforeTalk` is not inductive, since the bit could be cleared by a
  kernel claim just after the repair. `TunnelInv` adds that the kernel polls for an
  address only while it has none (`KernelInv`), that a hook which believes it has one is
  not waiting for the kernel (`RepairInv`, second conjunct), that waiting means believing
  in none (third), and that the bit is on already while the physical address is read.
  One lemma per action or group of alike actions says what it does to one hook's part
  (`Repaired`), so that the composition can use the same lemmas.
- `RequiredLandedCorrect` (`CecHookSuccessProofs`): `Spec => []RequiredLanded`.
  `LandedInv` adds what the loop knows on its way: in `Send`, every required frame below
  `at` has landed; in `Confirm`, all have; no verdict has fallen before the end. It needs
  one fact of the plan (`Directed`): a required frame is never a broadcast, so the
  refused broadcasts `send` shrugs at owe nothing. `OthersKeep` reduces each step to the
  hook that takes it, `AsideKeeps` disposes of the steps that neither plan nor send.
- `ContractCorrect` (`CecHookSuccessProofs`): `Spec => KeepsContract`, every run
  implements `HookContract`. Each step maps to one of its actions or to a stutter, given
  `LandedInv` (success owes nothing) and `RunInv`: only a process that claims or has
  ended has made no attempt, attempts stay within the limit, and what has landed is
  behind the frame to be sent next, so that what is owed only shrinks.
- `TunnelInvCorrect` (`CecHookProofs`): `Spec => []TunnelInv`, under the same assumption.
- `AbsentReceiverCorrect` (`CecHookDeliveryProofs`): `Spec => []AbsentReceiverUntouched`,
  assuming `OwnFramesSpareAudio`, that the user's own extra frames do not address the
  receiver. `ReceiverInv`: as long as there is none, no survey has found one and no
  plan, of whatever attempt, names it; and nothing makes a receiver go away.
- `WakeLightsCorrect` (`CecHookDeliveryProofs`): `Spec => []WakeLights` with every fault,
  assuming `NobodySleeps`: no hook is a standby, or there is only one hook. The user's own
  frames put no TV to sleep either: `ExtraOp` has no `<Standby>`. `Lightens`: a TV
  that said it is awake is, one that was told to wake does, a plan for a TV that is not has
  a required frame that tells it, and no frame of a wake's plan puts it out. That such a
  frame has landed when the wake exits 0 is `LandedInv`.
- `WakeShowsCorrect`, `WakeDeliversCorrect`, `StandbyDeliversCorrect` and
  `QuietWhenDoneCorrect` (`CecHookDeliveryProofs`): what a hook that nobody disturbs does to
  the room. They assume `Undisturbed`, as above; `Heeded`, no frame lost on the bus and no
  late answer (the adapter may still be missing, vanish, raise or refuse an address); and
  `OwnFramesHarmless`, that the user's own frames neither take the picture away nor wake a
  TV that is not to be woken. `WakeDelivers` needs `InStep` besides: a receiver that
  plays, plays what is on the screen when the hook starts. Without it `claim_input` is
  the counterexample, and `WakeShows` is what is left, the TV awake and showing us.
  `QuietWhenDone` needs `Answered`: a question without an answer is no sign of a TV that
  is on. The induction is over one wake or standby from claim to exit. `Stands`: with
  these faults a hook that talks holds the adapter's address, or the adapter is gone.
  `Seen`: what it believes of TV and receiver is so. `PictureOwed`, `SoundOwed` and
  `SleepOwed`: what is not there yet is brought by a frame still to be sent, and no frame
  behind it undoes it (`WakeFit`). That a plan made of what was seen owes everything is
  a fact about `plan_wake` and `plan_standby`; that a frame sent pays is one about `Heard`.

The system, over the same and any number of the watcher's hooks (`CecSystemProofs`):

- `SystemTypeCorrect` and `SystemRequiredLanded`: what a step of `CecHook` keeps, kills,
  starts, suspends and resumes keep.
- `SystemTunnelCorrect`: `SystemSpec => []TunnelAfterSuspend` under `Steady`. `AloneInv`: a
  hook that nothing has disturbed is the only one running and has kept its part of
  `TunnelInv`; a killed hook may leave the adapter in any state, and the next one has yet
  to open, where its part holds of every state.
- `WakesTogetherCorrect`: `SystemSpec => []WakesDeliverTogether`, for any number of wakes.
  Assumed: `Steady` and `Heeded`, as above; `"slow"` not among the faults, that the kernel
  ends its polling for an address before a hook stops waiting for it; and
  `WakeFramesHarmless`, the part of `OwnFramesHarmless` that is about wakes. The adapter may
  be missing, vanish, raise or refuse an address, hooks may be killed at any time, and what
  each wake believes of the room may be long out of date. So the invariant asks nothing of
  every wake's beliefs, only that one of them be in charge. `WakesInv`: whatever a wake saw,
  its plan is `Guided`, free of frames that take the picture elsewhere (`Astray`), and wakes
  the TV before it claims. `CaredFor`: while an address is being polled for, some running
  wake waits for it; while the register is closed, some running wake is about to mend it;
  and unless the picture is there, some running wake `Owes` it: it has yet to look, or has
  seen nothing in place that is not (`Sees`), or its plan still holds what is missing. A
  wake that fails to bring what it owes does not exit 0, and then nothing is promised, hence
  `Late`: all wakes have so far succeeded or are running. When none runs any more none owes,
  so the picture is there. TLC has checked `TogetherInv` on small systems with each of the
  failures that are left.

The watcher, over every number of nodes, devices, presses and retries:

- `WatcherTypeCorrect` (`WatcherProofs`): `Spec => []TypeOK`, whose part beyond types is
  that no press waits in a descriptor that was closed. `WatcherInv` adds that no
  descriptor holds more presses than were made.
- `HookRunningCorrect` (`WatcherProofs`): the flag is up exactly while one wake is
  under way. `Truth` counts the wake in whichever of `tasks`, `children` and `ended` it is.
- `PromiseCorrect` (`WatcherProofs`): `Spec => KeepsPromise`, the refinement of
  `OneWake`, assuming a cooldown in every configuration. `PressInv`: a press that waits
  while nothing is cooling has had no wake yet. It needs `CoolsDown` to wait for what is
  unread, the assumption named above; without a cooldown a mirrored press wakes twice.

The log, over every number of processes, limit and number of backups
(`LogRotationProofs`):

- `LogTypeCorrect`: `Spec => []TypeOK`; a rotation uses no backup number beyond `LOG_KEEP`.
- `LogBounded`: `Spec => []Bounded`, for any finite number of processes. While one logs at a
  time, `SoloInv`: a process about to open or write has found room. When they rotate under
  each other, `CrowdInv` counts: what a file holds and the writers that will still add to
  it (`Pending`) stay within the bound, and a full live log leaves room for those that have
  yet to look (`FullBound`). Each move of a backup may let every other process off its
  rotation once, hence the number of pairs of places in `Overshoot`.
- `LogKeepsRecent`: `Spec => []KeepsRecent`. `RecentInv`: the files are runs of consecutive
  lines, in order from the oldest backup to the log, and gaps among the places are no
  more than the rotations that were cut short, the place a running rotation has just
  emptied apart.

What is read, for inputs of any length (`ReadingProofs`): `ConfigIsHonestAlways`,
`ExtraFramesCorrect`, `ButtonsCorrect` and `AuxCorrect`, one for each property of the run
`reading`, from `InputsAssumption` and `TextAssumption`. Two of the properties say less than
their names. `HonestConfig` asks nothing of a free text whose quotes stay (it is taken with
them, and no problem is logged), nor of NaN but that the file says it. `AuxIsOurs` is about
machines where no connector's name starts with the adapter's and sysfs shows some AUX device
to be the connector's; it says nothing of an HDMI adapter. These need induction over data,
and a library theorem that takes the hypothesis as an operator is of no use to the
provers here. So the hypothesis is a set: `Least` (a set of naturals that is not empty has
a least element, from the well-foundedness of `<`), `Upwards` (a set that has 0 and, with a
number below n, the next, has all up to n) and `Recursion` (a first value and a step
define a function on `0 .. n`). From `Recursion` follows that the function a model defines
exists, hence that it obeys its own definition; from `Upwards`, what it computes.
`BitsReadBack` says that halving a word yields the bits it was made of, and stops only
when none is left; `BitmapRead` that the words, reversed, cover every bit once.
`InOrderStep` keeps the map from the frames so far to the entries they stand for;
`LineAfterLine` that a key has what the last line to assign it assigns, and `UnquoteHeard`
that unquoting spoils words only where quotes stay.

So every safety property of the passing runs is a theorem, and so are their
refinements. Only model-checked: liveness (`Terminates`, `ResumeWakes`,
`ConnectedGetsWatched`, `PressWakes`, `NeverDeaf`), which is out of the prover's reach.

## Findings

Each is a run TLC refutes, in a configuration a user may have.

- `claim_attempts`. `config/config.conf.default:107`: "How many times to survey, send
  and retry before giving up". A failed re-claim (`src/cec_control.py:455`) is only
  logged, and the hook goes on with no address. The first poll of the next survey goes out
  from address 15 (`src/cec_device.py:520`) on an adapter that is not configured, the kernel
  refuses it, and the `CecError` (`:468`) leaves through `main` (`src/cec-hook.py:147`): a wake
  of five attempts ends at its second. Were the poll let through, the `TypeError` of a
  `<Request Active Source>` built from no address would end the same attempt.
- `claim_acknowledged`. `src/cec_control.py:417` logs "wake sent and acknowledged"; with the
  TV on and a receiver that is not there, or whose poll was lost, the plan is a single
  `<Active Source>`, not required, and its loss to arbitration is reported that way. In the
  trace the TV shows us already and did not answer the question for the active source; it
  is the same when it shows another input.
- `claim_input`. `README.md:99`: "TV on and showing us, receiver pointed elsewhere | just
  the receiver request". `plan_wake` asks a receiver for nothing when system audio mode
  is on (`src/cec_control.py:272`), and the mode says nothing of the receiver's input.
- `claim_vendor`. `src/cec_config.py:13`: "A broken config must never stop a wake." A
  `VENDOR_ID` that is not a decimal number does, once a claim is needed, whether or
  not an old address was given up first.

More that reading shows, without a run:

- An extra frame the kernel refuses raises `CecError` (`src/cec_control.py:337`), though
  "nothing here can turn an otherwise successful wake into a failure"
  (`config/config.conf.default:136`).
- `FORCE_ALL_FRAMES` is said to skip the survey (`config/config.conf.default:88`) and `wake`
  surveys regardless.
- `_confirm` is said never to downgrade a success (`src/cec_control.py:408`) and a
  `CecError` in it does.
- Telling a sleeping TV to sleep is said to harm nothing (`src/cec_control.py:291`), and if
  that TV does not acknowledge, the receiver is not told.
- "{phys}" anywhere in an argument is said to become our physical address
  (`src/cec_frames.py:441`), and nothing substitutes it: in a raw frame it is refused as
  bytes that do not parse (`:457`).
- The last route to an AUX device is said to be right on any machine with a single
  DisplayPort output (`src/cec_dpcd.py:67`), and for an HDMI adapter beside one it takes
  that output's AUX device (`:95`); and "DP-1" is found in
  the path of "DP-10" (`:90`). `AuxIsOurs` excludes both machines.
- `COOLDOWN_SECONDS=nan` is neither refused nor clamped (`src/cec_config.py:170`), and no
  press is then ever within the cooldown. `NumberHonest` has no objection.
- Unparseable values are said to be replaced by their default with a problem logged
  (`src/cec_config.py:13`); `CEC_DEVICE="/dev/cec0" # x` is a path with quotes in it and no
  problem (`:104`, `:154`), and a `BUTTON_CODES` of three or more words in quotes with a
  comment behind it loses its first and last to the words complained of (`:192`).
- "the live log may overshoot by the one line that crossed the cap"
  (`tests/test_config.py:146`): by one line for every process that logs at the time, and
  more while they rotate.
- With late answers (`"late"`) `WakeDelivers` does not hold: a wake may believe that we
  are shown. Nothing in the repository promises otherwise.

## Not modelled

- Status and scan reports, `--detect`, `--monitor`, desktop notifications after a wake:
  output that no other part reads, or an interactive listener.
- The installer and its scripts: copying files and enabling services, by hand. What the
  units do around a suspend is in `CecSystem`.
- A remote key whose release is lost stays held on the TV (`src/cec_control.py:228`): the
  TV's state, unknown to the code, which reports such a wake as failed.
- What extra frames such as a `<Standby>` do to the room: who asks for it in a wake gets
  what was asked for. `ExtraOp` has a message that wakes the TV, two that route the picture,
  one the kernel refuses and one that does not parse; `FrameSpec` parses them all.
- A re-registered adapter is the same adapter, reset, or gone for good; that an old
  descriptor fails on a new adapter is the case "gone".
- The echo of the log to standard output, outside its `try` (`src/cec_log.py:43`).
- How the text of a configuration line or an extra frame is split into words.
- More than one suspend, and more than one adapter.

What is left of the program after this is text, reports and installation. The next step
for a reader who wants more would be a `CecSystem` with `ControllerWatcher` itself in
place of the watcher's rule, and what its wakes do for the sound as well as the picture.
