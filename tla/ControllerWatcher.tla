------------------------- MODULE ControllerWatcher -------------------------
(***************************************************************************)
(* ControllerWatcher of cec-watch.py: the daemon that opens every input    *)
(* device with a Home button and runs cec-hook when one is pressed.        *)
(*                                                                         *)
(* It is one asyncio loop.  A callback runs to its end before the next,    *)
(* but the kernel, udev and the people holding the controllers do not      *)
(* wait: where a callback looks at sysfs and then opens what it found, and *)
(* between two datagrams it drains, "at" keeps the callback's place.       *)
(*                                                                         *)
(* A device node is the path, the instance behind it (0: no node), what    *)
(* its capability bitmask says, and whether udev has made it accessible.   *)
(* An open descriptor belongs to an instance, not to a path.               *)
(***************************************************************************)
EXTENDS Naturals, Sequences

CONSTANTS
    Paths,          \* /dev/input/event*
    Configs,        \* configurations to start from
    RetryDelays,    \* how many times an announced node is tried, 3 in the code
    MaxPlugs,       \* bound: devices ever plugged in
    MaxPresses      \* bound: presses of a Home button

(* cooldown is whether COOLDOWN_SECONDS is above 0.                        *)
Config == [gamepad_only : BOOLEAN, dry_run : BOOLEAN, cooldown : BOOLEAN]

ASSUME WatcherAssumption ==
    /\ Configs \subseteq Config
    /\ RetryDelays \in Nat /\ MaxPlugs \in Nat \ {0} /\ MaxPresses \in Nat

VARIABLES
    config,
    node,           \* the device nodes
    plugs,          \* how many instances there have been
    presses,        \* history: how many presses there have been
    uevents,        \* datagrams waiting in the netlink socket
    at,             \* where the loop is
    listing,        \* what a scan or a retry has read in sysfs
    netlink,        \* is the uevent socket open
    stopping,       \* SIGTERM has come
    opened,         \* open_devices: the instance behind each path's descriptor
    unread,         \* presses waiting in each descriptor
    timers,         \* _try_add_path calls still to come
    hook_running, cooling,
    tasks,          \* _run_hook tasks yet to create their process
    children,       \* cec-hook processes
    ended,          \* processes gone whose task has not yet resumed
    wakes           \* history: how many wakes were started

world == << node, plugs, presses >>
input == << opened, unread >>
hooks == << hook_running, cooling, tasks, children, ended, wakes >>
vars == << config, world, uevents, at, listing, netlink, stopping, input, timers, hooks >>

Kind == {"pad", "home key", "other"}
Node == [id : 0 .. MaxPlugs, kind : Kind, ready : BOOLEAN]
Absent == [id |-> 0, kind |-> "other", ready |-> FALSE]
Present == {p \in Paths : node[p].id # 0}

Watchable(kind) == kind # "other" /\ (config.gamepad_only => kind = "pad")

(* The descriptor of p reads the device that is there now.                 *)
Live(p) == opened[p] # 0 /\ opened[p] = node[p].id

-----------------------------------------------------------------------------
(* The world: devices come and go, udev follows, buttons are pressed.      *)

Announce(action, p) ==
    uevents' = IF netlink THEN Append(uevents, [action |-> action, path |-> p]) ELSE uevents

Plug(p) ==
    /\ node[p] = Absent /\ plugs < MaxPlugs
    /\ plugs' = plugs + 1
    /\ \E kind \in Kind :
          node' = [node EXCEPT ![p] = [id |-> plugs + 1, kind |-> kind, ready |-> FALSE]]
    /\ Announce("add", p)
    /\ UNCHANGED << config, presses, at, listing, netlink, stopping, input, timers, hooks >>

Chmod(p) ==
    /\ p \in Present /\ ~node[p].ready
    /\ node' = [node EXCEPT ![p].ready = TRUE]
    /\ UNCHANGED << config, plugs, presses, uevents, at, listing, netlink, stopping,
                    input, timers, hooks >>

(* What was not read of a device that is gone is lost with it.             *)
Unplug(p) ==
    /\ p \in Present
    /\ node' = [node EXCEPT ![p] = Absent]
    /\ unread' = [unread EXCEPT ![p] = 0]
    /\ Announce("remove", p)
    /\ UNCHANGED << config, plugs, presses, at, listing, netlink, stopping, opened, timers,
                    hooks >>

(* One press, which Steam may mirror onto further nodes.                   *)
Press ==
    /\ presses < MaxPresses
    /\ presses' = presses + 1
    /\ \E S \in SUBSET {p \in Paths : Live(p) /\ node[p].kind # "other"} :
          unread' = [p \in Paths |-> unread[p] + IF p \in S THEN 1 ELSE 0]
    /\ UNCHANGED << config, node, plugs, uevents, at, listing, netlink, stopping, opened,
                    timers, hooks >>

(* COOLDOWN_SECONDS are over.  They are longer than the loop takes to get  *)
(* to an event that is waiting.                                            *)
CoolsDown ==
    /\ cooling /\ \A p \in Paths : unread[p] = 0
    /\ cooling' = FALSE
    /\ UNCHANGED << config, world, uevents, at, listing, netlink, stopping, input, timers,
                    hook_running, tasks, children, ended, wakes >>

ChildEnds ==
    /\ children > 0
    /\ children' = children - 1
    /\ ended' = ended + 1
    /\ UNCHANGED << config, world, uevents, at, listing, netlink, stopping, input, timers,
                    hook_running, cooling, tasks, wakes >>

-----------------------------------------------------------------------------
(* Devices.                                                                *)

(* _start_netlink, before the first scan so that nothing is missed.        *)
StartNetlink ==
    /\ at = "netlink"
    /\ at' = "list"
    /\ netlink' \in BOOLEAN
    /\ UNCHANGED << config, world, uevents, listing, stopping, input, timers, hooks >>

(* _add: the descriptor of p after trying to open a device seen as kind.   *)
Opening(p, kind) ==
    IF opened[p] # 0 \/ ~Watchable(kind) \/ ~node[p].ready THEN opened[p] ELSE node[p].id

DropKeepsUnread(p) ==       \* mutant: the descriptor is forgotten, not closed
    /\ opened' = [opened EXCEPT ![p] = 0]
    /\ UNCHANGED unread

Drop(p) ==
    /\ opened' = [opened EXCEPT ![p] = 0]
    /\ unread' = [unread EXCEPT ![p] = 0]

(* _scan, at start and every RESCAN_SECONDS: list, then open and drop.     *)
Scan ==
    /\ at \in {"list", "free"}
    /\ at' = "scan"
    /\ listing' = [p \in Present |-> node[p].kind]
    /\ UNCHANGED << config, world, uevents, netlink, stopping, input, timers, hooks >>

ScanOnlyDrops ==            \* mutant: the rescan adds nothing
    /\ at = "scan"
    /\ at' = "free"
    /\ opened' = [p \in Paths |-> IF p \in DOMAIN listing THEN opened[p] ELSE 0]
    /\ unread' = [p \in Paths |-> IF p \in DOMAIN listing THEN unread[p] ELSE 0]
    /\ listing' = << >>
    /\ UNCHANGED << config, world, uevents, netlink, stopping, timers, hooks >>

ScanOpens ==
    /\ at = "scan"
    /\ at' = "free"
    /\ opened' = [p \in Paths |-> IF p \in DOMAIN listing THEN Opening(p, listing[p]) ELSE 0]
    /\ unread' = [p \in Paths |-> IF p \in DOMAIN listing THEN unread[p] ELSE 0]
    /\ listing' = << >>
    /\ UNCHANGED << config, world, uevents, netlink, stopping, timers, hooks >>

(* _try_add_path, after each of HOTPLUG_RETRY_DELAYS.                      *)
Retry(p) ==
    /\ at = "free" /\ timers[p] > 0
    /\ timers' = [timers EXCEPT ![p] = @ - 1]
    /\ IF opened[p] # 0 \/ p \notin Present
       THEN UNCHANGED << at, listing >>
       ELSE /\ at' = "add"
            /\ listing' = [q \in {p} |-> node[q].kind]
    /\ UNCHANGED << config, world, uevents, netlink, stopping, input, hooks >>

RetryOpens ==
    /\ at = "add"
    /\ at' = "free"
    /\ opened' = [p \in Paths |-> IF p \in DOMAIN listing THEN Opening(p, listing[p])
                                  ELSE opened[p]]
    /\ listing' = << >>
    /\ UNCHANGED << config, world, uevents, netlink, stopping, unread, timers, hooks >>

(* _netlink_readable drains the socket, one datagram after another.        *)
Drain ==
    LET e == Head(uevents)
    IN  /\ at \in {"free", "drain"} /\ netlink /\ uevents # << >>
        /\ at' = "drain"
        /\ uevents' = Tail(uevents)
        /\ \/ e.action = "add"
              /\ timers' = [timers EXCEPT ![e.path] = @ + RetryDelays]
              /\ UNCHANGED input
           \/ e.action = "remove" /\ Drop(e.path) /\ UNCHANGED timers
        /\ UNCHANGED << config, world, listing, netlink, stopping, hooks >>

Drained ==
    /\ at = "drain" /\ uevents = << >>
    /\ at' = "free"
    /\ UNCHANGED << config, world, uevents, listing, netlink, stopping, input, timers, hooks >>

(* A read of the socket fails: it is closed for good.                      *)
NetlinkFails ==
    /\ at \in {"free", "drain"} /\ netlink
    /\ at' = "free"
    /\ netlink' = FALSE
    /\ uevents' = << >>
    /\ UNCHANGED << config, world, listing, stopping, input, timers, hooks >>

-----------------------------------------------------------------------------
(* Presses.                                                                *)

StampsAtEnd(n) ==           \* mutant: the cooldown counts from the wake's end
    IF n = 0 \/ hook_running \/ cooling THEN UNCHANGED hooks
    ELSE IF config.dry_run
    THEN UNCHANGED hooks
    ELSE /\ hook_running' = TRUE
         /\ tasks' = tasks + 1
         /\ wakes' = wakes + 1
         /\ UNCHANGED << cooling, children, ended >>

SkipsLast(n) ==             \* mutant: range(0, len(data) - EVENT_SIZE, EVENT_SIZE)
    IF n <= 1 \/ hook_running \/ cooling THEN UNCHANGED hooks
    ELSE /\ cooling' = config.cooldown
         /\ IF config.dry_run THEN UNCHANGED << hook_running, tasks, wakes >>
            ELSE hook_running' = TRUE /\ tasks' = tasks + 1 /\ wakes' = wakes + 1
         /\ UNCHANGED << children, ended >>

(* _on_press for each of the n presses of a batch: the first may start a   *)
(* wake, and then the others meet it running or cooling down.              *)
OnPress(n) ==
    IF n = 0 \/ hook_running \/ cooling THEN UNCHANGED hooks
    ELSE /\ cooling' = config.cooldown
         /\ IF config.dry_run THEN UNCHANGED << hook_running, tasks, wakes >>
            ELSE hook_running' = TRUE /\ tasks' = tasks + 1 /\ wakes' = wakes + 1
         /\ UNCHANGED << children, ended >>

(* _readable: a batch of events, or the error of a device that is gone.    *)
Readable(p) ==
    /\ at = "free" /\ opened[p] # 0
    /\ IF Live(p)
       THEN /\ unread[p] > 0
            /\ OnPress(unread[p])
            /\ unread' = [unread EXCEPT ![p] = 0]
            /\ UNCHANGED opened
       ELSE Drop(p) /\ UNCHANGED hooks
    /\ UNCHANGED << config, world, uevents, at, listing, netlink, stopping, timers >>

(* _run_hook: create the process, or fail to, and wait for it.             *)
RunHookStuck ==             \* mutant: no finally
    /\ at = "free" /\ tasks > 0
    /\ tasks' = tasks - 1
    /\ \/ children' = children + 1
       \/ UNCHANGED children
    /\ UNCHANGED << config, world, uevents, at, listing, netlink, stopping, input, timers,
                    hook_running, cooling, ended, wakes >>

RunHook ==
    /\ at = "free" /\ tasks > 0
    /\ tasks' = tasks - 1
    /\ \/ children' = children + 1 /\ UNCHANGED hook_running
       \/ hook_running' = FALSE /\ UNCHANGED children
    /\ UNCHANGED << config, world, uevents, at, listing, netlink, stopping, input, timers,
                    cooling, ended, wakes >>

HookEnded ==
    /\ at = "free" /\ ended > 0
    /\ ended' = ended - 1
    /\ hook_running' = FALSE
    /\ UNCHANGED << config, world, uevents, at, listing, netlink, stopping, input, timers,
                    cooling, tasks, children, wakes >>

-----------------------------------------------------------------------------
(* SIGTERM resolves the future run() waits for; run() drops everything,    *)
(* and asyncio.run cancels the hook's task.                                *)
Stop ==
    /\ at = "free" /\ ~stopping
    /\ stopping' = TRUE
    /\ UNCHANGED << config, world, uevents, at, listing, netlink, input, timers, hooks >>

Finish ==
    /\ at = "free" /\ stopping
    /\ at' = "stopped"
    /\ opened' = [p \in Paths |-> 0]
    /\ unread' = [p \in Paths |-> 0]
    /\ netlink' = FALSE
    /\ uevents' = << >>
    /\ tasks' = 0 /\ ended' = 0
    /\ hook_running' = FALSE
    /\ UNCHANGED << config, world, listing, stopping, timers, cooling, children, wakes >>

Init ==
    /\ config \in Configs
    /\ node \in [Paths -> {Absent} \cup [id : {1}, kind : Kind, ready : {TRUE}]]
    /\ \A p, q \in Paths : node[p].id = node[q].id => p = q \/ node[p] = Absent
    /\ plugs = (IF Present = {} THEN 0 ELSE 1)
    /\ presses = 0
    /\ uevents = << >>
    /\ at = "netlink" /\ listing = << >> /\ netlink = FALSE /\ stopping = FALSE
    /\ opened = [p \in Paths |-> 0]
    /\ unread = [p \in Paths |-> 0]
    /\ timers = [p \in Paths |-> 0]
    /\ hook_running = FALSE /\ cooling = FALSE
    /\ tasks = 0 /\ children = 0 /\ ended = 0 /\ wakes = 0

World ==
    \/ \E p \in Paths : Plug(p) \/ Chmod(p) \/ Unplug(p)
    \/ Press \/ CoolsDown \/ ChildEnds

Loop ==
    \/ StartNetlink \/ Scan \/ ScanOpens \/ RetryOpens \/ Drain \/ Drained \/ NetlinkFails
    \/ \E p \in Paths : Retry(p) \/ Readable(p)
    \/ RunHook \/ HookEnded \/ Stop \/ Finish

Next == World \/ Loop

Spec == Init /\ [][Next]_vars

(* asyncio runs ready callbacks in turn, so each runs again and again      *)
(* while it stays or comes back ready; a callback runs to its end; udev    *)
(* gets to a node that stays; a wake ends (Terminates of CecHook).         *)
FairSpec ==
    /\ Spec
    /\ WF_vars(StartNetlink) /\ WF_vars(ScanOpens) /\ WF_vars(RetryOpens)
    /\ WF_vars(Drained) /\ SF_vars(Drain) /\ SF_vars(Scan)
    /\ \A p \in Paths : SF_vars(Retry(p)) /\ SF_vars(Readable(p)) /\ WF_vars(Chmod(p))
    /\ SF_vars(RunHook) /\ SF_vars(HookEnded) /\ WF_vars(ChildEnds)

-----------------------------------------------------------------------------
(***************************************************************************)
(* Properties.                                                             *)
(***************************************************************************)

(* Every variable stays in its domain, and presses wait only where they    *)
(* can be read: a descriptor that was closed leaves none behind.           *)
TypeOK ==
    /\ config \in Config
    /\ node \in [Paths -> Node]
    /\ plugs \in 0 .. MaxPlugs /\ presses \in 0 .. MaxPresses
    /\ uevents \in Seq([action : {"add", "remove"}, path : Paths])
    /\ at \in {"netlink", "list", "scan", "add", "drain", "free", "stopped"}
    /\ \E S \in SUBSET Paths : listing \in [S -> Kind]
    /\ netlink \in BOOLEAN /\ stopping \in BOOLEAN
    /\ opened \in [Paths -> 0 .. MaxPlugs]
    /\ unread \in [Paths -> 0 .. MaxPresses]
    /\ timers \in [Paths -> Nat]
    /\ hook_running \in BOOLEAN /\ cooling \in BOOLEAN
    /\ tasks \in Nat /\ children \in Nat /\ ended \in Nat /\ wakes \in Nat
    /\ \A p \in Paths : opened[p] = 0 => unread[p] = 0

(* "Wake already in progress" is said exactly while a wake is in progress, *)
(* and there is never more than one.                                       *)
HookRunningIsTrue ==
    at # "stopped" => tasks + children + ended = IF hook_running THEN 1 ELSE 0

(* The watcher implements OneWake: wakes never overlap, and a press that   *)
(* Steam mirrors onto several devices starts no more than one.             *)
Promise == INSTANCE OneWake WITH
    pressed <- presses, woken <- wakes, flying <- tasks + children + ended > 0

KeepsPromise == Promise!Spec

Connected(p) == p \in Present /\ Watchable(node[p].kind) /\ ~stopping

(* A controller that stays connected gets watched, whatever datagrams were *)
(* lost or late, whoever had its device node before, and whether or not    *)
(* the netlink socket survives.                                            *)
ConnectedGetsWatched ==
    \A p \in Paths : <>[]Connected(p) => <>[]Live(p)

(* A press that waits in a watched device while nothing is running or      *)
(* cooling down starts a wake, unless the device goes first.               *)
PressWakes ==
    \A p \in Paths :
        (Live(p) /\ unread[p] > 0 /\ ~hook_running /\ ~cooling /\ ~config.dry_run)
        ~> (hook_running \/ ~Live(p) \/ stopping)

(* No wake leaves the watcher deaf: "already in progress" does not last,   *)
(* even when the process could not be created.                             *)
NeverDeaf == hook_running ~> (~hook_running \/ stopping)
=============================================================================
