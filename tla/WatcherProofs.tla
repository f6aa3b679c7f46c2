--------------------------- MODULE WatcherProofs ---------------------------
(***************************************************************************)
(* Theorems about ControllerWatcher, for every set of device nodes, every  *)
(* number of devices and presses and every number of retries: types, the   *)
(* in-progress flag, and the refinement of OneWake.                        *)
(***************************************************************************)
EXTENDS ControllerWatcher, TLAPS

(* TypeOK with what bounds the presses that wait: each was made.           *)
WatcherInv == TypeOK /\ \A p \in Paths : unread[p] <= presses

-----------------------------------------------------------------------------
(* No node is a node.                                                      *)
LEMMA AbsentNode == Absent \in Node
BY WatcherAssumption DEF WatcherAssumption, Absent, Node, Kind

(* A uevent more leaves the queue a queue.                                 *)
LEMMA Announced ==
  ASSUME uevents \in Seq([action : {"add", "remove"}, path : Paths]),
         NEW p \in Paths, NEW action \in {"add", "remove"}, Announce(action, p)
  PROVE  uevents' \in Seq([action : {"add", "remove"}, path : Paths])
<1>1. [action |-> action, path |-> p] \in [action : {"add", "remove"}, path : Paths]
  OBVIOUS
<1>2. CASE netlink
  BY <1>1, <1>2 DEF Announce
<1>3. CASE ~netlink
  BY <1>3 DEF Announce
<1>4. QED
  BY <1>2, <1>3

(* The initial state has every variable in its domain.                     *)
LEMMA WatcherInvInit == Init => WatcherInv
<1> SUFFICES ASSUME Init PROVE WatcherInv
  OBVIOUS
<1> USE WatcherAssumption DEF WatcherAssumption
<1>1. config \in Config
  BY DEF Init
<1>2. node \in [Paths -> Node]
  <2>1. ASSUME NEW n \in [id : {1}, kind : Kind, ready : {TRUE}] PROVE n \in Node
    <3>1. 1 \in 0 .. MaxPlugs
      OBVIOUS
    <3>2. QED
      BY <3>1 DEF Node
  <2>2. QED
    BY <2>1, AbsentNode DEF Init
<1>3. plugs \in 0 .. MaxPlugs /\ presses \in 0 .. MaxPresses
  BY DEF Init
<1>4. \E S \in SUBSET Paths : listing \in [S -> Kind]
  <2>1. listing \in [{} -> Kind]
    BY DEF Init
  <2>2. QED
    BY <2>1
<1>5. uevents \in Seq([action : {"add", "remove"}, path : Paths])
  BY DEF Init
<1>6. /\ opened \in [Paths -> 0 .. MaxPlugs]
      /\ unread \in [Paths -> 0 .. MaxPresses]
      /\ timers \in [Paths -> Nat]
      /\ \A p \in Paths : opened[p] = 0 => unread[p] = 0
      /\ \A p \in Paths : unread[p] <= presses
  BY DEF Init
<1>7. /\ at \in {"netlink", "list", "scan", "add", "drain", "free", "stopped"}
      /\ netlink \in BOOLEAN /\ stopping \in BOOLEAN
      /\ hook_running \in BOOLEAN /\ cooling \in BOOLEAN
  BY Zenon DEF Init
<1>8. tasks \in Nat /\ children \in Nat /\ ended \in Nat /\ wakes \in Nat
  BY DEF Init
<1>9. QED
  BY <1>1, <1>2, <1>3, <1>4, <1>5, <1>6, <1>7, <1>8, Zenon DEF WatcherInv, TypeOK

-----------------------------------------------------------------------------
(* The world: a device that comes, one that udev makes accessible, one     *)
(* that goes with its presses, and a press, which adds one to some nodes.  *)
LEMMA WorldInv ==
  ASSUME WatcherInv, World
  PROVE  WatcherInv'
<1> USE WatcherAssumption DEF WatcherAssumption, WatcherInv, TypeOK
<1>1. ASSUME NEW p \in Paths, Plug(p) PROVE WatcherInv'
  <2>1. node' \in [Paths -> Node]
    <3>1. PICK kind \in Kind :
             node' = [node EXCEPT ![p] = [id |-> plugs + 1, kind |-> kind, ready |-> FALSE]]
      BY <1>1 DEF Plug
    <3>2. plugs + 1 \in 0 .. MaxPlugs
      BY <1>1 DEF Plug
    <3>3. [id |-> plugs + 1, kind |-> kind, ready |-> FALSE] \in Node
      BY <3>2 DEF Node
    <3>4. QED
      BY <3>1, <3>3
  <2>2. uevents' \in Seq([action : {"add", "remove"}, path : Paths])
    BY <1>1, Announced DEF Plug
  <2>3. plugs' \in 0 .. MaxPlugs
    BY <1>1 DEF Plug
  <2>4. UNCHANGED << config, presses, at, listing, netlink, stopping, input, timers, hooks >>
    BY <1>1 DEF Plug
  <2>5. QED
    BY <2>1, <2>2, <2>3, <2>4 DEF input, hooks
<1>2. ASSUME NEW p \in Paths, Chmod(p) PROVE WatcherInv'
  <2>1. node' \in [Paths -> Node]
    BY <1>2 DEF Chmod, Node
  <2>2. UNCHANGED << config, plugs, presses, uevents, at, listing, netlink, stopping, input,
                     timers, hooks >>
    BY <1>2 DEF Chmod
  <2>3. QED
    BY <2>1, <2>2 DEF input, hooks
<1>3. ASSUME NEW p \in Paths, Unplug(p) PROVE WatcherInv'
  <2>1. node' \in [Paths -> Node]
    BY <1>3, AbsentNode DEF Unplug
  <2>2. uevents' \in Seq([action : {"add", "remove"}, path : Paths])
    BY <1>3, Announced DEF Unplug
  <2>3. /\ unread' \in [Paths -> 0 .. MaxPresses]
        /\ \A q \in Paths : unread'[q] <= presses
        /\ \A q \in Paths : opened[q] = 0 => unread'[q] = 0
    BY <1>3 DEF Unplug
  <2>4. UNCHANGED << config, plugs, presses, at, listing, netlink, stopping, opened, timers,
                     hooks >>
    BY <1>3 DEF Unplug
  <2>5. QED
    BY <2>1, <2>2, <2>3, <2>4 DEF hooks
<1>4. CASE Press
  <2>1. /\ presses' = presses + 1 /\ presses' \in 0 .. MaxPresses
        /\ unread' \in [Paths -> 0 .. MaxPresses]
        /\ \A q \in Paths : unread'[q] <= presses'
        /\ \A q \in Paths : opened[q] = 0 => unread'[q] = 0
    BY <1>4 DEF Press, Live
  <2>2. UNCHANGED << config, node, plugs, uevents, at, listing, netlink, stopping, opened,
                     timers, hooks >>
    BY <1>4 DEF Press
  <2>3. QED
    BY <2>1, <2>2 DEF hooks
<1>5. CASE CoolsDown
  BY <1>5 DEF CoolsDown, world, input
<1>6. CASE ChildEnds
  BY <1>6 DEF ChildEnds, world, input
<1>7. QED
  BY <1>1, <1>2, <1>3, <1>4, <1>5, <1>6, Zenon DEF World

-----------------------------------------------------------------------------
(* The loop's own places: nothing but at, listing, netlink, uevents and    *)
(* timers changes.                                                         *)
LEMMA PlacesInv ==
  ASSUME WatcherInv,
         StartNetlink \/ Scan \/ Drained \/ NetlinkFails \/ Stop
         \/ \E p \in Paths : Retry(p)
  PROVE  WatcherInv'
<1> USE DEF WatcherInv, TypeOK
<1>1. CASE StartNetlink
  BY <1>1 DEF StartNetlink, world, input, hooks
<1>2. CASE Scan
  <2>1. listing' \in [Present -> Kind] /\ Present \in SUBSET Paths
    BY <1>2 DEF Scan, Present, Node
  <2>2. at' = "scan"
    BY <1>2 DEF Scan
  <2>3. UNCHANGED << config, world, uevents, netlink, stopping, input, timers, hooks >>
    BY <1>2 DEF Scan
  <2>4. QED
    BY <2>1, <2>2, <2>3 DEF world, input, hooks
<1>3. CASE Drained
  BY <1>3 DEF Drained, world, input, hooks
<1>4. CASE NetlinkFails
  <2>1. uevents' \in Seq([action : {"add", "remove"}, path : Paths])
    BY <1>4 DEF NetlinkFails
  <2>2. at' = "free" /\ netlink' = FALSE
    BY <1>4 DEF NetlinkFails
  <2>3. UNCHANGED << config, world, listing, stopping, input, timers, hooks >>
    BY <1>4 DEF NetlinkFails
  <2>4. QED
    BY <2>1, <2>2, <2>3 DEF world, input, hooks
<1>5. CASE Stop
  BY <1>5 DEF Stop, world, input, hooks
<1>6. ASSUME NEW p \in Paths, Retry(p) PROVE WatcherInv'
  <2>1. timers' \in [Paths -> Nat]
    BY <1>6 DEF Retry
  <2>2. UNCHANGED << config, world, uevents, netlink, stopping, input, hooks >>
    BY <1>6 DEF Retry
  <2>3. \/ UNCHANGED << at, listing >>
        \/ at' = "add" /\ listing' = [q \in {p} |-> node[q].kind]
    BY <1>6, Zenon DEF Retry
  <2>4. [q \in {p} |-> node[q].kind] \in [{p} -> Kind] /\ {p} \in SUBSET Paths
    BY <1>6 DEF Node
  <2>5. at' \in {"netlink", "list", "scan", "add", "drain", "free", "stopped"}
    BY <2>3
  <2>6. \E S \in SUBSET Paths : listing' \in [S -> Kind]
    BY <2>3, <2>4
  <2>7. QED
    BY <2>1, <2>2, <2>5, <2>6 DEF world, input, hooks
<1>7. QED
  BY <1>1, <1>2, <1>3, <1>4, <1>5, <1>6

(* A descriptor that is closed takes its presses with it.                  *)
LEMMA DropsPresses ==
  ASSUME opened \in [Paths -> 0 .. MaxPlugs], unread \in [Paths -> 0 .. MaxPresses],
         \A q \in Paths : opened[q] = 0 => unread[q] = 0,
         \A q \in Paths : unread[q] <= presses,
         presses \in Nat, NEW p \in Paths, Drop(p)
  PROVE  /\ opened' \in [Paths -> 0 .. MaxPlugs]
         /\ unread' \in [Paths -> 0 .. MaxPresses]
         /\ \A q \in Paths : opened'[q] = 0 => unread'[q] = 0
         /\ \A q \in Paths : unread'[q] <= presses
BY WatcherAssumption DEF Drop, WatcherAssumption

-----------------------------------------------------------------------------
(* Descriptors are opened where there were none, and closed with what was  *)
(* unread.                                                                 *)
LEMMA DescriptorsInv ==
  ASSUME WatcherInv, ScanOpens \/ RetryOpens \/ Drain \/ Finish
  PROVE  WatcherInv'
<1> DEFINE Queue == [action : {"add", "remove"}, path : Paths]
           Descriptors == /\ opened \in [Paths -> 0 .. MaxPlugs]
                          /\ unread \in [Paths -> 0 .. MaxPresses]
                          /\ \A p \in Paths : opened[p] = 0 => unread[p] = 0
                          /\ \A p \in Paths : unread[p] <= presses
           Listed == \E S \in SUBSET Paths : listing \in [S -> Kind]
           Rest == /\ config \in Config
                   /\ node \in [Paths -> Node]
                   /\ plugs \in 0 .. MaxPlugs /\ presses \in 0 .. MaxPresses
                   /\ stopping \in BOOLEAN
                   /\ cooling \in BOOLEAN
                   /\ children \in Nat /\ wakes \in Nat
           Waiting == /\ netlink \in BOOLEAN /\ hook_running \in BOOLEAN
                      /\ tasks \in Nat /\ ended \in Nat
           Place == at \in {"netlink", "list", "scan", "add", "drain", "free", "stopped"}
           Timed == timers \in [Paths -> Nat]
           Queued == uevents \in Seq(Queue)
           Tried(p) == Opening(p, listing[p])
<1>1. Descriptors /\ Listed /\ Rest /\ Waiting /\ Place /\ Timed /\ Queued
  BY Zenon DEF WatcherInv, TypeOK
<1>2. ASSUME Descriptors', Listed', Rest', Waiting', Place', Timed', Queued' PROVE WatcherInv'
  BY <1>2, Zenon DEF WatcherInv, TypeOK
<1>3. RetryDelays \in Nat /\ MaxPlugs \in Nat /\ MaxPresses \in Nat
  BY WatcherAssumption DEF WatcherAssumption
<1> HIDE DEF Queue, Descriptors, Listed, Rest, Waiting, Place, Timed, Queued
<1>4. \A p \in Paths : Tried(p) \in 0 .. MaxPlugs /\ (opened[p] # 0 => Tried(p) # 0)
  BY <1>1, <1>3 DEF Opening, Node, Descriptors, Rest
<1> HIDE DEF Tried
<1>5. ASSUME listing' = << >> PROVE Listed'
  <2>1. << >> \in [{} -> Kind] /\ {} \in SUBSET Paths
    OBVIOUS
  <2>2. QED
    BY <1>5, <2>1 DEF Listed
<1>6. CASE ScanOpens
  <2>1. /\ opened' = [p \in Paths |-> IF p \in DOMAIN listing THEN Tried(p) ELSE 0]
        /\ unread' = [p \in Paths |-> IF p \in DOMAIN listing THEN unread[p] ELSE 0]
        /\ at' = "free" /\ listing' = << >>
        /\ UNCHANGED << config, world, uevents, netlink, stopping, timers, hooks >>
    BY <1>6, Zenon DEF ScanOpens, Tried
  <2>2. opened' \in [Paths -> 0 .. MaxPlugs]
    <3>1. ASSUME NEW p \in Paths
          PROVE  (IF p \in DOMAIN listing THEN Tried(p) ELSE 0) \in 0 .. MaxPlugs
      <4>1. 0 \in 0 .. MaxPlugs
        BY <1>3
      <4>2. QED
        BY <1>4, <4>1, Zenon
    <3>2. QED
      BY <2>1, <3>1, Zenon
  <2>3. presses' = presses /\ presses \in Nat
    BY <1>1, <1>3, <2>1 DEF world, Rest
  <2>4. /\ unread' \in [Paths -> 0 .. MaxPresses]
        /\ \A p \in Paths : unread'[p] <= presses
    BY <1>1, <1>3, <2>1, <2>3 DEF Descriptors
  <2>5. \A p \in Paths : opened'[p] = 0 => unread'[p] = 0
    <3>1. ASSUME NEW p \in Paths, opened'[p] = 0 PROVE unread'[p] = 0
      <4>1. CASE p \in DOMAIN listing
        <5>1. Tried(p) = 0 /\ unread'[p] = unread[p]
          BY <2>1, <3>1, <4>1, Zenon
        <5>2. QED
          BY <1>1, <1>4, <5>1, Zenon DEF Descriptors
      <4>2. CASE p \notin DOMAIN listing
        BY <2>1, <4>2, Zenon
      <4>3. QED
        BY <4>1, <4>2
    <3>2. QED
      BY <3>1
  <2>6. Descriptors'
    BY <2>2, <2>3, <2>4, <2>5, Zenon DEF Descriptors
  <2>7. Rest' /\ Waiting' /\ Timed' /\ Queued'
    BY <1>1, <2>1, Zenon DEF world, hooks, Rest, Waiting, Timed, Queued
  <2>8. Place'
    BY <2>1 DEF Place
  <2>9. QED
    BY <1>2, <1>5, <2>1, <2>6, <2>7, <2>8
<1>7. CASE RetryOpens
  <2>1. /\ opened' = [p \in Paths |-> IF p \in DOMAIN listing THEN Tried(p)
                                      ELSE opened[p]]
        /\ at' = "free" /\ listing' = << >>
        /\ UNCHANGED << config, world, uevents, netlink, stopping, unread, timers, hooks >>
    BY <1>7, Zenon DEF RetryOpens, Tried
  <2>2. opened' \in [Paths -> 0 .. MaxPlugs]
    <3>1. ASSUME NEW p \in Paths
          PROVE  (IF p \in DOMAIN listing THEN Tried(p) ELSE opened[p])
                     \in 0 .. MaxPlugs
      BY <1>1, <1>4, Zenon DEF Descriptors
    <3>2. QED
      BY <2>1, <3>1, Zenon
  <2>3. presses' = presses
    BY <2>1 DEF world
  <2>4. \A p \in Paths : opened'[p] = 0 => unread[p] = 0
    <3>1. ASSUME NEW p \in Paths, opened'[p] = 0 PROVE opened[p] = 0
      <4>1. CASE p \in DOMAIN listing
        BY <1>4, <2>1, <3>1, <4>1, Zenon
      <4>2. CASE p \notin DOMAIN listing
        BY <2>1, <3>1, <4>2, Zenon
      <4>3. QED
        BY <4>1, <4>2
    <3>2. QED
      BY <1>1, <3>1, Zenon DEF Descriptors
  <2>5. Descriptors'
    BY <1>1, <2>1, <2>2, <2>3, <2>4, Zenon DEF Descriptors
  <2>6. Rest' /\ Waiting' /\ Timed' /\ Queued'
    BY <1>1, <2>1, Zenon DEF world, hooks, Rest, Waiting, Timed, Queued
  <2>7. Place'
    BY <2>1 DEF Place
  <2>8. QED
    BY <1>2, <1>5, <2>1, <2>5, <2>6, <2>7
<1>8. CASE Drain
  <2> DEFINE e == Head(uevents)
  <2>1. /\ uevents # << >> /\ uevents' = Tail(uevents)
        /\ at' = "drain"
        /\ UNCHANGED << config, world, listing, netlink, stopping, hooks >>
        /\ \/ timers' = [timers EXCEPT ![e.path] = @ + RetryDelays] /\ UNCHANGED input
           \/ Drop(e.path) /\ UNCHANGED timers
    BY <1>8, Zenon DEF Drain
  <2>2. e \in Queue /\ uevents' \in Seq(Queue)
    BY <1>1, <2>1 DEF Queued
  <2>3. e.path \in Paths
    BY <2>2 DEF Queue
  <2> HIDE DEF e
  <2>4. Timed'
    BY <1>1, <1>3, <2>1, <2>3 DEF Timed
  <2>5. presses' = presses /\ presses \in Nat
    BY <1>1, <1>3, <2>1 DEF world, Rest
  <2>6. Descriptors'
    <3>1. CASE UNCHANGED input
      BY <1>1, <2>5, <3>1, Zenon DEF input, Descriptors
    <3>2. CASE Drop(e.path)
      BY <1>1, <2>3, <2>5, <3>2, DropsPresses DEF Descriptors
    <3>3. QED
      BY <2>1, <3>1, <3>2
  <2>7. Rest' /\ Waiting' /\ Listed'
    BY <1>1, <2>1, Zenon DEF world, hooks, Rest, Waiting, Listed
  <2>8. Place'
    BY <2>1 DEF Place
  <2>9. QED
    BY <1>2, <2>2, <2>4, <2>6, <2>7, <2>8 DEF Queued
<1>9. CASE Finish
  <2>1. /\ at' = "stopped" /\ netlink' = FALSE /\ uevents' = << >>
        /\ opened' = [p \in Paths |-> 0] /\ unread' = [p \in Paths |-> 0]
        /\ tasks' = 0 /\ ended' = 0 /\ hook_running' = FALSE
        /\ UNCHANGED << config, world, listing, stopping, timers, cooling, children, wakes >>
    BY <1>9, Zenon DEF Finish
  <2>2. presses' = presses /\ presses \in Nat
    BY <1>1, <1>3, <2>1 DEF world, Rest
  <2>3. Descriptors'
    BY <1>3, <2>1, <2>2 DEF Descriptors
  <2>4. Rest' /\ Timed' /\ Listed'
    BY <1>1, <2>1, Zenon DEF world, Rest, Timed, Listed
  <2>5. Waiting'
    BY <2>1 DEF Waiting
  <2>6. Place' /\ Queued'
    BY <2>1 DEF Place, Queued
  <2>7. QED
    BY <1>2, <2>3, <2>4, <2>5, <2>6
<1>10. QED
  BY <1>6, <1>7, <1>8, <1>9

-----------------------------------------------------------------------------
(* A press that is read may start a wake, whose task makes a process.      *)
LEMMA WakesInv ==
  ASSUME WatcherInv, RunHook \/ HookEnded \/ \E p \in Paths : Readable(p)
  PROVE  WatcherInv'
<1> DEFINE Descriptors == /\ opened \in [Paths -> 0 .. MaxPlugs]
                          /\ unread \in [Paths -> 0 .. MaxPresses]
                          /\ \A p \in Paths : opened[p] = 0 => unread[p] = 0
                          /\ \A p \in Paths : unread[p] <= presses
           Rest == /\ config \in Config
                   /\ node \in [Paths -> Node]
                   /\ plugs \in 0 .. MaxPlugs /\ presses \in 0 .. MaxPresses
                   /\ uevents \in Seq([action : {"add", "remove"}, path : Paths])
                   /\ at \in {"netlink", "list", "scan", "add", "drain", "free", "stopped"}
                   /\ \E S \in SUBSET Paths : listing \in [S -> Kind]
                   /\ netlink \in BOOLEAN /\ stopping \in BOOLEAN
                   /\ timers \in [Paths -> Nat]
           Flags == hook_running \in BOOLEAN /\ cooling \in BOOLEAN
           Counts == tasks \in Nat /\ children \in Nat /\ ended \in Nat /\ wakes \in Nat
<1>1. Descriptors /\ Rest /\ Flags /\ Counts
  BY Zenon DEF WatcherInv, TypeOK
<1>2. ASSUME Descriptors', Rest', Flags', Counts' PROVE WatcherInv'
  BY <1>2, Zenon DEF WatcherInv, TypeOK
<1>3. presses \in Nat /\ config.cooldown \in BOOLEAN
  BY <1>1, WatcherAssumption DEF WatcherAssumption, Config
<1> HIDE DEF Descriptors, Rest, Flags, Counts
<1>4. ASSUME UNCHANGED << config, world, uevents, at, listing, netlink, stopping, timers >>
      PROVE  Rest' /\ presses' = presses
  BY <1>1, <1>4, Zenon DEF world, Rest
<1>5. CASE RunHook
  <2>1. /\ tasks > 0 /\ tasks' = tasks - 1
        /\ children' \in {children, children + 1} /\ UNCHANGED << ended, wakes, cooling >>
        /\ UNCHANGED << config, world, uevents, at, listing, netlink, stopping, input, timers >>
    BY <1>5 DEF RunHook
  <2>2. hook_running' \in {hook_running, FALSE}
    BY <1>5, Zenon DEF RunHook
  <2>3. Counts'
    BY <1>1, <2>1 DEF Counts
  <2>4. Flags'
    BY <1>1, <2>1, <2>2, Zenon DEF Flags
  <2>5. Descriptors'
    BY <1>1, <1>4, <2>1, Zenon DEF Descriptors, input
  <2>6. QED
    BY <1>2, <1>4, <2>1, <2>3, <2>4, <2>5
<1>6. CASE HookEnded
  <2>1. /\ ended > 0 /\ ended' = ended - 1 /\ hook_running' = FALSE
        /\ UNCHANGED << config, world, uevents, at, listing, netlink, stopping, input, timers,
                        cooling, tasks, children, wakes >>
    BY <1>6, Zenon DEF HookEnded
  <2>2. Counts'
    BY <1>1, <2>1 DEF Counts
  <2>3. Flags'
    BY <1>1, <2>1, Zenon DEF Flags
  <2>4. Descriptors'
    BY <1>1, <1>4, <2>1, Zenon DEF Descriptors, input
  <2>5. QED
    BY <1>2, <1>4, <2>1, <2>2, <2>3, <2>4
<1>7. ASSUME NEW p \in Paths, Readable(p) PROVE WatcherInv'
  <2>1. UNCHANGED << config, world, uevents, at, listing, netlink, stopping, timers >>
    BY <1>7, Zenon DEF Readable
  <2>2. \/ unread' = [unread EXCEPT ![p] = 0] /\ UNCHANGED opened /\ OnPress(unread[p])
        \/ Drop(p) /\ UNCHANGED hooks
    BY <1>7, Zenon DEF Readable
  <2>3. Descriptors'
    <3>1. CASE unread' = [unread EXCEPT ![p] = 0] /\ UNCHANGED opened
      BY <1>1, <1>3, <1>4, <2>1, <3>1, WatcherAssumption DEF Descriptors, WatcherAssumption
    <3>2. CASE Drop(p)
      BY <1>1, <1>3, <1>4, <2>1, <3>2, DropsPresses DEF Descriptors
    <3>3. QED
      BY <2>2, <3>1, <3>2
  <2>4. \/ UNCHANGED hooks
        \/ /\ cooling' = config.cooldown /\ UNCHANGED << children, ended >>
           /\ \/ UNCHANGED << hook_running, tasks, wakes >>
              \/ hook_running' = TRUE /\ tasks' = tasks + 1 /\ wakes' = wakes + 1
    BY <2>2, Zenon DEF OnPress
  <2>5. Flags'
    BY <1>1, <1>3, <2>4, Zenon DEF hooks, Flags
  <2>6. Counts'
    BY <1>1, <2>4 DEF hooks, Counts
  <2>7. QED
    BY <1>2, <1>4, <2>1, <2>3, <2>5, <2>6
<1>8. QED
  BY <1>5, <1>6, <1>7

(* Every step of the watcher keeps WatcherInv.                             *)
LEMMA WatcherInvStep == WatcherInv /\ [Next]_vars => WatcherInv'
<1> SUFFICES ASSUME WatcherInv, [Next]_vars PROVE WatcherInv'
  OBVIOUS
<1>1. CASE World
  BY <1>1, WorldInv
<1>2. CASE Loop
  BY <1>2, PlacesInv, DescriptorsInv, WakesInv, Zenon DEF Loop
<1>3. CASE UNCHANGED vars
  BY <1>3 DEF vars, world, input, hooks, WatcherInv, TypeOK
<1>4. QED
  BY <1>1, <1>2, <1>3 DEF Next

(* WatcherInv is an invariant.                                             *)
LEMMA WatcherInvCorrect == Spec => []WatcherInv
BY WatcherInvInit, WatcherInvStep, PTL DEF Spec

(* Every variable stays in its domain, and a descriptor that was closed    *)
(* leaves no press behind.                                                 *)
THEOREM WatcherTypeCorrect == Spec => []TypeOK
<1>1. WatcherInv => TypeOK
  BY DEF WatcherInv
<1>2. QED
  BY <1>1, WatcherInvCorrect, PTL

-----------------------------------------------------------------------------
(* The flag and the refinement of OneWake                                  *)

InFlight == tasks + children + ended

(* HookRunningIsTrue in the form the steps keep.                           *)
Truth == (hook_running /\ InFlight = 1) \/ (~hook_running /\ InFlight = 0)
FlagInv == at = "stopped" \/ Truth

(* A press waiting that nothing makes the watcher ignore has had no wake.  *)
Waits == \E p \in Paths : unread[p] > 0
PressInv == wakes <= presses /\ (Waits /\ ~cooling => wakes < presses)

NoWake == UNCHANGED << hook_running, tasks, children, ended, wakes >>

(* The first press of a batch starts a wake.                               *)
Starts ==
    /\ at = "free" /\ at' = at /\ Waits
    /\ ~hook_running /\ hook_running'
    /\ ~cooling /\ cooling' = config.cooldown
    /\ tasks' = tasks + 1 /\ wakes' = wakes + 1
    /\ UNCHANGED << children, ended, presses >>

(* What is read or closed is not unread after that, and no press comes.    *)
Reads ==
    /\ \A p \in Paths : unread'[p] > 0 => unread[p] > 0
    /\ presses' = presses
    /\ NoWake
    /\ at = "stopped" => at' = "stopped"
    /\ cooling' \in {cooling, config.cooldown}

-----------------------------------------------------------------------------
(* Reading a node starts a wake or is none of the wakes' business.         *)
LEMMA ReadableCases ==
  ASSUME WatcherInv, NEW p \in Paths, Readable(p)
  PROVE  Starts \/ Reads
<1>1. UNCHANGED << config, world, uevents, at, listing, netlink, stopping, timers >>
  BY Zenon DEF Readable
<1>2. at = "free" /\ at' = at /\ presses' = presses
  BY <1>1, Zenon DEF Readable, world
<1>3. \/ unread[p] > 0 /\ unread' = [unread EXCEPT ![p] = 0] /\ OnPress(unread[p])
      \/ unread' = [unread EXCEPT ![p] = 0] /\ UNCHANGED hooks
  BY Zenon DEF Readable, Drop
<1>4. \A q \in Paths : unread'[q] > 0 => unread[q] > 0
  <2>1. unread \in [Paths -> 0 .. MaxPresses]
    BY Zenon DEF WatcherInv, TypeOK
  <2>2. unread' = [unread EXCEPT ![p] = 0]
    BY <1>3
  <2>3. QED
    BY <2>1, <2>2
<1>5. ASSUME UNCHANGED hooks PROVE Reads
  BY <1>2, <1>4, <1>5, Zenon DEF Reads, NoWake, hooks
<1>6. CASE unread[p] > 0 /\ OnPress(unread[p])
  <2>1. unread[p] # 0
    BY <1>6 DEF WatcherInv, TypeOK
  <2>2. \/ UNCHANGED hooks
        \/ /\ ~hook_running /\ ~cooling /\ cooling' = config.cooldown
           /\ UNCHANGED << children, ended >>
           /\ \/ UNCHANGED << hook_running, tasks, wakes >>
              \/ hook_running' = TRUE /\ tasks' = tasks + 1 /\ wakes' = wakes + 1
    BY <1>6, <2>1, Zenon DEF OnPress
  <2>3. Waits
    BY <1>6, Zenon DEF Waits
  <2>4. QED
    BY <1>2, <1>4, <1>5, <2>2, <2>3, Zenon DEF Starts, Reads, NoWake
<1>7. QED
  BY <1>3, <1>5, <1>6

(* The other steps of the loop that touch descriptors, and those that      *)
(* touch neither descriptors nor hooks.                                    *)
LEMMA LoopReads ==
  ASSUME WatcherInv,
         \/ StartNetlink \/ Scan \/ ScanOpens \/ RetryOpens \/ Drain \/ Drained
         \/ NetlinkFails \/ Stop \/ \E p \in Paths : Retry(p)
  PROVE  Reads
<1>1. /\ UNCHANGED hooks /\ presses' = presses
      /\ at # "stopped"
  BY Zenon DEF StartNetlink, Scan, ScanOpens, RetryOpens, Drain, Drained, NetlinkFails, Stop,
               Retry, world
<1>2. \A p \in Paths : unread'[p] > 0 => unread[p] > 0
  <2>1. unread \in [Paths -> 0 .. MaxPresses]
    BY Zenon DEF WatcherInv, TypeOK
  <2>2. CASE UNCHANGED unread
    BY <2>2
  <2>3. CASE ScanOpens
    BY <2>3, <2>1 DEF ScanOpens
  <2>4. CASE Drain
    <3>1. UNCHANGED unread \/ unread' = [unread EXCEPT ![Head(uevents).path] = 0]
      BY <2>4, Zenon DEF Drain, Drop, input
    <3>2. QED
      BY <2>1, <3>1
  <2>5. QED
    BY <2>2, <2>3, <2>4, Zenon DEF StartNetlink, Scan, RetryOpens, Drained, NetlinkFails, Stop,
                                   Retry, input
<1>3. QED
  BY <1>1, <1>2, Zenon DEF Reads, NoWake, hooks

(* Devices that come, settle and go start no wake.                         *)
LEMMA DevicesReads ==
  ASSUME WatcherInv, \E p \in Paths : Plug(p) \/ Chmod(p) \/ Unplug(p)
  PROVE  Reads
<1>1. PICK p \in Paths : Plug(p) \/ Chmod(p) \/ Unplug(p)
  OBVIOUS
<1>2. UNCHANGED hooks /\ presses' = presses /\ at' = at
  BY <1>1, Zenon DEF Plug, Chmod, Unplug
<1>3. UNCHANGED unread \/ unread' = [unread EXCEPT ![p] = 0]
  BY <1>1, Zenon DEF Plug, Chmod, Unplug, input
<1>4. \A q \in Paths : unread'[q] > 0 => unread[q] > 0
  <2>1. unread \in [Paths -> 0 .. MaxPresses]
    BY Zenon DEF WatcherInv, TypeOK
  <2>2. QED
    BY <1>3, <2>1
<1>5. QED
  BY <1>2, <1>4, Zenon DEF Reads, NoWake, hooks

(* What a step can be, as far as presses and wakes are concerned.          *)
LEMMA StepCases ==
  ASSUME WatcherInv, [Next]_vars
  PROVE  \/ Reads \/ Starts
         \/ Press \/ CoolsDown \/ ChildEnds \/ RunHook \/ HookEnded \/ Finish
<1>1. CASE World
  BY <1>1, DevicesReads, Zenon DEF World
<1>2. CASE Loop
  BY <1>2, LoopReads, ReadableCases, Zenon DEF Loop
<1>3. CASE UNCHANGED vars
  BY <1>3, Zenon DEF vars, world, input, hooks, Reads, NoWake
<1>4. QED
  BY <1>1, <1>2, <1>3 DEF Next

-----------------------------------------------------------------------------
(* The flag: it rises with a task and falls with the task, whether its     *)
(* process was created, and whatever the process came to.                  *)
LEMMA FlagStep ==
  ASSUME WatcherInv, FlagInv, [Next]_vars
  PROVE  FlagInv'
<1>1. tasks \in Nat /\ children \in Nat /\ ended \in Nat
  BY Zenon DEF WatcherInv, TypeOK
<1>2. ASSUME UNCHANGED << hook_running, InFlight >>, at = "stopped" => at' = "stopped"
      PROVE  FlagInv'
  BY <1>2, Zenon DEF FlagInv, Truth
<1>3. CASE Reads
  <2>1. UNCHANGED << hook_running, InFlight >>
    BY <1>3, Zenon DEF Reads, NoWake, InFlight
  <2>2. QED
    BY <1>2, <1>3, <2>1, Zenon DEF Reads
<1>4. CASE Starts
  <2>1. Truth /\ ~hook_running /\ hook_running'
    BY <1>4, Zenon DEF FlagInv, Starts
  <2>2. InFlight = 0
    BY <2>1, Zenon DEF Truth
  <2>3. InFlight' = 1
    BY <1>1, <1>4, <2>2 DEF Starts, InFlight
  <2>4. QED
    BY <2>1, <2>3, Zenon DEF FlagInv, Truth
<1>5. CASE Press \/ CoolsDown
  <2>1. UNCHANGED << hook_running, InFlight >> /\ at' = at
    BY <1>5, Zenon DEF Press, CoolsDown, hooks, InFlight
  <2>2. QED
    BY <1>2, <2>1
<1>6. CASE ChildEnds
  <2>1. hook_running' = hook_running /\ at' = at
    BY <1>6, Zenon DEF ChildEnds
  <2>2. InFlight' = InFlight
    BY <1>1, <1>6 DEF ChildEnds, InFlight
  <2>3. QED
    BY <1>2, <2>1, <2>2
<1>7. CASE RunHook
  <2>1. at = "free" /\ at' = at
    BY <1>7, Zenon DEF RunHook
  <2>2. tasks > 0 /\ tasks' = tasks - 1 /\ ended' = ended
    BY <1>7, Zenon DEF RunHook
  <2>3. InFlight # 0
    BY <1>1, <2>2 DEF InFlight
  <2>4. hook_running /\ InFlight = 1
    BY <2>1, <2>3, Zenon DEF FlagInv, Truth
  <2>5. CASE children' = children + 1 /\ UNCHANGED hook_running
    <3>1. InFlight' = InFlight
      BY <1>1, <2>2, <2>5 DEF InFlight
    <3>2. QED
      BY <1>2, <2>1, <2>5, <3>1, Zenon
  <2>6. CASE hook_running' = FALSE /\ UNCHANGED children
    <3>1. InFlight' = 0
      BY <1>1, <2>2, <2>4, <2>6 DEF InFlight
    <3>2. QED
      BY <2>6, <3>1, Zenon DEF FlagInv, Truth
  <2>7. QED
    BY <1>7, <2>5, <2>6, Zenon DEF RunHook
<1>8. CASE HookEnded
  <2>1. at = "free" /\ hook_running' = FALSE
    BY <1>8, Zenon DEF HookEnded
  <2>2. ended > 0 /\ ended' = ended - 1 /\ tasks' = tasks /\ children' = children
    BY <1>8, Zenon DEF HookEnded
  <2>3. InFlight # 0 /\ InFlight' = InFlight - 1
    BY <1>1, <2>2 DEF InFlight
  <2>4. InFlight = 1
    BY <2>1, <2>3, Zenon DEF FlagInv, Truth
  <2>5. InFlight' = 0
    BY <2>3, <2>4
  <2>6. QED
    BY <2>1, <2>5, Zenon DEF FlagInv, Truth
<1>9. CASE Finish
  BY <1>9, Zenon DEF Finish, FlagInv
<1>10. QED
  BY <1>3, <1>4, <1>5, <1>6, <1>7, <1>8, <1>9, StepCases, Zenon

(* FlagInv is an invariant.                                                *)
LEMMA FlagCorrect == Spec => []FlagInv
<1>1. Init => FlagInv
  <2>1. Init => hook_running = FALSE /\ tasks = 0 /\ children = 0 /\ ended = 0
    BY Zenon DEF Init
  <2>2. Init => InFlight = 0
    BY <2>1 DEF InFlight
  <2>3. QED
    BY <2>1, <2>2, Zenon DEF FlagInv, Truth
<1>2. WatcherInv /\ FlagInv /\ [Next]_vars => FlagInv'
  BY FlagStep
<1>3. QED
  BY <1>1, <1>2, WatcherInvCorrect, PTL DEF Spec

(* "Wake already in progress" is said exactly while one is.                *)
THEOREM HookRunningCorrect == Spec => []HookRunningIsTrue
<1>1. FlagInv => HookRunningIsTrue
  BY Zenon DEF FlagInv, Truth, InFlight, HookRunningIsTrue
<1>2. QED
  BY <1>1, FlagCorrect, PTL

-----------------------------------------------------------------------------
(* Presses: however many nodes one press is mirrored onto, the wake it     *)
(* starts is running or cooling down until the last has been read.         *)
LEMMA PressStep ==
  ASSUME WatcherInv, PressInv, [Next]_vars, config.cooldown
  PROVE  PressInv'
<1>1. /\ presses \in Nat /\ wakes \in Nat
      /\ unread \in [Paths -> 0 .. MaxPresses]
  BY WatcherAssumption DEF WatcherAssumption, WatcherInv, TypeOK
<1>2. wakes <= presses /\ (Waits /\ ~cooling => wakes < presses)
  BY Zenon DEF PressInv
<1>3. ASSUME wakes' = wakes, presses' = presses, Waits' /\ ~cooling' => Waits /\ ~cooling
      PROVE  PressInv'
  BY <1>2, <1>3, Zenon DEF PressInv
<1>4. CASE Reads
  <2>1. Waits' => Waits
    BY <1>4, Zenon DEF Reads, Waits
  <2>2. ~cooling' => ~cooling
    BY <1>4, Zenon DEF Reads
  <2>3. QED
    BY <1>3, <1>4, <2>1, <2>2, Zenon DEF Reads, NoWake
<1>5. CASE Starts
  <2>1. wakes < presses /\ wakes' = wakes + 1 /\ presses' = presses
    BY <1>2, <1>5, Zenon DEF Starts
  <2>2. wakes' <= presses'
    BY <1>1, <2>1
  <2>3. cooling'
    BY <1>5, Zenon DEF Starts
  <2>4. QED
    BY <2>2, <2>3, Zenon DEF PressInv
<1>6. CASE Press
  <2>1. presses' = presses + 1 /\ wakes' = wakes
    BY <1>6, Zenon DEF Press, hooks
  <2>2. wakes' <= presses' /\ wakes' < presses'
    BY <1>1, <1>2, <2>1
  <2>3. QED
    BY <2>2, Zenon DEF PressInv
<1>7. CASE CoolsDown
  <2>1. /\ \A p \in Paths : unread[p] = 0
        /\ unread' = unread /\ wakes' = wakes /\ presses' = presses
    BY <1>7, Zenon DEF CoolsDown, input, world
  <2>2. ~Waits'
    BY <2>1 DEF Waits
  <2>3. QED
    BY <1>3, <2>1, <2>2, Zenon
<1>8. CASE ChildEnds \/ RunHook \/ HookEnded
  <2>1. UNCHANGED << wakes, presses, unread, cooling >>
    BY <1>8, Zenon DEF ChildEnds, RunHook, HookEnded, world, input
  <2>2. Waits' => Waits
    BY <2>1, Zenon DEF Waits
  <2>3. QED
    BY <1>3, <2>1, <2>2, Zenon
<1>9. CASE Finish
  <2>1. unread' = [p \in Paths |-> 0] /\ wakes' = wakes /\ presses' = presses
    BY <1>9, Zenon DEF Finish, world
  <2>2. ~Waits'
    BY <2>1 DEF Waits
  <2>3. QED
    BY <1>3, <2>1, <2>2, Zenon
<1>10. QED
  BY <1>4, <1>5, <1>6, <1>7, <1>8, <1>9, StepCases, Zenon

(* PressInv is an invariant when there is a cooldown.                      *)
LEMMA PressCorrect ==
  ASSUME \A c \in Configs : c.cooldown
  PROVE  Spec => []PressInv
<1> DEFINE Cools == config.cooldown
<1>1. Init => PressInv /\ Cools
  <2> SUFFICES ASSUME Init PROVE PressInv /\ Cools
    OBVIOUS
  <2>1. Cools
    BY Zenon DEF Init
  <2>2. presses = 0 /\ wakes = 0 /\ \A p \in Paths : unread[p] = 0
    BY DEF Init
  <2>3. wakes <= presses /\ ~Waits
    BY <2>2 DEF Waits
  <2>4. QED
    BY <2>1, <2>3, Zenon DEF PressInv
<1>2. Cools /\ [Next]_vars => Cools'
  <2>1. [Next]_vars => config' = config
    BY Zenon DEF Next, World, Loop, vars, Plug, Chmod, Unplug, Press, CoolsDown, ChildEnds,
                 StartNetlink, Scan, ScanOpens, Retry, RetryOpens, Drain, Drained,
                 NetlinkFails, Readable, RunHook, HookEnded, Stop, Finish
  <2>2. QED
    BY <2>1, Zenon
<1>3. WatcherInv /\ PressInv /\ Cools /\ [Next]_vars => PressInv'
  BY PressStep
<1> HIDE DEF Cools
<1>4. QED
  BY <1>1, <1>2, <1>3, WatcherInvCorrect, PTL DEF Spec

-----------------------------------------------------------------------------
(* The flight of a wake, step by step: it takes off when none is in the    *)
(* air, with a press to spare, and it lands.                               *)
LEMMA PromiseStep ==
  ASSUME WatcherInv, FlagInv, PressInv, [Next]_vars
  PROVE  [Promise!Next]_(Promise!vars)
<1>1. /\ presses \in Nat /\ wakes \in Nat
      /\ tasks \in Nat /\ children \in Nat /\ ended \in Nat
  BY WatcherAssumption DEF WatcherAssumption, WatcherInv, TypeOK
<1> DEFINE F == tasks + children + ended > 0
<1>2. ASSUME presses' = presses, wakes' = wakes, F' = F PROVE UNCHANGED Promise!vars
  <2>1. (tasks + children + ended > 0)' = (tasks + children + ended > 0)
    BY <1>2, Zenon DEF F
  <2>2. QED
    BY <1>2, <2>1, Zenon DEF Promise!vars
<1>3. ASSUME presses' = presses, wakes' = wakes, F, ~F' PROVE Promise!Land
  <2>1. (tasks + children + ended > 0)' = FALSE
    BY <1>3 DEF F
  <2>2. tasks + children + ended > 0
    BY <1>3, Zenon DEF F
  <2>3. QED
    BY <1>3, <2>1, <2>2, Zenon DEF Promise!Land
<1>4. ASSUME presses' = presses + 1, wakes' = wakes, F' = F PROVE Promise!Press
  BY <1>4, Zenon DEF Promise!Press
<1>5. ASSUME presses' = presses, wakes' = wakes + 1, wakes < presses, ~F, F'
      PROVE  Promise!Wake
  BY <1>5, Zenon DEF Promise!Wake
<1> HIDE DEF F
<1>6. CASE Reads \/ CoolsDown
  <2>1. UNCHANGED << presses, wakes, tasks, children, ended >>
    BY <1>6, Zenon DEF Reads, NoWake, CoolsDown, world
  <2>2. F' = F
    BY <2>1, Zenon DEF F
  <2>3. QED
    BY <1>2, <2>1, <2>2
<1>7. CASE Starts
  <2>1. Truth /\ ~hook_running /\ Waits /\ ~cooling
    BY <1>7, Zenon DEF FlagInv, Starts
  <2>2. tasks + children + ended = 0 /\ wakes < presses
    BY <2>1, Zenon DEF Truth, InFlight, PressInv
  <2>3. ~F
    BY <2>2 DEF F
  <2>4. /\ presses' = presses /\ wakes' = wakes + 1
        /\ tasks' = tasks + 1 /\ children' = children /\ ended' = ended
    BY <1>7, Zenon DEF Starts
  <2>5. F'
    BY <1>1, <2>4 DEF F
  <2>6. QED
    BY <1>5, <2>2, <2>3, <2>4, <2>5, Zenon DEF Promise!Next
<1>8. CASE Press
  <2>1. presses' = presses + 1 /\ UNCHANGED << wakes, tasks, children, ended >>
    BY <1>8, Zenon DEF Press, hooks
  <2>2. F' = F
    BY <2>1, Zenon DEF F
  <2>3. QED
    BY <1>4, <2>1, <2>2, Zenon DEF Promise!Next
<1>9. ASSUME presses' = presses, wakes' = wakes, tasks' \in Nat, children' \in Nat,
             ended' \in Nat, InFlight' <= InFlight
      PROVE  [Promise!Next]_(Promise!vars)
  <2>1. CASE F' = F
    BY <1>2, <1>9, <2>1
  <2>2. CASE F /\ ~F'
    BY <1>3, <1>9, <2>2, Zenon DEF Promise!Next
  <2>3. F' => F
    <3>1. tasks' + children' + ended' <= tasks + children + ended
      BY <1>9, Zenon DEF InFlight
    <3>2. tasks' \in Nat /\ children' \in Nat /\ ended' \in Nat
      BY <1>9, Zenon
    <3>3. tasks' + children' + ended' > 0 => tasks + children + ended > 0
      <4>1. \A a, b, c, x, y, z \in Nat : x + y + z <= a + b + c
                                          => (x + y + z > 0 => a + b + c > 0)
        OBVIOUS
      <4>2. QED
        BY <1>1, <3>1, <3>2, <4>1, Zenon
    <3>4. QED
      BY <3>3, Zenon DEF F
  <2>4. F \in BOOLEAN /\ F' \in BOOLEAN
    BY DEF F
  <2>5. QED
    BY <2>1, <2>2, <2>3, <2>4, Zenon
<1>10. CASE ChildEnds \/ RunHook \/ HookEnded \/ Finish
  <2>1. presses' = presses /\ wakes' = wakes
    BY <1>10, Zenon DEF ChildEnds, RunHook, HookEnded, Finish, world
  <2>2. tasks' \in Nat /\ children' \in Nat /\ ended' \in Nat
    <3>1. WatcherInv'
      BY WatcherInvStep
    <3>2. QED
      BY <3>1, Zenon DEF WatcherInv, TypeOK
  <2>3. \/ tasks' = tasks /\ children' = children - 1 /\ ended' = ended + 1
        \/ tasks' = tasks - 1 /\ children' = children + 1 /\ ended' = ended
        \/ tasks' = tasks - 1 /\ children' = children /\ ended' = ended
        \/ tasks' = tasks /\ children' = children /\ ended' = ended - 1
        \/ tasks' = 0 /\ children' = children /\ ended' = 0
    BY <1>10, Zenon DEF ChildEnds, RunHook, HookEnded, Finish
  <2>4. InFlight' <= InFlight
    BY <1>1, <2>3 DEF InFlight
  <2>5. QED
    BY <1>9, <2>1, <2>2, <2>4
<1>11. QED
  BY <1>6, <1>7, <1>8, <1>10, StepCases, Zenon

(* The watcher implements OneWake: wakes never overlap, and a press, on    *)
(* however many nodes Steam mirrors it, starts no more than one.           *)
THEOREM PromiseCorrect ==
  ASSUME \A c \in Configs : c.cooldown
  PROVE  Spec => KeepsPromise
<1>1. Init => Promise!Init
  <2> SUFFICES ASSUME Init PROVE Promise!Init
    OBVIOUS
  <2>1. presses = 0 /\ wakes = 0 /\ tasks = 0 /\ children = 0 /\ ended = 0
    BY Zenon DEF Init
  <2>2. (tasks + children + ended > 0) = FALSE
    BY <2>1
  <2>3. QED
    BY <2>1, <2>2, Zenon DEF Promise!Init
<1>2. WatcherInv /\ FlagInv /\ PressInv /\ [Next]_vars => [Promise!Next]_(Promise!vars)
  BY PromiseStep
<1>3. Spec => []PressInv
  BY PressCorrect
<1>4. QED
  BY <1>1, <1>2, <1>3, WatcherInvCorrect, FlagCorrect, PTL DEF Spec, KeepsPromise, Promise!Spec
=============================================================================
