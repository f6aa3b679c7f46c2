---------------------------- MODULE LogRotation ----------------------------
(***************************************************************************)
(* cec_log.Logger: the processes that append to one log (the hooks of the  *)
(* machine write cec-hook.log; the watcher has a log of its own), each     *)
(* rotating it before it writes.  Every system call is a step, and nothing *)
(* locks the file: another process, or the end of this one, may come       *)
(* between any two.  A line is a number, the how-manieth it is; size is    *)
(* counted in lines.                                                       *)
(***************************************************************************)
EXTENDS Integers, Sequences, FiniteSets, Functions

CONSTANTS
    Writers,    \* the processes, each replaced by a new one when it ends
    Files,      \* inodes
    NoFile,
    Limits,     \* what LOG_MAX_BYTES may be, in lines; 0 turns rotation off
    Keeps,      \* what LOG_KEEP may be
    MaxCalls    \* bound: how often something is logged

ASSUME LogAssumption ==
    /\ Limits \subseteq Nat /\ Keeps \subseteq Nat
    /\ NoFile \notin Files
    /\ MaxCalls \in Nat

VARIABLES
    max_bytes, keep,    \* of the Logger, which every process configures alike
    slot,       \* slot[0] is the file at path, slot[i] the one at path.i
    content,    \* per inode: its lines
    pc,         \* per process: the system call it makes next
    index,      \* per process: the loop variable of the rotation
    handle,     \* per process: the file it has open
    calls,      \* how often something was logged
    written,    \* history: how many lines were written
    cut,        \* history: how many rotations were cut short by a kill
    overlapped  \* history: two processes were logging at a time

vars == << max_bytes, keep, slot, content, pc, index, handle, calls, written, cut, overlapped >>

Slots == 0 .. keep
Pc == {"idle", "getsize", "exists", "replace", "retire", "open", "write"}

Goto(w, where) == pc' = [pc EXCEPT ![w] = where]

(* A message: the log is called, and first looks whether to rotate.        *)
Call(w) ==
    /\ pc[w] = "idle" /\ calls < MaxCalls
    /\ calls' = calls + 1
    /\ Goto(w, IF max_bytes = 0 THEN "open" ELSE "getsize")
    /\ overlapped' = (overlapped \/ \E v \in Writers \ {w} : pc[v] # "idle")
    /\ UNCHANGED << max_bytes, keep, slot, content, index, handle, written, cut >>

GetsizeLate(w) ==       \* mutant: a log of just LOG_MAX_BYTES is not rotated yet
    /\ pc[w] = "getsize"
    /\ IF slot[0] = NoFile \/ Len(content[slot[0]]) <= max_bytes
       THEN Goto(w, "open") /\ UNCHANGED index
       ELSE /\ index' = [index EXCEPT ![w] = keep]
            /\ Goto(w, IF keep > 1 THEN "exists" ELSE "retire")
    /\ UNCHANGED << max_bytes, keep, slot, content, handle, calls, written, cut, overlapped >>

GetsizeShort(w) ==      \* mutant: range(keep - 1, 1, -1) leaves the oldest where it is
    /\ pc[w] = "getsize"
    /\ IF slot[0] = NoFile \/ Len(content[slot[0]]) < max_bytes
       THEN Goto(w, "open") /\ UNCHANGED index
       ELSE /\ index' = [index EXCEPT ![w] = keep - 1]
            /\ Goto(w, IF keep > 2 THEN "exists" ELSE "retire")
    /\ UNCHANGED << max_bytes, keep, slot, content, handle, calls, written, cut, overlapped >>

(* os.path.getsize, which raises when there is no file.                    *)
Getsize(w) ==
    /\ pc[w] = "getsize"
    /\ IF slot[0] = NoFile \/ Len(content[slot[0]]) < max_bytes
       THEN Goto(w, "open") /\ UNCHANGED index
       ELSE /\ index' = [index EXCEPT ![w] = keep]
            /\ Goto(w, IF keep > 1 THEN "exists" ELSE "retire")
    /\ UNCHANGED << max_bytes, keep, slot, content, handle, calls, written, cut, overlapped >>

NextIndexTooFar(w) ==   \* mutant: range(keep, 0, -1) goes one turn too far
    /\ index' = [index EXCEPT ![w] = @ - 1]
    /\ Goto(w, IF index[w] > 1 THEN "exists" ELSE "retire")

(* The end of a turn of `for index in range(keep, 1, -1)`.                 *)
NextIndex(w) ==
    /\ index' = [index EXCEPT ![w] = @ - 1]
    /\ Goto(w, IF index[w] > 2 THEN "exists" ELSE "retire")

Exists(w) ==
    /\ pc[w] = "exists"
    /\ IF slot[index[w] - 1] # NoFile
       THEN Goto(w, "replace") /\ UNCHANGED index
       ELSE NextIndex(w)
    /\ UNCHANGED << max_bytes, keep, slot, content, handle, calls, written, cut, overlapped >>

(* os.replace of a slot by the one below.  What is no longer there cannot  *)
(* be moved, and the OSError ends the rotation, but not the call.          *)
Move(w, to) ==
    /\ slot[to - 1] # NoFile
    /\ slot' = [slot EXCEPT ![to] = slot[to - 1], ![to - 1] = NoFile]

Abandon(w, from) ==
    /\ slot[from] = NoFile
    /\ Goto(w, "open")
    /\ UNCHANGED << slot, index >>

Replace(w) ==
    /\ pc[w] = "replace"
    /\ \/ Move(w, index[w]) /\ NextIndex(w)
       \/ Abandon(w, index[w] - 1)
    /\ UNCHANGED << max_bytes, keep, content, handle, calls, written, cut, overlapped >>

(* The log itself becomes the first backup or, when none is kept, goes.    *)
Retire(w) ==
    /\ pc[w] = "retire"
    /\ \/ /\ keep >= 1 /\ Move(w, 1)
          /\ Goto(w, "open") /\ UNCHANGED index
       \/ /\ keep = 0 /\ slot[0] # NoFile
          /\ slot' = [slot EXCEPT ![0] = NoFile]
          /\ Goto(w, "open") /\ UNCHANGED index
       \/ Abandon(w, 0)
    /\ UNCHANGED << max_bytes, keep, content, handle, calls, written, cut, overlapped >>

InUse == {slot[i] : i \in Slots} \cup {handle[w] : w \in Writers}

Open(w) ==
    /\ pc[w] = "open"
    /\ \/ /\ slot[0] # NoFile
          /\ handle' = [handle EXCEPT ![w] = slot[0]]
          /\ UNCHANGED << slot, content >>
       \/ /\ slot[0] = NoFile /\ ~ Files \subseteq InUse
          /\ LET new == CHOOSE f \in Files : f \notin InUse
             IN  /\ slot' = [slot EXCEPT ![0] = new]
                 /\ handle' = [handle EXCEPT ![w] = new]
                 /\ content' = [content EXCEPT ![new] = << >>]
    /\ Goto(w, "write")
    /\ UNCHANGED << max_bytes, keep, index, calls, written, cut, overlapped >>

(* The line leaves the buffer when the file is closed, to wherever the     *)
(* file is by then.                                                        *)
Write(w) ==
    /\ pc[w] = "write"
    /\ written' = written + 1
    /\ content' = [content EXCEPT ![handle[w]] = Append(@, written + 1)]
    /\ handle' = [handle EXCEPT ![w] = NoFile]
    /\ Goto(w, "idle")
    /\ UNCHANGED << max_bytes, keep, slot, index, calls, cut, overlapped >>

(* The process is killed, or the open or the write raises: the line is     *)
(* lost, with a warning at most, and the next call is another process's.   *)
Lose(w) ==
    /\ pc[w] # "idle"
    /\ handle' = [handle EXCEPT ![w] = NoFile]
    /\ cut' = IF pc[w] \in {"exists", "replace", "retire"} THEN cut + 1 ELSE cut
    /\ Goto(w, "idle")
    /\ UNCHANGED << max_bytes, keep, slot, content, index, calls, written, overlapped >>

Init ==
    /\ max_bytes \in Limits /\ keep \in Keeps
    /\ slot = [i \in Slots |-> NoFile]
    /\ content = [f \in Files |-> << >>]
    /\ pc = [w \in Writers |-> "idle"]
    /\ index = [w \in Writers |-> 0]
    /\ handle = [w \in Writers |-> NoFile]
    /\ calls = 0 /\ written = 0 /\ cut = 0
    /\ overlapped = FALSE

Next == \E w \in Writers :
    \/ Call(w) \/ Getsize(w) \/ Exists(w) \/ Replace(w) \/ Retire(w) \/ Open(w) \/ Write(w)
    \/ Lose(w)

Spec == Init /\ [][Next]_vars

-----------------------------------------------------------------------------
(* Every variable stays in its domain.                                     *)
TypeOK ==
    /\ max_bytes \in Nat /\ keep \in Nat
    /\ slot \in [Slots -> Files \cup {NoFile}]
    /\ content \in [Files -> Seq(1 .. written)]
    /\ pc \in [Writers -> Pc]
    /\ index \in [Writers -> Nat]
    /\ handle \in [Writers -> Files \cup {NoFile}]
    /\ calls \in Nat /\ written \in Nat /\ cut \in Nat
    /\ overlapped \in BOOLEAN
    /\ \A w \in Writers : /\ pc[w] \in {"exists", "replace"} => index[w] \in 2 .. keep
                          /\ pc[w] = "write" <=> handle[w] # NoFile

Lines(i) == IF slot[i] = NoFile THEN << >> ELSE content[slot[i]]

Kept == UNION {Range(Lines(i)) : i \in Slots}

InOrder ==
    \A i, j \in Slots : \A m \in DOMAIN Lines(i), n \in DOMAIN Lines(j) :
        i > j \/ (i = j /\ m < n) => Lines(i)[m] < Lines(j)[n]

(* As long as no two processes log at a time, the log and its backups,     *)
(* read from the oldest on, hold the last lines written, in order and with *)
(* no gap, between any two calls of a rotation and wherever a process is   *)
(* killed: all of them while rotation is off; otherwise LOG_KEEP full      *)
(* files of them, less one for every rotation that was cut short, whose    *)
(* gap the next one shifts along.                                          *)
KeepsRecent ==
    ~overlapped =>
        /\ InOrder
        /\ \A n \in 1 .. written :
              max_bytes = 0 \/ n > written - (keep - cut) * max_bytes \/ (\E m \in Kept : m < n)
                  => n \in Kept

SoloBounded == \A i \in Slots : Len(Lines(i)) <= max_bytes

(* A backup only moves upwards: from a place to a higher one.              *)
Ups == {p \in (1 .. keep) \X (1 .. keep) : p[1] < p[2]}

(* What may still be written to a full file: a line by each of the others, *)
(* and one more by each whenever a backup moves that it was to move next,  *)
(* which ends its rotation.                                                *)
Overshoot == (Cardinality(Writers) - 1) * (1 + Cardinality(Ups))

(* No file outgrows the limit as long as no two processes log at a time,   *)
(* and none outgrows it without bound when they do.                        *)
Bounded ==
    max_bytes > 0 =>
        IF overlapped THEN \A i \in Slots : Len(Lines(i)) <= max_bytes + Overshoot
        ELSE SoloBounded
=============================================================================
