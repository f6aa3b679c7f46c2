------------------------- MODULE LogRotationProofs -------------------------
(***************************************************************************)
(* LogRotation for any limit, any number of backups, processes and calls:  *)
(* its types, the bound on a log that processes rotate under each other,   *)
(* and what a log that one process at a time writes holds.                 *)
(***************************************************************************)
EXTENDS LogRotation, FiniteSetTheorems, SequenceTheorems, TLAPS

(* Nothing is in any slot at first.                                        *)
LEMMA LogInit == Init => TypeOK
<1> SUFFICES ASSUME Init PROVE TypeOK
  OBVIOUS
<1>1. max_bytes \in Nat /\ keep \in Nat
  BY LogAssumption DEF Init
<1>2. content \in [Files -> Seq(1 .. written)]
  BY DEF Init
<1> QED  BY <1>1, <1>2 DEF Init, TypeOK, Pc, Slots

(* A file that moves stays a file, in the slots there are.                 *)
LEMMA MoveType ==
    ASSUME TypeOK, NEW w \in Writers, NEW to \in 1 .. keep, Move(w, to), keep' = keep
    PROVE  slot' \in [Slots' -> Files \cup {NoFile}]
BY DEF Move, TypeOK, Slots

(* A process that moves on within the rotation, or out of it.              *)
LEMMA GotoType ==
    ASSUME TypeOK, NEW w \in Writers, NEW where \in Pc, Goto(w, where)
    PROVE  /\ pc' \in [Writers -> Pc] /\ pc'[w] = where
           /\ \A v \in Writers \ {w} : pc'[v] = pc[v]
BY DEF TypeOK, Goto

(* The shift loop stays between the last backup and the second.            *)
LEMMA NextIndexType ==
    ASSUME TypeOK, NEW w \in Writers, pc[w] \in {"exists", "replace"}, NextIndex(w)
    PROVE  /\ pc' \in [Writers -> Pc] /\ pc'[w] \in {"exists", "retire"}
           /\ \A v \in Writers \ {w} : pc'[v] = pc[v] /\ index'[v] = index[v]
           /\ index' \in [Writers -> Nat]
           /\ pc'[w] = "exists" => index'[w] \in 2 .. keep
<1>1. index[w] \in 2 .. keep /\ keep \in Nat
  BY DEF TypeOK
<1>2. /\ index' \in [Writers -> Nat] /\ index'[w] = index[w] - 1
      /\ \A v \in Writers \ {w} : index'[v] = index[v]
  BY <1>1 DEF NextIndex, TypeOK
<1>3. CASE index[w] > 2
  BY <1>1, <1>2, <1>3, GotoType DEF NextIndex, Pc
<1>4. CASE ~(index[w] > 2)
  BY <1>1, <1>2, <1>4, GotoType DEF NextIndex, Pc
<1> QED  BY <1>3, <1>4

(* What a step of the rotation leaves alone, and where it leads.           *)
LEMMA ShiftingType ==
    ASSUME TypeOK, NEW w \in Writers, Getsize(w) \/ Exists(w) \/ Replace(w) \/ Retire(w)
    PROVE  TypeOK'
<1>1. /\ UNCHANGED << max_bytes, keep, content, handle, calls, written, cut, overlapped >>
      /\ pc[w] # "write"
  BY DEF Getsize, Exists, Replace, Retire
<1>2. ASSUME slot' \in [Slots' -> Files \cup {NoFile}],
             index' \in [Writers -> Nat], pc' \in [Writers -> Pc], pc'[w] # "write",
             pc'[w] \in {"exists", "replace"} => index'[w] \in 2 .. keep,
             \A v \in Writers \ {w} : pc'[v] = pc[v] /\ index'[v] = index[v]
      PROVE  TypeOK'
  <2>1. \A v \in Writers : pc'[v] \in {"exists", "replace"} => index'[v] \in 2 .. keep'
    BY <1>1, <1>2 DEF TypeOK
  <2>2. \A v \in Writers : pc'[v] = "write" <=> handle'[v] # NoFile
    BY <1>1, <1>2 DEF TypeOK
  <2> QED  BY <1>1, <1>2, <2>1, <2>2 DEF TypeOK
<1>3. slot \in [Slots -> Files \cup {NoFile}] /\ Slots' = Slots /\ index \in [Writers -> Nat]
  BY <1>1 DEF TypeOK, Slots
<1>4. CASE Getsize(w)
  <2>1. CASE Goto(w, "open") /\ UNCHANGED << slot, index >>
    BY <1>2, <1>3, <2>1, GotoType DEF Pc
  <2>2. CASE /\ index' = [index EXCEPT ![w] = keep] /\ UNCHANGED slot
             /\ Goto(w, IF keep > 1 THEN "exists" ELSE "retire")
    <3>1. /\ index' \in [Writers -> Nat] /\ index'[w] = keep /\ keep \in Nat
          /\ \A v \in Writers \ {w} : index'[v] = index[v]
      BY <1>3, <2>2 DEF TypeOK
    <3>2. CASE keep > 1
      BY <1>2, <1>3, <2>2, <3>1, <3>2, GotoType DEF Pc
    <3>3. CASE ~(keep > 1)
      BY <1>2, <1>3, <2>2, <3>1, <3>3, GotoType DEF Pc
    <3> QED  BY <3>2, <3>3
  <2> QED  BY <1>4, <2>1, <2>2 DEF Getsize
<1>5. CASE Exists(w)
  <2>1. CASE Goto(w, "replace") /\ UNCHANGED << slot, index >>
    <3>1. index[w] \in 2 .. keep
      BY <1>5 DEF Exists, TypeOK
    <3> QED  BY <1>2, <1>3, <2>1, <3>1, GotoType DEF Pc
  <2>2. CASE NextIndex(w) /\ UNCHANGED slot
    BY <1>2, <1>3, <1>5, <2>2, NextIndexType DEF Exists
  <2> QED  BY <1>5, <2>1, <2>2 DEF Exists
<1>6. ASSUME NEW from \in Nat, Abandon(w, from) PROVE TypeOK'
  BY <1>2, <1>3, <1>6, GotoType DEF Abandon, Pc
<1>7. CASE Replace(w)
  <2>1. index[w] \in 2 .. keep /\ keep \in Nat
    BY <1>7 DEF Replace, TypeOK
  <2>2. CASE Move(w, index[w]) /\ NextIndex(w)
    <3>1. slot' \in [Slots' -> Files \cup {NoFile}]
      BY <1>1, <2>1, <2>2, MoveType
    <3> QED  BY <1>2, <1>7, <2>2, <3>1, NextIndexType DEF Replace
  <2> QED  BY <1>6, <1>7, <2>1, <2>2 DEF Replace
<1>8. CASE Retire(w)
  <2>1. CASE keep >= 1 /\ Move(w, 1) /\ Goto(w, "open") /\ UNCHANGED index
    <3>1. slot' \in [Slots' -> Files \cup {NoFile}]
      BY <1>1, <2>1, MoveType DEF TypeOK
    <3> QED  BY <1>2, <1>3, <2>1, <3>1, GotoType DEF Pc
  <2>2. CASE /\ slot' = [slot EXCEPT ![0] = NoFile]
             /\ Goto(w, "open") /\ UNCHANGED index
    <3>1. slot' \in [Slots' -> Files \cup {NoFile}]
      BY <1>3, <2>2
    <3> QED  BY <1>2, <1>3, <2>2, <3>1, GotoType DEF Pc
  <2> QED  BY <1>6, <1>8, <2>1, <2>2 DEF Retire
<1> QED  BY <1>4, <1>5, <1>7, <1>8

(* A file that is not there yet is made of one that nothing refers to.     *)
LEMMA OpenType ==
    ASSUME TypeOK, NEW w \in Writers, Open(w)
    PROVE  /\ TypeOK'
           /\ slot[0] # NoFile => handle'[w] = slot[0] /\ content' = content
           /\ slot[0] = NoFile => /\ handle'[w] \in Files
                                  /\ content' = [content EXCEPT ![handle'[w]] = << >>]
<1>1. /\ UNCHANGED << max_bytes, keep, index, calls, written, cut, overlapped >>
      /\ pc[w] = "open" /\ Goto(w, "write") /\ 0 \in Slots /\ Slots' = Slots
  BY DEF Open, Slots, TypeOK
<1>2. /\ pc' \in [Writers -> Pc] /\ pc'[w] = "write"
      /\ \A v \in Writers \ {w} : pc'[v] = pc[v]
  BY <1>1, GotoType DEF Pc
<1>3. ASSUME NEW f \in Files, handle' = [handle EXCEPT ![w] = f],
             slot' \in [Slots -> Files \cup {NoFile}],
             content' \in [Files -> Seq(1 .. written)]
      PROVE  TypeOK'
  <2>1. /\ handle' \in [Writers -> Files \cup {NoFile}] /\ handle'[w] = f /\ f # NoFile
        /\ \A v \in Writers \ {w} : handle'[v] = handle[v]
    BY <1>3, LogAssumption DEF TypeOK
  <2>2. \A v \in Writers : pc'[v] = "write" <=> handle'[v] # NoFile
    BY <1>2, <2>1 DEF TypeOK
  <2>3. \A v \in Writers : pc'[v] \in {"exists", "replace"} => index'[v] \in 2 .. keep'
    BY <1>1, <1>2 DEF TypeOK
  <2> QED  BY <1>1, <1>2, <1>3, <2>1, <2>2, <2>3 DEF TypeOK
<1>4. CASE slot[0] # NoFile
  <2>1. slot[0] \in Files /\ handle' = [handle EXCEPT ![w] = slot[0]] /\ UNCHANGED << slot, content >>
    BY <1>1, <1>4 DEF Open, TypeOK
  <2> QED  BY <1>3, <1>4, <2>1 DEF TypeOK
<1>5. CASE slot[0] = NoFile
  <2> DEFINE new == CHOOSE f \in Files : f \notin InUse
  <2>1. new \in Files
    BY <1>5 DEF Open
  <2>2. /\ slot' = [slot EXCEPT ![0] = new] /\ handle' = [handle EXCEPT ![w] = new]
        /\ content' = [content EXCEPT ![new] = << >>]
    BY <1>5 DEF Open
  <2> HIDE DEF new
  <2>3. slot' \in [Slots -> Files \cup {NoFile}] /\ handle'[w] = new
    BY <2>1, <2>2 DEF TypeOK
  <2>4. content' \in [Files -> Seq(1 .. written)]
    <3>1. << >> \in Seq(1 .. written)
      OBVIOUS
    <3> QED  BY <2>1, <2>2, <3>1 DEF TypeOK
  <2> QED  BY <1>3, <1>5, <2>1, <2>2, <2>3, <2>4
<1> QED  BY <1>4, <1>5

(* The line is the newest there is.                                        *)
LEMMA WriteType ==
    ASSUME TypeOK, NEW w \in Writers, Write(w)
    PROVE  /\ TypeOK'
           /\ \A f \in Files : Len(content'[f]) = IF f = handle[w] THEN Len(content[f]) + 1
                                                  ELSE Len(content[f])
<1>1. /\ pc' \in [Writers -> Pc] /\ pc'[w] = "idle"
      /\ \A v \in Writers \ {w} : pc'[v] = pc[v]
  BY GotoType DEF Write, Pc
<1>2. handle[w] \in Files /\ written \in Nat
  BY DEF Write, TypeOK
<1>3. ASSUME NEW f \in Files
      PROVE  /\ content[f] \in Seq(1 .. written)
             /\ content[f] \in Seq(1 .. written')
             /\ written' \in 1 .. written'
  <2>1. 1 .. written \subseteq 1 .. written' /\ written' \in 1 .. written'
    BY <1>2 DEF Write
  <2> QED  BY <2>1 DEF TypeOK
<1>4. /\ content' \in [Files -> Seq(1 .. written')]
      /\ \A f \in Files : Len(content'[f]) = IF f = handle[w] THEN Len(content[f]) + 1
                                             ELSE Len(content[f])
  <2>1. content' = [content EXCEPT ![handle[w]] = Append(@, written')]
    BY DEF Write
  <2>2. content \in [Files -> Seq(1 .. written)]
    BY DEF TypeOK
  <2>3. ASSUME NEW s \in Seq(1 .. written), s \in Seq(1 .. written')
        PROVE  Append(s, written') \in Seq(1 .. written') /\ Len(Append(s, written')) = Len(s) + 1
    BY <1>2, <2>3 DEF Write
  <2> QED  BY <1>2, <1>3, <2>1, <2>2, <2>3
<1>5. /\ handle' \in [Writers -> Files \cup {NoFile}] /\ handle'[w] = NoFile
      /\ \A v \in Writers \ {w} : handle'[v] = handle[v]
  BY DEF Write, TypeOK
<1>6. \A v \in Writers : pc'[v] = "write" <=> handle'[v] # NoFile
  BY <1>1, <1>5 DEF TypeOK
<1>7. \A v \in Writers : pc'[v] \in {"exists", "replace"} => index'[v] \in 2 .. keep'
  BY <1>1 DEF Write, TypeOK
<1> QED  BY <1>1, <1>4, <1>5, <1>6, <1>7 DEF Write, TypeOK, Slots

(* A call begins, or is given up.                                          *)
LEMMA EdgesType ==
    ASSUME TypeOK, NEW w \in Writers, Call(w) \/ Lose(w)
    PROVE  TypeOK'
<1>1. CASE Call(w)
  <2>1. \E where \in {"open", "getsize"} : Goto(w, where)
    BY <1>1 DEF Call
  <2>2. /\ pc' \in [Writers -> Pc] /\ pc'[w] \in {"open", "getsize"} /\ pc[w] = "idle"
        /\ \A v \in Writers \ {w} : pc'[v] = pc[v]
    BY <1>1, <2>1, GotoType DEF Pc, Call
  <2> QED  BY <1>1, <2>2 DEF Call, TypeOK, Slots
<1>2. CASE Lose(w)
  <2>1. /\ pc' \in [Writers -> Pc] /\ pc'[w] = "idle"
        /\ \A v \in Writers \ {w} : pc'[v] = pc[v]
    BY <1>2, GotoType DEF Pc, Lose
  <2>2. /\ handle' \in [Writers -> Files \cup {NoFile}] /\ handle'[w] = NoFile
        /\ \A v \in Writers \ {w} : handle'[v] = handle[v]
    BY <1>2 DEF Lose, TypeOK
  <2>3. \A v \in Writers : pc'[v] = "write" <=> handle'[v] # NoFile
    BY <2>1, <2>2 DEF TypeOK
  <2>4. \A v \in Writers : pc'[v] \in {"exists", "replace"} => index'[v] \in 2 .. keep'
    BY <1>2, <2>1 DEF Lose, TypeOK
  <2>5. cut' \in Nat
    BY <1>2 DEF Lose, TypeOK
  <2> QED  BY <1>2, <2>1, <2>2, <2>3, <2>4, <2>5 DEF Lose, TypeOK, Slots
<1> QED  BY <1>1, <1>2

(* However many processes share a log and wherever they are killed, every  *)
(* variable stays in its domain, and the shift loop within the backups.    *)
THEOREM LogTypeCorrect == Spec => []TypeOK
<1>1. TypeOK /\ [Next]_vars => TypeOK'
  <2>1. CASE UNCHANGED vars
    BY <2>1 DEF vars, TypeOK, Slots
  <2>2. ASSUME TypeOK, NEW w \in Writers,
               \/ Call(w) \/ Getsize(w) \/ Exists(w) \/ Replace(w) \/ Retire(w)
               \/ Open(w) \/ Write(w) \/ Lose(w)
        PROVE  TypeOK'
    BY <2>2, ShiftingType, OpenType, WriteType, EdgesType
  <2> QED  BY <2>1, <2>2 DEF Next
<1> QED  BY <1>1, LogInit, PTL DEF Spec

-----------------------------------------------------------------------------
(* While no two processes log at a time: no file is larger than the limit, *)
(* what is about to be opened or written to is smaller, and a backup that  *)
(* was there is there when it is moved, so that no rotation is abandoned   *)
(* with a full log left in place.                                          *)
RoomFor(w) ==
    /\ pc[w] = "replace" => slot[index[w] - 1] # NoFile
    /\ pc[w] = "open" /\ slot[0] # NoFile => Len(content[slot[0]]) < max_bytes
    /\ pc[w] = "write" => Len(content[handle[w]]) < max_bytes

Alone(w) == \A v \in Writers \ {w} : pc[v] = "idle"

SoloInv ==
    /\ overlapped => Writers # {}
    /\ ~overlapped =>
        /\ \A w \in Writers : pc[w] # "idle" => Alone(w)
        /\ max_bytes > 0 => /\ \A f \in Files : Len(content[f]) <= max_bytes
                            /\ \A w \in Writers : RoomFor(w)

(* The processes that a step does not move are idle, and stay so.          *)
LEMMA SoloByStep ==
    ASSUME TypeOK, NEW w \in Writers,
           ~overlapped' => Alone(w),
           \A v \in Writers \ {w} : pc'[v] = pc[v],
           max_bytes' = max_bytes,
           ~overlapped' /\ max_bytes > 0 =>
               (\A f \in Files : Len(content'[f]) <= max_bytes) /\ RoomFor(w)'
    PROVE  SoloInv'
<1> SUFFICES ASSUME ~overlapped' PROVE SoloInv'
  BY DEF SoloInv
<1>1. \A v \in Writers \ {w} : pc'[v] = "idle"
  BY DEF Alone
<1>2. \A v \in Writers : pc'[v] # "idle" => Alone(v)'
  BY <1>1 DEF Alone
<1>3. \A v \in Writers \ {w} : RoomFor(v)'
  BY <1>1 DEF RoomFor
<1> QED  BY <1>2, <1>3 DEF SoloInv

(* A step of the rotation changes no file, and ends at an empty place.     *)
LEMMA ShiftingSolo ==
    ASSUME TypeOK, SoloInv, NEW w \in Writers,
           Getsize(w) \/ Exists(w) \/ Replace(w) \/ Retire(w)
    PROVE  SoloInv'
<1>1. /\ UNCHANGED << max_bytes, keep, content, handle, overlapped >>
      /\ pc[w] # "idle"
  BY DEF Getsize, Exists, Replace, Retire
<1>2. \A v \in Writers \ {w} : pc'[v] = pc[v]
  <2>1. ASSUME NEW where \in Pc, Goto(w, where) PROVE \A v \in Writers \ {w} : pc'[v] = pc[v]
    BY <2>1, GotoType
  <2>2. NextIndex(w) => \A v \in Writers \ {w} : pc'[v] = pc[v]
    BY <2>1 DEF NextIndex, Pc
  <2> QED  BY <2>1, <2>2 DEF Getsize, Exists, Replace, Retire, Abandon, Pc
<1>3. SUFFICES ASSUME max_bytes > 0, ~overlapped PROVE RoomFor(w)'
  BY <1>1, <1>2, SoloByStep DEF SoloInv
<1>4. 0 \in Slots /\ keep \in Nat /\ RoomFor(w)
  BY <1>3 DEF TypeOK, Slots, SoloInv
<1>5. CASE Getsize(w)
  <2>1. CASE /\ slot[0] = NoFile \/ Len(content[slot[0]]) < max_bytes
             /\ Goto(w, "open") /\ UNCHANGED slot
    BY <1>1, <2>1, GotoType DEF RoomFor, Pc
  <2>2. CASE \E where \in {"exists", "retire"} : Goto(w, where)
    BY <2>2, GotoType DEF RoomFor, Pc
  <2> QED  BY <1>5, <2>1, <2>2 DEF Getsize
<1>6. CASE Exists(w)
  <2>1. CASE slot[index[w] - 1] # NoFile /\ Goto(w, "replace") /\ UNCHANGED << slot, index >>
    BY <2>1, GotoType DEF RoomFor, Pc
  <2>2. CASE NextIndex(w)
    BY <1>6, <2>2, NextIndexType DEF RoomFor, Exists
  <2> QED  BY <1>6, <2>1, <2>2 DEF Exists
<1>7. CASE Replace(w)
  <2>1. slot[index[w] - 1] # NoFile
    BY <1>4, <1>7 DEF RoomFor, Replace
  <2>2. NextIndex(w)
    BY <1>7, <2>1 DEF Replace, Abandon
  <2> QED  BY <1>7, <2>2, NextIndexType DEF RoomFor, Replace
<1>8. CASE Retire(w)
  <2>1. slot'[0] = NoFile /\ Goto(w, "open")
    BY <1>4, <1>8 DEF Retire, Move, Abandon, TypeOK, Slots
  <2> QED  BY <2>1, GotoType DEF RoomFor, Pc
<1> QED  BY <1>5, <1>6, <1>7, <1>8

(* Every step of the only process at work keeps the bound.                 *)
LEMMA SoloStep ==
    ASSUME TypeOK, SoloInv, [Next]_vars
    PROVE  SoloInv'
<1>1. CASE UNCHANGED vars
  BY <1>1 DEF vars, SoloInv, Alone, RoomFor
<1>2. ASSUME NEW w \in Writers, Open(w) PROVE SoloInv'
  <2>1. /\ UNCHANGED << max_bytes, overlapped >> /\ pc'[w] = "write" /\ pc[w] = "open"
        /\ \A v \in Writers \ {w} : pc'[v] = pc[v]
    BY <1>2, GotoType DEF Open, Pc
  <2>2. SUFFICES ASSUME max_bytes > 0, ~overlapped
                 PROVE  (\A f \in Files : Len(content'[f]) <= max_bytes) /\ RoomFor(w)'
    BY <2>1, SoloByStep DEF SoloInv
  <2>3. RoomFor(w) /\ \A f \in Files : Len(content[f]) <= max_bytes
    BY <2>2 DEF SoloInv
  <2>4. CASE slot[0] # NoFile
    <3>1. handle'[w] = slot[0] /\ content' = content
      BY <1>2, <2>4, OpenType
    <3>2. Len(content[slot[0]]) < max_bytes
      BY <2>1, <2>3, <2>4 DEF RoomFor
    <3> QED  BY <2>1, <2>3, <3>1, <3>2 DEF RoomFor
  <2>5. CASE slot[0] = NoFile
    <3>1. handle'[w] \in Files /\ content' = [content EXCEPT ![handle'[w]] = << >>]
      BY <1>2, <2>5, OpenType
    <3>2. \A f \in Files : content'[f] = IF f = handle'[w] THEN << >> ELSE content[f]
      BY <3>1 DEF TypeOK
    <3>3. Len(<< >>) = 0 /\ max_bytes \in Nat
      BY DEF TypeOK
    <3>4. \A f \in Files : Len(content'[f]) <= max_bytes
      BY <2>2, <2>3, <3>2, <3>3
    <3>5. Len(content'[handle'[w]]) < max_bytes
      BY <2>2, <3>1, <3>2, <3>3
    <3> QED  BY <2>1, <3>4, <3>5 DEF RoomFor
  <2> QED  BY <2>4, <2>5
<1>3. ASSUME NEW w \in Writers, Write(w) PROVE SoloInv'
  <2>1. /\ UNCHANGED << max_bytes, overlapped >> /\ pc'[w] = "idle" /\ pc[w] = "write"
        /\ \A v \in Writers \ {w} : pc'[v] = pc[v]
    BY <1>3, GotoType DEF Write, Pc
  <2>2. SUFFICES ASSUME max_bytes > 0, ~overlapped
                 PROVE  (\A f \in Files : Len(content'[f]) <= max_bytes) /\ RoomFor(w)'
    BY <2>1, SoloByStep DEF SoloInv
  <2>3. ASSUME NEW f \in Files PROVE Len(content'[f]) <= max_bytes
    <3>1. Len(content[f]) \in Nat /\ max_bytes \in Nat
      BY DEF TypeOK
    <3>2. Len(content[f]) <= max_bytes /\ (f = handle[w] => Len(content[f]) < max_bytes)
      BY <2>1, <2>2 DEF SoloInv, RoomFor
    <3>3. Len(content'[f]) = IF f = handle[w] THEN Len(content[f]) + 1 ELSE Len(content[f])
      BY <1>3, WriteType
    <3> QED  BY <3>1, <3>2, <3>3
  <2> QED  BY <2>1, <2>3 DEF RoomFor
<1>4. ASSUME NEW w \in Writers, Call(w) \/ Lose(w) PROVE SoloInv'
  <2>1. /\ UNCHANGED << max_bytes, slot, content >>
        /\ overlapped' \in BOOLEAN /\ (overlapped => overlapped')
    BY <1>4 DEF Call, Lose, TypeOK
  <2>2. \E where \in {"open", "getsize", "idle"} :
           Goto(w, where) /\ (where = "open" => max_bytes = 0)
    BY <1>4 DEF Call, Lose
  <2>3. /\ max_bytes > 0 => pc'[w] \in {"getsize", "idle"}
        /\ \A v \in Writers \ {w} : pc'[v] = pc[v]
    BY <2>2, GotoType DEF Pc
  <2>4. ~overlapped' => Alone(w)
    <3>1. CASE Call(w)
      BY <3>1 DEF Call, Alone
    <3>2. CASE Lose(w)
      BY <2>1, <3>2 DEF Lose, SoloInv
    <3> QED  BY <1>4, <3>1, <3>2
  <2>5. max_bytes > 0 => RoomFor(w)'
    BY <2>3 DEF RoomFor
  <2> QED  BY <2>1, <2>3, <2>4, <2>5, SoloByStep DEF SoloInv
<1> QED  BY <1>1, <1>2, <1>3, <1>4, ShiftingSolo DEF Next

-----------------------------------------------------------------------------
(* When several processes log at a time, one that found the log full may   *)
(* find that another has moved a backup under it, give its rotation up and *)
(* append to the full log.  So many may do so before the log is empty      *)
(* again: those that have it open, those about to open it, and the others  *)
(* once more for each move that a backup can still make.                   *)
Pending(f) == {w \in Writers : pc[w] = "write" /\ handle[w] = f}
Eager == {w \in Writers : \/ pc[w] = "open"
                          \/ pc[w] = "replace" /\ slot[index[w] - 1] = NoFile}
Ways == {<< slot[p[1]], p[2] >> : p \in {q \in Ups : slot[q[1]] # NoFile}}
Others == Cardinality(Writers) - 1

Distinct == \A i, j \in Slots : slot[i] = slot[j] /\ slot[i] # NoFile => i = j

FileBound(f) == Len(content[f]) + Cardinality(Pending(f)) <= max_bytes + Overshoot
FullBound(f) ==
    slot[0] = f /\ Len(content[f]) >= max_bytes =>
        Len(content[f]) + Cardinality(Pending(f) \cup Eager) + Others * Cardinality(Ways)
            <= max_bytes + Overshoot

CrowdInv ==
    /\ Distinct
    /\ max_bytes > 0 /\ Writers # {} => \A f \in Files : FileBound(f) /\ FullBound(f)

(* A set of processes is as large as all of them, less those not in it.    *)
LEMMA Counted ==
    ASSUME IsFiniteSet(Writers), NEW S \in SUBSET Writers
    PROVE  /\ IsFiniteSet(S) /\ Cardinality(S) \in Nat /\ Cardinality(Writers) \in Nat
           /\ Cardinality(S) <= Cardinality(Writers)
           /\ \A w \in Writers : w \notin S => Cardinality(S) <= Others
           /\ Writers # {} => Others \in Nat
<1>1. /\ IsFiniteSet(S) /\ Cardinality(S) \in Nat /\ Cardinality(Writers) \in Nat
      /\ Cardinality(S) <= Cardinality(Writers)
  BY FS_Subset, FS_CardinalityType
<1>2. ASSUME NEW w \in Writers
      PROVE  (w \notin S => Cardinality(S) <= Others) /\ Others \in Nat
  <2>1. /\ IsFiniteSet(Writers \ {w})
        /\ Cardinality(Writers \ {w}) = Cardinality(Writers) - 1
    BY FS_RemoveElement
  <2>2. Cardinality(Writers \ {w}) \in Nat
    BY <2>1, FS_CardinalityType
  <2>3. w \notin S => S \in SUBSET (Writers \ {w})
    OBVIOUS
  <2>4. w \notin S => Cardinality(S) <= Cardinality(Writers \ {w})
    BY <2>1, <2>3, FS_Subset
  <2> QED  BY <2>1, <2>2, <2>4 DEF Others
<1> QED  BY <1>1, <1>2

(* Fewer processes are no more.                                            *)
LEMMA Fewer ==
    ASSUME IsFiniteSet(Writers), NEW S \in SUBSET Writers, NEW T \in SUBSET S
    PROVE  Cardinality(T) <= Cardinality(S)
BY Counted, FS_Subset

(* Each move that is open to a backup is one of those that there are.      *)
LEMMA WaysCounted ==
    ASSUME TypeOK
    PROVE  /\ IsFiniteSet(Ways) /\ Cardinality(Ways) \in Nat /\ Cardinality(Ups) \in Nat
           /\ Cardinality(Ways) <= Cardinality(Ups)
<1>1. IsFiniteSet(Ups)
  <2>1. IsFiniteSet(1 .. keep)
    BY FS_Interval DEF TypeOK
  <2>2. IsFiniteSet((1 .. keep) \X (1 .. keep))
    BY <2>1, FS_Product
  <2>3. Ups \in SUBSET ((1 .. keep) \X (1 .. keep))
    BY DEF Ups
  <2> QED  BY <2>2, <2>3, FS_Subset
<1> DEFINE Way(p, x) == slot[p[1]] # NoFile /\ x = << slot[p[1]], p[2] >>
           f == [x \in Ways |-> CHOOSE p \in Ups : Way(p, x)]
<1>2. \A x \in Ways : f[x] \in Ups /\ Way(f[x], x)
  <2>1. \A x \in Ways : \E p \in Ups : Way(p, x)
    BY DEF Ways
  <2> HIDE DEF Way
  <2> QED  BY <2>1
<1>3. f \in Injection(Ways, Ups)
  <2>1. f \in [Ways -> Ups]
    BY <1>2
  <2>2. ASSUME NEW x \in Ways, NEW y \in Ways, f[x] = f[y] PROVE x = y
    BY <1>2, <2>2
  <2> HIDE DEF f
  <2> QED  BY <2>1, <2>2 DEF Injection, IsInjective
<1>4. IsFiniteSet(Ways) /\ Cardinality(Ways) <= Cardinality(Ups)
  <2> HIDE DEF f
  <2> QED  BY <1>1, <1>3, FS_Injection
<1> QED  BY <1>1, <1>4, FS_CardinalityType

(* The others, once for each of some moves.                                *)
LEMMA Times ==
    ASSUME NEW a \in Nat, NEW b \in Nat, NEW c \in Nat
    PROVE  /\ a * b \in Nat
           /\ b <= c => a * b <= a * c
           /\ b + 1 <= c => a * b + a <= a * c
           /\ a * (1 + c) = a + a * c
OBVIOUS

(* The overshoot is enough for the others now, and once for each move.     *)
LEMMA EnoughForAll ==
    ASSUME IsFiniteSet(Writers), TypeOK, NEW w \in Writers
    PROVE  /\ Others \in Nat /\ Overshoot \in Nat /\ Others <= Overshoot
           /\ Others * Cardinality(Ways) \in Nat
           /\ Others + Others * Cardinality(Ways) <= Overshoot
<1>1. Others \in Nat
  BY Counted
<1>2. /\ Cardinality(Ways) \in Nat /\ Cardinality(Ups) \in Nat
      /\ Cardinality(Ways) <= Cardinality(Ups)
  BY WaysCounted
<1>3. Overshoot = Others + Others * Cardinality(Ups)
  BY <1>1, <1>2, Times DEF Overshoot, Others
<1>4. /\ Others * Cardinality(Ups) \in Nat /\ Others * Cardinality(Ways) \in Nat
      /\ Others * Cardinality(Ways) <= Others * Cardinality(Ups)
  BY <1>1, <1>2, Times
<1> QED  BY <1>1, <1>3, <1>4

(* A step that moves no file and after which no more processes may append. *)
LEMMA CrowdStay ==
    ASSUME IsFiniteSet(Writers), TypeOK, CrowdInv,
           UNCHANGED << max_bytes, keep, slot, content >>,
           \A f \in Files : Pending(f)' \subseteq Pending(f),
           max_bytes > 0 /\ slot[0] # NoFile /\ Len(content[slot[0]]) >= max_bytes
               => Eager' \subseteq Eager
    PROVE  CrowdInv'
<1>1. Distinct' /\ Ways' = Ways /\ Overshoot' = Overshoot /\ Others' = Others
  BY DEF CrowdInv, Distinct, Slots, Ways, Ups, Overshoot, Others
<1>2. SUFFICES ASSUME max_bytes > 0, Writers # {}, NEW f \in Files
               PROVE  FileBound(f)' /\ FullBound(f)'
  BY <1>1 DEF CrowdInv
<1>3. FileBound(f) /\ FullBound(f)
  BY <1>2 DEF CrowdInv
<1>4. Pending(f) \in SUBSET Writers /\ Pending(f)' \in SUBSET Writers /\ Eager \in SUBSET Writers
  BY DEF Pending, Eager
<1>5. /\ Cardinality(Pending(f)) \in Nat /\ Cardinality(Pending(f)') \in Nat
      /\ Cardinality(Pending(f)') <= Cardinality(Pending(f))
  BY <1>4, Fewer, Counted
<1>6. Len(content[f]) \in Nat /\ max_bytes \in Nat
  BY DEF TypeOK
<1>7. Overshoot \in Nat /\ Others * Cardinality(Ways) \in Nat
  BY <1>2, EnoughForAll
<1>8. FileBound(f)'
  <2>1. Len(content[f]) + Cardinality(Pending(f)) <= max_bytes + Overshoot
    BY <1>3 DEF FileBound
  <2>2. Len(content[f]) + Cardinality(Pending(f)') <= max_bytes + Overshoot
    BY <1>5, <1>6, <1>7, <2>1
  <2> QED  BY <1>1, <2>2 DEF FileBound
<1>9. FullBound(f)'
  <2>1. SUFFICES ASSUME slot[0] = f, Len(content[f]) >= max_bytes
                 PROVE  Len(content[f]) + Cardinality((Pending(f) \cup Eager)')
                            + Others * Cardinality(Ways) <= max_bytes + Overshoot
    BY <1>1 DEF FullBound
  <2>2. (Pending(f) \cup Eager)' \in SUBSET (Pending(f) \cup Eager)
    BY <1>2, <2>1, LogAssumption
  <2>3. (Pending(f) \cup Eager) \in SUBSET Writers
    BY <1>4
  <2>4. /\ Cardinality(Pending(f) \cup Eager) \in Nat
        /\ Cardinality((Pending(f) \cup Eager)') \in Nat
        /\ Cardinality((Pending(f) \cup Eager)') <= Cardinality(Pending(f) \cup Eager)
    BY <2>2, <2>3, Fewer, Counted
  <2>5. Len(content[f]) + Cardinality(Pending(f) \cup Eager) + Others * Cardinality(Ways)
            <= max_bytes + Overshoot
    BY <1>3, <2>1 DEF FullBound
  <2> QED  BY <1>6, <1>7, <2>4, <2>5
<1> QED  BY <1>8, <1>9

(* A file that moves stays in one place.                                   *)
LEMMA MoveDistinct ==
    ASSUME TypeOK, Distinct, NEW w \in Writers, NEW to \in 1 .. keep, Move(w, to), keep' = keep
    PROVE  /\ Distinct' /\ slot'[to] = slot[to - 1] /\ slot'[to - 1] = NoFile
           /\ \A i \in Slots \ {to, to - 1} : slot'[i] = slot[i]
<1>1. keep \in Nat /\ to \in Slots /\ to - 1 \in Slots /\ to # to - 1 /\ Slots' = Slots
  BY DEF TypeOK, Slots
<1>2. /\ slot'[to] = slot[to - 1] /\ slot'[to - 1] = NoFile
      /\ \A i \in Slots \ {to, to - 1} : slot'[i] = slot[i]
  BY <1>1 DEF Move, TypeOK
<1> QED  BY <1>1, <1>2 DEF Distinct

(* A backup that has moved can move one time less.                         *)
LEMMA MoveWays ==
    ASSUME TypeOK, Distinct, NEW w \in Writers, NEW to \in 2 .. keep, Move(w, to), keep' = keep
    PROVE  Cardinality(Ways') \in Nat /\ Cardinality(Ways') + 1 <= Cardinality(Ways)
<1> DEFINE way == << slot[to - 1], to >>
<1>1. /\ keep \in Nat /\ to - 1 \in 1 .. keep /\ to \in 1 .. keep /\ to - 1 < to
      /\ \A i \in 1 .. keep : i \in Slots /\ Slots' = Slots /\ Ups' = Ups
      /\ slot[to - 1] # NoFile
  BY DEF TypeOK, Slots, Move, Ups
<1>2. /\ slot'[to] = slot[to - 1] /\ slot'[to - 1] = NoFile
      /\ \A i \in Slots \ {to, to - 1} : slot'[i] = slot[i]
  BY <1>1, MoveDistinct
<1>3. way \in Ways
  <2>1. << to - 1, to >> \in Ups
    BY <1>1 DEF Ups
  <2> QED  BY <1>1, <2>1 DEF Ways
<1>4. Ways' \in SUBSET (Ways \ {way})
  <2>1. SUFFICES ASSUME NEW p \in Ups, slot'[p[1]] # NoFile
                 PROVE  << slot'[p[1]], p[2] >> \in Ways \ {way}
    BY <1>1 DEF Ways
  <2>2. p[1] \in 1 .. keep /\ p[2] \in 1 .. keep /\ p[1] < p[2] /\ p[1] # to - 1
    BY <1>2, <2>1 DEF Ups
  <2>3. CASE p[1] = to
    <3>1. << to - 1, p[2] >> \in Ups
      BY <1>1, <2>2, <2>3 DEF Ups
    <3>2. << slot[to - 1], p[2] >> \in Ways
      BY <1>1, <3>1 DEF Ways
    <3> QED  BY <1>2, <2>2, <2>3, <3>2
  <2>4. CASE p[1] # to
    <3>1. slot'[p[1]] = slot[p[1]]
      BY <1>1, <1>2, <2>2, <2>4
    <3>2. << slot[p[1]], p[2] >> \in Ways
      BY <2>1, <3>1 DEF Ways
    <3>3. slot[p[1]] # slot[to - 1]
      BY <1>1, <2>2 DEF Distinct
    <3> QED  BY <3>1, <3>2, <3>3
  <2> QED  BY <2>3, <2>4
<1>5. IsFiniteSet(Ways) /\ Cardinality(Ways) \in Nat
  BY WaysCounted
<1>6. IsFiniteSet(Ways \ {way}) /\ Cardinality(Ways \ {way}) = Cardinality(Ways) - 1
  BY <1>3, <1>5, FS_RemoveElement
<1>7. IsFiniteSet(Ways') /\ Cardinality(Ways') <= Cardinality(Ways \ {way})
  BY <1>4, <1>6, FS_Subset
<1> QED  BY <1>5, <1>6, <1>7, FS_CardinalityType

(* A backup moves: others may find theirs gone, once for the move it made. *)
LEMMA CrowdReplace ==
    ASSUME IsFiniteSet(Writers), TypeOK, CrowdInv, NEW w \in Writers, Replace(w)
    PROVE  CrowdInv'
<1>1. /\ UNCHANGED << max_bytes, keep, content, handle >> /\ pc[w] = "replace"
      /\ index[w] \in 2 .. keep /\ keep \in Nat /\ index[w] \in 1 .. keep
  BY DEF Replace, TypeOK
<1>2. CASE Abandon(w, index[w] - 1)
  <2>1. /\ UNCHANGED << slot, index >> /\ slot[index[w] - 1] = NoFile /\ pc'[w] = "open"
        /\ \A v \in Writers \ {w} : pc'[v] = pc[v]
    BY <1>2, GotoType DEF Abandon, Pc
  <2>2. \A f \in Files : Pending(f)' \subseteq Pending(f)
    BY <1>1, <2>1 DEF Pending
  <2>3. Eager' \subseteq Eager
    BY <1>1, <2>1 DEF Eager
  <2> QED  BY <1>1, <2>1, <2>2, <2>3, CrowdStay
<1>3. CASE Move(w, index[w]) /\ NextIndex(w)
  <2>1. /\ pc'[w] \in {"exists", "retire"}
        /\ \A v \in Writers \ {w} : pc'[v] = pc[v]
    BY <1>1, <1>3, NextIndexType
  <2>2. /\ Distinct' /\ slot'[0] = slot[0]
        /\ Cardinality(Ways') \in Nat /\ Cardinality(Ways') + 1 <= Cardinality(Ways)
    <3>1. Distinct /\ 0 \in Slots \ {index[w], index[w] - 1}
      BY <1>1 DEF CrowdInv, Slots
    <3> QED  BY <1>1, <1>3, <3>1, MoveDistinct, MoveWays
  <2>3. Overshoot' = Overshoot /\ Others' = Others
    BY <1>1 DEF Overshoot, Others, Ups
  <2>4. SUFFICES ASSUME max_bytes > 0, NEW f \in Files PROVE FileBound(f)' /\ FullBound(f)'
    BY <1>1, <2>2 DEF CrowdInv
  <2>5. FileBound(f) /\ FullBound(f)
    BY <2>4 DEF CrowdInv
  <2>6. FileBound(f)'
    <3>1. Pending(f)' = Pending(f)
      BY <1>1, <2>1 DEF Pending
    <3> QED  BY <1>1, <2>3, <2>5, <3>1 DEF FileBound
  <2>7. FullBound(f)'
    <3>1. SUFFICES ASSUME slot[0] = f, Len(content[f]) >= max_bytes
                   PROVE  Len(content[f]) + Cardinality((Pending(f) \cup Eager)')
                              + Others * Cardinality(Ways') <= max_bytes + Overshoot
      BY <1>1, <2>2, <2>3 DEF FullBound
    <3>2. /\ (Pending(f) \cup Eager)' \in SUBSET Writers /\ w \notin (Pending(f) \cup Eager)'
          /\ Pending(f) \cup Eager \in SUBSET Writers
      BY <2>1 DEF Pending, Eager
    <3>3. /\ Cardinality((Pending(f) \cup Eager)') \in Nat
          /\ Cardinality((Pending(f) \cup Eager)') <= Others
          /\ Cardinality(Pending(f) \cup Eager) \in Nat
      BY <3>2, Counted
    <3>4. /\ Others \in Nat /\ Overshoot \in Nat /\ Others * Cardinality(Ways) \in Nat
          /\ Cardinality(Ways) \in Nat
      BY EnoughForAll, WaysCounted
    <3>5. /\ Others * Cardinality(Ways') \in Nat
          /\ Others * Cardinality(Ways') + Others <= Others * Cardinality(Ways)
      BY <2>2, <3>4, Times
    <3>6. Len(content[f]) + Cardinality(Pending(f) \cup Eager) + Others * Cardinality(Ways)
              <= max_bytes + Overshoot
      BY <2>5, <3>1 DEF FullBound
    <3>7. Len(content[f]) \in Nat /\ max_bytes \in Nat
      BY DEF TypeOK
    <3> QED  BY <3>3, <3>4, <3>5, <3>6, <3>7
  <2> QED  BY <2>6, <2>7
<1> QED  BY <1>2, <1>3 DEF Replace

(* The log goes: there is none to append to until one is opened anew.      *)
LEMMA CrowdRetire ==
    ASSUME IsFiniteSet(Writers), TypeOK, CrowdInv, NEW w \in Writers, Retire(w)
    PROVE  CrowdInv'
<1>1. /\ UNCHANGED << max_bytes, keep, content, handle >> /\ pc[w] = "retire"
      /\ keep \in Nat /\ 0 \in Slots /\ Slots' = Slots /\ Distinct
  BY DEF Retire, TypeOK, Slots, CrowdInv
<1>2. pc'[w] = "open" /\ \A v \in Writers \ {w} : pc'[v] = pc[v]
  BY GotoType DEF Retire, Abandon, Pc
<1>3. \A f \in Files : Pending(f)' = Pending(f)
  BY <1>1, <1>2 DEF Pending
<1>4. CASE Abandon(w, 0)
  BY <1>1, <1>3, <1>4, CrowdStay DEF Abandon
<1>5. ASSUME Distinct', slot'[0] = NoFile PROVE CrowdInv'
  <2>1. Overshoot' = Overshoot
    BY <1>1 DEF Overshoot, Ups
  <2>2. SUFFICES ASSUME max_bytes > 0, NEW f \in Files PROVE FileBound(f)' /\ FullBound(f)'
    BY <1>1, <1>5 DEF CrowdInv
  <2>3. FileBound(f)
    BY <2>2 DEF CrowdInv
  <2> QED  BY <1>1, <1>3, <1>5, <2>1, <2>3, LogAssumption DEF FileBound, FullBound
<1>6. CASE keep >= 1 /\ Move(w, 1)
  <2>1. 1 \in 1 .. keep
    BY <1>1, <1>6
  <2>2. Distinct' /\ slot'[1 - 1] = NoFile
    BY <1>1, <1>6, <2>1, MoveDistinct
  <2> QED  BY <1>5, <2>2
<1>7. CASE slot' = [slot EXCEPT ![0] = NoFile]
  <2>1. slot'[0] = NoFile /\ \A i \in Slots \ {0} : slot'[i] = slot[i]
    BY <1>1, <1>7 DEF TypeOK
  <2>2. Distinct'
    BY <1>1, <2>1 DEF Distinct
  <2> QED  BY <1>5, <2>1, <2>2
<1> QED  BY <1>4, <1>6, <1>7 DEF Retire

(* One that opens the log appends to it; a new log is empty, and nobody's. *)
LEMMA CrowdOpen ==
    ASSUME IsFiniteSet(Writers), TypeOK, CrowdInv, NEW w \in Writers, Open(w)
    PROVE  CrowdInv'
<1>1. /\ UNCHANGED << max_bytes, keep, index >> /\ pc[w] = "open" /\ pc'[w] = "write"
      /\ \A v \in Writers \ {w} : pc'[v] = pc[v]
      /\ 0 \in Slots /\ Slots' = Slots /\ Distinct /\ handle[w] = NoFile
      /\ max_bytes \in Nat
  BY GotoType DEF Open, Pc, TypeOK, Slots, CrowdInv
<1>2. Overshoot' = Overshoot /\ Others' = Others
  BY <1>1 DEF Overshoot, Others, Ups
<1>3. /\ Others \in Nat /\ Overshoot \in Nat /\ Others <= Overshoot
      /\ Cardinality(Writers) \in Nat /\ Cardinality(Writers) = Others + 1
  <2>1. Cardinality(Writers) \in Nat
    BY Counted
  <2> QED  BY <2>1, EnoughForAll DEF Others
<1>4. ASSUME NEW f \in Files
      PROVE  /\ Pending(f) \in SUBSET Writers /\ Pending(f)' \in SUBSET Writers
             /\ Cardinality(Pending(f)) \in Nat /\ Cardinality(Pending(f)') \in Nat
             /\ Cardinality(Pending(f)') <= Others + 1
             /\ Len(content[f]) \in Nat
  <2>1. Pending(f) \in SUBSET Writers /\ Pending(f)' \in SUBSET Writers
    BY DEF Pending
  <2> QED  BY <1>3, <2>1, Counted DEF TypeOK
<1>5. CASE slot[0] # NoFile
  <2>1. /\ UNCHANGED << slot, content >> /\ handle'[w] = slot[0]
        /\ \A v \in Writers \ {w} : handle'[v] = handle[v]
    BY <1>5 DEF Open, TypeOK
  <2>2. Distinct' /\ Ways' = Ways
    BY <1>1, <2>1 DEF Distinct, Ways, Ups
  <2>3. SUFFICES ASSUME max_bytes > 0, NEW f \in Files PROVE FileBound(f)' /\ FullBound(f)'
    BY <1>1, <2>2 DEF CrowdInv
  <2>4. FileBound(f) /\ FullBound(f)
    BY <2>3 DEF CrowdInv
  <2>5. CASE slot[0] # f
    <3>1. Pending(f)' = Pending(f)
      BY <1>1, <2>1, <2>5 DEF Pending
    <3> QED  BY <1>1, <1>2, <2>1, <2>4, <2>5, <3>1 DEF FileBound, FullBound
  <2>6. CASE slot[0] = f /\ Len(content[f]) < max_bytes
    <3>1. Len(content[f]) + Cardinality(Pending(f)') <= max_bytes + Overshoot
      BY <1>1, <1>3, <1>4, <2>6
    <3> QED  BY <1>1, <1>2, <2>1, <2>6, <3>1 DEF FileBound, FullBound
  <2>7. CASE slot[0] = f /\ Len(content[f]) >= max_bytes
    <3>1. (Pending(f) \cup Eager)' = Pending(f) \cup Eager
      BY <1>1, <2>1, <2>7 DEF Pending, Eager
    <3>2. Len(content[f]) + Cardinality(Pending(f) \cup Eager) + Others * Cardinality(Ways)
              <= max_bytes + Overshoot
      BY <2>4, <2>7 DEF FullBound
    <3>3. FullBound(f)'
      BY <1>1, <1>2, <2>1, <2>2, <3>1, <3>2 DEF FullBound
    <3>4. /\ Pending(f)' \in SUBSET (Pending(f) \cup Eager)
          /\ Pending(f) \cup Eager \in SUBSET Writers
      BY <3>1 DEF Pending, Eager
    <3>5. /\ Cardinality(Pending(f) \cup Eager) \in Nat
          /\ Cardinality(Pending(f)') <= Cardinality(Pending(f) \cup Eager)
      BY <3>4, Counted, Fewer
    <3>6. Others * Cardinality(Ways) \in Nat
      BY EnoughForAll
    <3>7. Len(content[f]) + Cardinality(Pending(f)') <= max_bytes + Overshoot
      BY <1>1, <1>3, <1>4, <3>2, <3>5, <3>6
    <3> QED  BY <1>1, <1>2, <2>1, <3>3, <3>7 DEF FileBound
  <2> QED  BY <1>1, <1>4, <2>5, <2>6, <2>7
<1>6. CASE slot[0] = NoFile
  <2> DEFINE new == CHOOSE f \in Files : f \notin InUse
  <2>1. new \in Files /\ new \notin InUse
    BY <1>6 DEF Open
  <2>2. /\ slot' = [slot EXCEPT ![0] = new] /\ handle' = [handle EXCEPT ![w] = new]
        /\ content' = [content EXCEPT ![new] = << >>]
    BY <1>6 DEF Open
  <2> HIDE DEF new
  <2>3. /\ slot'[0] = new /\ \A i \in Slots \ {0} : slot'[i] = slot[i] /\ slot[i] # new
        /\ handle'[w] = new /\ \A v \in Writers \ {w} : handle'[v] = handle[v] /\ handle[v] # new
        /\ Len(content'[new]) = 0 /\ \A f \in Files \ {new} : content'[f] = content[f]
    <3>1. \A i \in Slots : slot[i] # new
      BY <2>1 DEF InUse
    <3>2. \A v \in Writers : handle[v] # new
      BY <2>1 DEF InUse
    <3>3. Len(<< >>) = 0
      OBVIOUS
    <3> QED  BY <1>1, <2>1, <2>2, <3>1, <3>2, <3>3 DEF TypeOK
  <2>4. Distinct'
    BY <1>1, <2>3 DEF Distinct
  <2>5. SUFFICES ASSUME max_bytes > 0, NEW f \in Files PROVE FileBound(f)' /\ FullBound(f)'
    BY <1>1, <2>4 DEF CrowdInv
  <2>6. CASE f = new
    <3>1. 0 + Cardinality(Pending(f)') <= max_bytes + Overshoot
      BY <1>1, <1>3, <1>4, <2>5
    <3> QED  BY <1>1, <1>2, <2>3, <2>5, <2>6, <3>1 DEF FileBound, FullBound
  <2>7. CASE f # new
    <3>1. Pending(f)' = Pending(f)
      BY <1>1, <2>3, <2>7 DEF Pending
    <3>2. FileBound(f)
      BY <2>5 DEF CrowdInv
    <3> QED  BY <1>1, <1>2, <2>3, <2>7, <3>1, <3>2 DEF FileBound, FullBound
  <2> QED  BY <2>6, <2>7
<1> QED  BY <1>5, <1>6

(* Each line is written by one of those counted; when one fills the log,   *)
(* only the others can be about to append to it.                           *)
LEMMA CrowdWrite ==
    ASSUME IsFiniteSet(Writers), TypeOK, CrowdInv, NEW w \in Writers, Write(w)
    PROVE  CrowdInv'
<1>1. /\ UNCHANGED << max_bytes, keep, slot, index >> /\ pc[w] = "write" /\ pc'[w] = "idle"
      /\ \A v \in Writers \ {w} : pc'[v] = pc[v] /\ handle'[v] = handle[v]
      /\ max_bytes \in Nat
  BY GotoType DEF Write, Pc, TypeOK
<1>2. /\ Distinct' /\ Ways' = Ways /\ Overshoot' = Overshoot /\ Others' = Others /\ Eager' = Eager
  <2>1. Distinct' /\ Ways' = Ways /\ Overshoot' = Overshoot /\ Others' = Others
    BY <1>1 DEF CrowdInv, Distinct, Slots, Ways, Ups, Overshoot, Others
  <2> QED  BY <1>1, <2>1 DEF Eager
<1>3. SUFFICES ASSUME max_bytes > 0, NEW f \in Files PROVE FileBound(f)' /\ FullBound(f)'
  BY <1>1, <1>2 DEF CrowdInv
<1>4. FileBound(f) /\ FullBound(f)
  BY <1>3 DEF CrowdInv
<1>5. CASE f # handle[w]
  <2>1. Pending(f)' = Pending(f)
    BY <1>1, <1>5 DEF Pending
  <2>2. content'[f] = content[f]
    BY <1>5 DEF Write, TypeOK
  <2> QED  BY <1>1, <1>2, <1>4, <2>1, <2>2 DEF FileBound, FullBound
<1>6. CASE f = handle[w]
  <2>1. Len(content'[f]) = Len(content[f]) + 1 /\ Len(content[f]) \in Nat
    <3>1. Len(content'[f]) = Len(content[f]) + 1
      BY <1>6, WriteType
    <3> QED  BY <3>1 DEF TypeOK
  <2>2. /\ Pending(f)' = Pending(f) \ {w} /\ w \in Pending(f) /\ w \notin Eager
        /\ Pending(f) \in SUBSET Writers /\ Pending(f) \cup Eager \in SUBSET Writers
    BY <1>1, <1>6 DEF Pending, Eager
  <2>3. /\ IsFiniteSet(Pending(f)) /\ Cardinality(Pending(f)) \in Nat
        /\ Cardinality(Pending(f)') = Cardinality(Pending(f)) - 1
    BY <2>2, Counted, FS_RemoveElement
  <2>4. (Pending(f) \cup Eager)' = (Pending(f) \cup Eager) \ {w}
    BY <1>2, <2>2
  <2>5. /\ Cardinality(Pending(f) \cup Eager) \in Nat
        /\ Cardinality((Pending(f) \cup Eager)') = Cardinality(Pending(f) \cup Eager) - 1
        /\ Cardinality(Pending(f) \cup Eager) - 1 <= Others
    <3>1. /\ IsFiniteSet(Pending(f) \cup Eager) /\ Cardinality(Pending(f) \cup Eager) \in Nat
          /\ Cardinality(Pending(f) \cup Eager) <= Cardinality(Writers)
          /\ Cardinality(Writers) \in Nat
      BY <2>2, Counted
    <3>2. Cardinality((Pending(f) \cup Eager) \ {w}) = Cardinality(Pending(f) \cup Eager) - 1
      BY <2>2, <3>1, FS_RemoveElement
    <3>3. Cardinality((Pending(f) \cup Eager)') = Cardinality((Pending(f) \cup Eager) \ {w})
      BY <2>4, Zenon
    <3> QED  BY <3>1, <3>2, <3>3 DEF Others
  <2>6. /\ Others \in Nat /\ Overshoot \in Nat /\ Others * Cardinality(Ways) \in Nat
        /\ Others + Others * Cardinality(Ways) <= Overshoot
    BY EnoughForAll
  <2>7. FileBound(f)'
    <3>1. Len(content[f]) + Cardinality(Pending(f)) <= max_bytes + Overshoot
      BY <1>4 DEF FileBound
    <3>2. (Len(content[f]) + 1) + (Cardinality(Pending(f)) - 1) <= max_bytes + Overshoot
      BY <1>1, <2>1, <2>3, <2>6, <3>1
    <3> QED  BY <1>1, <1>2, <2>1, <2>3, <3>2 DEF FileBound
  <2>8. FullBound(f)'
    <3>1. SUFFICES ASSUME slot[0] = f, Len(content[f]) + 1 >= max_bytes
                   PROVE  (Len(content[f]) + 1) + (Cardinality(Pending(f) \cup Eager) - 1)
                              + Others * Cardinality(Ways) <= max_bytes + Overshoot
      BY <1>1, <1>2, <2>1, <2>5 DEF FullBound
    <3>2. CASE Len(content[f]) >= max_bytes
      <4>1. Len(content[f]) + Cardinality(Pending(f) \cup Eager) + Others * Cardinality(Ways)
                <= max_bytes + Overshoot
        BY <1>4, <3>1, <3>2 DEF FullBound
      <4> QED  BY <1>1, <2>1, <2>5, <2>6, <4>1
    <3>3. CASE Len(content[f]) < max_bytes
      BY <1>1, <2>1, <2>5, <2>6, <3>3
    <3> QED  BY <1>1, <2>1, <3>2, <3>3
  <2> QED  BY <2>7, <2>8
<1> QED  BY <1>5, <1>6

(* Every step keeps the count.                                             *)
LEMMA CrowdStep ==
    ASSUME IsFiniteSet(Writers), TypeOK, CrowdInv, [Next]_vars
    PROVE  CrowdInv'
<1>1. CASE UNCHANGED vars
  BY <1>1, CrowdStay DEF vars, Pending, Eager
<1>2. ASSUME NEW w \in Writers, Getsize(w) PROVE CrowdInv'
  <2>1. /\ UNCHANGED << max_bytes, keep, slot, content, handle >> /\ pc[w] = "getsize"
        /\ pc'[w] # "write" /\ \A v \in Writers \ {w} : pc'[v] = pc[v]
    BY <1>2, GotoType DEF Getsize, Pc
  <2>2. /\ \A v \in Writers \ {w} : index'[v] = index[v]
        /\ max_bytes > 0 /\ slot[0] # NoFile /\ Len(content[slot[0]]) >= max_bytes
               => pc'[w] \in {"exists", "retire"}
    <3>1. slot[0] # NoFile => Len(content[slot[0]]) \in Nat
      BY DEF TypeOK, Slots
    <3>2. max_bytes \in Nat
      BY DEF TypeOK
    <3>3. CASE /\ slot[0] = NoFile \/ Len(content[slot[0]]) < max_bytes
               /\ UNCHANGED index
      BY <3>1, <3>2, <3>3
    <3>4. CASE /\ index' = [index EXCEPT ![w] = keep]
               /\ Goto(w, IF keep > 1 THEN "exists" ELSE "retire")
      <4>1. \A v \in Writers \ {w} : index'[v] = index[v]
        BY <3>4 DEF TypeOK
      <4>2. pc'[w] \in {"exists", "retire"}
        BY <3>4, GotoType DEF Pc
      <4> QED  BY <4>1, <4>2
    <3> QED  BY <1>2, <3>3, <3>4 DEF Getsize
  <2>3. \A f \in Files : Pending(f)' \subseteq Pending(f)
    BY <2>1 DEF Pending
  <2>4. max_bytes > 0 /\ slot[0] # NoFile /\ Len(content[slot[0]]) >= max_bytes
            => Eager' \subseteq Eager
    BY <2>1, <2>2 DEF Eager
  <2> QED  BY <2>1, <2>3, <2>4, CrowdStay
<1>3. ASSUME NEW w \in Writers, Exists(w) PROVE CrowdInv'
  <2>1. UNCHANGED << max_bytes, keep, slot, content, handle >> /\ pc[w] = "exists"
    BY <1>3 DEF Exists
  <2>2. CASE slot[index[w] - 1] # NoFile /\ Goto(w, "replace") /\ UNCHANGED index
    <3>1. pc'[w] = "replace" /\ \A v \in Writers \ {w} : pc'[v] = pc[v]
      BY <2>2, GotoType DEF Pc
    <3> QED  BY <2>1, <2>2, <3>1, CrowdStay DEF Pending, Eager
  <2>3. CASE NextIndex(w)
    <3>1. /\ pc'[w] \in {"exists", "retire"}
          /\ \A v \in Writers \ {w} : pc'[v] = pc[v] /\ index'[v] = index[v]
      BY <2>1, <2>3, NextIndexType
    <3> QED  BY <2>1, <3>1, CrowdStay DEF Pending, Eager
  <2> QED  BY <1>3, <2>2, <2>3 DEF Exists
<1>4. ASSUME NEW w \in Writers, Call(w) \/ Lose(w) PROVE CrowdInv'
  <2>1. /\ UNCHANGED << max_bytes, keep, slot, content, index >>
        /\ \A v \in Writers \ {w} : handle'[v] = handle[v]
    BY <1>4 DEF Call, Lose, TypeOK
  <2>2. \E where \in {"open", "getsize", "idle"} :
           Goto(w, where) /\ (where = "open" => max_bytes = 0)
    BY <1>4 DEF Call, Lose
  <2>3. /\ max_bytes > 0 => pc'[w] \in {"getsize", "idle"}
        /\ pc'[w] # "write" /\ \A v \in Writers \ {w} : pc'[v] = pc[v]
    BY <2>2, GotoType DEF Pc
  <2> QED  BY <2>1, <2>3, CrowdStay DEF Pending, Eager
<1> QED  BY <1>1, <1>2, <1>3, <1>4, CrowdReplace, CrowdRetire, CrowdOpen, CrowdWrite DEF Next

(* Nothing is written, and nobody is at work, at first.                    *)
LEMMA CrowdInit ==
    ASSUME IsFiniteSet(Writers)
    PROVE  Init => SoloInv /\ CrowdInv
<1> SUFFICES ASSUME Init PROVE SoloInv /\ CrowdInv
  OBVIOUS
<1>1. Len(<< >>) = 0 /\ TypeOK
  BY LogInit
<1>2. SoloInv
  BY <1>1, LogAssumption DEF Init, SoloInv, Alone, RoomFor
<1>3. Distinct
  BY DEF Init, Distinct
<1>4. ASSUME NEW w \in Writers, NEW f \in Files, max_bytes > 0
      PROVE  FileBound(f) /\ FullBound(f)
  <2>1. /\ Pending(f) = {} /\ Len(content[f]) = 0 /\ Cardinality({}) = 0
        /\ slot[0] = NoFile /\ f # NoFile
    BY <1>1, LogAssumption, FS_EmptySet DEF Init, Pending, TypeOK, Slots
  <2>2. Overshoot \in Nat /\ max_bytes \in Nat
    BY <1>1, EnoughForAll DEF TypeOK
  <2>3. FullBound(f)
    BY <2>1 DEF FullBound
  <2>4. FileBound(f)
    BY <2>1, <2>2 DEF FileBound
  <2> QED  BY <2>3, <2>4
<1> QED  BY <1>2, <1>3, <1>4 DEF CrowdInv

(* Whatever LOG_MAX_BYTES and LOG_KEEP are, however many processes share   *)
(* the log, and wherever they are killed and started anew: a log that one  *)
(* process at a time writes never outgrows LOG_MAX_BYTES by more than the  *)
(* line that reaches it, nor does any backup; and when processes rotate it *)
(* under each other it outgrows the limit by no more than a line for each  *)
(* of the others, and one more for each of them and every move that a      *)
(* backup can make.                                                        *)
THEOREM LogBounded ==
    ASSUME IsFiniteSet(Writers)
    PROVE  Spec => []Bounded
<1>1. TypeOK /\ SoloInv /\ CrowdInv => Bounded
  <2> SUFFICES ASSUME TypeOK, SoloInv, CrowdInv, max_bytes > 0, NEW i \in Slots
               PROVE  /\ ~overlapped => Len(Lines(i)) <= max_bytes
                      /\ overlapped => Len(Lines(i)) <= max_bytes + Overshoot
    BY DEF Bounded, SoloBounded
  <2>1. /\ Len(<< >>) = 0 /\ max_bytes \in Nat /\ slot[i] \in Files \cup {NoFile}
    BY DEF TypeOK
  <2>2. CASE ~overlapped
    BY <2>1, <2>2 DEF Lines, SoloInv
  <2>3. CASE overlapped
    <3>1. PICK w \in Writers : TRUE
      BY <2>3 DEF SoloInv
    <3>2. Overshoot \in Nat
      BY <3>1, EnoughForAll
    <3>3. ASSUME NEW f \in Files PROVE Len(content[f]) <= max_bytes + Overshoot
      <4>1. Len(content[f]) + Cardinality(Pending(f)) <= max_bytes + Overshoot
        BY <3>1 DEF CrowdInv, FileBound
      <4>2. Cardinality(Pending(f)) \in Nat /\ Len(content[f]) \in Nat
        <5>1. Pending(f) \in SUBSET Writers
          BY DEF Pending
        <5> QED  BY <5>1, Counted DEF TypeOK
      <4> QED  BY <2>1, <3>2, <4>1, <4>2
    <3> QED  BY <2>1, <2>3, <3>2, <3>3 DEF Lines
  <2> QED  BY <2>2, <2>3
<1>2. Init => SoloInv /\ CrowdInv
  BY CrowdInit
<1>3. TypeOK /\ SoloInv /\ CrowdInv /\ [Next]_vars => SoloInv' /\ CrowdInv'
  BY SoloStep, CrowdStep
<1> QED  BY <1>1, <1>2, <1>3, LogTypeCorrect, PTL DEF Spec

-----------------------------------------------------------------------------
(* While no two processes log at a time: the backups are full, so that the *)
(* lines they hold can be counted; a line is missing only once the last    *)
(* place is taken, as every rotation drops at most what is in it; and      *)
(* below the last one there is no gap but one for each rotation that was   *)
(* cut short, and the one that a rotation under way shifts down.           *)
Shifting(w) == pc[w] \in {"exists", "replace", "retire"}
Gaps == {i \in 1 .. keep : slot[i] = NoFile /\ \E j \in i + 1 .. keep : slot[j] # NoFile}

NoneMissing == \A n \in 1 .. written : (\E m \in Kept : m < n) => n \in Kept
SomeDropped == max_bytes > 0 /\ (keep = 0 \/ slot[keep] # NoFile)
BackupsFull ==
    max_bytes > 0 => \A i \in 1 .. keep : slot[i] # NoFile => Len(content[slot[i]]) >= max_bytes

FilesInv ==
    /\ InOrder /\ NoneMissing /\ BackupsFull
    /\ SomeDropped \/ \A n \in 1 .. written : n \in Kept

RotationInv(w) ==
    /\ pc[w] = "getsize" \/ Shifting(w) => max_bytes > 0
    /\ pc[w] = "write" => handle[w] = slot[0]
    /\ Shifting(w) =>
        /\ slot[0] # NoFile /\ Len(content[slot[0]]) >= max_bytes
        /\ index[w] \in 0 .. keep
        /\ pc[w] = "retire" => index[w] = IF keep = 0 THEN 0 ELSE 1
        /\ index[w] < keep => slot[index[w]] = NoFile
        /\ Cardinality(Gaps \ {index[w]}) <= cut

RecentInv ==
    ~overlapped =>
        /\ FilesInv
        /\ \A w \in Writers : RotationInv(w)
        /\ (\A w \in Writers : ~Shifting(w)) => Cardinality(Gaps) <= cut

(* The gaps are places.                                                    *)
LEMMA GapsCounted ==
    ASSUME TypeOK, NEW T \in SUBSET Gaps
    PROVE  /\ IsFiniteSet(Gaps) /\ Cardinality(Gaps) \in Nat
           /\ IsFiniteSet(T) /\ Cardinality(T) \in Nat /\ Cardinality(T) <= Cardinality(Gaps)
<1>1. IsFiniteSet(1 .. keep) /\ Gaps \in SUBSET (1 .. keep)
  BY FS_Interval DEF TypeOK, Gaps
<1>2. IsFiniteSet(Gaps)
  BY <1>1, FS_Subset
<1> QED  BY <1>2, FS_Subset, FS_CardinalityType

(* What a place holds is a sequence of lines written.                      *)
LEMMA LinesType ==
    ASSUME TypeOK, NEW i \in Slots
    PROVE  /\ Lines(i) \in Seq(1 .. written) /\ Len(Lines(i)) \in Nat
           /\ DOMAIN Lines(i) = 1 .. Len(Lines(i))
           /\ \A m \in DOMAIN Lines(i) : Lines(i)[m] \in 1 .. written
<1>1. content \in [Files -> Seq(1 .. written)] /\ slot[i] \in Files \cup {NoFile}
  BY DEF TypeOK
<1>2. Lines(i) \in Seq(1 .. written)
  <2>1. CASE slot[i] = NoFile
    BY <2>1 DEF Lines
  <2>2. CASE slot[i] # NoFile
    BY <1>1, <2>2 DEF Lines
  <2> QED  BY <2>1, <2>2
<1>3. ASSUME NEW s \in Seq(1 .. written)
      PROVE  /\ Len(s) \in Nat /\ DOMAIN s = 1 .. Len(s)
             /\ \A m \in 1 .. Len(s) : s[m] \in 1 .. written
  BY LenProperties, ElementOfSeq
<1> QED  BY <1>2, <1>3

(* The lines kept are those in some place.                                 *)
LEMMA KeptLines ==
    \A n : n \in Kept <=> \E i \in Slots : \E m \in DOMAIN Lines(i) : n = Lines(i)[m]
BY DEF Kept, Range

(* So many lines are kept as there are in full files, each another one;    *)
(* what is missing is older than all of them.                              *)
LEMMA FullFilesKept ==
    ASSUME TypeOK, InOrder, NoneMissing, NEW Full \in SUBSET Slots,
           \A i \in Full : Len(Lines(i)) >= max_bytes,
           NEW n \in 1 .. written, n \notin Kept
    PROVE  /\ IsFiniteSet(Full) /\ Cardinality(Full) \in Nat
           /\ Cardinality(Full) * max_bytes <= written - n
<1> DEFINE Places == Full \X (1 .. max_bytes)
           Later == n + 1 .. written
           f == [p \in Places |-> Lines(p[1])[p[2]]]
<1>1. max_bytes \in Nat /\ written \in Nat /\ keep \in Nat
  BY DEF TypeOK
<1>2. IsFiniteSet(Full) /\ Cardinality(Full) \in Nat
  <2>1. IsFiniteSet(Slots)
    BY <1>1, FS_Interval DEF Slots
  <2> QED  BY <2>1, FS_Subset, FS_CardinalityType
<1>3. IsFiniteSet(Places) /\ Cardinality(Places) = Cardinality(Full) * max_bytes
  <2>1. IsFiniteSet(1 .. max_bytes) /\ Cardinality(1 .. max_bytes) = max_bytes
    BY <1>1, FS_Interval
  <2> QED  BY <1>2, <2>1, FS_Product
<1>4. IsFiniteSet(Later) /\ Cardinality(Later) = written - n
  BY <1>1, FS_Interval
<1>5. ASSUME NEW p \in Places
      PROVE  p[1] \in Slots /\ p[2] \in DOMAIN Lines(p[1]) /\ p[2] \in Nat /\ p[1] \in Nat
  <2>1. p[1] \in Full /\ p[1] \in Slots /\ p[2] \in 1 .. max_bytes
    OBVIOUS
  <2>2. Len(Lines(p[1])) \in Nat /\ DOMAIN Lines(p[1]) = 1 .. Len(Lines(p[1]))
    BY <2>1, LinesType
  <2>3. Slots \subseteq Nat
    BY <1>1 DEF Slots
  <2>4. max_bytes <= Len(Lines(p[1]))
    BY <2>1
  <2>5. p[2] \in 1 .. Len(Lines(p[1]))
    <3>1. \A k, l \in Nat : k <= l => 1 .. k \subseteq 1 .. l
      OBVIOUS
    <3> HIDE DEF f, Places, Later
    <3> QED  BY <1>1, <2>1, <2>2, <2>4, <3>1
  <2>6. p[1] \in Nat /\ p[2] \in Nat
    <3>1. \A k \in Nat : 1 .. k \subseteq Nat
      OBVIOUS
    <3> HIDE DEF f, Places, Later
    <3> QED  BY <1>1, <2>1, <2>3, <3>1
  <2> HIDE DEF f, Places, Later
  <2> QED  BY <2>1, <2>2, <2>5, <2>6
<1>6. ASSUME NEW p \in Places PROVE f[p] \in Later
  <2>1. f[p] \in Kept /\ f[p] \in 1 .. written
    <3>1. f[p] = Lines(p[1])[p[2]]
      OBVIOUS
    <3>2. f[p] \in 1 .. written
      BY <1>5, <3>1, LinesType
    <3> QED  BY <1>5, <3>1, <3>2, KeptLines
  <2>2. ~(f[p] < n) /\ f[p] # n
    BY <2>1 DEF NoneMissing
  <2> QED  BY <1>1, <2>1, <2>2
<1>7. ASSUME NEW p \in Places, NEW q \in Places, f[p] = f[q] PROVE p = q
  <2>1. /\ f[p] = Lines(p[1])[p[2]] /\ f[q] = Lines(q[1])[q[2]]
        /\ f[p] \in Nat
    BY <1>1, <1>6
  <2>2. ~(p[1] > q[1] \/ (p[1] = q[1] /\ p[2] < q[2]))
    BY <1>5, <1>7, <2>1 DEF InOrder
  <2>3. ~(q[1] > p[1] \/ (q[1] = p[1] /\ q[2] < p[2]))
    BY <1>5, <1>7, <2>1 DEF InOrder
  <2>4. p[1] = q[1] /\ p[2] = q[2]
    BY <1>5, <2>2, <2>3
  <2> QED  BY <2>4
<1>8. f \in Injection(Places, Later)
  <2>1. f \in [Places -> Later] /\ \A p, q \in Places : f[p] = f[q] => p = q
    BY <1>6, <1>7
  <2> HIDE DEF f, Places, Later
  <2> QED  BY <2>1 DEF Injection, IsInjective
<1>9. Cardinality(Places) <= Cardinality(Later)
  <2> HIDE DEF f, Places, Later
  <2> QED  BY <1>4, <1>8, FS_Injection
<1> QED  BY <1>2, <1>3, <1>4, <1>9

(* What is missing is older than LOG_KEEP full files, less one for each    *)
(* rotation that was cut short.                                            *)
LEMMA RecentEnough ==
    ASSUME TypeOK, RecentInv
    PROVE  KeepsRecent
<1> SUFFICES ASSUME ~overlapped, NEW n \in 1 .. written, n \notin Kept
             PROVE  /\ max_bytes > 0 /\ n <= written - (keep - cut) * max_bytes
                    /\ ~\E m \in Kept : m < n
  <2>1. ~overlapped => InOrder
    BY DEF RecentInv, FilesInv
  <2>2. max_bytes \in Nat /\ keep \in Nat /\ cut \in Nat /\ written \in Nat
    BY DEF TypeOK
  <2>3. (keep - cut) * max_bytes \in Int
    BY <2>2
  <2>4. \A a, b \in Int : a <= b => ~(a > b)
    OBVIOUS
  <2> QED  BY <2>1, <2>2, <2>3, <2>4 DEF KeepsRecent
<1>1. /\ max_bytes \in Nat /\ keep \in Nat /\ cut \in Nat /\ written \in Nat
      /\ n \in Nat /\ n <= written
  BY DEF TypeOK
<1>2. /\ InOrder /\ NoneMissing /\ BackupsFull /\ SomeDropped
      /\ \A w \in Writers : RotationInv(w)
  BY DEF RecentInv, FilesInv
<1>3. max_bytes > 0 /\ ~\E m \in Kept : m < n
  BY <1>2 DEF SomeDropped, NoneMissing
<1>4. ASSUME NEW full \in Nat, keep - cut <= full, full * max_bytes <= written - n
      PROVE  n <= written - (keep - cut) * max_bytes
  <2>1. \A a \in Nat, b, c \in Int : b <= c => b * a <= c * a
    OBVIOUS
  <2>2. (keep - cut) * max_bytes <= full * max_bytes
    BY <1>1, <1>4, <2>1
  <2>3. (keep - cut) * max_bytes \in Int /\ full * max_bytes \in Int
    BY <1>1
  <2> QED  BY <1>1, <1>4, <2>2, <2>3
<1>5. CASE keep = 0
  <2>1. 0 * max_bytes <= written - n
    BY <1>1
  <2> QED  BY <1>1, <1>3, <1>4, <1>5, <2>1
<1>6. CASE keep # 0
  <2> DEFINE Backups == (1 .. keep) \ Gaps
  <2>1. keep \in Slots /\ slot[keep] # NoFile /\ 1 .. keep \subseteq Slots /\ 0 \in Slots
    BY <1>1, <1>2, <1>6 DEF SomeDropped, Slots
  <2>2. ASSUME NEW i \in Backups PROVE i \in Slots /\ Len(Lines(i)) >= max_bytes /\ i # 0
    <3>1. i \in 1 .. keep /\ i \notin Gaps
      OBVIOUS
    <3>2. slot[i] # NoFile
      <4>1. i # keep => keep \in i + 1 .. keep
        BY <1>1, <3>1
      <4> QED  BY <2>1, <3>1, <4>1 DEF Gaps
    <3> QED  BY <1>2, <1>3, <2>1, <3>1, <3>2 DEF BackupsFull, Lines
  <2>3. /\ IsFiniteSet(Backups) /\ Cardinality(Backups) = keep - Cardinality(Gaps)
        /\ Cardinality(Gaps) \in Nat /\ IsFiniteSet(Gaps) /\ Cardinality(Backups) \in Nat
    <3>1. IsFiniteSet(1 .. keep) /\ Cardinality(1 .. keep) = keep
      BY <1>1, FS_Interval
    <3>2. (1 .. keep) \cap Gaps = Gaps
      BY DEF Gaps
    <3>3. /\ IsFiniteSet(Backups)
          /\ Cardinality(Backups) = Cardinality(1 .. keep) - Cardinality((1 .. keep) \cap Gaps)
      BY <3>1, FS_Difference
    <3>4. Cardinality(Backups) \in Nat
      BY <3>3, FS_CardinalityType
    <3> QED  BY <3>1, <3>2, <3>3, <3>4, GapsCounted
  <2>4. CASE \A w \in Writers : ~Shifting(w)
    <3>1. Cardinality(Gaps) <= cut
      BY <2>4 DEF RecentInv
    <3>2. Backups \in SUBSET Slots /\ \A i \in Backups : Len(Lines(i)) >= max_bytes
      BY <2>2
    <3> HIDE DEF Backups
    <3>3. Cardinality(Backups) * max_bytes <= written - n
      BY <1>2, <3>2, FullFilesKept
    <3> QED  BY <1>1, <1>3, <1>4, <2>3, <3>1, <3>3
  <2>5. CASE \E w \in Writers : Shifting(w)
    <3>1. PICK w \in Writers : Shifting(w)
      BY <2>5
    <3>2. /\ slot[0] # NoFile /\ Len(content[slot[0]]) >= max_bytes
          /\ Cardinality(Gaps \ {index[w]}) <= cut
      BY <1>2, <3>1 DEF RotationInv
    <3>3. Cardinality(Gaps) <= cut + 1
      <4>1. Cardinality(Gaps \ {index[w]}) \in Int
        BY GapsCounted
      <4>2. Cardinality(Gaps \ {index[w]}) = Cardinality(Gaps) - 1
                \/ Cardinality(Gaps \ {index[w]}) = Cardinality(Gaps)
        BY <2>3, FS_RemoveElement
      <4> QED  BY <1>1, <2>3, <3>2, <4>1, <4>2
    <3>4. /\ Backups \cup {0} \in SUBSET Slots
          /\ \A i \in Backups \cup {0} : Len(Lines(i)) >= max_bytes
          /\ 0 \notin Backups
      BY <2>1, <2>2, <3>2 DEF Lines
    <3> HIDE DEF Backups
    <3>5. Cardinality(Backups \cup {0}) = Cardinality(Backups) + 1
      BY <2>3, <3>4, FS_AddElement
    <3>6. Cardinality(Backups \cup {0}) * max_bytes <= written - n
      BY <1>2, <3>4, FullFilesKept
    <3>7. keep - cut <= Cardinality(Backups) + 1 /\ Cardinality(Backups) + 1 \in Nat
      BY <1>1, <2>3, <3>3
    <3> QED  BY <1>3, <1>4, <3>5, <3>6, <3>7
  <2> QED  BY <2>4, <2>5
<1> QED  BY <1>5, <1>6

(* A file that moves up to an empty place, or over the last one, leaves    *)
(* the lines in order; what was over there were the oldest.                *)
LEMMA MoveFiles ==
    ASSUME TypeOK, Distinct, FilesInv, NEW w \in Writers, NEW to \in 1 .. keep, Move(w, to),
           UNCHANGED << max_bytes, keep, content, written >>,
           to < keep => slot[to] = NoFile,
           Len(content[slot[to - 1]]) >= max_bytes, max_bytes > 0
    PROVE  FilesInv' /\ Gaps' \ {to - 1} \subseteq Gaps \ {to}
<1>1. /\ keep \in Nat /\ to \in Slots /\ to - 1 \in Slots /\ to \in Nat /\ Slots' = Slots
      /\ Slots \subseteq Nat /\ \A i \in Slots : i <= keep
      /\ \A i \in 1 .. keep : i \in Slots
  BY DEF TypeOK, Slots
<1>2. /\ slot[to - 1] # NoFile /\ slot'[to] = slot[to - 1] /\ slot'[to - 1] = NoFile
      /\ \A i \in Slots \ {to, to - 1} : slot'[i] = slot[i]
  BY MoveDistinct DEF Move
<1>3. InOrder /\ NoneMissing /\ BackupsFull
  BY DEF FilesInv
<1> DEFINE back(i) == IF i = to THEN to - 1 ELSE i
<1>4. /\ Lines(to - 1)' = << >>
      /\ \A i \in Slots : i # to - 1 => Lines(i)' = Lines(back(i)) /\ back(i) \in Slots
  BY <1>1, <1>2 DEF Lines
<1>5. ASSUME NEW i \in Slots, NEW m \in DOMAIN Lines(i)'
      PROVE  i # to - 1 /\ Lines(i)' = Lines(back(i)) /\ back(i) \in Slots /\ m \in DOMAIN Lines(back(i))
  <2>1. DOMAIN << >> = {}
    OBVIOUS
  <2> HIDE DEF back
  <2>2. i # to - 1
    BY <1>4, <1>5, <2>1
  <2> QED  BY <1>4, <1>5, <2>2
<1>6. ASSUME NEW i \in Slots, NEW j \in Slots, i # to - 1, j # to - 1
      PROVE  /\ i > j => back(i) > back(j)
             /\ i = j => back(i) = back(j)
  <2>1. i \in Nat /\ j \in Nat
    BY <1>1
  <2> QED  BY <1>1, <1>6, <2>1
<1> HIDE DEF back
<1>7. InOrder'
  <2> SUFFICES ASSUME NEW i \in Slots, NEW j \in Slots,
                      NEW m \in DOMAIN Lines(i)', NEW n \in DOMAIN Lines(j)',
                      i > j \/ (i = j /\ m < n)
               PROVE  Lines(i)'[m] < Lines(j)'[n]
    BY <1>1 DEF InOrder
  <2> QED  BY <1>3, <1>5, <1>6 DEF InOrder
<1>8. ASSUME NEW n \in Kept'
      PROVE  \E j \in Slots : /\ \E b \in DOMAIN Lines(j) : n = Lines(j)[b]
                              /\ j = keep => to < keep
  <2>1. PICK i \in Slots : \E m \in DOMAIN Lines(i)' : n = Lines(i)'[m]
    BY <1>1 DEF Kept, Range
  <2>2. \E m \in DOMAIN Lines(back(i)) : n = Lines(back(i))[m]
    BY <1>5, <2>1
  <2>3. back(i) \in Slots /\ i # to - 1
    BY <1>5, <2>1
  <2>4. back(i) = keep => to < keep
    BY <1>1, <2>1, <2>3 DEF back
  <2> QED  BY <2>2, <2>3, <2>4
<1>9. \A n : n \in Kept => \/ n \in Kept'
                           \/ to = keep /\ \E b \in DOMAIN Lines(keep) : n = Lines(keep)[b]
  <2> SUFFICES ASSUME NEW n \in Kept
               PROVE  \/ n \in Kept'
                      \/ to = keep /\ \E b \in DOMAIN Lines(keep) : n = Lines(keep)[b]
    OBVIOUS
  <2>1. PICK i \in Slots : \E m \in DOMAIN Lines(i) : n = Lines(i)[m]
    BY KeptLines
  <2>2. ASSUME NEW j \in Slots, Lines(j)' = Lines(i) PROVE n \in Kept'
    BY <1>1, <2>1, <2>2 DEF Kept, Range
  <2>3. CASE i = to - 1
    BY <1>1, <1>4, <2>2, <2>3 DEF back
  <2>4. CASE i # to - 1 /\ i # to
    BY <1>4, <2>2, <2>4 DEF back
  <2>5. CASE i = to
    <3>1. DOMAIN << >> = {}
      OBVIOUS
    <3>2. slot[to] # NoFile
      BY <2>1, <2>5, <3>1 DEF Lines
    <3>3. to = keep
      BY <1>1, <3>2
    <3> QED  BY <2>1, <2>5, <3>3
  <2> QED  BY <2>3, <2>4, <2>5
<1>10. NoneMissing'
  <2> SUFFICES ASSUME NEW n \in 1 .. written, NEW m \in Kept', m < n PROVE n \in Kept'
    BY DEF NoneMissing
  <2>1. PICK j \in Slots : /\ \E b \in DOMAIN Lines(j) : m = Lines(j)[b]
                           /\ j = keep => to < keep
    BY <1>8
  <2>2. m \in Kept
    BY <2>1, KeptLines
  <2>3. n \in Kept
    BY <1>3, <2>2 DEF NoneMissing
  <2>4. CASE to = keep /\ \E a \in DOMAIN Lines(keep) : n = Lines(keep)[a]
    <3>1. j < keep
      BY <1>1, <2>1, <2>4
    <3>2. keep > j /\ keep \in Slots
      BY <1>1, <2>4, <3>1
    <3>3. n < m
      BY <1>3, <2>1, <2>4, <3>2 DEF InOrder
    <3>4. m \in 1 .. written /\ written \in Nat
      BY <2>1, LinesType DEF TypeOK
    <3> QED  BY <3>3, <3>4
  <2> QED  BY <1>9, <2>3, <2>4
<1>11. BackupsFull'
  <2> SUFFICES ASSUME NEW i \in 1 .. keep, slot'[i] # NoFile
               PROVE  Len(content[slot'[i]]) >= max_bytes
    BY DEF BackupsFull
  <2>1. CASE i = to
    BY <1>2, <2>1
  <2>2. CASE i # to
    <3>1. slot'[i] = slot[i]
      BY <1>1, <1>2, <2>2
    <3> QED  BY <1>3, <3>1 DEF BackupsFull
  <2> QED  BY <2>1, <2>2
<1>12. SomeDropped' \/ \A n \in 1 .. written : n \in Kept'
  <2>1. CASE to = keep
    BY <1>2, <2>1, LogAssumption DEF SomeDropped
  <2>2. CASE to # keep
    <3>1. slot'[keep] = slot[keep]
      BY <1>1, <1>2, <2>2 DEF Slots
    <3>2. \A n \in 1 .. written : n \in Kept => n \in Kept'
      BY <1>9, <2>2
    <3> QED  BY <3>1, <3>2 DEF SomeDropped, FilesInv
  <2> QED  BY <2>1, <2>2
<1>13. ASSUME NEW k \in Gaps', k # to - 1 PROVE k \in Gaps \ {to}
  <2>1. k \in 1 .. keep /\ slot'[k] = NoFile /\ k \in Nat
    BY DEF Gaps
  <2>2. k # to
    BY <1>2, <2>1
  <2>3. slot[k] = NoFile
    BY <1>1, <1>2, <1>13, <2>1, <2>2
  <2>4. PICK j \in k + 1 .. keep : slot'[j] # NoFile
    BY DEF Gaps
  <2>5. CASE j = to
    <3>1. to - 1 \in k + 1 .. keep
      BY <1>1, <1>13, <2>1, <2>4, <2>5
    <3> QED  BY <1>2, <2>1, <2>2, <2>3, <3>1 DEF Gaps
  <2>6. CASE j # to
    <3>1. j \in Slots /\ j # to - 1
      BY <1>1, <1>2, <2>1, <2>4
    <3>2. slot[j] # NoFile
      BY <1>2, <2>4, <2>6, <3>1
    <3> QED  BY <2>1, <2>2, <2>3, <2>4, <3>2 DEF Gaps
  <2> QED  BY <2>5, <2>6
<1> QED  BY <1>7, <1>10, <1>11, <1>12, <1>13 DEF FilesInv

(* The processes that a step does not move are idle, and rotate nothing.   *)
LEMMA RecentByStep ==
    ASSUME NEW w \in Writers,
           ~overlapped' => Alone(w),
           \A v \in Writers \ {w} : pc'[v] = pc[v],
           ~overlapped' => /\ FilesInv' /\ RotationInv(w)'
                           /\ ~Shifting(w)' => Cardinality(Gaps') <= cut'
    PROVE  RecentInv'
<1> SUFFICES ASSUME ~overlapped' PROVE RecentInv'
  BY DEF RecentInv
<1>1. \A v \in Writers \ {w} : pc'[v] = "idle"
  BY DEF Alone
<1>2. \A v \in Writers \ {w} : RotationInv(v)'
  BY <1>1 DEF RotationInv, Shifting
<1> QED  BY <1>2 DEF RecentInv

(* The files of a log that no step has touched.                            *)
LEMMA FilesStay ==
    ASSUME UNCHANGED << max_bytes, keep, slot, content, written >>
    PROVE  (FilesInv => FilesInv') /\ Gaps' = Gaps
BY DEF FilesInv, InOrder, NoneMissing, BackupsFull, SomeDropped, Kept, Lines, Slots, Gaps

(* A rotation that begins, or that looks for the next file to move.        *)
LEMMA RecentLook ==
    ASSUME TypeOK, SoloInv, RecentInv, NEW w \in Writers, Getsize(w) \/ Exists(w)
    PROVE  RecentInv'
<1>1. /\ UNCHANGED << max_bytes, keep, slot, content, handle, written, cut, overlapped >>
      /\ pc[w] # "idle" /\ keep \in Nat /\ cut \in Nat
  BY DEF Getsize, Exists, TypeOK
<1>2. \A v \in Writers \ {w} : pc'[v] = pc[v]
  <2>1. ASSUME NEW where \in Pc, Goto(w, where) PROVE \A v \in Writers \ {w} : pc'[v] = pc[v]
    BY <2>1, GotoType
  <2> QED  BY <2>1 DEF Getsize, Exists, NextIndex, Pc
<1>3. FilesInv => FilesInv' /\ Gaps' = Gaps
  BY <1>1, FilesStay
<1>4. Gaps' = Gaps
  BY <1>1, FilesStay
<1>5. SUFFICES ASSUME ~overlapped
               PROVE  RotationInv(w)' /\ (~Shifting(w)' => Cardinality(Gaps) <= cut)
  BY <1>1, <1>2, <1>3, <1>4, RecentByStep DEF RecentInv, SoloInv
<1>6. RotationInv(w) /\ \A v \in Writers \ {w} : ~Shifting(v)
  BY <1>1, <1>5 DEF RecentInv, SoloInv, Alone, Shifting
<1>7. CASE Getsize(w)
  <2>1. pc[w] = "getsize" /\ Cardinality(Gaps) <= cut /\ max_bytes > 0
    BY <1>5, <1>6, <1>7 DEF Getsize, RecentInv, Shifting, RotationInv
  <2>2. CASE Goto(w, "open")
    BY <2>1, <2>2, GotoType DEF Pc, RotationInv, Shifting
  <2>3. CASE /\ ~(slot[0] = NoFile \/ Len(content[slot[0]]) < max_bytes)
             /\ index' = [index EXCEPT ![w] = keep]
             /\ Goto(w, IF keep > 1 THEN "exists" ELSE "retire")
    <3>1. slot[0] # NoFile /\ Len(content[slot[0]]) >= max_bytes
      BY <1>1, <2>3 DEF TypeOK, Slots
    <3>2. index'[w] = keep
      BY <2>3 DEF TypeOK
    <3>3. pc'[w] = IF keep > 1 THEN "exists" ELSE "retire"
      BY <2>3, GotoType DEF Pc
    <3>4. Cardinality(Gaps \ {keep}) <= cut
      <4>1. Gaps \ {keep} \in SUBSET Gaps
        OBVIOUS
      <4>2. /\ Cardinality(Gaps \ {keep}) \in Nat /\ Cardinality(Gaps) \in Nat
            /\ Cardinality(Gaps \ {keep}) <= Cardinality(Gaps)
        BY <4>1, GapsCounted
      <4> QED  BY <1>1, <2>1, <4>2
    <3> QED  BY <1>1, <1>4, <2>1, <3>1, <3>2, <3>3, <3>4 DEF RotationInv, Shifting
  <2> QED  BY <1>7, <2>2, <2>3 DEF Getsize
<1>8. CASE Exists(w)
  <2>1. /\ pc[w] = "exists" /\ index[w] \in 2 .. keep
        /\ max_bytes > 0 /\ slot[0] # NoFile /\ Len(content[slot[0]]) >= max_bytes
        /\ index[w] < keep => slot[index[w]] = NoFile
        /\ Cardinality(Gaps \ {index[w]}) <= cut
    BY <1>6, <1>8 DEF Exists, TypeOK, RotationInv, Shifting
  <2>2. CASE Goto(w, "replace") /\ UNCHANGED index
    <3>1. pc'[w] = "replace"
      BY <2>2, GotoType DEF Pc
    <3> QED  BY <1>1, <1>4, <2>1, <2>2, <3>1 DEF RotationInv, Shifting
  <2>3. CASE slot[index[w] - 1] = NoFile /\ NextIndex(w)
    <3>1. PICK i \in 2 .. keep : i = index[w]
      BY <2>1
    <3>2. index'[w] = i - 1
      BY <2>1, <2>3, <3>1 DEF NextIndex, TypeOK
    <3>3. pc'[w] = IF i > 2 THEN "exists" ELSE "retire"
      BY <2>1, <2>3, <3>1, GotoType DEF NextIndex, Pc
    <3>4. Cardinality(Gaps \ {i - 1}) <= cut
      <4>1. /\ IsFiniteSet(Gaps) /\ Cardinality(Gaps) \in Nat
            /\ Cardinality(Gaps \ {i}) <= cut
        BY <2>1, <3>1, GapsCounted
      <4>2. i \in Gaps => i - 1 \in Gaps
        <5>1. ASSUME i \in Gaps PROVE i - 1 \in Gaps
          <6>1. PICK j \in i + 1 .. keep : slot[j] # NoFile
            BY <5>1 DEF Gaps
          <6>2. i - 1 \in 1 .. keep /\ j \in (i - 1) + 1 .. keep
            BY <1>1, <3>1, <6>1
          <6> QED  BY <2>3, <3>1, <6>1, <6>2 DEF Gaps
        <5> QED  BY <5>1
      <4>3. /\ Cardinality(Gaps \ {i}) = IF i \in Gaps THEN Cardinality(Gaps) - 1 ELSE Cardinality(Gaps)
            /\ Cardinality(Gaps \ {i - 1}) = IF i - 1 \in Gaps THEN Cardinality(Gaps) - 1 ELSE Cardinality(Gaps)
        BY <4>1, FS_RemoveElement
      <4> QED  BY <1>1, <4>1, <4>2, <4>3
    <3>5. /\ i - 1 \in 0 .. keep
          /\ ~(i > 2) => i - 1 = IF keep = 0 THEN 0 ELSE 1
      BY <1>1, <3>1
    <3> QED  BY <1>1, <1>4, <2>1, <2>3, <3>1, <3>2, <3>3, <3>4, <3>5 DEF RotationInv, Shifting
  <2> QED  BY <1>8, <2>2, <2>3 DEF Exists
<1> QED  BY <1>7, <1>8

(* A file moves up, and leaves the gap that the next one fills.            *)
LEMMA RecentMove ==
    ASSUME TypeOK, SoloInv, Distinct, RecentInv, NEW w \in Writers, Replace(w) \/ Retire(w)
    PROVE  RecentInv'
<1>1. /\ UNCHANGED << max_bytes, keep, content, handle, written, cut, overlapped >>
      /\ pc[w] \in {"replace", "retire"} /\ keep \in Nat /\ cut \in Nat
  BY DEF Replace, Retire, TypeOK
<1>2. \A v \in Writers \ {w} : pc'[v] = pc[v]
  <2>1. ASSUME NEW where \in Pc, Goto(w, where) PROVE \A v \in Writers \ {w} : pc'[v] = pc[v]
    BY <2>1, GotoType
  <2> QED  BY <2>1 DEF Replace, Retire, NextIndex, Abandon, Pc
<1>3. SUFFICES ASSUME ~overlapped
               PROVE  /\ FilesInv' /\ RotationInv(w)'
                      /\ ~Shifting(w)' => Cardinality(Gaps') <= cut
  BY <1>1, <1>2, RecentByStep DEF SoloInv
<1>4. /\ max_bytes > 0 /\ slot[0] # NoFile /\ Len(content[slot[0]]) >= max_bytes
      /\ index[w] \in 0 .. keep
      /\ pc[w] = "retire" => index[w] = IF keep = 0 THEN 0 ELSE 1
      /\ index[w] < keep => slot[index[w]] = NoFile
      /\ Cardinality(Gaps \ {index[w]}) <= cut
      /\ FilesInv
  BY <1>1, <1>3 DEF RecentInv, RotationInv, Shifting
<1>5. RoomFor(w) /\ TypeOK'
  BY <1>3, <1>4, ShiftingType DEF SoloInv
<1>6. ASSUME NEW to \in 1 .. keep, to = index[w], Move(w, to),
             Len(content[slot[to - 1]]) >= max_bytes
      PROVE  FilesInv' /\ Cardinality(Gaps' \ {to - 1}) <= cut
  <2>1. FilesInv' /\ Gaps' \ {to - 1} \subseteq Gaps \ {to}
    BY <1>1, <1>4, <1>6, MoveFiles
  <2>2. /\ IsFiniteSet(Gaps \ {to}) /\ Cardinality(Gaps \ {to}) \in Nat
        /\ Gaps' \ {to - 1} \in SUBSET (Gaps \ {to})
    BY <2>1, GapsCounted
  <2>3. /\ Cardinality(Gaps' \ {to - 1}) <= Cardinality(Gaps \ {to})
        /\ Cardinality(Gaps' \ {to - 1}) \in Nat
    BY <2>2, FS_Subset, FS_CardinalityType
  <2> QED  BY <1>1, <1>4, <1>6, <2>1, <2>2, <2>3
<1>7. CASE Replace(w)
  <2>1. PICK to \in 2 .. keep : to = index[w]
    BY <1>7 DEF Replace, TypeOK
  <2>2. slot[to - 1] # NoFile /\ pc[w] = "replace"
    BY <1>5, <1>7, <2>1 DEF RoomFor, Replace
  <2>3. Move(w, to) /\ NextIndex(w)
    BY <1>7, <2>1, <2>2 DEF Replace, Abandon
  <2>4. to \in 1 .. keep /\ to - 1 \in 1 .. keep /\ 0 \in Slots \ {to, to - 1}
    BY <1>1, <2>1 DEF Slots
  <2>5. Len(content[slot[to - 1]]) >= max_bytes
    BY <1>4, <2>2, <2>4 DEF FilesInv, BackupsFull
  <2>6. FilesInv' /\ Cardinality(Gaps' \ {to - 1}) <= cut
    BY <1>6, <2>1, <2>3, <2>4, <2>5
  <2>7. slot'[0] = slot[0] /\ slot'[to - 1] = NoFile
    BY <1>1, <2>3, <2>4, MoveDistinct
  <2>8. index'[w] = to - 1
    BY <2>1, <2>3 DEF NextIndex, TypeOK
  <2>9. pc'[w] = IF to > 2 THEN "exists" ELSE "retire"
    BY <2>1, <2>3, GotoType DEF NextIndex, Pc
  <2>10. to - 1 \in 0 .. keep /\ (~(to > 2) => to - 1 = IF keep = 0 THEN 0 ELSE 1)
    BY <1>1, <2>1
  <2> QED  BY <1>1, <1>4, <2>6, <2>7, <2>8, <2>9, <2>10 DEF RotationInv, Shifting
<1>8. CASE Retire(w)
  <2>1. pc[w] = "retire" /\ 0 \in Slots /\ ~Abandon(w, 0)
    BY <1>1, <1>4, <1>8 DEF Retire, Abandon, Slots
  <2>2. Goto(w, "open")
    BY <1>8, <2>1 DEF Retire
  <2>3. pc'[w] = "open"
    BY <2>2, GotoType DEF Pc
  <2>4. RotationInv(w)'
    BY <2>3 DEF RotationInv, Shifting
  <2>5. CASE keep >= 1 /\ Move(w, 1)
    <3>1. 1 \in 1 .. keep /\ index[w] = 1
      BY <1>1, <1>4, <2>1, <2>5
    <3>2. FilesInv' /\ Cardinality(Gaps' \ {1 - 1}) <= cut
      BY <1>4, <1>6, <2>5, <3>1
    <3>3. Gaps' \ {1 - 1} = Gaps'
      BY DEF Gaps
    <3> QED  BY <2>4, <3>2, <3>3
  <2>6. CASE keep = 0 /\ slot' = [slot EXCEPT ![0] = NoFile]
    <3>1. Gaps' = {} /\ Cardinality({}) = 0 /\ Slots' = {0} /\ slot'[0] = NoFile
      BY <1>1, <2>1, <2>6, FS_EmptySet DEF Gaps, Slots, TypeOK
    <3>2. Lines(0)' = << >> /\ DOMAIN << >> = {}
      BY <3>1 DEF Lines
    <3>3. InOrder' /\ Kept' = {}
      BY <3>1, <3>2 DEF InOrder, Kept, Range
    <3>4. NoneMissing' /\ BackupsFull' /\ SomeDropped'
      BY <1>1, <1>4, <2>6, <3>3 DEF NoneMissing, BackupsFull, SomeDropped
    <3> QED  BY <1>1, <2>4, <3>1, <3>3, <3>4 DEF FilesInv
  <2> QED  BY <1>8, <2>1, <2>5, <2>6 DEF Retire
<1> QED  BY <1>1, <1>7, <1>8

(* What is opened is the log; a new one is empty, as none was.             *)
LEMMA RecentOpen ==
    ASSUME TypeOK, SoloInv, RecentInv, NEW w \in Writers, Open(w)
    PROVE  RecentInv'
<1>1. /\ UNCHANGED << max_bytes, keep, index, written, cut, overlapped >>
      /\ pc[w] = "open" /\ pc'[w] = "write" /\ \A v \in Writers \ {w} : pc'[v] = pc[v]
      /\ 0 \in Slots /\ Slots' = Slots /\ keep \in Nat
  BY GotoType DEF Open, Pc, TypeOK, Slots
<1>2. SUFFICES ASSUME ~overlapped
               PROVE  FilesInv' /\ handle'[w] = slot'[0] /\ Cardinality(Gaps') <= cut
  BY <1>1, RecentByStep DEF RecentInv, SoloInv, RotationInv, Shifting
<1>3. FilesInv /\ Cardinality(Gaps) <= cut
  BY <1>1, <1>2 DEF RecentInv, SoloInv, Alone, Shifting
<1>4. CASE slot[0] # NoFile
  <2>1. handle' = [handle EXCEPT ![w] = slot[0]] /\ UNCHANGED << slot, content >>
    BY <1>4 DEF Open
  <2>2. handle'[w] = slot'[0]
    BY <2>1 DEF TypeOK
  <2> QED  BY <1>1, <1>3, <2>1, <2>2, FilesStay
<1>5. CASE slot[0] = NoFile
  <2> DEFINE new == CHOOSE f \in Files : f \notin InUse
  <2>1. new \in Files /\ new \notin InUse
    BY <1>5 DEF Open
  <2>2. /\ slot' = [slot EXCEPT ![0] = new] /\ handle' = [handle EXCEPT ![w] = new]
        /\ content' = [content EXCEPT ![new] = << >>]
    BY <1>5 DEF Open
  <2> HIDE DEF new
  <2>3. \A i \in Slots : slot[i] # new
    BY <2>1 DEF InUse
  <2>4. /\ slot'[0] = new /\ handle'[w] = new /\ content'[new] = << >>
        /\ \A i \in Slots \ {0} : slot'[i] = slot[i]
        /\ \A f \in Files \ {new} : content'[f] = content[f]
    BY <1>1, <2>1, <2>2 DEF TypeOK
  <2>5. \A i \in Slots : Lines(i)' = Lines(i)
    <3>1. Lines(0)' = << >> /\ Lines(0) = << >>
      BY <1>5, <2>4 DEF Lines
    <3>2. ASSUME NEW i \in Slots \ {0} PROVE Lines(i)' = Lines(i)
      BY <2>3, <2>4 DEF Lines, TypeOK
    <3> QED  BY <3>1, <3>2
  <2>6. \A i \in 1 .. keep : i \in Slots \ {0} /\ \A j \in i + 1 .. keep : j \in Slots \ {0}
    BY <1>1 DEF Slots
  <2>7. Gaps' = Gaps
    BY <1>1, <2>4, <2>6 DEF Gaps
  <2>8. InOrder' /\ Kept' = Kept
    BY <1>1, <1>3, <2>5 DEF FilesInv, InOrder, Kept
  <2>9. BackupsFull'
    BY <1>1, <1>3, <2>3, <2>4, <2>6 DEF FilesInv, BackupsFull, TypeOK
  <2>10. SomeDropped => SomeDropped'
    BY <1>1, <2>4, <2>6 DEF SomeDropped
  <2>11. FilesInv'
    BY <1>1, <1>3, <2>8, <2>9, <2>10 DEF FilesInv, NoneMissing
  <2> QED  BY <1>1, <1>3, <2>4, <2>7, <2>11
<1> QED  BY <1>4, <1>5

(* The line is appended to the log, and is newer than all that is kept.    *)
LEMMA RecentWrite ==
    ASSUME TypeOK, SoloInv, Distinct, RecentInv, NEW w \in Writers, Write(w)
    PROVE  RecentInv'
<1>1. /\ UNCHANGED << max_bytes, keep, slot, index, cut, overlapped >> /\ written' = written + 1
      /\ pc[w] = "write" /\ pc'[w] = "idle" /\ \A v \in Writers \ {w} : pc'[v] = pc[v]
      /\ 0 \in Slots /\ Slots' = Slots /\ Slots \subseteq Nat /\ written \in Nat
      /\ \A i \in 1 .. keep : i \in Slots \ {0}
  BY GotoType DEF Write, Pc, TypeOK, Slots
<1>2. Gaps' = Gaps
  BY <1>1 DEF Gaps
<1>3. SUFFICES ASSUME ~overlapped PROVE FilesInv' /\ Cardinality(Gaps') <= cut'
  BY <1>1, RecentByStep DEF RecentInv, SoloInv, RotationInv, Shifting
<1>4. /\ FilesInv /\ Cardinality(Gaps) <= cut
      /\ handle[w] = slot[0] /\ slot[0] \in Files /\ slot[0] # NoFile
  <2>1. Cardinality(Gaps) <= cut
    BY <1>1, <1>3 DEF RecentInv, SoloInv, Alone, Shifting
  <2>2. FilesInv /\ handle[w] = slot[0]
    BY <1>1, <1>3 DEF RecentInv, RotationInv
  <2>3. handle[w] \in Files /\ handle[w] # NoFile
    BY <1>1, LogAssumption DEF TypeOK
  <2> QED  BY <2>1, <2>2, <2>3
<1> DEFINE line == written + 1
           size == Len(Lines(0))
<1>5. \A i \in Slots \ {0} : Lines(i)' = Lines(i)
  <2> SUFFICES ASSUME NEW i \in Slots \ {0} PROVE Lines(i)' = Lines(i)
    OBVIOUS
  <2>1. slot[i] # NoFile => slot[i] \in Files /\ slot[i] # handle[w]
    BY <1>1, <1>4 DEF Distinct, TypeOK
  <2>2. \A f \in Files : f # handle[w] => content'[f] = content[f]
    BY DEF Write, TypeOK
  <2> QED  BY <1>1, <2>1, <2>2 DEF Lines
<1>6. /\ size \in Nat /\ DOMAIN Lines(0) = 1 .. size /\ DOMAIN Lines(0)' = 1 .. size + 1
      /\ Lines(0)'[size + 1] = line
      /\ \A m \in 1 .. size : Lines(0)'[m] = Lines(0)[m]
  <2>1. content' = [content EXCEPT ![slot[0]] = Append(@, line)]
    BY <1>4 DEF Write
  <2>2. Lines(0)' = Append(Lines(0), line)
    BY <1>1, <1>4, <2>1 DEF Lines, TypeOK
  <2>3. Lines(0) \in Seq(1 .. line) /\ line \in 1 .. line
    <3>1. 1 .. written \subseteq 1 .. line /\ line \in 1 .. line
      BY <1>1
    <3>2. content[slot[0]] \in Seq(1 .. line)
      <4> HIDE DEF line
      <4> QED  BY <1>4, <3>1 DEF TypeOK
    <3> QED  BY <1>4, <3>1, <3>2 DEF Lines
  <2> DEFINE s == Lines(0)
  <2>4. s \in Seq(1 .. line)
    BY <2>3
  <2>5. Lines(0)' = Append(s, line) /\ size = Len(s) /\ DOMAIN Lines(0) = DOMAIN s
        /\ \A m : s[m] = Lines(0)[m]
    BY <2>2
  <2> HIDE DEF s, line, size
  <2>6. Len(s) \in Nat /\ DOMAIN s = 1 .. Len(s)
    BY <2>4, LenProperties
  <2>7. /\ Append(s, line) \in Seq(1 .. line) /\ Len(Append(s, line)) = Len(s) + 1
        /\ \A m \in 1 .. Len(s) : Append(s, line)[m] = s[m]
        /\ Append(s, line)[Len(s) + 1] = line
    BY <2>3, <2>4, AppendProperties
  <2>8. DOMAIN Append(s, line) = 1 .. Len(s) + 1
    BY <2>7, LenProperties
  <2> QED  BY <2>5, <2>6, <2>7, <2>8
<1>7. ASSUME NEW i \in Slots, NEW m \in DOMAIN Lines(i)'
      PROVE  \/ m \in DOMAIN Lines(i) /\ Lines(i)'[m] = Lines(i)[m] /\ Lines(i)[m] \in 1 .. written
             \/ i = 0 /\ m = size + 1 /\ Lines(i)'[m] = line
  <2>1. CASE i # 0
    BY <1>5, <1>7, <2>1, LinesType
  <2>2. CASE i = 0
    <3> HIDE DEF size, line
    <3>1. m \in 1 .. size \/ m = size + 1
      BY <1>6, <1>7, <2>2
    <3> QED  BY <1>1, <1>6, <2>2, <3>1, LinesType
  <2> QED  BY <2>1, <2>2
<1>8. InOrder'
  <2> SUFFICES ASSUME NEW i \in Slots, NEW j \in Slots,
                      NEW m \in DOMAIN Lines(i)', NEW n \in DOMAIN Lines(j)',
                      i > j \/ (i = j /\ m < n)
               PROVE  Lines(i)'[m] < Lines(j)'[n]
    BY <1>1 DEF InOrder
  <2>1. i \in Nat /\ j \in Nat
    BY <1>1
  <2>2. CASE i = 0 /\ m = size + 1
    <3>1. j = 0 /\ m < n
      BY <2>1, <2>2
    <3> QED  BY <1>6, <2>2, <3>1
  <2>3. CASE m \in DOMAIN Lines(i) /\ Lines(i)'[m] = Lines(i)[m] /\ Lines(i)[m] \in 1 .. written
    <3>1. CASE n \in DOMAIN Lines(j) /\ Lines(j)'[n] = Lines(j)[n]
      BY <1>4, <2>3, <3>1 DEF FilesInv, InOrder
    <3>2. CASE Lines(j)'[n] = line
      BY <1>1, <2>3, <3>2
    <3> QED  BY <1>7, <3>1, <3>2
  <2> QED  BY <1>7, <2>2, <2>3
<1>9. \A n : n \in Kept => n \in Kept'
  <2> SUFFICES ASSUME NEW n, n \in Kept PROVE n \in Kept'
    OBVIOUS
  <2>1. PICK i \in Slots : \E m \in DOMAIN Lines(i) : n = Lines(i)[m]
    BY KeptLines
  <2>2. PICK m \in DOMAIN Lines(i) : n = Lines(i)[m]
    BY <2>1
  <2>3. m \in DOMAIN Lines(i)' /\ n = Lines(i)'[m]
    <3>1. CASE i # 0
      BY <1>5, <2>2, <3>1
    <3>2. CASE i = 0
      <4>1. m \in 1 .. size /\ 1 .. size \subseteq 1 .. size + 1
        BY <1>6, <2>2, <3>2
      <4> HIDE DEF size, line
      <4> QED  BY <1>6, <2>2, <3>2, <4>1
    <3> QED  BY <3>1, <3>2
  <2> QED  BY <1>1, <2>3 DEF Kept, Range
<1>10. line \in Kept'
  <2>1. size + 1 \in DOMAIN Lines(0)' /\ Lines(0)'[size + 1] = line
    BY <1>6
  <2> HIDE DEF size, line
  <2> QED  BY <1>1, <2>1 DEF Kept, Range
<1>11. ASSUME NEW n \in Kept' PROVE n \in Kept \/ n = line
  <2>1. PICK i \in Slots : \E m \in DOMAIN Lines(i)' : n = Lines(i)'[m]
    BY <1>1 DEF Kept, Range
  <2> HIDE DEF size, line
  <2> QED  BY <1>7, <2>1, KeptLines
<1>12. NoneMissing'
  <2> SUFFICES ASSUME NEW n \in 1 .. line, NEW m \in Kept', m < n PROVE n \in Kept'
    BY <1>1 DEF NoneMissing
  <2>1. CASE n = line
    BY <1>10, <2>1
  <2>2. CASE n # line
    <3>1. n \in 1 .. written
      BY <1>1, <2>2
    <3>2. m \in Kept
      BY <1>1, <1>11, <3>1
    <3> QED  BY <1>4, <1>9, <3>1, <3>2 DEF FilesInv, NoneMissing
  <2> QED  BY <2>1, <2>2
<1>13. BackupsFull'
  <2>1. \A i \in 1 .. keep : Lines(i)' = Lines(i)
    BY <1>1, <1>5
  <2> SUFFICES ASSUME max_bytes > 0, NEW i \in 1 .. keep, slot[i] # NoFile
               PROVE  Len(content'[slot[i]]) >= max_bytes
    BY <1>1 DEF BackupsFull
  <2>2. content'[slot[i]] = content[slot[i]]
    BY <1>1, <2>1 DEF Lines
  <2> QED  BY <1>4, <2>2 DEF FilesInv, BackupsFull
<1>14. SomeDropped' \/ \A n \in 1 .. line : n \in Kept'
  <2>1. SomeDropped' <=> SomeDropped
    BY <1>1 DEF SomeDropped
  <2>2. \A n \in 1 .. line : n \in 1 .. written \/ n = line
    BY <1>1
  <2> QED  BY <1>4, <1>9, <1>10, <2>1, <2>2 DEF FilesInv
<1> QED  BY <1>1, <1>2, <1>4, <1>8, <1>12, <1>13, <1>14 DEF FilesInv

(* A call begins, or ends early; one that is cut short leaves its gap.     *)
LEMMA RecentEdges ==
    ASSUME TypeOK, SoloInv, RecentInv, NEW w \in Writers, Call(w) \/ Lose(w)
    PROVE  RecentInv'
<1>1. /\ UNCHANGED << max_bytes, keep, slot, content, index, written >>
      /\ overlapped => overlapped'
      /\ cut \in Nat /\ cut' \in Nat /\ keep \in Nat /\ max_bytes \in Nat
  BY DEF Call, Lose, TypeOK
<1>2. \E where \in {"open", "getsize", "idle"} :
         Goto(w, where) /\ (where = "getsize" => max_bytes # 0)
  BY DEF Call, Lose
<1>3. /\ pc'[w] \in {"open", "getsize", "idle"} /\ (pc'[w] = "getsize" => max_bytes # 0)
      /\ \A v \in Writers \ {w} : pc'[v] = pc[v]
  BY <1>2, GotoType DEF Pc
<1>4. ~overlapped' => Alone(w)
  <2>1. CASE Call(w)
    BY <2>1 DEF Call, Alone
  <2>2. CASE Lose(w)
    BY <1>1, <2>2 DEF Lose, SoloInv
  <2> QED  BY <2>1, <2>2
<1>5. RotationInv(w)'
  BY <1>1, <1>3 DEF RotationInv, Shifting
<1>6. (FilesInv => FilesInv') /\ Gaps' = Gaps
  BY <1>1, FilesStay
<1>7. SUFFICES ASSUME ~overlapped' PROVE FilesInv' /\ Cardinality(Gaps) <= cut'
  BY <1>3, <1>4, <1>5, <1>6, RecentByStep
<1>8. FilesInv /\ RotationInv(w) /\ \A v \in Writers \ {w} : ~Shifting(v)
  BY <1>1, <1>4, <1>7 DEF RecentInv, Alone, Shifting
<1>9. CASE ~Shifting(w)
  <2>1. Cardinality(Gaps) <= cut
    BY <1>1, <1>7, <1>8, <1>9 DEF RecentInv
  <2>2. cut' = cut
    BY <1>9 DEF Call, Lose, Shifting
  <2> QED  BY <1>6, <1>8, <2>1, <2>2
<1>10. CASE Shifting(w)
  <2>1. cut' = cut + 1
    BY <1>10 DEF Call, Lose, Shifting
  <2>2. Cardinality(Gaps \ {index[w]}) <= cut
    BY <1>8, <1>10 DEF RotationInv
  <2>3. IsFiniteSet(Gaps) /\ Cardinality(Gaps) \in Nat
    BY GapsCounted
  <2>4. Cardinality(Gaps \ {index[w]}) = Cardinality(Gaps) - 1
            \/ Cardinality(Gaps \ {index[w]}) = Cardinality(Gaps)
    BY <2>3, FS_RemoveElement
  <2> QED  BY <1>1, <1>6, <1>8, <2>1, <2>2, <2>3, <2>4
<1> QED  BY <1>9, <1>10

(* As long as no two processes log at a time, the log and its backups hold *)
(* the last lines written, in order and with no gap, wherever a process is *)
(* killed, for every LOG_MAX_BYTES and LOG_KEEP: all of them, or LOG_KEEP  *)
(* full files less one for each rotation that was cut short.               *)
THEOREM LogKeepsRecent ==
    ASSUME IsFiniteSet(Writers)
    PROVE  Spec => []KeepsRecent
<1>1. Init => SoloInv /\ CrowdInv /\ RecentInv
  <2> SUFFICES ASSUME Init PROVE RecentInv
    BY CrowdInit
  <2>1. /\ Gaps = {} /\ Cardinality({}) = 0 /\ cut = 0 /\ written = 0
        /\ \A i \in Slots : slot[i] = NoFile
        /\ \A i \in 1 .. keep : i \in Slots
        /\ \A w \in Writers : pc[w] = "idle"
    BY FS_EmptySet DEF Init, Gaps, Slots
  <2>2. \A i \in Slots : Lines(i) = << >>
    BY <2>1 DEF Lines
  <2>3. DOMAIN << >> = {}
    OBVIOUS
  <2>4. InOrder
    BY <2>2, <2>3 DEF InOrder
  <2>5. BackupsFull
    BY <2>1 DEF BackupsFull
  <2>6. 1 .. written = {}
    BY <2>1
  <2>7. FilesInv
    BY <2>4, <2>5, <2>6 DEF FilesInv, NoneMissing
  <2> QED  BY <2>1, <2>7 DEF RecentInv, RotationInv, Shifting
<1>2. ASSUME TypeOK, SoloInv, CrowdInv, RecentInv, [Next]_vars
      PROVE  SoloInv' /\ CrowdInv' /\ RecentInv'
  <2>1. CASE UNCHANGED vars
    BY <1>2, <2>1, FilesStay, SoloStep, CrowdStep DEF vars, RecentInv, RotationInv, Shifting
  <2>2. ASSUME NEW w \in Writers,
               \/ Call(w) \/ Getsize(w) \/ Exists(w) \/ Replace(w) \/ Retire(w)
               \/ Open(w) \/ Write(w) \/ Lose(w)
        PROVE  RecentInv'
    <3>1. Distinct
      BY <1>2 DEF CrowdInv
    <3> QED  BY <1>2, <2>2, <3>1, RecentLook, RecentMove, RecentOpen, RecentWrite, RecentEdges
  <2> QED  BY <1>2, <2>1, <2>2, SoloStep, CrowdStep DEF Next
<1>3. TypeOK /\ RecentInv => KeepsRecent
  BY RecentEnough
<1> QED  BY <1>1, <1>2, <1>3, LogTypeCorrect, PTL DEF Spec

=============================================================================
