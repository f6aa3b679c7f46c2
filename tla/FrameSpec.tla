----------------------------- MODULE FrameSpec -----------------------------
(***************************************************************************)
(* cec_frames: from an EXTRA_WAKE_FRAMES or EXTRA_STANDBY_FRAMES entry to  *)
(* the bytes on the wire.  An entry is what is left of its text once it is *)
(* split at "=" and ":" and its case is folded.                            *)
(***************************************************************************)
EXTENDS Integers, Sequences, SequencesExt

Tv == 0
AudioSystem == 5
Broadcast == 15

Opcode == [ImageViewOn |-> 4, TextViewOn |-> 13, Standby |-> 54, UserControlPressed |-> 68,
           UserControlReleased |-> 69, SystemAudioModeRequest |-> 112, ActiveSource |-> 130,
           SetStreamPath |-> 134, InactiveSource |-> 157]
UiCommands == ("power" :> 64) @@ ("power-toggle" :> 107) @@ ("power-off" :> 108)
              @@ ("power-on" :> 109)

Silence == [is |-> "nothing"]       \* an empty entry
Refused == [is |-> "ValueError"]
Frame(data) ==
    IF Len(data) \in 1 .. 16 THEN [is |-> "frame", data |-> data] ELSE Refused

Header(initiator, follower) == initiator * 16 + follower
PhysOperands(phys) == << (phys \div 256) % 256, phys % 256 >>

(* The builders with and without a physical address as their operand.      *)
Simple(initiator, follower, op) == Frame(<< Header(initiator, follower), Opcode[op] >>)
WithPhys(initiator, follower, op, phys) ==
    Frame(<< Header(initiator, follower), Opcode[op] >> \o PhysOperands(phys))

NotANumber == -1

RawAsWritten(initiator, bytes) ==   \* mutant: the header stands as the file has it
    IF bytes = << >> \/ \E i \in DOMAIN bytes : bytes[i] \notin 0 .. 255 THEN Refused
    ELSE Frame(bytes)

(* raw: the destination is the file's, the initiator never.  A word that   *)
(* is no byte is refused.                                                  *)
Raw(initiator, bytes) ==
    IF bytes = << >> \/ \E i \in DOMAIN bytes : bytes[i] \notin 0 .. 255 THEN Refused
    ELSE Frame(<< Header(initiator, Head(bytes) % 16) >> \o Tail(bytes))

Pressed(initiator, argument) ==
    LET key == IF argument = "" THEN "power-on" ELSE argument
    IN  IF key \notin DOMAIN UiCommands THEN Refused
        ELSE Frame(<< Header(initiator, Tv), Opcode.UserControlPressed, UiCommands[key] >>)

(* Whoever is not named is the TV.                                         *)
StandbyFollower(argument) ==
    IF argument \in {"broadcast", "all", "15"} THEN Broadcast
    ELSE IF argument = "audio" THEN AudioSystem ELSE Tv

ParseFrameSpec(entry, initiator, phys) ==
    CASE entry.name = "" -> Silence
      [] entry.name = "raw" -> Raw(initiator, entry.bytes)
      [] entry.name = "image-view-on" -> Simple(initiator, Tv, "ImageViewOn")
      [] entry.name = "text-view-on" -> Simple(initiator, Tv, "TextViewOn")
      [] entry.name = "active-source" -> WithPhys(initiator, Broadcast, "ActiveSource", phys)
      [] entry.name = "inactive-source" -> WithPhys(initiator, Tv, "InactiveSource", phys)
      [] entry.name = "set-stream-path" -> WithPhys(initiator, Broadcast, "SetStreamPath", phys)
      [] entry.name = "system-audio-mode-request" ->
            WithPhys(initiator, AudioSystem, "SystemAudioModeRequest", phys)
      [] entry.name = "user-control-pressed" -> Pressed(initiator, entry.argument)
      [] entry.name = "user-control-released" -> Simple(initiator, Tv, "UserControlReleased")
      [] entry.name = "standby" -> Simple(initiator, StandbyFollower(entry.argument), "Standby")
      [] OTHER -> Refused

(* parse_frame_list, and _extra_frames around it: one entry refused is all *)
(* of them ignored.  frames[n] is what the first n entries come to.        *)
ParseFrameList(entries, initiator, phys) ==
    LET parsed == [n \in DOMAIN entries |-> ParseFrameSpec(entries[n], initiator, phys)]
        frames[n \in 0 .. Len(entries)] ==
            IF n = 0 THEN << >>
            ELSE IF parsed[n] = Silence THEN frames[n - 1] ELSE Append(frames[n - 1], parsed[n])
    IN  IF Contains(parsed, Refused) THEN << >> ELSE frames[Len(entries)]

-----------------------------------------------------------------------------
(* What others on the bus make of a frame.                                 *)
Initiator(frame) == frame.data[1] \div 16
Follower(frame) == frame.data[1] % 16
AddressIn(frame) == frame.data[3] * 256 + frame.data[4]

CarryAddress == {"ActiveSource", "InactiveSource", "SetStreamPath", "SystemAudioModeRequest"}
HasOp(frame, op) == Len(frame.data) > 1 /\ frame.data[2] = Opcode[op]

(* A frame the bus takes: 16 bytes at most, from us, and, unless it was    *)
(* spelt out byte by byte, with our physical address where one belongs,    *)
(* and broadcast just when its message is.                                 *)
IsOurs(frame, entry, initiator, phys) ==
    /\ Len(frame.data) \in 1 .. 16 /\ Initiator(frame) = initiator
    /\ entry.name # "raw" =>
          /\ \A op \in CarryAddress : HasOp(frame, op) => AddressIn(frame) = phys
          /\ HasOp(frame, "ActiveSource") \/ HasOp(frame, "SetStreamPath")
                => Follower(frame) = Broadcast

Said(entry) == entry.name # ""

(* Whatever the entries of a list say, it is sent whole and in order or    *)
(* not at all, and that only if an entry is refused: each one that is not  *)
(* empty becomes one frame, of ours.                                       *)
FramesAreOurs(entries, initiator, phys) ==
    LET frames == ParseFrameList(entries, initiator, phys)
        meant == {n \in DOMAIN entries : Said(entries[n])}
    IN  \/ /\ frames = << >>
           /\ \E n \in meant : ParseFrameSpec(entries[n], initiator, phys) = Refused
        \/ \E from \in [DOMAIN frames -> meant] :
              /\ \A i, j \in DOMAIN frames : i < j => from[i] < from[j]
              /\ meant \subseteq {from[i] : i \in DOMAIN frames}
              /\ \A i \in DOMAIN frames :
                    IsOurs(frames[i], entries[from[i]], initiator, phys)
=============================================================================
