------------------------------ MODULE Reading ------------------------------
(***************************************************************************)
(* What the program reads: ConfigFile, FrameSpec and DeviceNodes applied   *)
(* to given inputs, one of which is the state.  Nothing happens in it.     *)
(***************************************************************************)
EXTENDS ConfigFile, FrameSpec, DeviceNodes

CONSTANTS
    Files,          \* configuration files
    FrameLists,     \* EXTRA_WAKE_FRAMES with the addresses the frames are built from
    KeyMax,         \* the kernel's highest key code
    Widths,         \* bits in a word
    Machines        \* connectors and AUX devices, with the name of the adapter

(* As many lines, entries and keys as one likes; up to ten cards, and ten  *)
(* AUX devices, so that their numbers sort as their names do.              *)
AnyFile == [error : {"none", "unreadable"}, lines : Seq(Line)]
           \cup [error : {"missing"}, lines : {<< >>}]
AnyEntry == [name : STRING, argument : STRING, bytes : Seq(Int)]
PhysicalAddress == 0 .. 65535
AnyFrameList == [entries : Seq(AnyEntry), initiator : 0 .. 15, phys : PhysicalAddress]
Connector == [card : 0 .. 9, name : 0 .. 999]
AnyMachine(n) == [connectors : SUBSET Connector, owner : [0 .. n - 1 -> Connector],
                  inside : [0 .. n - 1 -> BOOLEAN], linked : [0 .. n - 1 -> BOOLEAN]]

ASSUME InputsAssumption ==
    /\ \A file \in Files : file \in AnyFile
    /\ \A list \in FrameLists : list \in AnyFrameList
    /\ KeyMax \in Nat /\ Widths \subseteq Nat \ {0}
    /\ \A m \in Machines :
          /\ m.adapter \in 0 .. 999 /\ \E n \in 0 .. 10 : m.machine \in AnyMachine(n)
          /\ \A n \in DOMAIN m.machine.owner : m.machine.owner[n] \in m.machine.connectors

VARIABLE input

Init ==
    \/ \E file \in Files : input = << "config", file >>
    \/ \E list \in FrameLists : input = << "frames", list >>
    \/ \E bits \in SUBSET (0 .. KeyMax), width \in Widths :
          input = << "bitmap", [bits |-> bits, width |-> width] >>
    \/ \E m \in Machines : input = << "aux", m >>
Next == UNCHANGED input
Spec == Init /\ [][Next]_input

-----------------------------------------------------------------------------
(* HonestConfig of every file.                                             *)
ConfigIsHonest == input[1] = "config" => HonestConfig(input[2])

(* FramesAreOurs of every list of entries.                                 *)
ExtraFramesAreOurs ==
    input[1] = "frames" =>
        FramesAreOurs(input[2].entries, input[2].initiator, input[2].phys)

(* BitmapReadBack of every set of buttons.                                 *)
ButtonsReadBack == input[1] = "bitmap" => BitmapReadBack(input[2].bits, input[2].width)

(* AuxIsOurs on every machine.                                             *)
AuxDeviceIsOurs == input[1] = "aux" => AuxIsOurs(input[2].machine, input[2].adapter)
=============================================================================
