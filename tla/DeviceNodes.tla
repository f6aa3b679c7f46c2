---------------------------- MODULE DeviceNodes ----------------------------
(***************************************************************************)
(* What the program reads in sysfs: the buttons of an input device, the    *)
(* DRM connector of the CEC adapter, and the AUX device of the connector.  *)
(***************************************************************************)
EXTENDS Integers, Sequences, SequencesExt, FiniteSetsExt

(* The kernel prints a bitmap as words, the most significant first and     *)
(* without those in front that are 0.  A word is a number here: its text   *)
(* is not padded.  word[k] is the number the first k of its bits make.     *)
WordOf(bits, index, width) ==
    LET word[k \in 0 .. width] ==
            IF k = 0 THEN 0
            ELSE 2 * word[k - 1] + IF index * width + width - k \in bits THEN 1 ELSE 0
    IN  word[width]

KernelPrints(bits, width) ==
    LET top == IF bits = {} THEN 0 ELSE Max(bits) \div width
    IN  [n \in 1 .. top + 1 |-> WordOf(bits, top + 1 - n, width)]

(* `while value` takes a word apart bit by bit: rest[k] is what is left of *)
(* it after k turns, nothing at the latest after as many as its value.     *)
BitsOf(value) ==
    LET rest[k \in 0 .. value] == IF k = 0 THEN value ELSE rest[k - 1] \div 2
    IN  {offset \in 0 .. value : rest[offset] % 2 = 1}

ParseBitmapForward(words, word_bits) ==     \* mutant: the words are not reversed
    UNION {{(n - 1) * word_bits + offset : offset \in BitsOf(words[n])} : n \in DOMAIN words}

(* cec-watch.parse_bitmap.                                                 *)
ParseBitmap(words, word_bits) ==
    UNION {{(n - 1) * word_bits + offset : offset \in BitsOf(Reverse(words)[n])}
           : n \in DOMAIN words}

-----------------------------------------------------------------------------
(* A machine has connectors card<card>-DP-<name>, or card<card>-HDMI-A for *)
(* name Hdmi, and AUX devices, numbered from 0.  One is found inside the   *)
(* directory of the connector it belongs to, or in the AUX class with a    *)
(* link there, or neither: that depends on the kernel and the driver.      *)
Hdmi == 0
NoConnector == [card |-> -1, name |-> -1]
NoAux == -1

(* "card0-DP-1" is found in "card0-DP-10", "card0-HDMI-A" in none but its  *)
(* own.  Names have three digits at most.                                  *)
FoundIn(c, d) ==
    \/ c = d
    \/ c.card = d.card /\ c.name # Hdmi /\ \E k \in {10, 100} : d.name \div k = c.name

(* find_connector: the first card that has one of the adapter's name.      *)
FindConnector(machine, adapter) ==
    LET named == {c \in machine.connectors : c.name = adapter}
    IN  IF named = {} THEN NoConnector
        ELSE CHOOSE c \in named : \A d \in named : c.card <= d.card

FirstAux(numbers) == IF numbers = {} THEN NoAux ELSE Min(numbers)

FindAuxAnyLink(machine, connector) ==   \* mutant: the link need only lead to our card
    LET Aux == DOMAIN machine.owner
        inside == {n \in Aux : machine.inside[n] /\ machine.owner[n] = connector}
        linked == {n \in Aux : machine.linked[n] /\ connector.card = machine.owner[n].card}
    IN  IF inside # {} THEN Min(inside)
        ELSE IF linked # {} THEN Min(linked) ELSE FirstAux({n \in Aux : n = 0})

(* find_aux_device, in its three routes.                                   *)
FindAux(machine, connector) ==
    LET Aux == DOMAIN machine.owner
        inside == {n \in Aux : machine.inside[n] /\ machine.owner[n] = connector}
        linked == {n \in Aux : machine.linked[n] /\ connector # NoConnector
                               /\ FoundIn(connector, machine.owner[n])}
    IN  IF inside # {} THEN Min(inside)
        ELSE IF linked # {} THEN Min(linked)
        ELSE FirstAux({n \in Aux : n = 0})

(* DpcdTunneling.__init__                                                  *)
Tunneling(machine, adapter) == FindAux(machine, FindConnector(machine, adapter))

-----------------------------------------------------------------------------
(* Whatever the width of a word, and wherever the gaps are, the bits read  *)
(* are the bits set.                                                       *)
BitmapReadBack(bits, width) == ParseBitmap(KernelPrints(bits, width), width) = bits

(* With one connector of the adapter's name, and none whose name starts    *)
(* with it, an AUX device that sysfs shows to be the connector's is found, *)
(* and no other; without any AUX device none is.  Nothing is said where a  *)
(* name starts with ours, or where sysfs shows no AUX device to be ours    *)
(* (as for any HDMI connector): there another's may be taken.              *)
AuxIsOurs(machine, adapter) ==
    LET ours == {n \in DOMAIN machine.owner :
                   machine.owner[n].name = adapter /\ (machine.inside[n] \/ machine.linked[n])}
        c == FindConnector(machine, adapter)
    IN  /\ DOMAIN machine.owner = {} => Tunneling(machine, adapter) = NoAux
        /\ ours # {} /\ {d \in machine.connectors : d.name = adapter \/ FoundIn(c, d)} = {c}
              => Tunneling(machine, adapter) \in ours
=============================================================================
