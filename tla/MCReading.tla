----------------------------- MODULE MCReading -----------------------------
(***************************************************************************)
(* Small inputs for Reading.                                               *)
(***************************************************************************)
EXTENDS Reading

Integral == (<< "-5" >> :> Tenths(-50)) @@ (<< "1" >> :> Tenths(10)) @@ (<< "2" >> :> Tenths(20))
            @@ (<< "172" >> :> Tenths(1720)) @@ (<< "9999" >> :> Tenths(99990))
Numeric == Integral @@ (<< "2.5" >> :> Tenths(25)) @@ (<< "nan" >> :> NaN)
Codes == ("-5" :> -5) @@ ("1" :> 1) @@ ("2" :> 2) @@ ("172" :> 172) @@ ("9999" :> 9999)
         @@ ("0x13c" :> 316)
Texts == DOMAIN Numeric \cup
         {<< >>, << "yes" >>, << "maybe" >>, << "0x13c" >>, DEFAULTS["BUTTON_CODES"],
          << "BTN_HOME", "172", "BTN_MODE" >>}
Comment == << "#", "not", "172" >>

(* A comment's last quote matters to a text in quotes only.                *)
SmallLines == {l \in Line : l.is = "assignment" /\ l.comment = "quote" => l.quoted}
SmallFiles == [error : {"none", "unreadable"}, lines : BoundedSeq(SmallLines, 2)]
              \cup [error : {"missing"}, lines : {<< >>}]

(* Raw entries with any initiator, an empty one, one that is too long, and *)
(* words that are no byte.                                                 *)
RawEntry ==
    [name : {"raw"}, argument : {""},
     bytes : {<< >>, << 64 >>, << 79, 130, 16, 0 >>, << 240, 54 >>, << 4, 256 >>, << NotANumber >>,
              [i \in 1 .. 16 |-> i], [i \in 1 .. 17 |-> i]}]
Entry ==
    RawEntry \cup
    [name : {"", "image-view-on", "text-view-on", "active-source", "inactive-source",
             "set-stream-path", "system-audio-mode-request", "user-control-released",
             "user-control-pressed", "standby", "wake-up"},
     argument : {"", "audio", "all", "power"}, bytes : {<< >>}]
SmallFrameLists == [entries : BoundedSeq(Entry, 2), initiator : {4, 11}, phys : {4096, 12800}]

SmallConnectors == [card : 0 .. 1, name : {Hdmi, 1, 2, 10}]
MachinesWith(n) ==
    UNION {[connectors : {c}, owner : [0 .. n - 1 -> {d \in c : d.name # Hdmi}],
            inside : [0 .. n - 1 -> BOOLEAN], linked : [0 .. n - 1 -> BOOLEAN]]
           : c \in {d \in SUBSET SmallConnectors : Cardinality(d) <= 3}}
SmallMachines == [machine : UNION {MachinesWith(n) : n \in 0 .. 2}, adapter : {Hdmi, 1, 10}]
=============================================================================
