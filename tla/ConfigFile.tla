----------------------------- MODULE ConfigFile -----------------------------
(***************************************************************************)
(* cec_config: from the lines of config.conf to the values the program     *)
(* runs with and the problems it logs.  A value is a sequence of words,    *)
(* which blanks or commas separate and which have no # in them; what       *)
(* Python's int() and float() make of them is looked up.  One key stands   *)
(* for each accessor.                                                      *)
(***************************************************************************)
EXTENDS Integers, Sequences, SequencesExt

CONSTANTS
    Text,           \* what a line may say of its key
    Remark,         \* the words of a comment that ends with a quote
    IntOf,          \* the texts int(text) takes, and its numbers
    FloatOf,        \* the texts float(text) takes, and its numbers
    CodeOf          \* the words int(word, 0) takes, and its numbers

Key == {"CEC_DEVICE", "WAKE_TV", "LOG_KEEP", "COOLDOWN_SECONDS", "BUTTON_CODES"}

DEFAULTS == [key \in Key |->
    CASE key = "CEC_DEVICE" -> << "/dev/cec0" >>
      [] key = "WAKE_TV" -> << "1" >>
      [] key = "LOG_KEEP" -> << "2" >>
      [] key = "COOLDOWN_SECONDS" -> << "2.5" >>
      [] key = "BUTTON_CODES" -> << "BTN_MODE", "BTN_HOME", "KEY_HOMEPAGE" >>]

(* Numbers are in tenths; NaN is not a number of any size.                 *)
NaN == [nan |-> TRUE]
Tenths(n) == [nan |-> FALSE, tenths |-> n]
IsNumber(v) == v = NaN \/ (v.tenths \in Int /\ v = Tenths(v.tenths))
Below(v, w) == ~v.nan /\ ~w.nan /\ v.tenths < w.tenths

Number == [LOG_KEEP |-> [cast |-> IntOf, minimum |-> Tenths(0), maximum |-> Tenths(500)],
           COOLDOWN_SECONDS |->
               [cast |-> FloatOf, minimum |-> Tenths(0), maximum |-> Tenths(36000)]]

(* Two of the names in BASE_KEY_NAMES; BTN_HOME is in none of its places.  *)
KeyNames == [BTN_MODE |-> 316, KEY_HOMEPAGE |-> 172]

(* A line is blank or a comment, is no assignment, or assigns a text that  *)
(* stands in quotes or not, with a comment behind it or not, which may     *)
(* itself end with the quote the text is in.                               *)
Line == [is : {"blank", "junk"}] \cup
        [is : {"assignment"}, key : Key, words : Text, quoted : BOOLEAN,
         comment : {"none", "plain", "quote"}]

(* What is in force has a number of spoilt words: those a quote stuck to.  *)
(* Word 0 is what quotes with nothing in them leave.                       *)
Clean(words) == [words |-> words, spoilt |-> {}]

(* Quotes are stripped if the line ends with one, be it the comment's.     *)
Unquote(line) ==
    IF ~line.quoted \/ line.comment = "none" THEN Clean(line.words)
    ELSE IF line.comment = "quote"
    THEN [words |-> line.words \o Remark, spoilt |-> {Len(line.words)}]
    ELSE [words |-> line.words, spoilt |-> {1, Len(line.words)}]

(* The defaults are numbers.                                               *)
ASSUME TextAssumption ==
    /\ Remark \in Seq(STRING) /\ \A text \in Text : text \in Seq(STRING)
    /\ \A text \in DOMAIN IntOf : IsNumber(IntOf[text])
    /\ \A text \in DOMAIN FloatOf : IsNumber(FloatOf[text])
    /\ DEFAULTS["LOG_KEEP"] \in DOMAIN IntOf
    /\ IntOf[DEFAULTS["LOG_KEEP"]] = Tenths(20)
    /\ DEFAULTS["COOLDOWN_SECONDS"] \in DOMAIN FloatOf
    /\ FloatOf[DEFAULTS["COOLDOWN_SECONDS"]] = Tenths(25)

-----------------------------------------------------------------------------
(* read_config.  An error in the middle of the file keeps what was read.   *)
ReadLine(read, line) ==
    CASE line.is = "blank" -> read
      [] line.is = "junk" -> [read EXCEPT !.problems = Append(@, "not an assignment")]
      [] OTHER -> [read EXCEPT !.values[line.key] = Unquote(line)]

ReadConfig(file) ==
    LET start == [values |-> [key \in Key |-> Clean(DEFAULTS[key])], problems |-> << >>]
        read[n \in 0 .. Len(file.lines)] ==
            IF n = 0 THEN start ELSE ReadLine(read[n - 1], file.lines[n])
        all == read[Len(file.lines)]
    IN  CASE file.error = "missing" -> [start EXCEPT !.problems = << "not found" >>]
          [] file.error = "unreadable" -> [all EXCEPT !.problems = Append(@, "cannot read")]
          [] OTHER -> all

Yes == {<< "1" >>, << "yes" >>, << "true" >>, << "on" >>}
No == {<< "0" >>, << "no" >>, << "false" >>, << "off" >>, << >>}

(* A quote is no part of anything flag, int or float takes.                *)
IsOneOf(raw, texts) == raw.spoilt = {} /\ raw.words \in texts

(* Config.flag: a value and whether it is worth a problem.                 *)
Flag(key, raw) ==
    IF IsOneOf(raw, Yes) THEN [value |-> TRUE, problem |-> FALSE]
    ELSE IF IsOneOf(raw, No) THEN [value |-> FALSE, problem |-> FALSE]
    ELSE [value |-> DEFAULTS[key] = << "1" >>, problem |-> TRUE]

(* Config.number.                                                          *)
NumberOf(key, raw) ==
    LET n == Number[key]
        given == n.cast[raw.words]
    IN  IF ~IsOneOf(raw, DOMAIN n.cast)
        THEN [value |-> n.cast[DEFAULTS[key]], problem |-> TRUE]
        ELSE IF Below(given, n.minimum) THEN [value |-> n.minimum, problem |-> TRUE]
        ELSE IF Below(n.maximum, given) THEN [value |-> n.maximum, problem |-> TRUE]
        ELSE [value |-> given, problem |-> FALSE]

(* The code a word stands for, if it does for any.                         *)
CodesOf(word) ==
    IF word \in DOMAIN KeyNames THEN {KeyNames[word]}
    ELSE IF word \in DOMAIN CodeOf THEN {CodeOf[word]} ELSE {}

ButtonCodesQuiet(raw) ==    \* mutant: an unknown word is reported only if there is no other
    LET codes == UNION {CodesOf(raw.words[i]) : i \in DOMAIN raw.words \ raw.spoilt}
    IN  [value |-> IF codes = {} THEN {KeyNames.BTN_MODE} ELSE codes,
         unknown |-> IF codes = {} THEN raw.spoilt \cup DOMAIN raw.words ELSE {},
         problem |-> codes = {}]

(* Config.button_codes; unknown numbers the words cec-watch complains of.  *)
ButtonCodes(raw) ==
    LET codes == UNION {CodesOf(raw.words[i]) : i \in DOMAIN raw.words \ raw.spoilt}
    IN  [value |-> IF codes = {} THEN {KeyNames.BTN_MODE} ELSE codes,
         unknown |-> raw.spoilt \cup {i \in DOMAIN raw.words : CodesOf(raw.words[i]) = {}},
         problem |-> codes = {}]

(* Config.__init__, and the call of button_codes by cec-watch.  text makes *)
(* nothing of a value and has no problem with any.                         *)
Load(file) ==
    LET read == ReadConfig(file)
    IN  [device |-> read.values["CEC_DEVICE"],
         wake_tv |-> Flag("WAKE_TV", read.values["WAKE_TV"]),
         log_keep |-> NumberOf("LOG_KEEP", read.values["LOG_KEEP"]),
         cooldown |-> NumberOf("COOLDOWN_SECONDS", read.values["COOLDOWN_SECONDS"]),
         codes |-> ButtonCodes(read.values["BUTTON_CODES"]),
         problems |-> read.problems]

-----------------------------------------------------------------------------
(* What the file says of a key: its last assignment, read as a person      *)
(* would, without quotes and comment.                                      *)
Assignments(file, key) ==
    {i \in DOMAIN file.lines : file.lines[i].is = "assignment" /\ file.lines[i].key = key}
LastLine(file, key) ==
    file.lines[CHOOSE i \in Assignments(file, key) : \A j \in Assignments(file, key) : j <= i]
Says(file, key) ==
    IF Assignments(file, key) = {} THEN DEFAULTS[key] ELSE LastLine(file, key).words

(* It is said in quotes with a comment behind them.                        *)
QuotesStay(file, key) ==
    /\ Assignments(file, key) # {}
    /\ LastLine(file, key).quoted /\ LastLine(file, key).comment # "none"

(* A number is what the file says, NaN included, or with a problem logged  *)
(* its default or a bound, and it is never taken out of quotes that stay.  *)
NumberHonest(file, key, got) ==
    LET n == Number[key]
        says == Says(file, key)
    IN  /\ ~Below(got.value, n.minimum) /\ ~Below(n.maximum, got.value)
        /\ got.problem \/ (says \in DOMAIN n.cast /\ got.value = n.cast[says])
        /\ QuotesStay(file, key) => got.problem

(* So is a flag.                                                           *)
FlagHonest(file, key, got) ==
    /\ got.problem \/ (got.value <=> Says(file, key) \in Yes)
    /\ QuotesStay(file, key) => got.problem

(* Every word the file says is a button or complained of; every button is  *)
(* one of its words, unless there is none and BTN_MODE stands in with a    *)
(* problem.  With quotes that stay there is always something to complain   *)
(* of, and words of the comment may count.                                 *)
CodesHonest(file, got) ==
    LET said == Says(file, "BUTTON_CODES")
        stay == QuotesStay(file, "BUTTON_CODES")
    IN  /\ got.value # {}
        /\ \A i \in DOMAIN said \ got.unknown :
              CodesOf(said[i]) # {} /\ CodesOf(said[i]) \subseteq got.value
        /\ stay => got.unknown # {}
        /\ ~stay => \A code \in got.value :
              got.problem \/ \E i \in DOMAIN said : code \in CodesOf(said[i])

(* The program never runs with a value out of bounds (NaN has none), with  *)
(* no button to wait for, or with anything but what the file says, unless  *)
(* it has a problem to log or an unknown word: but for a free text whose   *)
(* quotes stay, which is taken with them.                                  *)
HonestConfig(file) ==
    LET got == Load(file)
    IN  /\ NumberHonest(file, "LOG_KEEP", got.log_keep)
        /\ NumberHonest(file, "COOLDOWN_SECONDS", got.cooldown)
        /\ FlagHonest(file, "WAKE_TV", got.wake_tv)
        /\ CodesHonest(file, got.codes)
        /\ QuotesStay(file, "CEC_DEVICE") \/ got.device = Clean(Says(file, "CEC_DEVICE"))
        /\ got.problems = << >> =>
              file.error = "none" /\ \A i \in DOMAIN file.lines : file.lines[i].is # "junk"
=============================================================================
