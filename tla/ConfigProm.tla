------------------------------ MODULE ConfigProm ------------------------------
(***************************************************************************)
(* Config.cpp: the strings of the configuration in the EEPROM, the dialog  *)
(* on the serial line that changes them, the copies in RAM, and what setup *)
(* makes of them.  Fields are Field bytes apart (32 in the code).  Every   *)
(* byte is written by itself, and power may fail between two of them.      *)
(***************************************************************************)
EXTENDS Integers, Sequences, FiniteSets, SequencesExt

CONSTANTS
    Field,          \* bytes of a field
    Filled,         \* bound: fields the user types anything into
    MaxTyped,       \* bound: characters typed into a field
    MaxPowerLosses  \* bound: losses of power

ASSUME ConfigAssumption == Field \in Nat \ {0, 1} /\ {MaxTyped, MaxPowerLosses} \subseteq Nat

VARIABLES
    prom,           \* the EEPROM
    ram,            \* USER, ID, WLAN_SSID, WLAN_PASS
    INTERFACE_TYPE, interface,
    spilled,        \* has eepromCopy written behind a string in RAM?
    stage,          \* power, print, ask, type, copy, run, or hung
    field,          \* the number of the field in the dialog
    typed,          \* the characters typed into it so far
    losses,
    wanted,         \* history: the strings the user has entered
    tooLong,        \* history: a field got more than fits
    torn            \* history: the fields that lost power within, until typed again

configVars == <<prom, ram, INTERFACE_TYPE, interface, spilled, stage, field, typed, losses,
                wanted, tooLong, torn>>

(* The order of the dialog and the addresses, with the two unused fields.   *)
Names == <<"user", "id", "wifi", "ssid", "pass">>
Fields == ToSet(Names)

Addr(f) == Field * (CASE f = "user" -> 0 [] f = "id" -> 1 [] f = "ssid" -> 4
                      [] f = "pass" -> 5 [] f = "wifi" -> 6)
Cells == 0 .. 7 * Field - 1 + MaxTyped
END == "end"                                    \* the byte 0
BLANK == "blank"                                \* the byte 255, never written

Wifi == prom[Addr("wifi")] = "y"

(* The bytes from an address up to the first 0, if there is one.            *)
Terminated(p, a) == \E b \in Cells : b >= a /\ p[b] = END
StringAt(p, a) ==
    LET e == CHOOSE b \in Cells : b >= a /\ p[b] = END /\ \A c \in a .. b - 1 : p[c] # END
    IN  [i \in 1 .. e - a |-> p[a + i - 1]]

Stored(f) == StringAt(prom, Addr(f))

ConfigInit ==
    /\ prom = [a \in Cells |-> BLANK]
    /\ ram = [f \in Fields \ {"wifi"} |-> <<"default">>]
    /\ INTERFACE_TYPE = "WIFI" /\ interface = "WIFI"
    /\ spilled = FALSE /\ stage = "power" /\ field = 1 /\ typed = <<>> /\ losses = 0
    /\ wanted = [f \in Fields |-> <<>>] /\ tooLong = FALSE /\ torn = {}

(* Power: RAM has the values of the build; the first time the EEPROM may    *)
(* also have been erased to 0 or hold a configuration.                      *)
Configured ==
    [a \in Cells |-> IF a = Addr("wifi") THEN "y"
                     ELSE IF \E f \in Fields : a - Addr(f) \in 0 .. Field - 2 THEN "a" ELSE END]
Erased == [a \in Cells |-> END]

PowerOnReset ==
    /\ stage = "power" /\ stage' = "print" /\ field' = 1 /\ typed' = <<>>
    /\ ram' = [f \in Fields \ {"wifi"} |-> <<"default">>]
    /\ INTERFACE_TYPE' = "WIFI" /\ interface' = "WIFI" /\ spilled' = FALSE
    /\ \/ UNCHANGED <<prom, wanted>>
       \/ losses = 0 /\ prom' = Erased /\ UNCHANGED wanted
       \/ losses = 0 /\ prom' = Configured
          /\ wanted' = [f \in Fields |-> StringAt(prom', Addr(f))]
    /\ UNCHANGED <<losses, tooLong, torn>>

RamAndMode == <<ram, INTERFACE_TYPE, interface, spilled>>
Hist == <<losses, wanted, tooLong, torn>>

(* EEPROM.read(0) != 0: eitem prints every field up to its 0.               *)
PrintItem ==
    /\ stage = "print" /\ prom[0] # END
    /\ IF ~Terminated(prom, Addr(Names[field]))
       THEN stage' = "hung" /\ UNCHANGED <<field, INTERFACE_TYPE>>
       ELSE /\ INTERFACE_TYPE' = (IF Names[field] # "wifi" THEN INTERFACE_TYPE
                                  ELSE IF Wifi THEN "WIFI" ELSE "PROXY")
            /\ IF field < Len(Names) THEN field' = field + 1 /\ UNCHANGED stage
               ELSE stage' = "ask" /\ field' = 1
    /\ UNCHANGED <<prom, ram, interface, spilled, typed, Hist>>

PrintDefaults ==
    /\ stage = "print" /\ prom[0] = END /\ stage' = "ask"
    /\ UNCHANGED <<prom, RamAndMode, field, typed, Hist>>

(* A key within the ten seconds opens the dialog.                           *)
changeProm ==
    /\ stage = "ask" /\ stage' \in {"type", "run"}
    /\ UNCHANGED <<prom, RamAndMode, field, typed, Hist>>

Keys == IF Names[field] \notin Filled THEN {} ELSE IF Names[field] = "wifi" THEN {"y", "b"} ELSE {"b"}
Write(a, c) == prom' = [prom EXCEPT ![a] = c]
Here == Addr(Names[field]) + Len(typed)

(* eepromString: a character of the user, or the '!' that ends the field.   *)
Type(c) ==
    /\ stage = "type" /\ Len(typed) < MaxTyped
    /\ Write(Here, c) /\ typed' = Append(typed, c)
    /\ tooLong' = (tooLong \/ Len(typed') >= Field)
    /\ UNCHANGED <<RamAndMode, stage, field, losses, wanted, torn>>

NextField ==
    IF field = Len(Names) \/ (Names[field] = "wifi" /\ prom'[Addr("wifi")] # "y")
    THEN stage' = "copy" /\ UNCHANGED field
    ELSE field' = field + 1 /\ UNCHANGED stage

Ended == IF typed = <<>> THEN UNCHANGED <<wanted, torn>>
         ELSE /\ wanted' = [wanted EXCEPT ![Names[field]] = typed]
              /\ torn' = torn \ {Names[field]}

(* SSID and PASS are asked for only if the interface is WiFi; without any   *)
(* character the field keeps its old value.  eitem then prints the field.   *)
Bang_open ==
    /\ stage = "type" /\ typed' = <<>>
    /\ UNCHANGED prom
    /\ Ended
    /\ IF ~Terminated(prom', Addr(Names[field])) THEN stage' = "hung" /\ UNCHANGED field
       ELSE NextField
    /\ UNCHANGED <<RamAndMode, losses, tooLong>>

Bang ==
    /\ stage = "type" /\ typed' = <<>>
    /\ IF typed = <<>> THEN UNCHANGED prom ELSE Write(Here, END)
    /\ Ended
    /\ IF ~Terminated(prom', Addr(Names[field])) THEN stage' = "hung" /\ UNCHANGED field
       ELSE NextField
    /\ UNCHANGED <<RamAndMode, losses, tooLong>>

(* eepromCopy of the four strings, and INTERFACE_TYPE.                      *)
CopyAll ==
    /\ stage = "copy" /\ UNCHANGED <<prom, interface, field, typed, Hist>>
    /\ IF \A f \in DOMAIN ram : Terminated(prom, Addr(f))
       THEN /\ ram' = [f \in DOMAIN ram |-> Stored(f)]
            /\ spilled' = \E f \in DOMAIN ram : Len(Stored(f)) >= Field
            /\ INTERFACE_TYPE' = (IF Wifi THEN "WIFI" ELSE "PROXY")
            /\ stage' = "run"
       ELSE stage' = "hung" /\ UNCHANGED <<ram, spilled, INTERFACE_TYPE>>

PowerLoss ==
    /\ stage # "power" /\ losses < MaxPowerLosses /\ losses' = losses + 1 /\ stage' = "power"
    /\ typed' = <<>> /\ torn' = (IF typed = <<>> THEN torn ELSE torn \cup {Names[field]})
    /\ UNCHANGED <<prom, RamAndMode, field, wanted, tooLong>>

Boot == PowerOnReset \/ PrintItem \/ PrintDefaults \/ changeProm \/ Bang \/ CopyAll
ConfigNext == Boot \/ (\E c \in Keys : Type(c)) \/ PowerLoss
ConfigSpec == ConfigInit /\ [][ConfigNext]_configVars

-----------------------------------------------------------------------------
(* Properties.                                                              *)

ConfigTypeOK ==
    /\ \A a \in Cells : prom[a] \in {END, BLANK, "y", "a", "b"}
    /\ DOMAIN prom = Cells /\ DOMAIN ram = Fields \ {"wifi"}
    /\ {INTERFACE_TYPE, interface} \subseteq {"WIFI", "PROXY"}
    /\ stage \in {"power", "print", "ask", "type", "copy", "run", "hung"}
    /\ field \in 1 .. Len(Names) /\ Len(typed) <= MaxTyped /\ losses \in 0 .. MaxPowerLosses
    /\ {spilled, tooLong} \subseteq BOOLEAN /\ torn \subseteq Fields

(* What the user has entered for a field is what the EEPROM holds, and stays *)
(* there while other fields are entered and power is lost, in another field *)
(* or between two: unless one was too long for its field.  A field within   *)
(* which power was lost has no end of its own until it is typed again.      *)
StringsKept ==
    ~tooLong =>
        \A f \in Fields \ torn : wanted[f] # <<>> /\ (f = Names[field] => typed = <<>>) => Stored(f) = wanted[f]

(* A string runs over its copy in RAM only if it was too long or torn.      *)
OverrunExplained == spilled => tooLong \/ torn # {}

(* The interface the sketch uses is the one it has stored and printed.      *)
StoredInterfaceUsed == stage = "run" /\ prom[0] # END => interface = INTERFACE_TYPE

(* What a field that is written byte by byte does not give: that a loss of  *)
(* power leaves the old string or the new one (Config.cpp:42).              *)
FieldsAtomic ==
    ~tooLong => \A f \in Fields : wanted[f] # <<>> /\ typed = <<>> => Stored(f) = wanted[f]

(* What the dialog of Config.cpp keeps, whatever is typed and whenever the  *)
(* power is lost.                                                           *)
ConfigSound == ConfigTypeOK /\ StringsKept /\ OverrunExplained

=============================================================================
