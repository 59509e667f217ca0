----------------------------- MODULE ValueStore -----------------------------
(***************************************************************************)
(* What the symbol and EEPROM commands mean (cpx.doc, SYMBOLS): each name  *)
(* stands for an array of bytes or integers, the EEPROM is an array of     *)
(* bytes.  A command changes the cells it names and nothing else, and a    *)
(* cell is read back as it was last written, reduced to the width of its   *)
(* type.  There is one operator per command, with the command's arguments: *)
(* an argument is a number or stands for the cell index of the array that  *)
(* is called like the field (symbolRef).                                   *)
(***************************************************************************)
EXTENDS Integers, Sequences

CONSTANTS
    NoName,     \* the name in an argument that is a number
    Garbage,    \* what a double may be read as
    Fresh(_)    \* what a new cell of a type may hold

VARIABLES
    arrays,     \* the array of each allocated name
    eeprom,
    got         \* the cells the last getimage returned

\* A value as a cell of type t holds it.  A double is never stored.
Narrow(t, v) ==
    CASE t = "byte"   -> v % 256
      [] t = "int"    -> ((v + 32768) % 65536) - 32768
      [] t = "double" -> 0

Init == arrays = << >> /\ got = << >>

Allocated(n) == n \in DOMAIN arrays

\* What an argument may stand for.
Meant(field, a, index) ==
    IF a.name = NoName THEN {a.number}
    ELSE IF arrays[field].type = "double" THEN Garbage
    ELSE {arrays[field].cells[index + 1]}

\* An array of so many new cells; no other array changes.
New(n, t, size) ==
    /\ DOMAIN arrays' = DOMAIN arrays \cup {n}
    /\ \A m \in DOMAIN arrays \ {n} : arrays'[m] = arrays[m]
    /\ arrays'[n].type = t
    /\ Len(arrays'[n].cells) = size
    /\ \A c \in DOMAIN arrays'[n].cells : arrays'[n].cells[c] \in Fresh(t)
    /\ UNCHANGED <<eeprom, got>>

Allocate(n, t, a, index) == \E size \in Meant("size", a, index) : New(n, t, size)

Set(n, start, values) ==
    /\ Allocated(n)
    /\ start + Len(values) <= Len(arrays[n].cells)
    /\ arrays' = [arrays EXCEPT ![n].cells =
                    [c \in DOMAIN @ |->
                        IF c - start \in 1..Len(values)
                        THEN Narrow(arrays[n].type, values[c - start]) ELSE @[c]]]
    /\ UNCHANGED <<eeprom, got>>

SetImage(n, a, index, values) == \E start \in Meant("start", a, index) : Set(n, start, values)

Get(n, start, count) ==
    /\ Allocated(n)
    /\ start + count <= Len(arrays[n].cells)
    /\ Len(got') = count
    /\ arrays[n].type # "double" =>
          got' = SubSeq(arrays[n].cells, start + 1, start + count)
    /\ UNCHANGED <<arrays, eeprom>>

GetImage(n, a, b, index) ==
    \E start \in Meant("start", a, index), count \in Meant("stop", b, index) :
        Get(n, start, count)

\* A result goes into the cell index of n, or nowhere.
Put(n, index, v) ==
    /\ IF Allocated(n)
       THEN /\ index < Len(arrays[n].cells)
            /\ arrays' = [arrays EXCEPT ![n].cells[index + 1] = Narrow(arrays[n].type, v)]
       ELSE UNCHANGED arrays
    /\ UNCHANGED <<eeprom, got>>

GetEeprom(a, n, index) ==
    \E address \in Meant("address", a, index) : Put(n, index, eeprom[address])

SetEeprom(a, b, index) ==
    \E address \in Meant("address", a, index), v \in Meant("value", b, index) :
        /\ eeprom' = [eeprom EXCEPT ![address] = v % 256]
        /\ UNCHANGED <<arrays, got>>
=============================================================================
