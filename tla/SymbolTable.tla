---------------------------- MODULE SymbolTable ----------------------------
(***************************************************************************)
(* The data of the sketch: the symbol table of allocate, setimage and      *)
(* getimage (Lang.cpp:303-457), the EEPROM, and the two ways other         *)
(* commands reach the symbols: symbolRef for an argument and shift for a   *)
(* result (Lang.cpp:602-639).  The register R is left out: it is written   *)
(* and never read, as symbolRef compares its name by address.              *)
(*                                                                         *)
(* Memory is bytes.  No access is checked: one outside a block, or to a    *)
(* symbol that is not there, is wild, and nothing after it is modelled.    *)
(***************************************************************************)
EXTENDS Integers, Sequences

CONSTANTS
    SymbolNames,
    NoName,     \* an argument that is a number, a result that is not shifted
    Types,      \* of symbols
    Slots,      \* symbols[8]
    Sizes,      \* the sizes a host asks for
    Indexes,    \* the positions it names
    Longs,      \* the values it sends and the pins deliver
    ImageLists, \* the lists it sends
    Addresses,  \* of the EEPROM
    Garbage,    \* bytes that fresh memory may hold
    Refers      \* the host names symbols as arguments, as cpx.doc has it

ASSUME SymbolAssumption ==
    /\ NoName \notin SymbolNames
    /\ Types \subseteq {"byte", "int", "double"}
    /\ Slots \in Nat \ {0}
    /\ Sizes \subseteq Nat /\ Indexes \subseteq Nat
    /\ Longs \subseteq Int /\ ImageLists \subseteq Seq(Int) /\ Addresses \subseteq Nat
    /\ Garbage \subseteq 0..255 /\ Garbage # {}
    /\ Refers \in BOOLEAN

VARIABLES
    symbols,    \* the first nSym entries
    eeprom,
    results,    \* what the last getimage returned
    wild,       \* an access has left the memory of a symbol
    asked      \* history: the size the host last asked for, per name

symbolVars == <<symbols, eeprom, results, wild, asked>>

Byte == 0..255
Symbol == [name : SymbolNames, type : Types, memory : Seq(Byte)]

\* getSize; int has two bytes.
getSize(t) == IF t = "byte" THEN 1 ELSE IF t = "int" THEN 2 ELSE 4

findSymbol(n) ==
    IF \E k \in 1..Len(symbols) : symbols[k].name = n
    THEN CHOOSE k \in 1..Len(symbols) : symbols[k].name = n
    ELSE 0

Known(n) == findSymbol(n) # 0
Of(n) == symbols[findSymbol(n)]

\* The values from start on, count of them, lie in the block of n.
Within(n, start, count) ==
    /\ Known(n) /\ start >= 0
    /\ (start + count) * getSize(Of(n).type) <= Len(Of(n).memory)

\* The bytes a value leaves in memory, least significant first.
BytesOf(t, v) == IF t = "byte" THEN <<v % 256>> ELSE <<v % 256, (v \div 256) % 256>>

\* An int read from its two bytes.
Signed(u) == IF u < 32768 THEN u ELSE u - 65536

\* The value of type t at position c (from 0); nothing reads a double.
Loaded(t, m, c) ==
    IF t = "byte" THEN m[c + 1]
    ELSE IF t = "int" THEN Signed(m[2 * c + 1] + 256 * m[2 * c + 2])
    ELSE 0

\* Byte b of the symbol with values written from the byte after at on.
Written(s, at, values, b) ==
    LET z == getSize(s.type)
        d == b - at - 1
    IN  IF d \in 0..(z * Len(values) - 1) /\ s.type # "double"
        THEN BytesOf(s.type, values[1 + (d \div z)])[1 + (d % z)]
        ELSE s.memory[b]

\* Mutant of Poke: the position is not scaled by the size of the type.
Poke_bytes(s, start, values) ==
    [name |-> s.name, type |-> s.type,
     memory |-> [b \in 1..Len(s.memory) |-> Written(s, start, values, b)]]

\* The symbol with values written from position start on.
Poke(s, start, values) ==
    [name |-> s.name, type |-> s.type,
     memory |-> [b \in 1..Len(s.memory) |->
                    Written(s, start * getSize(s.type), values, b)]]

\* An argument: a number, or the name of a symbol whose cell is meant.
Arg == [name : SymbolNames \cup {NoName}, number : Int]
Number(v) == [name |-> NoName, number |-> v]

\* symbolRef looks the symbol up under the name of the field, not under the
\* name that is given there.  Of a double it returns a value never set.
Resolves(field, a, index) == a.name = NoName \/ Within(field, index, 1)
symbolRef(field, a, index) ==
    IF a.name = NoName THEN {a.number}
    ELSE IF Of(field).type = "double" THEN Garbage
    ELSE {Loaded(Of(field).type, Of(field).memory, index)}

-----------------------------------------------------------------------------

SymbolInit ==
    /\ symbols = << >>
    /\ eeprom \in [Addresses -> {255}]
    /\ results = << >>
    /\ wild = FALSE
    /\ asked = [n \in SymbolNames |-> 0]

\* A host that counts its cells.  It allocates anew only what is of bytes.
MayRefer(field, a, index) ==
    \/ Resolves(field, a, index)
    \/ Refers /\ Known(a.name) /\ index < asked[a.name]

MayAllocate(n, t) ==
    IF Known(n)
    THEN t = Of(n).type /\ t = "byte"
    ELSE Len(symbols) < Slots

MayShift(n, index) == Known(n) => index < asked[n]

Wild ==
    /\ wild' = TRUE
    /\ UNCHANGED <<symbols, eeprom, results, asked>>

\* Mutant of Allocate: the known name is not looked for.
Allocate_append(n, t, a, index) ==
    /\ MayAllocate(n, t) /\ Resolves("size", a, index) /\ Len(symbols) < Slots
    /\ \E size \in symbolRef("size", a, index) \cap Sizes :
           /\ asked' = [asked EXCEPT ![n] = size]
           /\ \E g \in Garbage : symbols' = Append(symbols, [name |-> n, type |-> t,
                   memory |-> [b \in 1..(getSize(t) * size) |-> g]])
    /\ UNCHANGED <<eeprom, results, wild>>

\* A name that is known keeps its type and gets that many bytes.
Allocate(n, t, a, index) ==
    /\ MayAllocate(n, t) /\ MayRefer("size", a, index)
    /\ IF Resolves("size", a, index)
       THEN \E size \in symbolRef("size", a, index) \cap Sizes, g \in Garbage :
                LET block(z) == [b \in 1..(z * size) |-> g]
                IN  /\ asked' = [asked EXCEPT ![n] = size]
                    /\ symbols' =
                         IF Known(n)
                         THEN [symbols EXCEPT ![findSymbol(n)].memory = block(1)]
                         ELSE Append(symbols, [name |-> n, type |-> t,
                                               memory |-> block(getSize(t))])
                    /\ UNCHANGED <<eeprom, results, wild>>
       ELSE Wild

\* setimage: the list goes into the symbol from start on.
SetImage(n, a, index, values) ==
    /\ Known(n) /\ MayRefer("start", a, index)
    /\ Resolves("start", a, index) => \A start \in symbolRef("start", a, index) :
           start >= 0 /\ start + Len(values) <= asked[n]
    /\ IF ~Resolves("start", a, index) THEN Wild
       ELSE \E start \in symbolRef("start", a, index) :
                IF Within(n, start, Len(values))
                THEN /\ UNCHANGED <<eeprom, results, wild, asked>>
                     /\ symbols' = [symbols EXCEPT ![findSymbol(n)] = Poke(@, start, values)]
                ELSE Wild

\* getimage returns stop values, from start on; those of a double are
\* whatever the buffer value holds.
GetImage(n, a, b, index) ==
    LET known == Resolves("start", a, index) /\ Resolves("stop", b, index)
    IN  /\ Known(n) /\ MayRefer("start", a, index) /\ MayRefer("stop", b, index)
        /\ known => \A start \in symbolRef("start", a, index),
                       stop \in symbolRef("stop", b, index) :
               start >= 0 /\ stop >= 0 /\ start + stop <= asked[n]
        /\ IF ~known THEN Wild
           ELSE \E start \in symbolRef("start", a, index),
                   stop \in symbolRef("stop", b, index) :
                    IF Within(n, start, stop)
                    THEN /\ UNCHANGED <<symbols, eeprom, wild, asked>>
                         /\ results' \in
                              IF Of(n).type = "double" THEN [1..stop -> Garbage]
                              ELSE {[i \in 1..stop |->
                                       Loaded(Of(n).type, Of(n).memory, start + i - 1)]}
                    ELSE Wild

\* shift: a result goes into the symbol, if there is one of that name.
Shift(n, index, v) ==
    symbols' = IF Known(n)
               THEN [symbols EXCEPT ![findSymbol(n)] = Poke(@, index, <<v>>)]
               ELSE symbols

\* digitalread, analogread: v is what the pin delivers.
Read(pin, v, n, index) ==
    /\ MayRefer("pin", pin, index) /\ (n = NoName \/ MayShift(n, index))
    /\ IF Resolves("pin", pin, index) /\ (Known(n) => Within(n, index, 1))
       THEN UNCHANGED <<eeprom, results, wild, asked>> /\ Shift(n, index, v)
       ELSE Wild

GetEeprom(a, n, index) ==
    /\ MayRefer("address", a, index) /\ (n = NoName \/ MayShift(n, index))
    /\ IF Resolves("address", a, index) /\ (Known(n) => Within(n, index, 1))
       THEN \E address \in symbolRef("address", a, index) \cap Addresses :
                /\ UNCHANGED <<eeprom, results, wild, asked>>
                /\ Shift(n, index, eeprom[address])
       ELSE Wild

\* The EEPROM holds bytes.
SetEeprom(a, b, index) ==
    /\ MayRefer("address", a, index) /\ MayRefer("value", b, index)
    /\ IF Resolves("address", a, index) /\ Resolves("value", b, index)
       THEN \E address \in symbolRef("address", a, index) \cap Addresses,
               v \in symbolRef("value", b, index) :
                /\ eeprom' = [eeprom EXCEPT ![address] = v % 256]
                /\ UNCHANGED <<symbols, results, wild, asked>>
       ELSE Wild

\* digitalwrite and analogwrite; the pins are not modelled.
PinWrite(pin, a, index) ==
    /\ MayRefer("pin", pin, index) /\ MayRefer("value", a, index)
    /\ IF Resolves("pin", pin, index) /\ Resolves("value", a, index)
       THEN UNCHANGED symbolVars
       ELSE Wild

-----------------------------------------------------------------------------

\* A reference or a number; index says which cell, of a reference and of the
\* symbol shifted into.
Args(numbers) == [name : SymbolNames, number : {0}] \cup {Number(v) : v \in numbers}

SymbolNext ==
    /\ ~wild
    /\ \E i \in Indexes :
       \/ \E a \in Args(Addresses), b \in Args(Longs) : SetEeprom(a, b, i) \/ PinWrite(a, b, i)
       \/ \E n \in SymbolNames :
          \/ \E t \in Types, a \in Args(Sizes) : Allocate(n, t, a, i)
          \/ \E a \in Args(Indexes), vs \in ImageLists : SetImage(n, a, i, vs)
          \/ \E a \in Args(Indexes), b \in Args(Indexes) : GetImage(n, a, b, i)
          \/ \E a \in Args(Addresses), m \in {n, NoName} :
                GetEeprom(a, m, i) \/ \E v \in Longs : Read(a, v, m, i)

SymbolSpec == SymbolInit /\ [][SymbolNext]_symbolVars

-----------------------------------------------------------------------------

(* The types of the variables.                                             *)
SymbolTypeOK ==
    /\ symbols \in Seq(Symbol) /\ Len(symbols) <= Slots
    /\ eeprom \in [Addresses -> Byte]
    /\ results \in Seq(Int)
    /\ wild \in BOOLEAN
    /\ asked \in [SymbolNames -> Nat]

(* A host that counts its cells never makes the sketch leave the memory of *)
(* a symbol, through setimage, getimage, shift and symbolRef alike.  It    *)
(* has to know what symbolRef, a second allocate and the stop of getimage  *)
(* really mean; with Refers it goes by cpx.doc (SYMBOLS) for the first.    *)
InBounds == ~wild

(* There is at most one symbol of a name, so that every command that names *)
(* one means the same (findSymbol, Lang.cpp:451-457).                      *)
NamesDistinct ==
    \A j, k \in 1..Len(symbols) : symbols[j].name = symbols[k].name => j = k

\* The symbols as typed arrays.
CellsOf(s) == [c \in 1..(Len(s.memory) \div getSize(s.type)) |->
                Loaded(s.type, s.memory, c - 1)]

\* What the cells of a new block may hold.
Fresh(t) == {Loaded(t, <<g, h>>, 0) : g, h \in Garbage}

\* The symbols by their names, each as its type and its cells.
ArrayOf(s) == [type |-> s.type, cells |-> CellsOf(s)]
Arrays == [n \in {symbols[k].name : k \in 1..Len(symbols)} |-> ArrayOf(Of(n))]

Store == INSTANCE ValueStore WITH arrays <- Arrays, got <- results

(* Each command does to the typed arrays and to the EEPROM what ValueStore *)
(* says of it, with the same arguments: though it moves bytes at scaled    *)
(* addresses, setimage and shift change the cells they name and no others, *)
(* allocate makes as many cells as were asked for and leaves the other     *)
(* symbols alone, getimage and geteeprom return what is in the cells, and  *)
(* seteeprom changes one byte of the EEPROM (Lang.cpp:124-157, 303-446,    *)
(* 602-639).                                                               *)
StoreImplemented ==
    /\ Store!Init
    /\ [][\A i \in Indexes : symbolVars' # symbolVars /\ ~wild' =>
            /\ \A a \in Args(Addresses), b \in Args(Longs) :
                  SetEeprom(a, b, i) => Store!SetEeprom(a, b, i)
            /\ \A n \in SymbolNames, t \in Types, a \in Args(Sizes) :
                  Allocate(n, t, a, i) => Store!Allocate(n, t, a, i)
            /\ \A n \in SymbolNames, a \in Args(Indexes), vs \in ImageLists :
                  SetImage(n, a, i, vs) => Store!SetImage(n, a, i, vs)
            /\ \A n \in SymbolNames, a \in Args(Indexes), b \in Args(Indexes) :
                  GetImage(n, a, b, i) => Store!GetImage(n, a, b, i)
            /\ \A n \in SymbolNames, a \in Args(Addresses) :
                  /\ GetEeprom(a, n, i) => Store!GetEeprom(a, n, i)
                  /\ \A v \in Longs : Read(a, v, n, i) => Store!Put(n, i, v)
      ]_symbolVars

(* What all the commands about symbols keep of the table.                   *)
SymbolsSound == SymbolTypeOK /\ InBounds /\ NamesDistinct

=============================================================================
