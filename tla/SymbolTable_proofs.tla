------------------------- MODULE SymbolTable_proofs -------------------------
(***************************************************************************)
(* Theorems about SymbolTable, for every set of names, types, sizes,       *)
(* values and addresses, and any number of slots.                          *)
(*                                                                         *)
(* The invariant that carries them is Exact: the block of a symbol has     *)
(* room for exactly the cells the host last asked for.  What the host      *)
(* counts in asked and what the code computes with are then the same.     *)
(***************************************************************************)
EXTENDS SymbolTable, SequenceTheorems, TLAPS

Exact ==
    \A k \in 1..Len(symbols) :
        Len(symbols[k].memory) = getSize(symbols[k].type) * asked[symbols[k].name]

Inv == SymbolTypeOK /\ NamesDistinct /\ Exact

-----------------------------------------------------------------------------
(* The helpers.                                                            *)

(* A type has one of three sizes (getSize, Lang.cpp:365-372).              *)
LEMMA SizeOfType ==
    ASSUME NEW t \in Types
    PROVE  \/ t = "byte" /\ getSize(t) = 1
           \/ t = "int" /\ getSize(t) = 2
           \/ t = "double" /\ getSize(t) = 4
BY SymbolAssumption DEF SymbolAssumption, getSize

(* A name that is known is that of the symbol it is looked up as           *)
(* (findSymbol, Lang.cpp:451-457).                                         *)
LEMMA FoundSymbol ==
    ASSUME NEW n, Known(n)
    PROVE  /\ findSymbol(n) \in 1..Len(symbols)
           /\ Of(n) = symbols[findSymbol(n)]
           /\ Of(n).name = n
<1>1. \E k \in 1..Len(symbols) : symbols[k].name = n
  BY DEF Known, findSymbol
<1>2. /\ findSymbol(n) \in 1..Len(symbols)
      /\ symbols[findSymbol(n)].name = n
  BY <1>1 DEF findSymbol
<1> QED BY <1>2 DEF Of

(* A symbol is a name, a type and a sequence of bytes.                     *)
LEMMA FieldsOfSymbol ==
    ASSUME NEW s \in Symbol
    PROVE  /\ s.name \in SymbolNames /\ s.type \in Types /\ s.memory \in Seq(Byte)
           /\ s = [name |-> s.name, type |-> s.type, memory |-> s.memory]
BY DEF Symbol

LEMMA SymbolOfName ==
    ASSUME SymbolTypeOK, NEW n, Known(n)
    PROVE  Of(n) \in Symbol /\ n \in SymbolNames
<1>1. Of(n) \in Symbol
  BY FoundSymbol, ElementOfSeq DEF SymbolTypeOK
<1> QED BY <1>1, FoundSymbol, FieldsOfSymbol

(* A value that lies in its block is loaded as an integer (getValueAt).    *)
LEMMA LoadedInteger ==
    ASSUME NEW s \in Symbol, NEW c \in Nat, (c + 1) * getSize(s.type) <= Len(s.memory)
    PROVE  Loaded(s.type, s.memory, c) \in Int
<1>1. PICK m, t : m = s.memory /\ t = s.type /\ m \in Seq(Byte) /\ t \in Types
  BY FieldsOfSymbol
<1>2. Len(m) \in Nat /\ \A i \in 1..Len(m) : m[i] \in Byte
  BY <1>1, LenProperties, ElementOfSeq
<1>3. (c + 1) * getSize(t) <= Len(m)
  BY <1>1
<1>4. CASE t = "byte" /\ getSize(t) = 1
  <2>1. c + 1 \in 1..Len(m)  BY <1>2, <1>3, <1>4
  <2>2. PICK i \in 1..Len(m) : i = c + 1  BY <2>1
  <2>3. m[i] \in Byte  BY <1>2
  <2>4. Loaded(t, m, c) = m[i]  BY <2>2, <1>4 DEF Loaded
  <2>5. \A x \in Byte : x \in Int  BY DEF Byte
  <2>6. Loaded(t, m, c) \in Int  BY <2>3, <2>4, <2>5
  <2> QED BY <2>6, <1>1
<1>5. CASE t = "int" /\ getSize(t) = 2
  <2>1. 2 * c + 1 \in 1..Len(m) /\ 2 * c + 2 \in 1..Len(m)  BY <1>2, <1>3, <1>5
  <2>2. PICK i, j \in 1..Len(m) : i = 2 * c + 1 /\ j = 2 * c + 2  BY <2>1
  <2>3. PICK low \in Byte, high \in Byte : low = m[i] /\ high = m[j]  BY <1>2
  <2>4. Loaded(t, m, c) = Signed(low + 256 * high)  BY <2>2, <2>3, <1>5 DEF Loaded
  <2>5. Signed(low + 256 * high) \in Int  BY DEF Signed, Byte
  <2> QED BY <2>4, <2>5, <1>1
<1>6. CASE t = "double"
  BY <1>1, <1>6 DEF Loaded
<1> QED BY <1>1, <1>4, <1>5, <1>6, SizeOfType

(* A byte of the block is still a byte after a value is written over it.   *)
LEMMA WrittenByte ==
    ASSUME NEW s \in Symbol, NEW at \in Int, NEW values \in Seq(Int),
           NEW b \in 1..Len(s.memory)
    PROVE  Written(s, at, values, b) \in Byte
<1>1. PICK m, t : m = s.memory /\ t = s.type /\ m \in Seq(Byte) /\ t \in Types
  BY FieldsOfSymbol
<1>2. Len(m) \in Nat /\ m[b] \in Byte
  BY <1>1, LenProperties, ElementOfSeq
<1>3. Len(values) \in Nat /\ \A i \in 1..Len(values) : values[i] \in Int
  BY LenProperties, ElementOfSeq
<1>4. PICK d \in Int : d = b - at - 1
  BY <1>1, <1>2
<1>5. CASE ~(d \in 0..(getSize(t) * Len(values) - 1) /\ t # "double")
  BY <1>1, <1>2, <1>4, <1>5 DEF Written
<1>6. CASE d \in 0..(getSize(t) * Len(values) - 1) /\ t # "double"
  <2>1. Written(s, at, values, b) =
          BytesOf(t, values[1 + (d \div getSize(t))])[1 + (d % getSize(t))]
    BY <1>1, <1>4, <1>6 DEF Written
  <2>2. CASE t = "byte" /\ getSize(t) = 1
    <3>0. PICK n \in Nat : n = Len(values)  BY <1>3
    <3>1. d \in 0..(n - 1)  BY <3>0, <1>6, <2>2
    <3>2. 1 + (d \div 1) = d + 1 /\ 1 + (d % 1) = 1  BY <3>1
    <3>3. PICK v \in Int : v = values[d + 1]  BY <3>0, <3>1, <1>3
    <3>4. Written(s, at, values, b) = <<v % 256>>[1]  BY <2>1, <2>2, <3>2, <3>3 DEF BytesOf
    <3>5. v % 256 \in Byte  BY DEF Byte
    <3> QED BY <3>4, <3>5
  <2>3. CASE t = "int" /\ getSize(t) = 2
    <3>0. PICK n \in Nat : n = Len(values)  BY <1>3
    <3>1. d \in Nat /\ d < 2 * n  BY <3>0, <1>6, <2>3
    <3>2. 1 + (d \div 2) \in 1..n /\ d % 2 \in {0, 1}  BY <3>1
    <3>3. PICK v \in Int : v = values[1 + (d \div 2)]  BY <3>0, <3>2, <1>3
    <3>4. Written(s, at, values, b) = <<v % 256, (v \div 256) % 256>>[1 + (d % 2)]
      BY <2>1, <2>3, <3>3 DEF BytesOf
    <3>5. v % 256 \in Byte /\ (v \div 256) % 256 \in Byte  BY DEF Byte
    <3>6. CASE d % 2 = 0
      BY <3>4, <3>5, <3>6
    <3>7. CASE d % 2 = 1
      BY <3>4, <3>5, <3>7
    <3> QED BY <3>2, <3>6, <3>7
  <2> QED BY <1>1, <1>6, <2>2, <2>3, SizeOfType
<1> QED BY <1>5, <1>6

(* Poke keeps the name and the type of a symbol and the size of its block, *)
(* and leaves bytes in it (setimage and shift, Lang.cpp:392-410, 626-638). *)
LEMMA PokedSymbol ==
    ASSUME NEW s \in Symbol, NEW start \in Nat, NEW values \in Seq(Int)
    PROVE  /\ Poke(s, start, values) \in Symbol
           /\ Poke(s, start, values).name = s.name
           /\ Poke(s, start, values).type = s.type
           /\ Len(Poke(s, start, values).memory) = Len(s.memory)
<1> DEFINE at == start * getSize(s.type)
<1>1. PICK L \in Nat : L = Len(s.memory)
  BY FieldsOfSymbol, LenProperties
<1>2. at \in Int
  BY FieldsOfSymbol, SizeOfType
<1>3. PICK p : p = [b \in 1..L |-> Written(s, at, values, b)]
  OBVIOUS
<1>4. p \in [1..L -> Byte]
  BY <1>1, <1>2, <1>3, WrittenByte
<1>5. p \in Seq(Byte) /\ Len(p) = L
  BY <1>4, SeqDef, LenProperties
<1>6. Poke(s, start, values) = [name |-> s.name, type |-> s.type, memory |-> p]
  BY <1>1, <1>3 DEF Poke
<1> QED BY <1>1, <1>5, <1>6, FieldsOfSymbol DEF Symbol

(* A block has room for the cells its host counts: what lies within them   *)
(* is in bounds for the code.                                              *)
LEMMA CountedIsWithin ==
    ASSUME SymbolTypeOK, Exact, NEW n, Known(n), NEW start \in Nat, NEW count \in Nat,
           start + count <= asked[n]
    PROVE  Within(n, start, count)
<1>1. PICK k \in 1..Len(symbols) : k = findSymbol(n) /\ Of(n) = symbols[k] /\ symbols[k].name = n
  BY FoundSymbol
<1>2. Of(n).type \in Types /\ n \in SymbolNames
  BY SymbolOfName, FieldsOfSymbol
<1>3. PICK w \in Nat : w = asked[n]
  BY <1>2 DEF SymbolTypeOK
<1>4. Len(Of(n).memory) = getSize(Of(n).type) * w
  BY <1>1, <1>3 DEF Exact
<1>5. PICK z \in {1, 2, 4} : z = getSize(Of(n).type)
  BY <1>2, SizeOfType
<1>6. (start + count) * z <= z * w
  BY <1>3, <1>5
<1> QED BY <1>4, <1>5, <1>6 DEF Within

(* An argument that resolves is an integer (symbolRef, Lang.cpp:602-614).  *)
LEMMA ArgumentInteger ==
    ASSUME SymbolTypeOK, NEW field, NEW a \in Arg, NEW index \in Nat, Resolves(field, a, index)
    PROVE  symbolRef(field, a, index) \subseteq Int
<1>1. CASE a.name = NoName
  BY <1>1 DEF symbolRef, Arg
<1>2. CASE a.name # NoName
  <2>1. Known(field) /\ (index + 1) * getSize(Of(field).type) <= Len(Of(field).memory)
    BY <1>2 DEF Resolves, Within
  <2>2. Of(field) \in Symbol
    BY <2>1, SymbolOfName
  <2>3. Loaded(Of(field).type, Of(field).memory, index) \in Int
    BY <2>1, <2>2, LoadedInteger
  <2>4. Garbage \subseteq Int
    BY SymbolAssumption DEF SymbolAssumption
  <2> QED BY <1>2, <2>3, <2>4 DEF symbolRef
<1> QED BY <1>1, <1>2

LEMMA ArgsAreArg ==
    ASSUME NEW S \in SUBSET Int
    PROVE  Args(S) \subseteq Arg
BY DEF Args, Arg, Number

(* One symbol may be replaced by one of its name and size.                 *)
LEMMA SymbolReplaced ==
    ASSUME Inv, NEW n, Known(n), NEW s \in Symbol, s.name = n, s.type = Of(n).type,
           Len(s.memory) = Len(Of(n).memory), UNCHANGED asked,
           symbols' = [symbols EXCEPT ![findSymbol(n)] = s]
    PROVE  /\ symbols' \in Seq(Symbol) /\ Len(symbols') <= Slots
           /\ NamesDistinct' /\ Exact'
<1>1. PICK k \in 1..Len(symbols) : k = findSymbol(n) /\ Of(n) = symbols[k] /\ symbols[k].name = n
  BY FoundSymbol
<1>2. symbols \in Seq(Symbol) /\ Len(symbols) <= Slots
  BY DEF Inv, SymbolTypeOK
<1>3. /\ symbols' \in Seq(Symbol) /\ Len(symbols') = Len(symbols)
      /\ \A j \in 1..Len(symbols) : symbols'[j] = IF j = k THEN s ELSE symbols[j]
  BY <1>1, <1>2, ExceptSeq
<1>4. \A j \in 1..Len(symbols) :
        /\ symbols'[j].name = symbols[j].name /\ symbols'[j].type = symbols[j].type
        /\ Len(symbols'[j].memory) = Len(symbols[j].memory)
  BY <1>1, <1>3
<1>5. NamesDistinct'
  BY <1>3, <1>4 DEF Inv, NamesDistinct
<1>6. Exact'
  BY <1>3, <1>4 DEF Inv, Exact
<1> QED BY <1>2, <1>3, <1>5, <1>6


-----------------------------------------------------------------------------
(* The actions.                                                            *)

LEMMA WildKeeps ==
    ASSUME Inv, Wild
    PROVE  Inv'
BY DEF Inv, SymbolTypeOK, NamesDistinct, Exact, Wild, findSymbol

\* A block fresh from malloc.
LEMMA FreshBlock ==
    ASSUME NEW g \in Garbage, NEW l \in Nat
    PROVE  [b \in 1..l |-> g] \in Seq(Byte) /\ Len([b \in 1..l |-> g]) = l
<1>1. PICK m : m = [b \in 1..l |-> g]
  OBVIOUS
<1>2. g \in Byte
  BY SymbolAssumption DEF SymbolAssumption, Byte
<1>3. m \in [1..l -> Byte]
  BY <1>1, <1>2
<1>4. m \in Seq(Byte) /\ Len(m) = l
  BY <1>3, SeqDef, LenProperties
<1> QED BY <1>1, <1>4

(* allocate, of a new name and of a known one (Lang.cpp:418-446).          *)
LEMMA AllocateKeeps ==
    ASSUME Inv, NEW n \in SymbolNames, NEW t \in Types, NEW a, NEW index,
           Allocate(n, t, a, index)
    PROVE  Inv'
<1>1. CASE Wild
  BY <1>1, WildKeeps
<1>2. CASE ~Wild
  <2>1. PICK size \in Sizes, g \in Garbage :
          /\ asked' = [asked EXCEPT ![n] = size]
          /\ symbols' =
               IF Known(n)
               THEN [symbols EXCEPT ![findSymbol(n)].memory = [b \in 1..(1 * size) |-> g]]
               ELSE Append(symbols, [name |-> n, type |-> t,
                                     memory |-> [b \in 1..(getSize(t) * size) |-> g]])
          /\ UNCHANGED <<eeprom, results, wild>>
    BY <1>2 DEF Allocate
  <2>2. size \in Nat
    BY SymbolAssumption DEF SymbolAssumption
  <2>3. symbols \in Seq(Symbol) /\ Len(symbols) \in Nat /\ Len(symbols) <= Slots
        /\ asked \in [SymbolNames -> Nat]
    BY LenProperties DEF Inv, SymbolTypeOK
  <2>4. asked' \in [SymbolNames -> Nat] /\ asked'[n] = size
        /\ \A m \in SymbolNames \ {n} : asked'[m] = asked[m]
    BY <2>1, <2>2, <2>3
  <2>5. \A j \in 1..Len(symbols) : symbols[j] \in Symbol /\ symbols[j].name \in SymbolNames
    BY <2>3, ElementOfSeq, FieldsOfSymbol
  <2>6. CASE Known(n)
    <3>1. PICK k \in 1..Len(symbols) : k = findSymbol(n) /\ Of(n) = symbols[k] /\ symbols[k].name = n
      BY <2>6, FoundSymbol
    <3>2. symbols[k].type = "byte"
      BY <2>6, <3>1 DEF Allocate, MayAllocate
    <3>3. PICK m : m = [b \in 1..(1 * size) |-> g]
      OBVIOUS
    <3>4. m \in Seq(Byte) /\ Len(m) = size
      <4>1. 1 * size = size
        BY <2>2
      <4>2. m = [b \in 1..size |-> g]
        BY <3>3, <4>1
      <4> QED BY <2>2, <4>2, FreshBlock
    <3>5. PICK s : s = [name |-> n, type |-> symbols[k].type, memory |-> m]
      OBVIOUS
    <3>6. s \in Symbol /\ s.name = n /\ s.type = "byte" /\ Len(s.memory) = size
      BY <2>5, <3>1, <3>2, <3>4, <3>5, FieldsOfSymbol DEF Symbol
    <3>7. [symbols[k] EXCEPT !.memory = m] = s
      BY <2>5, <3>1, <3>5 DEF Symbol
    <3>8. symbols' = [symbols EXCEPT ![k] = s]
      BY <2>1, <2>6, <3>1, <3>3, <3>7
    <3>9. /\ symbols' \in Seq(Symbol) /\ Len(symbols') = Len(symbols)
          /\ \A j \in 1..Len(symbols) : symbols'[j] = IF j = k THEN s ELSE symbols[j]
      BY <2>3, <3>1, <3>6, <3>8, ExceptSeq
    <3>10. \A j \in 1..Len(symbols) : symbols'[j].name = symbols[j].name
      BY <3>1, <3>6, <3>9
    <3>11. NamesDistinct'
      BY <3>9, <3>10 DEF Inv, NamesDistinct
    <3>12. \A j \in 1..Len(symbols) : j # k => symbols[j].name # n
      BY <3>1 DEF Inv, NamesDistinct
    <3>13. Exact'
      <4>1. SUFFICES ASSUME NEW j \in 1..Len(symbols)
                     PROVE  Len(symbols'[j].memory) =
                              getSize(symbols'[j].type) * asked'[symbols'[j].name]
        BY <3>9 DEF Exact
      <4>2. CASE j = k
        <5>1. getSize("byte") = 1
          BY DEF getSize
        <5> QED BY <4>2, <5>1, <2>2, <2>4, <3>6, <3>9
      <4>3. CASE j # k
        <5>1. symbols'[j] = symbols[j]
          BY <4>3, <3>9
        <5>2. symbols[j].name \in SymbolNames \ {n}
          BY <4>3, <2>5, <3>12
        <5>3. asked'[symbols[j].name] = asked[symbols[j].name]
          BY <5>2, <2>4
        <5> QED BY <5>1, <5>3 DEF Inv, Exact
      <4> QED BY <4>2, <4>3
    <3> QED BY <2>1, <2>3, <2>4, <3>9, <3>11, <3>13 DEF Inv, SymbolTypeOK
  <2>7. CASE ~Known(n)
    <3>1. \A j \in 1..Len(symbols) : symbols[j].name # n
      BY <2>7, <2>3 DEF Known, findSymbol
    <3>2. PICK m : m = [b \in 1..(getSize(t) * size) |-> g]
      OBVIOUS
    <3>3. getSize(t) * size \in Nat
      BY <2>2, SizeOfType
    <3>4. m \in Seq(Byte) /\ Len(m) = getSize(t) * size
      BY <3>2, <3>3, FreshBlock
    <3>5. PICK s : s = [name |-> n, type |-> t, memory |-> m]
      OBVIOUS
    <3>6. s \in Symbol /\ s.name = n /\ s.type = t /\ s.memory = m
      BY <3>4, <3>5 DEF Symbol
    <3>7. /\ symbols' \in Seq(Symbol) /\ Len(symbols') = Len(symbols) + 1
          /\ \A j \in 1..Len(symbols) : symbols'[j] = symbols[j]
          /\ symbols'[Len(symbols) + 1] = s
      BY <2>1, <2>3, <2>7, <3>2, <3>5, <3>6, AppendProperties
    <3>8. Len(symbols') <= Slots
      BY <2>3, <2>7, <3>7, SymbolAssumption DEF Allocate, MayAllocate, SymbolAssumption
    <3>9. NamesDistinct'
      <4>1. SUFFICES ASSUME NEW i \in 1..Len(symbols'), NEW j \in 1..Len(symbols'),
                            symbols'[i].name = symbols'[j].name
                     PROVE  i = j
        BY DEF NamesDistinct
      <4>2. CASE i \in 1..Len(symbols) /\ j \in 1..Len(symbols)
        BY <4>1, <4>2, <3>7 DEF Inv, NamesDistinct
      <4>3. CASE i = Len(symbols) + 1 \/ j = Len(symbols) + 1
        BY <4>1, <4>3, <2>3, <3>1, <3>6, <3>7
      <4> QED BY <4>2, <4>3, <2>3, <3>7
    <3>10. Exact'
      <4>1. SUFFICES ASSUME NEW j \in 1..Len(symbols')
                     PROVE  Len(symbols'[j].memory) =
                              getSize(symbols'[j].type) * asked'[symbols'[j].name]
        BY DEF Exact
      <4>2. CASE j \in 1..Len(symbols)
        BY <4>2, <2>4, <2>5, <3>1, <3>7 DEF Inv, Exact
      <4>3. CASE j = Len(symbols) + 1
        BY <4>3, <2>4, <3>4, <3>6, <3>7
      <4> QED BY <4>2, <4>3, <2>3, <3>7
    <3> QED BY <2>1, <2>3, <2>4, <3>7, <3>8, <3>9, <3>10 DEF Inv, SymbolTypeOK
  <2> QED BY <2>6, <2>7
<1> QED BY <1>1, <1>2

(* setimage (Lang.cpp:378-412).                                            *)
LEMMA SetImageKeeps ==
    ASSUME Inv, NEW n \in SymbolNames, NEW a \in Arg, NEW index \in Nat, NEW values \in Seq(Int),
           SetImage(n, a, index, values)
    PROVE  Inv'
<1>1. CASE Wild
  BY <1>1, WildKeeps
<1>2. CASE ~Wild
  <2>1. Known(n) /\ Resolves("start", a, index)
    BY <1>2 DEF SetImage
  <2>2. PICK start \in symbolRef("start", a, index) :
          /\ symbols' = [symbols EXCEPT ![findSymbol(n)] = Poke(@, start, values)]
          /\ UNCHANGED <<eeprom, results, wild, asked>>
    BY <1>2 DEF SetImage
  <2>3. start \in Nat
    BY <2>1, ArgumentInteger DEF SetImage, Inv
  <2>4. Of(n) \in Symbol /\ Of(n) = symbols[findSymbol(n)] /\ Of(n).name = n
    BY <2>1, SymbolOfName, FoundSymbol DEF Inv
  <2>5. PICK s : s = Poke(Of(n), start, values)
    OBVIOUS
  <2>6. s \in Symbol /\ s.name = n /\ s.type = Of(n).type
        /\ Len(s.memory) = Len(Of(n).memory)
    BY <2>3, <2>4, <2>5, PokedSymbol
  <2>7. symbols' = [symbols EXCEPT ![findSymbol(n)] = s]
    BY <2>2, <2>4, <2>5
  <2>8. symbols' \in Seq(Symbol) /\ Len(symbols') <= Slots /\ NamesDistinct' /\ Exact'
    BY <2>1, <2>2, <2>6, <2>7, SymbolReplaced
  <2> QED BY <2>2, <2>8 DEF Inv, SymbolTypeOK
<1> QED BY <1>1, <1>2

(* shift of an integer, by any command (Lang.cpp:619-639).                 *)
LEMMA ShiftKeeps ==
    ASSUME Inv, NEW n, NEW index \in Nat, NEW v \in Int, Shift(n, index, v),
           UNCHANGED <<eeprom, results, wild, asked>>
    PROVE  Inv'
<1>1. CASE ~Known(n)
  <2>1. UNCHANGED symbolVars
    BY <1>1 DEF Shift, symbolVars
  <2> QED BY <2>1 DEF Inv, SymbolTypeOK, NamesDistinct, Exact, symbolVars
<1>2. CASE Known(n)
  <2>1. Of(n) \in Symbol /\ Of(n) = symbols[findSymbol(n)] /\ Of(n).name = n
    BY <1>2, SymbolOfName, FoundSymbol DEF Inv
  <2>2. PICK s : s = Poke(Of(n), index, <<v>>)
    OBVIOUS
  <2>3. <<v>> \in Seq(Int)
    OBVIOUS
  <2>4. s \in Symbol /\ s.name = n /\ s.type = Of(n).type
        /\ Len(s.memory) = Len(Of(n).memory)
    BY <2>1, <2>2, <2>3, PokedSymbol
  <2>5. symbols' = [symbols EXCEPT ![findSymbol(n)] = s]
    BY <1>2, <2>1, <2>2 DEF Shift
  <2>6. symbols' \in Seq(Symbol) /\ Len(symbols') <= Slots /\ NamesDistinct' /\ Exact'
    BY <1>2, <2>4, <2>5, SymbolReplaced
  <2> QED BY <2>6 DEF Inv, SymbolTypeOK
<1> QED BY <1>1, <1>2

\* The cells from start on, as many as stop says, become the results.
ReadOut(n, start, stop) ==
    /\ Within(n, start, stop)
    /\ results' \in IF Of(n).type = "double" THEN [1..stop -> Garbage]
                    ELSE {[i \in 1..stop |->
                             Loaded(Of(n).type, Of(n).memory, start + i - 1)]}

\* What getimage reads, when it stays within the block.
LEMMA GetImageReads ==
    ASSUME Inv, NEW n, NEW a \in Arg, NEW b \in Arg, NEW index \in Nat,
           GetImage(n, a, b, index), ~Wild
    PROVE  /\ Resolves("start", a, index) /\ Resolves("stop", b, index)
           /\ UNCHANGED <<symbols, eeprom, wild, asked>>
           /\ \E start \in symbolRef("start", a, index), stop \in symbolRef("stop", b, index) :
                 start \in Nat /\ stop \in Nat /\ ReadOut(n, start, stop)
<1>1. Resolves("start", a, index) /\ Resolves("stop", b, index)
  BY DEF GetImage
<1>2. PICK start \in symbolRef("start", a, index), stop \in symbolRef("stop", b, index) :
        /\ start >= 0 /\ stop >= 0
        /\ Within(n, start, stop)
        /\ UNCHANGED <<symbols, eeprom, wild, asked>>
        /\ results' \in IF Of(n).type = "double" THEN [1..stop -> Garbage]
                        ELSE {[i \in 1..stop |->
                                 Loaded(Of(n).type, Of(n).memory, start + i - 1)]}
  BY <1>1 DEF GetImage
<1>3. start \in Nat /\ stop \in Nat
  BY <1>1, <1>2, ArgumentInteger DEF Inv
<1> QED BY <1>1, <1>2, <1>3 DEF ReadOut

(* getimage (Lang.cpp:303-339).                                            *)
LEMMA GetImageKeeps ==
    ASSUME Inv, NEW n \in SymbolNames, NEW a \in Arg, NEW b \in Arg, NEW index \in Nat,
           GetImage(n, a, b, index)
    PROVE  Inv'
<1>1. CASE Wild
  BY <1>1, WildKeeps
<1>2. CASE ~Wild
  <2>0. PICK start \in Nat, stop \in Nat :
          ReadOut(n, start, stop) /\ UNCHANGED <<symbols, eeprom, wild, asked>>
    BY <1>2, GetImageReads
  <2>1. /\ Known(n) /\ Within(n, start, stop)
        /\ results' \in IF Of(n).type = "double" THEN [1..stop -> Garbage]
                        ELSE {[i \in 1..stop |->
                                 Loaded(Of(n).type, Of(n).memory, start + i - 1)]}
        /\ UNCHANGED <<symbols, eeprom, wild, asked>>
    BY <2>0 DEF Within, ReadOut
  <2>2. PICK s \in Symbol : s = Of(n)
    BY <2>1, SymbolOfName DEF Inv
  <2>3. PICK z \in {1, 2, 4} : z = getSize(s.type)
    BY FieldsOfSymbol, SizeOfType
  <2>4. PICK L \in Nat : L = Len(s.memory)
    BY FieldsOfSymbol, LenProperties
  <2>5. (start + stop) * z <= L
    BY <2>1, <2>2, <2>3, <2>4 DEF Within
  <2>6. ASSUME NEW i \in 1..stop PROVE Loaded(s.type, s.memory, start + i - 1) \in Int
    <3>1. PICK c \in Nat : c = start + i - 1
      OBVIOUS
    <3>2. (c + 1) * z <= L
      BY <2>5, <3>1
    <3>3. Loaded(s.type, s.memory, c) \in Int
      BY <2>3, <2>4, <3>2, LoadedInteger
    <3> QED BY <3>1, <3>3
  <2>7. Garbage \subseteq Int
    BY SymbolAssumption DEF SymbolAssumption
  <2>8. results' \in [1..stop -> Int]
    BY <2>1, <2>2, <2>6, <2>7
  <2>9. results' \in Seq(Int)
    BY <2>8, SeqDef
  <2> QED BY <2>1, <2>9 DEF Inv, SymbolTypeOK, NamesDistinct, Exact
<1> QED BY <1>1, <1>2

(* digitalread, analogread and geteeprom (Lang.cpp:104-145).               *)
LEMMA ReadKeeps ==
    ASSUME Inv, NEW a \in Arg, NEW n, NEW index \in Nat, NEW v \in Int,
           Read(a, v, n, index) \/ GetEeprom(a, n, index)
    PROVE  Inv'
<1>1. CASE Wild
  BY <1>1, WildKeeps
<1>2. CASE ~Wild /\ Read(a, v, n, index)
  BY <1>2, ShiftKeeps DEF Read
<1>3. CASE ~Wild /\ GetEeprom(a, n, index)
  <2>1. PICK address \in Addresses :
          Shift(n, index, eeprom[address]) /\ UNCHANGED <<eeprom, results, wild, asked>>
    BY <1>3 DEF GetEeprom
  <2>2. eeprom[address] \in Byte
    BY DEF Inv, SymbolTypeOK
  <2>3. eeprom[address] \in Int
    BY <2>2 DEF Byte
  <2> QED BY <2>1, <2>3, ShiftKeeps
<1> QED BY <1>1, <1>2, <1>3

(* seteeprom (Lang.cpp:150-157).                                           *)
LEMMA SetEepromKeeps ==
    ASSUME Inv, NEW a \in Arg, NEW b \in Arg, NEW index \in Nat, SetEeprom(a, b, index)
    PROVE  Inv'
<1>1. CASE Wild
  BY <1>1, WildKeeps
<1>2. CASE ~Wild
  <2>1. Resolves("value", b, index)
    BY <1>2 DEF SetEeprom
  <2>2. PICK address \in Addresses, v \in symbolRef("value", b, index) :
          /\ eeprom' = [eeprom EXCEPT ![address] = v % 256]
          /\ UNCHANGED <<symbols, results, wild, asked>>
    BY <1>2 DEF SetEeprom
  <2>3. v \in Int
    BY <2>1, ArgumentInteger DEF Inv
  <2>4. v % 256 \in Byte
    BY <2>3 DEF Byte
  <2>5. eeprom' \in [Addresses -> Byte]
    BY <2>2, <2>4 DEF Inv, SymbolTypeOK
  <2> QED BY <2>2, <2>5 DEF Inv, SymbolTypeOK, NamesDistinct, Exact
<1> QED BY <1>1, <1>2


-----------------------------------------------------------------------------
(* The theorems.                                                           *)

LEMMA InvInit == SymbolInit => Inv
<1> SUFFICES ASSUME SymbolInit PROVE Inv
  OBVIOUS
<1>1. symbols \in Seq(Symbol) /\ Len(symbols) = 0
  BY DEF SymbolInit
<1>2. results \in Seq(Int)
  BY DEF SymbolInit
<1>3. Len(symbols) <= Slots
  BY <1>1, SymbolAssumption DEF SymbolAssumption
<1>4. asked \in [SymbolNames -> Nat]
  BY DEF SymbolInit
<1>5. eeprom \in [Addresses -> Byte]
  <2>1. eeprom \in [Addresses -> {255}] /\ 255 \in Byte
    BY DEF SymbolInit, Byte
  <2> QED BY <2>1
<1>6. NamesDistinct /\ Exact
  BY <1>1 DEF NamesDistinct, Exact
<1>7. wild \in BOOLEAN
  <2>1. wild = FALSE
    BY DEF SymbolInit
  <2> QED BY <2>1, Zenon
<1> QED BY <1>1, <1>2, <1>3, <1>4, <1>5, <1>6, <1>7 DEF Inv, SymbolTypeOK

\* The values a host sends are integers and positions.
LEMMA Inputs ==
    /\ Indexes \subseteq Nat /\ Longs \subseteq Int /\ ImageLists \subseteq Seq(Int)
    /\ Args(Sizes) \subseteq Arg /\ Args(Indexes) \subseteq Arg
    /\ Args(Addresses) \subseteq Arg /\ Args(Longs) \subseteq Arg
<1>1. /\ Sizes \subseteq Nat /\ Indexes \subseteq Nat /\ Addresses \subseteq Nat
      /\ Longs \subseteq Int /\ ImageLists \subseteq Seq(Int)
  BY SymbolAssumption DEF SymbolAssumption
<1>2. Sizes \subseteq Int /\ Indexes \subseteq Int /\ Addresses \subseteq Int
  BY <1>1
<1> QED BY <1>1, <1>2, ArgsAreArg

LEMMA InvStep == Inv /\ [SymbolNext]_symbolVars => Inv'
<1> SUFFICES ASSUME Inv, [SymbolNext]_symbolVars PROVE Inv'
  OBVIOUS
<1>1. CASE UNCHANGED symbolVars
  BY <1>1 DEF Inv, SymbolTypeOK, NamesDistinct, Exact, symbolVars
<1>2. CASE SymbolNext
  <2>1. PICK i \in Indexes :
          \/ \E a \in Args(Addresses), b \in Args(Longs) : SetEeprom(a, b, i)
          \/ \E a \in Args(Addresses), b \in Args(Longs) : PinWrite(a, b, i)
          \/ \E n \in SymbolNames, t \in Types, a \in Args(Sizes) : Allocate(n, t, a, i)
          \/ \E n \in SymbolNames, a \in Args(Indexes), vs \in ImageLists : SetImage(n, a, i, vs)
          \/ \E n \in SymbolNames, a \in Args(Indexes), b \in Args(Indexes) :
                GetImage(n, a, b, i)
          \/ \E a \in Args(Addresses), n \in SymbolNames \cup {NoName}, v \in Longs :
                Read(a, v, n, i)
          \/ \E a \in Args(Addresses), n \in SymbolNames \cup {NoName} : GetEeprom(a, n, i)
    BY <1>2 DEF SymbolNext
  <2>2. i \in Nat
    BY Inputs
  <2>3. ASSUME NEW a \in Args(Addresses), NEW b \in Args(Longs), SetEeprom(a, b, i)
        PROVE  Inv'
    BY <2>2, <2>3, Inputs, SetEepromKeeps
  <2>4. ASSUME NEW a \in Args(Addresses), NEW b \in Args(Longs), PinWrite(a, b, i)
        PROVE  Inv'
    BY <2>4, <1>1, WildKeeps DEF PinWrite, Inv, SymbolTypeOK, NamesDistinct, Exact, symbolVars
  <2>5. ASSUME NEW n \in SymbolNames, NEW t \in Types, NEW a \in Args(Sizes), Allocate(n, t, a, i)
        PROVE  Inv'
    BY <2>5, AllocateKeeps
  <2>6. ASSUME NEW n \in SymbolNames, NEW a \in Args(Indexes), NEW vs \in ImageLists,
               SetImage(n, a, i, vs)
        PROVE  Inv'
    BY <2>2, <2>6, Inputs, SetImageKeeps
  <2>7. ASSUME NEW n \in SymbolNames, NEW a \in Args(Indexes), NEW b \in Args(Indexes),
               GetImage(n, a, b, i)
        PROVE  Inv'
    BY <2>2, <2>7, Inputs, GetImageKeeps
  <2>8. ASSUME NEW a \in Args(Addresses), NEW n \in SymbolNames \cup {NoName}, NEW v \in Longs,
               Read(a, v, n, i)
        PROVE  Inv'
    BY <2>2, <2>8, Inputs, ReadKeeps
  <2>9. ASSUME NEW a \in Args(Addresses), NEW n \in SymbolNames \cup {NoName}, GetEeprom(a, n, i)
        PROVE  Inv'
    BY <2>2, <2>9, Inputs, ReadKeeps
  <2> QED BY <2>1, <2>3, <2>4, <2>5, <2>6, <2>7, <2>8, <2>9
<1> QED BY <1>1, <1>2

(* Type correctness: the blocks keep the size they were allocated with,    *)
(* and only bytes get into them and into the EEPROM (Lang.cpp:303-446).    *)
THEOREM SymbolTypeCorrect == SymbolSpec => []SymbolTypeOK
<1>1. Inv => SymbolTypeOK
  BY DEF Inv
<1> QED BY <1>1, InvInit, InvStep, PTL DEF SymbolSpec

(* No name is allocated twice (findSymbol, Lang.cpp:451-457).              *)
THEOREM NamesDistinctThm == SymbolSpec => []NamesDistinct
<1>1. Inv => NamesDistinct
  BY DEF Inv
<1> QED BY <1>1, InvInit, InvStep, PTL DEF SymbolSpec

(* What a host that sends only numbers may refer to, resolves.             *)
LEMMA NumbersResolve ==
    ASSUME ~Refers, NEW field, NEW a, NEW index, MayRefer(field, a, index)
    PROVE  Resolves(field, a, index)
BY DEF MayRefer

(* A result that may be shifted has its cell, or no symbol to go to        *)
(* (shift, Lang.cpp:619-639).                                              *)
LEMMA ShiftIsWithin ==
    ASSUME Inv, NEW n, NEW index \in Nat, n = NoName \/ MayShift(n, index), Known(n)
    PROVE  Within(n, index, 1)
<1>1. n \in SymbolNames /\ n # NoName
  BY SymbolOfName, SymbolAssumption DEF Inv, SymbolAssumption
<1>2. index < asked[n] /\ asked[n] \in Nat
  BY <1>1 DEF MayShift, Inv, SymbolTypeOK
<1>3. index + 1 <= asked[n]
  BY <1>2
<1> QED BY <1>3, CountedIsWithin DEF Inv

(* No step of a host that counts its cells and sends numbers is wild.      *)
LEMMA StepInBounds ==
    ASSUME ~Refers, Inv, InBounds, [SymbolNext]_symbolVars
    PROVE  InBounds'
<1>1. CASE UNCHANGED symbolVars
  BY <1>1 DEF InBounds, symbolVars
<1>2. CASE SymbolNext
  <2>1. PICK i \in Indexes :
          \/ \E a \in Args(Addresses), b \in Args(Longs) : SetEeprom(a, b, i)
          \/ \E a \in Args(Addresses), b \in Args(Longs) : PinWrite(a, b, i)
          \/ \E n \in SymbolNames, t \in Types, a \in Args(Sizes) : Allocate(n, t, a, i)
          \/ \E n \in SymbolNames, a \in Args(Indexes), vs \in ImageLists : SetImage(n, a, i, vs)
          \/ \E n \in SymbolNames, a \in Args(Indexes), b \in Args(Indexes) :
                GetImage(n, a, b, i)
          \/ \E a \in Args(Addresses), n \in SymbolNames \cup {NoName}, v \in Longs :
                Read(a, v, n, i)
          \/ \E a \in Args(Addresses), n \in SymbolNames \cup {NoName} : GetEeprom(a, n, i)
    BY <1>2 DEF SymbolNext
  <2>2. i \in Nat
    BY Inputs
  <2>3. ASSUME NEW a, NEW b, SetEeprom(a, b, i) \/ PinWrite(a, b, i)
        PROVE  UNCHANGED wild
    <3>1. CASE SetEeprom(a, b, i)
      BY <3>1, NumbersResolve DEF SetEeprom
    <3>2. CASE PinWrite(a, b, i)
      BY <3>2, NumbersResolve DEF PinWrite, symbolVars
    <3> QED BY <2>3, <3>1, <3>2
  <2>4. ASSUME NEW n, NEW t, NEW a, Allocate(n, t, a, i)
        PROVE  UNCHANGED wild
    BY <2>4, NumbersResolve DEF Allocate
  <2>5. ASSUME NEW n \in SymbolNames, NEW a \in Args(Indexes), NEW vs \in ImageLists,
               SetImage(n, a, i, vs)
        PROVE  UNCHANGED wild
    <3>1. Known(n) /\ Resolves("start", a, i)
      BY <2>5, NumbersResolve DEF SetImage
    <3>2. ASSUME NEW start \in symbolRef("start", a, i)
          PROVE  Within(n, start, Len(vs))
      <4>1. start >= 0 /\ start + Len(vs) <= asked[n]
        BY <2>5, <3>1 DEF SetImage
      <4>2. start \in Nat /\ Len(vs) \in Nat
        BY <4>1, <2>2, <3>1, ArgumentInteger, Inputs, LenProperties DEF Inv
      <4> QED BY <3>1, <4>1, <4>2, CountedIsWithin DEF Inv
    <3> QED BY <2>5, <3>1, <3>2 DEF SetImage
  <2>6. ASSUME NEW n \in SymbolNames, NEW a \in Args(Indexes), NEW b \in Args(Indexes),
               GetImage(n, a, b, i)
        PROVE  UNCHANGED wild
    <3>1. Known(n) /\ Resolves("start", a, i) /\ Resolves("stop", b, i)
      BY <2>6, NumbersResolve DEF GetImage
    <3>2. PICK start \in symbolRef("start", a, i), stop \in symbolRef("stop", b, i) :
            /\ start >= 0 /\ stop >= 0 /\ start + stop <= asked[n]
            /\ UNCHANGED wild \/ ~Within(n, start, stop)
      BY <2>6, <3>1 DEF GetImage
    <3>3. start \in Nat /\ stop \in Nat
      BY <2>2, <3>1, <3>2, ArgumentInteger, Inputs DEF Inv
    <3> QED BY <3>1, <3>2, <3>3, CountedIsWithin DEF Inv
  <2>7. ASSUME NEW a, NEW v, NEW n, Read(a, v, n, i)
        PROVE  UNCHANGED wild
    BY <2>2, <2>7, NumbersResolve, ShiftIsWithin DEF Read
  <2>8. ASSUME NEW a, NEW n, GetEeprom(a, n, i)
        PROVE  UNCHANGED wild
    BY <2>2, <2>8, NumbersResolve, ShiftIsWithin DEF GetEeprom
  <2>9. UNCHANGED wild
    BY <2>1, <2>3, <2>4, <2>5, <2>6, <2>7, <2>8
  <2> QED BY <2>9 DEF InBounds
<1> QED BY <1>1, <1>2

(* No command of a host that counts its cells and sends numbers for its    *)
(* arguments leaves the memory of a symbol: the code, which checks nothing *)
(* (Lang.cpp:303-446, 602-639), needs nothing but such a host.             *)
THEOREM InBoundsThm ==
    ASSUME ~Refers
    PROVE  SymbolSpec => []InBounds
<1>1. SymbolInit => Inv /\ InBounds
  BY InvInit DEF SymbolInit, InBounds
<1>2. Inv /\ InBounds /\ [SymbolNext]_symbolVars => (Inv /\ InBounds)'
  BY InvStep, StepInBounds
<1> QED BY <1>1, <1>2, PTL DEF SymbolSpec
(* All of it together, for such a host (Lang.cpp:303-446, 602-639).         *)
THEOREM SymbolsSoundThm ==
    ASSUME ~Refers
    PROVE  SymbolSpec => []SymbolsSound
<1>1. SymbolTypeOK /\ InBounds /\ NamesDistinct => SymbolsSound
  BY DEF SymbolsSound
<1> QED BY <1>1, SymbolTypeCorrect, NamesDistinctThm, InBoundsThm, PTL

-----------------------------------------------------------------------------
(* The symbols as typed arrays.                                            *)

\* Arrays holds, under each name, the array of the symbol of that name.
ArraysAre ==
    /\ DOMAIN Arrays = {symbols[k].name : k \in 1..Len(symbols)}
    /\ \A k \in 1..Len(symbols) : Arrays[symbols[k].name] = ArrayOf(symbols[k])

LEMMA ArraysOfInv == Inv => ArraysAre
<1> SUFFICES ASSUME Inv PROVE ArraysAre
  OBVIOUS
<1>1. DOMAIN Arrays = {symbols[k].name : k \in 1..Len(symbols)}
  BY DEF Arrays
<1>2. ASSUME NEW k \in 1..Len(symbols)
      PROVE  Arrays[symbols[k].name] = ArrayOf(symbols[k])
  <2>1. PICK n : n = symbols[k].name
    OBVIOUS
  <2>2. Len(symbols) \in Nat
    BY LenProperties DEF Inv, SymbolTypeOK
  <2>3. findSymbol(n) \in 1..Len(symbols) /\ symbols[findSymbol(n)].name = n
    BY <2>1 DEF findSymbol
  <2>4. findSymbol(n) = k
    BY <2>1, <2>3 DEF Inv, NamesDistinct
  <2>5. Of(n) = symbols[k]
    BY <2>4 DEF Of
  <2>6. Arrays[n] = ArrayOf(Of(n))
    BY <2>1 DEF Arrays
  <2> QED BY <2>1, <2>5, <2>6
<1> QED BY <1>1, <1>2 DEF ArraysAre

(* A symbol in the place of one of its name changes one array.             *)
LEMMA ArraysReplaced ==
    ASSUME Inv, Inv', NEW n, Known(n), NEW s \in Symbol, s.name = n,
           symbols' = [symbols EXCEPT ![findSymbol(n)] = s]
    PROVE  /\ n \in DOMAIN Arrays /\ Arrays[n] = ArrayOf(Of(n))
           /\ DOMAIN Arrays' = DOMAIN Arrays
           /\ Arrays' = [Arrays EXCEPT ![n] = ArrayOf(s)]
<1>1. PICK k \in 1..Len(symbols) : k = findSymbol(n) /\ Of(n) = symbols[k] /\ symbols[k].name = n
  BY FoundSymbol
<1>2. symbols \in Seq(Symbol)
  BY DEF Inv, SymbolTypeOK
<1>3. /\ Len(symbols') = Len(symbols)
      /\ \A j \in 1..Len(symbols) : symbols'[j] = IF j = k THEN s ELSE symbols[j]
  BY <1>1, <1>2, ExceptSeq
<1>4. \A j \in 1..Len(symbols) : symbols'[j].name = symbols[j].name
  BY <1>1, <1>3
<1>5. ArraysAre /\ ArraysAre'
  <2>1. (Inv => ArraysAre)'
    BY ArraysOfInv, PTL
  <2> QED BY <2>1, ArraysOfInv
<1>6. DOMAIN Arrays' = DOMAIN Arrays
  BY <1>3, <1>4, <1>5 DEF ArraysAre
<1>7. ASSUME NEW m \in DOMAIN Arrays
      PROVE  Arrays'[m] = IF m = n THEN ArrayOf(s) ELSE Arrays[m]
  <2>1. PICK j \in 1..Len(symbols) : symbols[j].name = m
    BY <1>5 DEF ArraysAre
  <2>2. Arrays'[m] = ArrayOf(symbols'[j])
    BY <1>3, <1>4, <1>5, <2>1 DEF ArraysAre
  <2>3. Arrays[m] = ArrayOf(symbols[j])
    BY <1>5, <2>1 DEF ArraysAre
  <2>4. m = n <=> j = k
    BY <1>1, <2>1 DEF Inv, NamesDistinct
  <2> QED BY <1>3, <2>2, <2>3, <2>4
<1>8. n \in DOMAIN Arrays /\ Arrays[n] = ArrayOf(Of(n))
  BY <1>1, <1>5 DEF ArraysAre
<1>9. Arrays' = [m \in DOMAIN Arrays' |-> Arrays'[m]]
  BY DEF Arrays
<1>10. Arrays = [m \in DOMAIN Arrays |-> Arrays[m]]
  BY DEF Arrays
<1> QED BY <1>6, <1>7, <1>8, <1>9, <1>10

(* A symbol of a new name adds one array.                                  *)
LEMMA ArraysAppended ==
    ASSUME Inv, Inv', NEW n, ~Known(n), NEW s \in Symbol, s.name = n,
           symbols' = Append(symbols, s)
    PROVE  /\ n \notin DOMAIN Arrays
           /\ DOMAIN Arrays' = DOMAIN Arrays \cup {n}
           /\ Arrays'[n] = ArrayOf(s)
           /\ \A m \in DOMAIN Arrays : Arrays'[m] = Arrays[m]
<1>1. symbols \in Seq(Symbol) /\ Len(symbols) \in Nat
  BY LenProperties DEF Inv, SymbolTypeOK
<1>2. /\ Len(symbols') = Len(symbols) + 1
      /\ \A j \in 1..Len(symbols) : symbols'[j] = symbols[j]
      /\ symbols'[Len(symbols) + 1] = s
  BY <1>1, AppendProperties
<1>3. \A j \in 1..Len(symbols) : symbols[j].name # n
  BY <1>1 DEF Known, findSymbol
<1>4. ArraysAre /\ ArraysAre'
  <2>1. (Inv => ArraysAre)'
    BY ArraysOfInv, PTL
  <2> QED BY <2>1, ArraysOfInv
<1>5. 1..Len(symbols') = 1..Len(symbols) \cup {Len(symbols) + 1}
  BY <1>1, <1>2
<1>6. n \notin DOMAIN Arrays
  BY <1>3, <1>4 DEF ArraysAre
<1>7. DOMAIN Arrays' = DOMAIN Arrays \cup {n}
  <2>1. DOMAIN Arrays' = {symbols'[k].name : k \in 1..Len(symbols')}
    BY <1>4 DEF ArraysAre
  <2>2. DOMAIN Arrays = {symbols[k].name : k \in 1..Len(symbols)}
    BY <1>4 DEF ArraysAre
  <2>3. PICK L \in Nat : L = Len(symbols)
    BY <1>1
  <2>4. DOMAIN Arrays' = {symbols'[k].name : k \in 1..L \cup {L + 1}}
    BY <1>5, <2>1, <2>3
  <2>5. symbols'[L + 1].name = n /\ \A k \in 1..L : symbols'[k].name = symbols[k].name
    BY <1>2, <2>3
  <2> QED BY <2>2, <2>3, <2>4, <2>5
<1>8. Arrays'[n] = ArrayOf(s)
  BY <1>2, <1>4, <1>5 DEF ArraysAre
<1>9. \A m \in DOMAIN Arrays : Arrays'[m] = Arrays[m]
  <2>1. SUFFICES ASSUME NEW m \in DOMAIN Arrays PROVE Arrays'[m] = Arrays[m]
    OBVIOUS
  <2>2. PICK j \in 1..Len(symbols) : symbols[j].name = m
    BY <1>4 DEF ArraysAre
  <2>3. Arrays'[m] = ArrayOf(symbols'[j])
    BY <1>2, <1>4, <1>5, <2>2 DEF ArraysAre
  <2>4. Arrays[m] = ArrayOf(symbols[j])
    BY <1>4, <2>2 DEF ArraysAre
  <2> QED BY <1>2, <2>3, <2>4
<1> QED BY <1>6, <1>7, <1>8, <1>9

\* The two bytes of an int, read back, are the value reduced to 16 bits.
LEMMA IntReadBack ==
    ASSUME NEW v \in Int, NEW bytes, bytes = (v % 256) + 256 * ((v \div 256) % 256)
    PROVE  Signed(bytes) = Store!Narrow("int", v)
<1>1. PICK q \in Int : q = v \div 256
  OBVIOUS
<1>2. PICK a \in Nat : a = v % 256 /\ a < 256
  OBVIOUS
<1>3. PICK r \in Int : r = q \div 256
  OBVIOUS
<1>4. PICK b \in Nat : b = q % 256 /\ b < 256
  OBVIOUS
<1>5. v = 256 * q + a
  BY <1>1, <1>2
<1>6. q = 256 * r + b
  BY <1>3, <1>4
<1>7. PICK u \in Nat : u = a + 256 * b /\ u < 65536
  BY <1>2, <1>4
<1>8. v = 65536 * r + u
  BY <1>5, <1>6, <1>7
<1>9. bytes = u
  BY <1>1, <1>2, <1>4, <1>7
<1>10. Store!Narrow("int", v) = ((v + 32768) % 65536) - 32768
  BY DEF Store!Narrow
<1>11. CASE u < 32768
  <2>1. PICK w \in Nat : w = u + 32768 /\ w < 65536
    BY <1>11
  <2>2. v + 32768 = 65536 * r + w
    BY <1>8, <2>1
  <2>3. (v + 32768) % 65536 = w
    BY <2>1, <2>2
  <2>4. Signed(u) = u
    BY <1>11 DEF Signed
  <2> QED BY <1>9, <1>10, <2>1, <2>3, <2>4
<1>12. CASE ~(u < 32768)
  <2>1. PICK w \in Nat : w = u - 32768 /\ w < 65536
    BY <1>7, <1>12
  <2>2. v + 32768 = 65536 * (r + 1) + w
    BY <1>8, <2>1
  <2>3. (v + 32768) % 65536 = w
    BY <2>1, <2>2
  <2>4. Signed(u) = u - 65536
    BY <1>12 DEF Signed
  <2> QED BY <1>9, <1>10, <2>1, <2>3, <2>4
<1> QED BY <1>11, <1>12

\* The cells of a symbol: as many as fit in its block, each an integer.
LEMMA CellsOfSymbol ==
    ASSUME NEW s \in Symbol
    PROVE  /\ CellsOf(s) \in Seq(Int)
           /\ Len(CellsOf(s)) = Len(s.memory) \div getSize(s.type)
           /\ \A c \in 1..Len(CellsOf(s)) :
                 /\ c * getSize(s.type) <= Len(s.memory)
                 /\ CellsOf(s)[c] = Loaded(s.type, s.memory, c - 1)
<1>1. PICK L \in Nat : L = Len(s.memory)
  BY FieldsOfSymbol, LenProperties
<1>2. PICK z \in {1, 2, 4} : z = getSize(s.type)
  BY FieldsOfSymbol, SizeOfType
<1>3. PICK N \in Nat : N = L \div z
  BY <1>1, <1>2
<1>4. ASSUME NEW c \in 1..N PROVE c * z <= L
  <2>1. N * z <= L
    BY <1>1, <1>2, <1>3
  <2>2. c * z <= N * z
    BY <1>2
  <2> QED BY <2>1, <2>2, <1>1, <1>2
<1>5. ASSUME NEW c \in 1..N PROVE Loaded(s.type, s.memory, c - 1) \in Int
  <2>1. PICK d \in Nat : d = c - 1
    OBVIOUS
  <2>2. (d + 1) * z <= L
    BY <1>4, <2>1
  <2> QED BY <1>1, <1>2, <2>1, <2>2, LoadedInteger
<1>6. CellsOf(s) = [c \in 1..N |-> Loaded(s.type, s.memory, c - 1)]
  BY <1>1, <1>2, <1>3 DEF CellsOf
<1>7. CellsOf(s) \in [1..N -> Int]
  BY <1>5, <1>6
<1>8. CellsOf(s) \in Seq(Int) /\ Len(CellsOf(s)) = N
  BY <1>7, SeqDef, LenProperties
<1> QED BY <1>1, <1>2, <1>3, <1>4, <1>6, <1>8

(* A value written to a cell is read back reduced to its type, and no      *)
(* other cell is disturbed (setImageInt and setImageByte, getimage).       *)
LEMMA PokedCell ==
    ASSUME NEW s \in Symbol, NEW start \in Nat, NEW values \in Seq(Int),
           NEW c \in Nat, (c + 1) * getSize(s.type) <= Len(s.memory)
    PROVE  Loaded(s.type, Poke(s, start, values).memory, c) =
             IF c + 1 - start \in 1..Len(values)
             THEN Store!Narrow(s.type, values[c + 1 - start])
             ELSE Loaded(s.type, s.memory, c)
<1>1. PICK m, t : m = s.memory /\ t = s.type /\ m \in Seq(Byte) /\ t \in Types
  BY FieldsOfSymbol
<1>2. PICK L \in Nat : L = Len(m)
  BY <1>1, LenProperties
<1>3. PICK n \in Nat : n = Len(values)
  BY LenProperties
<1>4. \A i \in 1..n : values[i] \in Int
  BY <1>3, ElementOfSeq
<1>5. PICK p : p = Poke(s, start, values).memory
  OBVIOUS
<1>6. \A b \in 1..L : p[b] = Written(s, start * getSize(t), values, b)
  BY <1>1, <1>2, <1>5 DEF Poke
<1>7. CASE t = "byte" /\ getSize(t) = 1
  <2>1. c + 1 \in 1..L
    BY <1>1, <1>2, <1>7
  <2>2. p[c + 1] = Written(s, start * 1, values, c + 1)
    BY <1>6, <1>7, <2>1
  <2>3. (c + 1) - start * 1 - 1 = c - start
    OBVIOUS
  <2>4. p[c + 1] = IF c - start \in 0..(1 * n - 1)
                   THEN BytesOf(t, values[1 + ((c - start) \div 1)])[1 + ((c - start) % 1)]
                   ELSE m[c + 1]
    BY <1>1, <1>3, <1>7, <2>2, <2>3 DEF Written
  <2>5. Loaded(t, p, c) = p[c + 1] /\ Loaded(t, m, c) = m[c + 1]
    BY <1>7 DEF Loaded
  <2>6. CASE c - start \in 0..(n - 1)
    <3>1. PICK i \in 1..n : i = c + 1 - start
      BY <2>6
    <3>2. 1 + ((c - start) \div 1) = i /\ 1 + ((c - start) % 1) = 1
      BY <3>1
    <3>3. PICK v \in Int : v = values[i]
      BY <1>4
    <3>4. p[c + 1] = BytesOf(t, v)[1]
      BY <2>4, <2>6, <3>2, <3>3
    <3>6. BytesOf(t, v) = <<v % 256>>
      BY <1>7 DEF BytesOf
    <3>5. Store!Narrow(t, v) = v % 256
      BY <1>7 DEF Store!Narrow
    <3>7. Loaded(t, p, c) = Store!Narrow(t, v)
      BY <2>5, <3>4, <3>5, <3>6
    <3> QED BY <1>1, <1>3, <1>5, <3>1, <3>3, <3>7
  <2>7. CASE ~(c - start \in 0..(n - 1))
    <3>1. ~(c + 1 - start \in 1..n)
      BY <2>7
    <3> QED BY <1>1, <1>3, <1>5, <2>4, <2>5, <2>7, <3>1
  <2> QED BY <2>6, <2>7
<1>8. CASE t = "int" /\ getSize(t) = 2
  <2>1. 2 * c + 1 \in 1..L /\ 2 * c + 2 \in 1..L
    BY <1>1, <1>2, <1>8
  <2>2. PICK d \in Int : d = 2 * (c - start)
    OBVIOUS
  <2>3. (2 * c + 1) - start * 2 - 1 = d /\ (2 * c + 2) - start * 2 - 1 = d + 1
    BY <2>2
  <2>4. p[2 * c + 1] = IF d \in 0..(2 * n - 1)
                       THEN BytesOf(t, values[1 + (d \div 2)])[1 + (d % 2)]
                       ELSE m[2 * c + 1]
    BY <1>1, <1>3, <1>6, <1>8, <2>1, <2>3 DEF Written
  <2>5. p[2 * c + 2] = IF d + 1 \in 0..(2 * n - 1)
                       THEN BytesOf(t, values[1 + ((d + 1) \div 2)])[1 + ((d + 1) % 2)]
                       ELSE m[2 * c + 2]
    BY <1>1, <1>3, <1>6, <1>8, <2>1, <2>3 DEF Written
  <2>6. /\ Loaded(t, p, c) = Signed(p[2 * c + 1] + 256 * p[2 * c + 2])
        /\ Loaded(t, m, c) = Signed(m[2 * c + 1] + 256 * m[2 * c + 2])
    BY <1>8 DEF Loaded
  <2>7. CASE c - start \in 0..(n - 1)
    <3>1. PICK i \in 1..n : i = c + 1 - start
      BY <2>7
    <3>2. /\ d \in 0..(2 * n - 1) /\ d + 1 \in 0..(2 * n - 1)
          /\ 1 + (d \div 2) = i /\ 1 + (d % 2) = 1
          /\ 1 + ((d + 1) \div 2) = i /\ 1 + ((d + 1) % 2) = 2
      BY <2>2, <2>7, <3>1
    <3>3. PICK v \in Int : v = values[i]
      BY <1>4
    <3>4. BytesOf(t, v) = <<v % 256, (v \div 256) % 256>>
      BY <1>8 DEF BytesOf
    <3>5. p[2 * c + 1] = v % 256 /\ p[2 * c + 2] = (v \div 256) % 256
      BY <2>4, <2>5, <3>2, <3>3, <3>4, SMTT(15)
    <3>6. PICK u : u = p[2 * c + 1] + 256 * p[2 * c + 2]
      OBVIOUS
    <3>7. u = (v % 256) + 256 * ((v \div 256) % 256)
      BY <3>5, <3>6
    <3>8. Loaded(t, p, c) = Store!Narrow(t, v)
      <4>1. Signed(u) = Store!Narrow("int", v)
        BY <3>7, IntReadBack
      <4> QED BY <1>8, <2>6, <3>6, <4>1
    <3> QED BY <1>1, <1>3, <1>5, <3>1, <3>3, <3>8
  <2>8. CASE ~(c - start \in 0..(n - 1))
    <3>1. ~(c + 1 - start \in 1..n) /\ ~(d \in 0..(2 * n - 1)) /\ ~(d + 1 \in 0..(2 * n - 1))
      BY <2>2, <2>8
    <3>2. Loaded(t, p, c) = Loaded(t, m, c)
      BY <2>4, <2>5, <2>6, <3>1
    <3> QED BY <1>1, <1>3, <1>5, <3>1, <3>2
  <2> QED BY <2>7, <2>8
<1>9. CASE t = "double" /\ getSize(t) = 4
  <2>1. \A x : Loaded(t, x, c) = 0
    BY <1>9 DEF Loaded
  <2>2. \A v : Store!Narrow(t, v) = 0
    BY <1>9 DEF Store!Narrow
  <2> QED BY <1>1, <2>1, <2>2
<1> QED BY <1>1, <1>7, <1>8, <1>9, SizeOfType

(* The array of a symbol after its cells from start on are written.        *)
LEMMA PokedArray ==
    ASSUME NEW s \in Symbol, NEW start \in Nat, NEW values \in Seq(Int)
    PROVE  ArrayOf(Poke(s, start, values)) =
             [type |-> s.type,
              cells |-> [c \in DOMAIN CellsOf(s) |->
                           IF c - start \in 1..Len(values)
                           THEN Store!Narrow(s.type, values[c - start])
                           ELSE CellsOf(s)[c]]]
<1>1. PICK p \in Symbol : p = Poke(s, start, values)
  BY PokedSymbol
<1>2. p.type = s.type /\ Len(p.memory) = Len(s.memory)
  BY <1>1, PokedSymbol
<1>3. PICK N : N = Len(s.memory) \div getSize(s.type)
  OBVIOUS
<1>4. N \in Nat /\ CellsOf(s) \in Seq(Int) /\ Len(CellsOf(s)) = N
  BY <1>3, CellsOfSymbol, LenProperties
<1>5. DOMAIN CellsOf(s) = 1..N
  BY <1>4, LenProperties
<1>6. CellsOf(p) = [c \in 1..N |-> Loaded(s.type, p.memory, c - 1)]
  BY <1>2, <1>3 DEF CellsOf
<1>7. ASSUME NEW c \in 1..N
      PROVE  Loaded(s.type, p.memory, c - 1) =
               IF c - start \in 1..Len(values)
               THEN Store!Narrow(s.type, values[c - start])
               ELSE CellsOf(s)[c]
  <2>1. PICK d \in Nat : d = c - 1
    BY <1>4
  <2>2. c = d + 1 /\ c - start = d + 1 - start
    BY <1>4, <2>1
  <2>3. (d + 1) * getSize(s.type) <= Len(s.memory) /\ CellsOf(s)[c] = Loaded(s.type, s.memory, d)
    BY <1>4, <2>1, <2>2, CellsOfSymbol
  <2>4. Loaded(s.type, p.memory, d) =
          IF d + 1 - start \in 1..Len(values)
          THEN Store!Narrow(s.type, values[d + 1 - start])
          ELSE Loaded(s.type, s.memory, d)
    BY <1>1, <2>3, PokedCell
  <2> QED BY <2>1, <2>2, <2>3, <2>4
<1>8. CellsOf(p) = [c \in DOMAIN CellsOf(s) |->
                    IF c - start \in 1..Len(values)
                    THEN Store!Narrow(s.type, values[c - start])
                    ELSE CellsOf(s)[c]]
  BY <1>5, <1>6, <1>7
<1> QED BY <1>1, <1>2, <1>8 DEF ArrayOf

\* What lies within the block of a symbol lies within its array.
LEMMA WithinArray ==
    ASSUME Inv, NEW n, NEW start \in Nat, NEW count \in Nat, Within(n, start, count)
    PROVE  /\ Known(n) /\ Of(n) \in Symbol /\ n \in SymbolNames
           /\ Len(CellsOf(Of(n))) \in Nat
           /\ start + count <= Len(CellsOf(Of(n)))
<1>1. Known(n) /\ Of(n) \in Symbol /\ n \in SymbolNames
  BY SymbolOfName DEF Within, Inv
<1>2. PICK L \in Nat : L = Len(Of(n).memory)
  BY <1>1, FieldsOfSymbol, LenProperties
<1>3. PICK z \in {1, 2, 4} : z = getSize(Of(n).type)
  BY <1>1, FieldsOfSymbol, SizeOfType
<1>4. (start + count) * z <= L
  BY <1>2, <1>3 DEF Within
<1>5. start + count <= L \div z
  BY <1>2, <1>3, <1>4
<1>6. Len(CellsOf(Of(n))) = L \div z
  BY <1>1, <1>2, <1>3, CellsOfSymbol
<1>7. L \div z \in Nat
  BY <1>2, <1>3
<1> QED BY <1>1, <1>5, <1>6, <1>7

\* The poked symbol takes its place in the table.
LEMMA PokedArrays ==
    ASSUME Inv, Inv', NEW n, Known(n), NEW start \in Nat, NEW values \in Seq(Int),
           symbols' = [symbols EXCEPT ![findSymbol(n)] = Poke(@, start, values)]
    PROVE  /\ n \in DOMAIN Arrays
           /\ Arrays[n] = ArrayOf(Of(n))
           /\ Arrays' = [Arrays EXCEPT ![n] = ArrayOf(Poke(Of(n), start, values))]
<1>1. Of(n) \in Symbol /\ Of(n) = symbols[findSymbol(n)] /\ Of(n).name = n
  BY SymbolOfName, FoundSymbol DEF Inv
<1>2. PICK s : s = Poke(Of(n), start, values)
  OBVIOUS
<1>3. s \in Symbol /\ s.name = n
  BY <1>1, <1>2, PokedSymbol
<1>4. symbols' = [symbols EXCEPT ![findSymbol(n)] = s]
  BY <1>1, <1>2
<1>5. /\ n \in DOMAIN Arrays /\ Arrays[n] = ArrayOf(Of(n))
      /\ Arrays' = [Arrays EXCEPT ![n] = ArrayOf(s)]
  BY <1>3, <1>4, ArraysReplaced
<1> QED BY <1>2, <1>5

\* While the table stays as it is, so do the arrays.
LEMMA TableKept ==
    ASSUME UNCHANGED symbols
    PROVE  UNCHANGED Arrays
BY DEF Arrays, Of, findSymbol

(* An argument means to the store what symbolRef returns (Lang.cpp:602-614). *)
LEMMA ArgumentMeant ==
    ASSUME Inv, NEW field, NEW a \in Arg, NEW index \in Nat, Resolves(field, a, index)
    PROVE  symbolRef(field, a, index) = Store!Meant(field, a, index)
<1>1. CASE a.name = NoName
  BY <1>1 DEF symbolRef, Store!Meant
<1>2. CASE a.name # NoName
  <2>1. Within(field, index, 1)
    BY <1>2 DEF Resolves
  <2>2. PICK s \in Symbol : s = Of(field)
    BY <2>1, WithinArray
  <2>3. PICK L \in Nat : L = Len(CellsOf(s)) /\ index + 1 <= L
    BY <2>1, <2>2, WithinArray
  <2>4. PICK k \in 1..Len(symbols) : s = symbols[k] /\ symbols[k].name = field
    BY <2>1, <2>2, FoundSymbol DEF Within
  <2>5. Arrays[field] = ArrayOf(s)
    BY <2>4, ArraysOfInv DEF ArraysAre
  <2>6. Arrays[field].type = s.type /\ Arrays[field].cells = CellsOf(s)
    BY <2>5 DEF ArrayOf
  <2>7. index + 1 \in 1..L /\ (index + 1) - 1 = index
    BY <2>3
  <2>8. CellsOf(s)[index + 1] = Loaded(s.type, s.memory, index)
    BY <2>3, <2>7, CellsOfSymbol
  <2> QED BY <1>2, <2>2, <2>6, <2>8 DEF symbolRef, Store!Meant
<1> QED BY <1>1, <1>2

(* setimage sets the cells from start on.                                  *)
LEMMA SetImageSets ==
    ASSUME Inv, Inv', NEW n, NEW start \in Nat, NEW values \in ImageLists,
           Within(n, start, Len(values)), UNCHANGED <<eeprom, results>>,
           symbols' = [symbols EXCEPT ![findSymbol(n)] = Poke(@, start, values)]
    PROVE  Store!Set(n, start, values)
<1>1. values \in Seq(Int) /\ Len(values) \in Nat
  BY Inputs, LenProperties
<1>2. PICK L \in Nat : L = Len(CellsOf(Of(n)))
  BY <1>1, WithinArray
<1>3. Known(n) /\ n \in SymbolNames /\ Of(n) \in Symbol /\ start + Len(values) <= L
  BY <1>1, <1>2, WithinArray
<1>4. PICK s \in Symbol : s = Of(n)
  BY <1>3
<1>5. /\ n \in DOMAIN Arrays /\ Arrays[n] = [type |-> s.type, cells |-> CellsOf(s)]
      /\ Arrays' = [Arrays EXCEPT ![n] = ArrayOf(Poke(s, start, values))]
  BY <1>1, <1>3, <1>4, PokedArrays DEF ArrayOf
<1>6. PICK x : x = [c \in DOMAIN CellsOf(s) |->
                      IF c - start \in 1..Len(values)
                      THEN Store!Narrow(s.type, values[c - start])
                      ELSE CellsOf(s)[c]]
  OBVIOUS
<1>7. ArrayOf(Poke(s, start, values)) = [type |-> s.type, cells |-> x]
  BY <1>1, <1>6, PokedArray
<1>8. Arrays' = [Arrays EXCEPT ![n].cells = x]
  <2>1. PICK r : r = Arrays[n]
    OBVIOUS
  <2>2. [r EXCEPT !.cells = x] = [type |-> s.type, cells |-> x]
    BY <1>5, <2>1
  <2>3. Arrays' = [Arrays EXCEPT ![n] = [r EXCEPT !.cells = x]]
    BY <1>5, <1>7, <2>2
  <2> QED BY <2>1, <2>3
<1>9. Arrays[n].type = s.type /\ Arrays[n].cells = CellsOf(s)
  BY <1>5
<1>10. Arrays' = [Arrays EXCEPT ![n].cells =
                    [c \in DOMAIN @ |->
                        IF c - start \in 1..Len(values)
                        THEN Store!Narrow(Arrays[n].type, values[c - start]) ELSE @[c]]]
  BY <1>6, <1>8, <1>9
<1>11. start + Len(values) <= Len(Arrays[n].cells) /\ start \in 0..Len(Arrays[n].cells)
  BY <1>1, <1>2, <1>3, <1>4, <1>9
<1>12. Store!Set(n, start, values)
  BY <1>5, <1>10, <1>11 DEF Store!Set, Store!Allocated
<1> QED BY <1>12

(* getimage gets the cells from start on.                                  *)
LEMMA GetImageGets ==
    ASSUME Inv, Inv', NEW n, NEW start \in Nat, NEW count \in Nat,
           ReadOut(n, start, count), UNCHANGED <<symbols, eeprom>>
    PROVE  Store!Get(n, start, count)
<1> USE DEF ReadOut
<1>1. PICK L \in Nat : L = Len(CellsOf(Of(n)))
  BY WithinArray
<1>2. Known(n) /\ n \in SymbolNames /\ Of(n) \in Symbol /\ start + count <= L
  BY <1>1, WithinArray
<1>3. PICK s \in Symbol : s = Of(n)
  BY <1>2
<1>4. PICK k \in 1..Len(symbols) : k = findSymbol(n) /\ s = symbols[k] /\ symbols[k].name = n
  BY <1>2, <1>3, FoundSymbol
<1>5. n \in DOMAIN Arrays /\ Arrays[n] = [type |-> s.type, cells |-> CellsOf(s)]
  BY <1>4, ArraysOfInv DEF ArraysAre, ArrayOf
<1>6. Arrays' = Arrays
  BY DEF Arrays, Of, findSymbol
<1>7. DOMAIN results' = 1..count /\ results' = [i \in 1..count |-> results'[i]]
  BY <1>3
<1>8. results' \in Seq(Int)
  BY DEF Inv, SymbolTypeOK
<1>9. Len(results') = count
  BY <1>7, <1>8, LenProperties
<1>10. ASSUME s.type # "double"
       PROVE  results' = SubSeq(CellsOf(s), start + 1, start + count)
  <2>1. results' = [i \in 1..count |-> Loaded(s.type, s.memory, start + i - 1)]
    BY <1>3, <1>10
  <2>2. \A i \in 1..count : start + i \in 1..L /\ (start + i) - 1 = start + i - 1
    BY <1>2
  <2>3. \A i \in 1..count : CellsOf(s)[start + i] = Loaded(s.type, s.memory, start + i - 1)
    BY <1>1, <1>3, <2>2, CellsOfSymbol
  <2>4. CellsOf(s) \in Seq(Int)
    BY CellsOfSymbol
  <2>5. SubSeq(CellsOf(s), start + 1, start + count) = [i \in 1..count |-> CellsOf(s)[start + i]]
    BY <1>1, <1>2, <1>3, <2>4, SubSeqProperties
  <2> QED BY <2>1, <2>3, <2>5
<1>11. Arrays[n].type = s.type /\ Arrays[n].cells = CellsOf(s) /\ Len(Arrays[n].cells) = L
  BY <1>1, <1>3, <1>5
<1>12. start + count <= Len(Arrays[n].cells)
       /\ start \in 0..Len(Arrays[n].cells) /\ count \in 0..Len(Arrays[n].cells)
  BY <1>2, <1>11
<1>13. Store!Get(n, start, count)
  BY <1>5, <1>6, <1>9, <1>10, <1>11, <1>12 DEF Store!Get, Store!Allocated
<1> QED BY <1>13

(* shift puts a result in one cell, or nowhere.                            *)
LEMMA ShiftPuts ==
    ASSUME Inv, Inv', NEW n, NEW index \in Nat, NEW v \in Int,
           Shift(n, index, v), Known(n) => Within(n, index, 1), UNCHANGED <<eeprom, results>>
    PROVE  Store!Put(n, index, v)
<1>1. CASE ~Known(n)
  <2>1. UNCHANGED Arrays
    BY <1>1, TableKept DEF Shift
  <2>2. n \notin DOMAIN Arrays
    BY <1>1 DEF Arrays, Known, findSymbol
  <2> QED BY <2>1, <2>2 DEF Store!Put, Store!Allocated
<1>2. CASE Known(n)
  <2>1. v \in Int /\ <<v>> \in Seq(Int) /\ Len(<<v>>) = 1 /\ <<v>>[1] = v
    OBVIOUS
  <2>2. PICK L \in Nat : L = Len(CellsOf(Of(n)))
    BY <1>2, WithinArray
  <2>3. n \in SymbolNames /\ Of(n) \in Symbol /\ index + 1 <= L
    BY <1>2, <2>2, WithinArray
  <2>4. PICK s \in Symbol : s = Of(n)
    BY <2>3
  <2>5. symbols' = [symbols EXCEPT ![findSymbol(n)] = Poke(@, index, <<v>>)]
    BY <1>2 DEF Shift
  <2>6. /\ n \in DOMAIN Arrays /\ Arrays[n] = [type |-> s.type, cells |-> CellsOf(s)]
        /\ Arrays' = [Arrays EXCEPT ![n] = ArrayOf(Poke(s, index, <<v>>))]
    BY <1>2, <2>1, <2>4, <2>5, PokedArrays DEF ArrayOf
  <2>7. PICK u : u = Store!Narrow(s.type, v)
    OBVIOUS
  <2>8. PICK c \in 1..L : c = index + 1
    BY <2>3
  <2>9. CellsOf(s) \in Seq(Int) /\ DOMAIN CellsOf(s) = 1..L
    BY <2>2, <2>4, CellsOfSymbol, LenProperties
  <2>10. ArrayOf(Poke(s, index, <<v>>)) =
           [type |-> s.type,
            cells |-> [d \in DOMAIN CellsOf(s) |->
                         IF d - index \in 1..Len(<<v>>)
                         THEN Store!Narrow(s.type, <<v>>[d - index])
                         ELSE CellsOf(s)[d]]]
    BY <2>1, PokedArray
  <2>11. [d \in DOMAIN CellsOf(s) |->
            IF d - index \in 1..Len(<<v>>)
            THEN Store!Narrow(s.type, <<v>>[d - index])
            ELSE CellsOf(s)[d]] = [CellsOf(s) EXCEPT ![c] = u]
    <3>1. \A d \in 1..L : d - index \in 1..Len(<<v>>) <=> d = c
      BY <2>1, <2>8
    <3>2. c - index = 1
      BY <2>8
    <3>3. ASSUME NEW d \in 1..L
          PROVE  (IF d - index \in 1..Len(<<v>>)
                  THEN Store!Narrow(s.type, <<v>>[d - index])
                  ELSE CellsOf(s)[d]) = [CellsOf(s) EXCEPT ![c] = u][d]
      BY <2>1, <2>7, <2>9, <3>1, <3>2
    <3>4. CellsOf(s) = [d \in 1..L |-> CellsOf(s)[d]]
      BY <2>9
    <3> QED BY <2>9, <3>3, <3>4
  <2>12. PICK x : x = [CellsOf(s) EXCEPT ![c] = u]
    OBVIOUS
  <2>13. Arrays' = [Arrays EXCEPT ![n] = [type |-> s.type, cells |-> x]]
    BY <2>6, <2>10, <2>11, <2>12
  <2>14. Arrays[n].type = s.type /\ Arrays[n].cells = CellsOf(s)
    BY <2>6
  <2>15. Arrays' = [Arrays EXCEPT ![n].cells[c] = u]
    <3>1. PICK r : r = Arrays[n]
      OBVIOUS
    <3>2. [r EXCEPT !.cells = x] = [type |-> s.type, cells |-> x]
      BY <2>6, <3>1
    <3>3. x = [r.cells EXCEPT ![c] = u]
      BY <2>12, <2>14, <3>1
    <3>4. Arrays' = [Arrays EXCEPT ![n] = [r EXCEPT !.cells = [r.cells EXCEPT ![c] = u]]]
      BY <2>13, <3>2, <3>3
    <3> QED BY <3>1, <3>4
  <2>16. index < Len(Arrays[n].cells)
    BY <2>2, <2>3, <2>4, <2>14
  <2> QED BY <2>6, <2>7, <2>8, <2>14, <2>15, <2>16 DEF Store!Put, Store!Allocated
<1> QED BY <1>1, <1>2

\* The cells of a block fresh from malloc hold what its bytes make of them.
LEMMA FreshCells ==
    ASSUME NEW s \in Symbol, NEW g \in Garbage, NEW l \in Nat,
           s.memory = [b \in 1..l |-> g]
    PROVE  \A c \in DOMAIN CellsOf(s) : CellsOf(s)[c] \in Fresh(s.type)
<1>1. PICK L \in Nat : L = Len(CellsOf(s))
  BY CellsOfSymbol, LenProperties
<1>2. DOMAIN CellsOf(s) = 1..L
  BY <1>1, CellsOfSymbol, LenProperties
<1>3. Len(s.memory) = l
  BY FreshBlock
<1>4. SUFFICES ASSUME NEW c \in 1..L PROVE CellsOf(s)[c] \in Fresh(s.type)
  BY <1>2
<1>5. PICK t \in Types : t = s.type
  BY FieldsOfSymbol
<1>6. PICK m : m = s.memory
  OBVIOUS
<1>7. c * getSize(t) <= l /\ CellsOf(s)[c] = Loaded(t, m, c - 1)
  BY <1>1, <1>3, <1>5, <1>6, CellsOfSymbol
<1>8. \A b \in 1..l : m[b] = g
  BY <1>6
<1>9. Loaded(t, <<g, g>>, 0) \in Fresh(t)
  BY DEF Fresh
<1>10. Loaded(t, m, c - 1) = Loaded(t, <<g, g>>, 0)
  <2>1. CASE t = "byte" /\ getSize(t) = 1
    <3>1. c \in 1..l /\ (c - 1) + 1 = c
      BY <1>7, <2>1
    <3>2. Loaded(t, m, c - 1) = m[c]
      BY <2>1, <3>1 DEF Loaded
    <3>3. Loaded(t, <<g, g>>, 0) = g
      BY <2>1 DEF Loaded
    <3> QED BY <1>8, <3>1, <3>2, <3>3
  <2>2. CASE t = "int" /\ getSize(t) = 2
    <3>1. PICK i, j \in 1..l : i = 2 * (c - 1) + 1 /\ j = 2 * (c - 1) + 2
      BY <1>7, <2>2
    <3>2. Loaded(t, m, c - 1) = Signed(m[i] + 256 * m[j])
      BY <2>2, <3>1 DEF Loaded
    <3>3. Loaded(t, <<g, g>>, 0) = Signed(g + 256 * g)
      BY <2>2 DEF Loaded
    <3> QED BY <1>8, <3>1, <3>2, <3>3
  <2>3. CASE t = "double"
    BY <2>3 DEF Loaded
  <2> QED BY <2>1, <2>2, <2>3, SizeOfType
<1> QED BY <1>5, <1>7, <1>9, <1>10

\* A fresh block of so many cells has that many.
LEMMA FreshSize ==
    ASSUME NEW s \in Symbol, NEW g \in Garbage, NEW size \in Nat, NEW l \in Nat,
           l = getSize(s.type) * size, s.memory = [b \in 1..l |-> g]
    PROVE  Len(CellsOf(s)) = size
<1>1. Len(s.memory) = l
  BY FreshBlock
<1>2. PICK z \in {1, 2, 4} : z = getSize(s.type)
  BY FieldsOfSymbol, SizeOfType
<1>3. Len(CellsOf(s)) = l \div z
  BY <1>1, <1>2, CellsOfSymbol
<1>4. l \div z = size
  BY <1>2
<1> QED BY <1>3, <1>4

(* allocate makes one array, of a new name or of a known one.              *)
LEMMA AllocateMakes ==
    ASSUME Inv, Inv', NEW n \in SymbolNames, NEW t \in Types, NEW a \in Arg, NEW index \in Nat,
           Allocate(n, t, a, index), ~Wild
    PROVE  Store!Allocate(n, t, a, index)
<1>0. Resolves("size", a, index) /\ MayAllocate(n, t)
  BY DEF Allocate
<1>1. PICK size \in symbolRef("size", a, index) \cap Sizes, g \in Garbage :
        /\ symbols' =
             IF Known(n)
             THEN [symbols EXCEPT ![findSymbol(n)].memory = [b \in 1..(1 * size) |-> g]]
             ELSE Append(symbols, [name |-> n, type |-> t,
                                   memory |-> [b \in 1..(getSize(t) * size) |-> g]])
        /\ UNCHANGED <<eeprom, results>>
  BY <1>0 DEF Allocate
<1>2. size \in Nat /\ size \in Store!Meant("size", a, index)
  BY <1>0, ArgumentMeant, SymbolAssumption DEF SymbolAssumption
<1>3. CASE Known(n)
  <2>1. Of(n) \in Symbol /\ Of(n) = symbols[findSymbol(n)] /\ Of(n).name = n
    BY <1>3, SymbolOfName, FoundSymbol DEF Inv
  <2>2. PICK l \in Nat : l = 1 * size
    BY <1>2
  <2>3. PICK m : m = [b \in 1..l |-> g]
    OBVIOUS
  <2>4. PICK o \in Symbol : o = Of(n)
    BY <2>1
  <2>5. PICK s : s = [name |-> o.name, type |-> o.type, memory |-> m]
    OBVIOUS
  <2>6. s = [o EXCEPT !.memory = m]
    BY <2>5 DEF Symbol
  <2>7. s \in Symbol /\ s.name = n /\ s.type = o.type /\ s.memory = m
    BY <2>1, <2>3, <2>4, <2>5, FreshBlock, FieldsOfSymbol DEF Symbol
  <2>8. symbols' = [symbols EXCEPT ![findSymbol(n)] = s]
    BY <1>1, <1>3, <2>1, <2>2, <2>3, <2>4, <2>6
  <2>9. /\ n \in DOMAIN Arrays /\ Arrays[n] = ArrayOf(o)
        /\ DOMAIN Arrays' = DOMAIN Arrays
        /\ Arrays' = [Arrays EXCEPT ![n] = ArrayOf(s)]
    BY <1>3, <2>4, <2>7, <2>8, ArraysReplaced
  <2>10. t = s.type /\ t = "byte"
    BY <1>0, <1>3, <2>4, <2>7 DEF MayAllocate
  <2>11. Arrays'[n] = ArrayOf(s)
    BY <2>9
  <2>12. Arrays'[n].type = t /\ Arrays'[n].cells = CellsOf(s)
    <3>1. ArrayOf(s).type = s.type /\ ArrayOf(s).cells = CellsOf(s)
      BY DEF ArrayOf
    <3> QED BY <2>10, <2>11, <3>1
  <2>13. \A c \in DOMAIN CellsOf(s) : CellsOf(s)[c] \in Fresh(t)
    BY <2>3, <2>7, <2>10, FreshCells
  <2>14. l = getSize(s.type) * size
    BY <2>2, <2>10 DEF getSize
  <2>15. Len(CellsOf(s)) = size
    BY <1>2, <2>3, <2>7, <2>14, FreshSize
  <2>16. DOMAIN Arrays' = DOMAIN Arrays \cup {n}
    BY <2>9
  <2>17. \A m1 \in DOMAIN Arrays \ {n} : Arrays'[m1] = Arrays[m1]
    BY <2>9
  <2>18. Store!New(n, t, size)
    BY <1>1, <2>12, <2>13, <2>15, <2>16, <2>17 DEF Store!New
  <2> QED BY <1>2, <2>18 DEF Store!Allocate
<1>4. CASE ~Known(n)
  <2>1. PICK l \in Nat : l = getSize(t) * size
    BY <1>2, SizeOfType
  <2>2. PICK m : m = [b \in 1..l |-> g]
    OBVIOUS
  <2>3. PICK s : s = [name |-> n, type |-> t, memory |-> m]
    OBVIOUS
  <2>4. s \in Symbol /\ s.name = n /\ s.type = t /\ s.memory = m
    BY <2>2, <2>3, FreshBlock DEF Symbol
  <2>5. symbols' = Append(symbols, s)
    BY <1>1, <1>4, <2>1, <2>2, <2>3
  <2>6. /\ n \notin DOMAIN Arrays
        /\ DOMAIN Arrays' = DOMAIN Arrays \cup {n}
        /\ Arrays'[n] = ArrayOf(s)
        /\ \A j \in DOMAIN Arrays : Arrays'[j] = Arrays[j]
    BY <1>4, <2>4, <2>5, ArraysAppended
  <2>7. Arrays'[n].type = t /\ Arrays'[n].cells = CellsOf(s)
    BY <2>4, <2>6 DEF ArrayOf
  <2>8. \A c \in DOMAIN CellsOf(s) : CellsOf(s)[c] \in Fresh(t)
    BY <2>2, <2>4, FreshCells
  <2>9. Len(CellsOf(s)) = size
    BY <1>2, <2>1, <2>2, <2>4, FreshSize
  <2>10. Store!New(n, t, size)
    BY <1>1, <2>6, <2>7, <2>8, <2>9 DEF Store!New
  <2> QED BY <1>2, <2>10 DEF Store!Allocate
<1> QED BY <1>3, <1>4

(* seteeprom changes one byte of the EEPROM and no symbol.                 *)
LEMMA SetEepromSets ==
    ASSUME Inv, NEW a \in Arg, NEW b \in Arg, NEW index \in Nat,
           SetEeprom(a, b, index), ~Wild
    PROVE  Store!SetEeprom(a, b, index)
<1>1. Resolves("address", a, index) /\ Resolves("value", b, index)
  BY DEF SetEeprom
<1>2. PICK address \in symbolRef("address", a, index) \cap Addresses,
           v \in symbolRef("value", b, index) :
        /\ eeprom' = [eeprom EXCEPT ![address] = v % 256]
        /\ UNCHANGED <<symbols, results, wild, asked>>
  BY <1>1 DEF SetEeprom
<1>3. /\ address \in Store!Meant("address", a, index)
      /\ v \in Store!Meant("value", b, index)
  BY <1>1, <1>2, ArgumentMeant
<1>4. UNCHANGED Arrays
  BY <1>2, TableKept
<1> QED BY <1>2, <1>3, <1>4 DEF Store!SetEeprom

(* geteeprom shifts the byte of the address into one cell.                 *)
LEMMA GetEepromPuts ==
    ASSUME Inv, Inv', NEW a \in Arg, NEW n, NEW index \in Nat,
           GetEeprom(a, n, index), ~Wild
    PROVE  Store!GetEeprom(a, n, index)
<1>1. Resolves("address", a, index) /\ (Known(n) => Within(n, index, 1))
  BY DEF GetEeprom
<1>2. PICK address \in symbolRef("address", a, index) \cap Addresses :
        UNCHANGED <<eeprom, results, wild, asked>> /\ Shift(n, index, eeprom[address])
  BY <1>1 DEF GetEeprom
<1>3. eeprom[address] \in Int
  <2>1. eeprom[address] \in Byte
    BY DEF Inv, SymbolTypeOK
  <2> QED BY <2>1 DEF Byte
<1>4. Store!Put(n, index, eeprom[address])
  BY <1>1, <1>2, <1>3, ShiftPuts
<1>5. address \in Store!Meant("address", a, index)
  BY <1>1, <1>2, ArgumentMeant
<1> QED BY <1>4, <1>5 DEF Store!GetEeprom

(* The bytes of the symbols implement the typed arrays of ValueStore,      *)
(* whatever the host sends: a command that keeps to the block of a symbol  *)
(* changes the cells it names and no others, and a value is read back as   *)
(* it was written, reduced to its type (Lang.cpp:124-157, 303-446,         *)
(* 602-639).                                                               *)
THEOREM StoreImplementedThm == SymbolSpec => StoreImplemented
<1> DEFINE Does == \A i \in Indexes : symbolVars' # symbolVars /\ ~wild' =>
            /\ \A a \in Args(Addresses), b \in Args(Longs) :
                  SetEeprom(a, b, i) => Store!SetEeprom(a, b, i)
            /\ \A n \in SymbolNames, t \in Types, a \in Args(Sizes) :
                  Allocate(n, t, a, i) => Store!Allocate(n, t, a, i)
            /\ \A n \in SymbolNames, a \in Args(Indexes), vs \in ImageLists :
                  SetImage(n, a, i, vs) => Store!SetImage(n, a, i, vs)
            /\ \A n \in SymbolNames, a \in Args(Indexes), b \in Args(Indexes) :
                  GetImage(n, a, b, i) => Store!GetImage(n, a, b, i)
            /\ \A n \in SymbolNames, a \in Args(Addresses) :
                  /\ GetEeprom(a, n, i) => Store!GetEeprom(a, n, i)
                  /\ \A v \in Longs : Read(a, v, n, i) => Store!Put(n, i, v)
<1>1. SymbolInit => Store!Init
  <2> SUFFICES ASSUME SymbolInit PROVE Store!Init
    OBVIOUS
  <2>1. Len(symbols) = 0 /\ results = << >>
    BY DEF SymbolInit
  <2>2. DOMAIN Arrays = {}
    BY <2>1 DEF Arrays
  <2>3. Arrays = [m \in DOMAIN Arrays |-> Arrays[m]]
    BY DEF Arrays
  <2>4. DOMAIN << >> = {} /\ << >> = [m \in {} |-> << >>[m]]
    OBVIOUS
  <2>5. Arrays = << >>
    BY <2>2, <2>3, <2>4
  <2> QED BY <2>1, <2>5 DEF Store!Init
<1>2. Inv /\ Inv' => Does
  <2> SUFFICES ASSUME Inv, Inv', NEW i \in Indexes, ~wild'
               PROVE  /\ \A a \in Args(Addresses), b \in Args(Longs) :
                           SetEeprom(a, b, i) => Store!SetEeprom(a, b, i)
                      /\ \A n \in SymbolNames, t \in Types, a \in Args(Sizes) :
                           Allocate(n, t, a, i) => Store!Allocate(n, t, a, i)
                      /\ \A n \in SymbolNames, a \in Args(Indexes), vs \in ImageLists :
                           SetImage(n, a, i, vs) => Store!SetImage(n, a, i, vs)
                      /\ \A n \in SymbolNames, a \in Args(Indexes), b \in Args(Indexes) :
                           GetImage(n, a, b, i) => Store!GetImage(n, a, b, i)
                      /\ \A n \in SymbolNames, a \in Args(Addresses) :
                           /\ GetEeprom(a, n, i) => Store!GetEeprom(a, n, i)
                           /\ \A v \in Longs : Read(a, v, n, i) => Store!Put(n, i, v)
    OBVIOUS
  <2>1. ~Wild /\ i \in Nat
    BY Inputs DEF Wild
  <2>2. ASSUME NEW a \in Args(Addresses), NEW b \in Args(Longs), SetEeprom(a, b, i)
        PROVE  Store!SetEeprom(a, b, i)
    BY <2>1, <2>2, Inputs, SetEepromSets
  <2>3. ASSUME NEW n \in SymbolNames, NEW t \in Types, NEW a \in Args(Sizes),
               Allocate(n, t, a, i)
        PROVE  Store!Allocate(n, t, a, i)
    BY <2>1, <2>3, Inputs, AllocateMakes
  <2>4. ASSUME NEW n \in SymbolNames, NEW a \in Args(Indexes), NEW vs \in ImageLists,
               SetImage(n, a, i, vs)
        PROVE  Store!SetImage(n, a, i, vs)
    <3>1. Resolves("start", a, i)
      BY <2>1, <2>4 DEF SetImage
    <3>2. PICK start \in symbolRef("start", a, i) :
            /\ Within(n, start, Len(vs))
            /\ symbols' = [symbols EXCEPT ![findSymbol(n)] = Poke(@, start, vs)]
            /\ UNCHANGED <<eeprom, results, wild, asked>>
      BY <2>1, <2>4, <3>1 DEF SetImage
    <3>3. start \in Nat
      BY <2>1, <3>1, <3>2, ArgumentInteger, Inputs DEF Within, Inv
    <3>4. Store!Set(n, start, vs)
      BY <3>2, <3>3, SetImageSets
    <3>5. start \in Store!Meant("start", a, i)
      BY <2>1, <3>1, <3>2, ArgumentMeant, Inputs
    <3> QED BY <3>4, <3>5 DEF Store!SetImage
  <2>5. ASSUME NEW n \in SymbolNames, NEW a \in Args(Indexes), NEW b \in Args(Indexes),
               GetImage(n, a, b, i)
        PROVE  Store!GetImage(n, a, b, i)
    <3>0. a \in Arg /\ b \in Arg
      BY Inputs
    <3>1. /\ Resolves("start", a, i) /\ Resolves("stop", b, i)
          /\ UNCHANGED <<symbols, eeprom>>
      BY <2>1, <2>5, <3>0, GetImageReads
    <3>2. PICK start \in symbolRef("start", a, i), stop \in symbolRef("stop", b, i) :
            start \in Nat /\ stop \in Nat /\ ReadOut(n, start, stop)
      BY <2>1, <2>5, <3>0, GetImageReads
    <3>3. Store!Get(n, start, stop)
      BY <3>1, <3>2, GetImageGets
    <3>4. start \in Store!Meant("start", a, i) /\ stop \in Store!Meant("stop", b, i)
      BY <2>1, <3>0, <3>1, <3>2, ArgumentMeant
    <3> QED BY <3>3, <3>4 DEF Store!GetImage
  <2>6. ASSUME NEW n \in SymbolNames, NEW a \in Args(Addresses), GetEeprom(a, n, i)
        PROVE  Store!GetEeprom(a, n, i)
    BY <2>1, <2>6, Inputs, GetEepromPuts
  <2>7. ASSUME NEW n \in SymbolNames, NEW a \in Args(Addresses), NEW v \in Longs,
               Read(a, v, n, i)
        PROVE  Store!Put(n, i, v)
    <3>1. /\ Shift(n, i, v) /\ UNCHANGED <<eeprom, results>>
          /\ Known(n) => Within(n, i, 1)
      BY <2>1, <2>7 DEF Read
    <3>2. v \in Int
      BY Inputs
    <3> QED BY <2>1, <3>1, <3>2, ShiftPuts
  <2> QED BY <2>2, <2>3, <2>4, <2>5, <2>6, <2>7
<1>3. SymbolSpec => []Inv
  BY InvInit, InvStep, PTL DEF SymbolSpec
<1>4. Inv /\ Inv' => [Does]_symbolVars
  BY <1>2
<1> HIDE DEF Does
<1>5. SymbolSpec => Store!Init /\ [][Does]_symbolVars
  BY <1>1, <1>3, <1>4, PTL DEF SymbolSpec
<1> QED BY <1>5 DEF StoreImplemented, Does
=============================================================================
