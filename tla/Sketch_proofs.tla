----------------------------- MODULE Sketch_proofs -----------------------------
(***************************************************************************)
(* Theorems about the parts of the sketch that work by themselves: the     *)
(* configuration in the EEPROM, the list of keywords and the frames        *)
(* between board and host.                                                 *)
(***************************************************************************)
EXTENDS ConfigProm, LinkedList, Framing, FiniteSetTheorems, SequenceTheorems, WellFoundedInduction, TLAPS

-----------------------------------------------------------------------------
(* The configuration: where the fields lie.                                *)

Bytes == {END, BLANK, "y", "a", "b"}
Typable == {"y", "a", "b"}

LEMMA FieldNames ==
    /\ Fields = {"user", "id", "wifi", "ssid", "pass"}
    /\ Len(Names) = 5
    /\ \A i \in 1 .. 5 : Names[i] \in Fields
<1>1. Fields = {Names[i] : i \in 1 .. 5} /\ Len(Names) = 5
  BY DEF Fields, ToSet, Names
<1>2. /\ Names[1] = "user" /\ Names[2] = "id" /\ Names[3] = "wifi"
      /\ Names[4] = "ssid" /\ Names[5] = "pass"
  BY DEF Names
<1>3. \A i \in 1 .. 5 : i = 1 \/ i = 2 \/ i = 3 \/ i = 4 \/ i = 5
  OBVIOUS
<1>4. Fields = {"user", "id", "wifi", "ssid", "pass"}
  BY <1>1, <1>2, <1>3
<1> QED BY <1>1, <1>4

LEMMA FieldPlaces ==
    /\ Addr("user") = 0 /\ Addr("id") = Field /\ Addr("ssid") = Field * 4
    /\ Addr("pass") = Field * 5 /\ Addr("wifi") = Field * 6
  BY ConfigAssumption DEF Addr

(* Fields do not share a cell, and lie within the EEPROM.                   *)
LEMMA FieldsApart ==
    ASSUME NEW f \in Fields
    PROVE  /\ Addr(f) \in Nat /\ Addr(f) <= Field * 6
           /\ \A g \in Fields : f # g => Addr(g) >= Addr(f) + Field \/ Addr(f) >= Addr(g) + Field
  BY FieldNames, FieldPlaces, ConfigAssumption

LEMMA InEeprom ==
    ASSUME NEW f \in Fields, NEW k \in Nat, k < Field \/ k <= MaxTyped
    PROVE  Addr(f) + k \in Cells
  BY FieldsApart, ConfigAssumption DEF Cells

(* The string s fits the field f of the EEPROM p and lies there.            *)
Holds(p, f, s) ==
    /\ Len(s) < Field
    /\ \A i \in 1 .. Len(s) : p[Addr(f) + i - 1] = s[i]
    /\ p[Addr(f) + Len(s)] = END

LEMMA HeldIsStored ==
    ASSUME NEW p, NEW f \in Fields, NEW s \in Seq(Typable), Holds(p, f, s)
    PROVE  Terminated(p, Addr(f)) /\ StringAt(p, Addr(f)) = s
<1> DEFINE Ends(b) == b >= Addr(f) /\ p[b] = END /\ \A c \in Addr(f) .. b - 1 : p[c] # END
<1>1. Len(s) \in Nat /\ Addr(f) \in Nat
  BY FieldsApart
<1>2. Addr(f) + Len(s) \in Cells
  BY <1>1, InEeprom DEF Holds
<1>3. \A c \in Addr(f) .. Addr(f) + Len(s) - 1 : p[c] # END
  <2> SUFFICES ASSUME NEW c \in Addr(f) .. Addr(f) + Len(s) - 1 PROVE p[c] # END
    OBVIOUS
  <2>1. PICK i \in 1 .. Len(s) : c = Addr(f) + i - 1
    <3>1. c - Addr(f) + 1 \in 1 .. Len(s) /\ c = Addr(f) + (c - Addr(f) + 1) - 1
      BY <1>1
    <3> QED BY <3>1
  <2>2. p[c] = s[i] /\ s[i] \in Typable
    BY <2>1 DEF Holds
  <2> QED BY <2>2 DEF Typable, END
<1>4. Ends(Addr(f) + Len(s))
  BY <1>1, <1>3 DEF Holds
<1>5. \A b \in Cells : Ends(b) => b = Addr(f) + Len(s)
  <2> SUFFICES ASSUME NEW b \in Cells, Ends(b), b # Addr(f) + Len(s) PROVE FALSE
    OBVIOUS
  <2>1. b \in Int
    BY DEF Cells
  <2>2. b < Addr(f) + Len(s) => b \in Addr(f) .. Addr(f) + Len(s) - 1
    BY <1>1, <2>1
  <2>3. b > Addr(f) + Len(s) => Addr(f) + Len(s) \in Addr(f) .. b - 1
    BY <1>1, <2>1
  <2> QED BY <1>1, <1>3, <1>4, <2>1, <2>2, <2>3
<1>6. (CHOOSE b \in Cells : Ends(b)) = Addr(f) + Len(s)
  BY <1>2, <1>4, <1>5
<1>7. StringAt(p, Addr(f)) = [i \in 1 .. (Addr(f) + Len(s)) - Addr(f) |-> p[Addr(f) + i - 1]]
  BY <1>6 DEF StringAt
<1>8. (Addr(f) + Len(s)) - Addr(f) = Len(s)
  BY <1>1
<1>9. s = [i \in 1 .. Len(s) |-> s[i]]
  OBVIOUS
<1>10. StringAt(p, Addr(f)) = s
  BY <1>7, <1>8, <1>9 DEF Holds
<1> QED BY <1>2, <1>4, <1>10 DEF Terminated

-----------------------------------------------------------------------------
(* The configuration: the invariant.                                       *)

Stages == {"power", "print", "ask", "type", "copy", "run", "hung"}

ConfigTypes ==
    /\ prom \in [Cells -> Bytes] /\ DOMAIN ram = Fields \ {"wifi"}
    /\ INTERFACE_TYPE \in {"WIFI", "PROXY"} /\ interface \in {"WIFI", "PROXY"}
    /\ stage \in Stages /\ field \in 1 .. Len(Names)
    /\ typed \in Seq(Typable) /\ Len(typed) <= MaxTyped
    /\ losses \in 0 .. MaxPowerLosses /\ wanted \in [Fields -> Seq(Typable)]
    /\ spilled \in BOOLEAN /\ tooLong \in BOOLEAN /\ torn \in SUBSET Fields

(* An EEPROM nobody has written has no end of a string anywhere: the board  *)
(* hangs in the first field it prints.                                      *)
Blank ==
    /\ \A a \in Cells : prom[a] = BLANK
    /\ stage \in {"power", "print", "hung"} /\ typed = <<>> /\ ~spilled
    /\ \A f \in Fields : wanted[f] = <<>>

(* Any other holds what was entered, but in a torn field and in the field   *)
(* being typed; there it holds what has been typed so far.                  *)
Entered == \A f \in Fields \ torn : (f = Names[field] => typed = <<>>) => Holds(prom, f, wanted[f])
Typing ==
    /\ Len(typed) < Field
    /\ \A i \in 1 .. Len(typed) : prom[Addr(Names[field]) + i - 1] = typed[i]
Idle == stage # "type" => typed = <<>>
(* The copies are made last, and power ends what follows.                   *)
SpilledLate == spilled => stage \in {"run", "power"}

ConfigInv ==
    /\ ConfigTypes
    /\ stage = "power" /\ losses = 0 => Blank
    /\ ~tooLong => Blank \/ (Entered /\ Typing /\ Idle)
    /\ OverrunExplained /\ SpilledLate

LEMMA ConfigSizes ==
    /\ Field \in Nat /\ Field > 1 /\ Field - 1 \in Nat
    /\ MaxTyped \in Nat /\ MaxPowerLosses \in Nat
<1>1. Field \in Nat \ {0, 1}
  BY ConfigAssumption
<1>2. MaxTyped \in Nat /\ MaxPowerLosses \in Nat
  BY ConfigAssumption
<1> QED BY <1>1, <1>2

LEMMA BlankHasNoEnd ==
    ASSUME Blank, NEW a PROVE ~Terminated(prom, a)
  BY DEF Blank, Terminated, BLANK, END

LEMMA ConfigInvInit == ConfigInit => ConfigInv
<1> SUFFICES ASSUME ConfigInit PROVE ConfigInv
  OBVIOUS
<1> USE DEF ConfigInit
<1>1. <<>> \in Seq(Typable) /\ Len(<<>>) = 0
  OBVIOUS
<1>2. ConfigTypes
  <2>1. prom \in [Cells -> Bytes] /\ wanted \in [Fields -> Seq(Typable)]
    BY <1>1 DEF Bytes
  <2>2. field \in 1 .. Len(Names) /\ Len(typed) <= MaxTyped /\ losses \in 0 .. MaxPowerLosses
    BY <1>1, FieldNames, ConfigSizes
  <2>3. DOMAIN ram = Fields \ {"wifi"}
    OBVIOUS
  <2> QED BY <1>1, <2>1, <2>2, <2>3 DEF ConfigTypes, Stages
<1>3. Blank
  BY DEF Blank
<1> QED BY <1>2, <1>3 DEF ConfigInv, OverrunExplained, SpilledLate

(* The EEPROMs a board may be delivered with.                               *)
LEMMA ErasedHolds ==
    /\ Erased \in [Cells -> Bytes]
    /\ \A f \in Fields : Holds(Erased, f, <<>>)
<1>1. Erased \in [Cells -> Bytes]
  BY DEF Erased, Bytes
<1>2. ASSUME NEW f \in Fields PROVE Holds(Erased, f, <<>>)
  <2>1. Addr(f) + 0 \in Cells
    BY InEeprom, ConfigAssumption
  <2> QED BY <2>1, ConfigAssumption DEF Holds, Erased
<1> QED BY <1>1, <1>2

LEMMA ConfiguredHolds ==
    /\ Configured \in [Cells -> Bytes]
    /\ \A f \in Fields : StringAt(Configured, Addr(f)) \in Seq(Typable)
                         /\ Holds(Configured, f, StringAt(Configured, Addr(f)))
<1>1. Configured \in [Cells -> Bytes]
  BY DEF Configured, Bytes
<1>2. ASSUME NEW f \in Fields
      PROVE  StringAt(Configured, Addr(f)) \in Seq(Typable)
             /\ Holds(Configured, f, StringAt(Configured, Addr(f)))
  <2> DEFINE s == [i \in 1 .. Field - 1 |-> IF i = 1 /\ f = "wifi" THEN "y" ELSE "a"]
  <2>1. s \in Seq(Typable) /\ Len(s) = Field - 1
    BY ConfigSizes DEF Typable
  <2>2. \A i \in 1 .. Field - 1 : s[i] = IF i = 1 /\ f = "wifi" THEN "y" ELSE "a"
    OBVIOUS
  <2> HIDE DEF s
  <2>3. Addr(f) \in Nat /\ Addr("wifi") \in Nat /\ "wifi" \in Fields
    BY FieldsApart, FieldNames, FieldPlaces, ConfigSizes
  <2>4. ASSUME NEW i \in 1 .. Field - 1 PROVE Configured[Addr(f) + i - 1] = s[i]
    <3>1. Addr(f) + i - 1 \in Cells
      <4>1. i - 1 \in Nat /\ i - 1 < Field
        BY ConfigSizes
      <4>2. Addr(f) + (i - 1) = Addr(f) + i - 1
        BY <2>3
      <4> QED BY <4>1, <4>2, InEeprom
    <3>2. Addr(f) + i - 1 - Addr(f) \in 0 .. Field - 2
      BY <2>3, ConfigSizes
    <3>3. Addr(f) + i - 1 = Addr("wifi") <=> i = 1 /\ f = "wifi"
      <4>1. f = "wifi" => (Addr(f) + i - 1 = Addr("wifi") <=> i = 1)
        BY <2>3
      <4>2. f # "wifi" => Addr("wifi") >= Addr(f) + Field
        BY FieldsApart, FieldPlaces, FieldNames, ConfigSizes
      <4>3. f # "wifi" => Addr(f) + i - 1 < Addr("wifi")
        BY <4>2, <2>3, ConfigSizes
      <4> QED BY <4>1, <4>3, <2>3
    <3>4. Configured[Addr(f) + i - 1] = IF Addr(f) + i - 1 = Addr("wifi") THEN "y" ELSE "a"
      <4>1. ASSUME NEW a \in Cells, a - Addr(f) \in 0 .. Field - 2
            PROVE  Configured[a] = IF a = Addr("wifi") THEN "y" ELSE "a"
        BY <4>1 DEF Configured
      <4>2. PICK a \in Cells : a = Addr(f) + i - 1
        BY <3>1
      <4>3. a - Addr(f) \in 0 .. Field - 2
        BY <2>3, <4>2, ConfigSizes
      <4>4. Configured[a] = IF a = Addr("wifi") THEN "y" ELSE "a"
        BY <4>1, <4>3
      <4> QED BY <4>2, <4>4
    <3> QED BY <3>3, <3>4, <2>2
  <2>5. Configured[Addr(f) + Len(s)] = END
    <3> DEFINE e == Addr(f) + (Field - 1)
    <3>1. e \in Cells /\ e \in Nat
      BY <2>3, InEeprom, ConfigSizes
    <3>2. \A g \in Fields : e - Addr(g) \notin 0 .. Field - 2
      <4> SUFFICES ASSUME NEW g \in Fields PROVE e - Addr(g) \notin 0 .. Field - 2
        OBVIOUS
      <4>1. Addr(g) \in Nat
        BY FieldsApart
      <4>2. f = g \/ Addr(g) >= Addr(f) + Field \/ Addr(f) >= Addr(g) + Field
        BY FieldsApart
      <4> QED BY <4>1, <4>2, <2>3, ConfigSizes
    <3>3. e # Addr("wifi")
      <4>1. Addr("wifi") - Addr("wifi") \in 0 .. Field - 2
        BY <2>3, ConfigSizes
      <4> QED BY <3>2, <4>1, <2>3
    <3>4. e = Addr(f) + Len(s)
      BY <2>1
    <3> HIDE DEF e
    <3>5. Configured[e] = END
      BY <3>1, <3>2, <3>3 DEF Configured
    <3> QED BY <3>4, <3>5
  <2>6. Holds(Configured, f, s)
    BY <2>1, <2>4, <2>5, ConfigSizes DEF Holds
  <2> QED BY <2>1, <2>6, HeldIsStored
<1> QED BY <1>1, <1>2

-----------------------------------------------------------------------------
(* The configuration: every step keeps the invariant.                      *)

LEMMA PowerOnKeeps == ConfigInv /\ PowerOnReset => ConfigInv'
<1> SUFFICES ASSUME ConfigInv, PowerOnReset PROVE ConfigInv'
  OBVIOUS
<1> USE DEF PowerOnReset
<1>1. ConfigTypes
  BY DEF ConfigInv
<1>2. <<>> \in Seq(Typable) /\ Len(<<>>) = 0 /\ 1 \in 1 .. Len(Names)
  BY FieldNames
<1>3. prom' \in [Cells -> Bytes] /\ wanted' \in [Fields -> Seq(Typable)]
  <2>1. CASE UNCHANGED <<prom, wanted>>
    BY <1>1, <2>1 DEF ConfigTypes
  <2>2. CASE prom' = Erased /\ UNCHANGED wanted
    BY <1>1, <2>2, ErasedHolds DEF ConfigTypes
  <2>3. CASE prom' = Configured /\ wanted' = [f \in Fields |-> StringAt(prom', Addr(f))]
    BY <2>3, ConfiguredHolds
  <2> QED BY <2>1, <2>2, <2>3
<1>4. ConfigTypes'
  <2>1. DOMAIN ram' = Fields \ {"wifi"}
    OBVIOUS
  <2>2. Len(typed') <= MaxTyped
    BY <1>2, ConfigSizes
  <2> QED BY <1>1, <1>2, <1>3, <2>1, <2>2 DEF ConfigTypes, Stages
<1>5. stage' # "power" /\ typed' = <<>> /\ ~spilled' /\ (Typing /\ Idle)'
  BY <1>2, ConfigSizes DEF Typing, Idle
<1>6. ~tooLong' => Blank' \/ (Entered /\ Typing /\ Idle)'
  <2> SUFFICES ASSUME ~tooLong PROVE Blank' \/ Entered'
    BY <1>5
  <2>1. CASE UNCHANGED <<prom, wanted>>
    <3>1. CASE Blank
      BY <2>1, <3>1 DEF Blank
    <3>2. CASE Entered /\ Idle
      BY <2>1, <3>2 DEF Entered, Idle
    <3> QED BY <3>1, <3>2 DEF ConfigInv
  <2>2. CASE losses = 0 /\ prom' = Erased /\ UNCHANGED wanted
    BY <2>2, ErasedHolds DEF ConfigInv, Blank, Entered
  <2>3. CASE prom' = Configured /\ wanted' = [f \in Fields |-> StringAt(prom', Addr(f))]
    BY <2>3, ConfiguredHolds DEF Entered
  <2> QED BY <2>1, <2>2, <2>3
<1> QED BY <1>4, <1>5, <1>6 DEF ConfigInv, OverrunExplained, SpilledLate

(* A step that only goes on in the program, outside the dialog or into it.  *)
LEMMA GoingOnKeeps ==
    ASSUME ConfigInv, UNCHANGED <<prom, ram, spilled, typed, losses, wanted, tooLong, torn>>,
           ConfigTypes', stage \in {"print", "ask"}, stage' # "power",
           ~Blank \/ stage' \in {"print", "hung"}
    PROVE  ConfigInv'
<1>1. ~tooLong' => Blank' \/ (Entered /\ Typing /\ Idle)'
  <2> SUFFICES ASSUME ~tooLong PROVE Blank' \/ (Entered /\ Typing /\ Idle)'
    OBVIOUS
  <2>1. CASE Blank
    BY <2>1 DEF Blank
  <2>2. CASE Entered /\ Idle
    <3>1. typed = <<>> /\ Len(typed) = 0
      BY <2>2 DEF Idle
    <3>2. Entered' /\ Idle'
      BY <2>2, <3>1 DEF Entered, Idle
    <3>3. Typing'
      BY <3>1, ConfigSizes DEF Typing
    <3> QED BY <3>2, <3>3
  <2> QED BY <2>1, <2>2 DEF ConfigInv
<1> QED BY <1>1 DEF ConfigInv, OverrunExplained, SpilledLate

LEMMA PrintItemKeeps == ConfigInv /\ PrintItem => ConfigInv'
<1> SUFFICES ASSUME ConfigInv, PrintItem PROVE ConfigInv'
  OBVIOUS
<1>1. ConfigTypes'
  BY FieldNames DEF ConfigInv, ConfigTypes, PrintItem, Hist, Stages
<1>2. ~Blank \/ stage' \in {"print", "hung"}
  BY BlankHasNoEnd DEF PrintItem
<1>3. UNCHANGED <<prom, ram, spilled, typed, losses, wanted, tooLong, torn>> /\ stage = "print"
  BY DEF PrintItem, Hist
<1>4. stage' # "power"
  BY DEF PrintItem
<1> QED BY <1>1, <1>2, <1>3, <1>4, GoingOnKeeps

LEMMA PrintDefaultsKeeps == ConfigInv /\ PrintDefaults => ConfigInv'
<1> SUFFICES ASSUME ConfigInv, PrintDefaults PROVE ConfigInv'
  OBVIOUS
<1>1. ConfigTypes'
  BY DEF ConfigInv, ConfigTypes, PrintDefaults, RamAndMode, Hist, Stages
<1>2. ~Blank
  <2>1. "user" \in Fields /\ Addr("user") + 0 = 0
    BY FieldNames, FieldPlaces
  <2>2. 0 \in Cells
    BY <2>1, InEeprom, ConfigSizes
  <2> QED BY <2>2 DEF PrintDefaults, Blank, BLANK, END
<1>3. /\ UNCHANGED <<prom, ram, spilled, typed, losses, wanted, tooLong, torn>>
      /\ stage = "print" /\ stage' # "power"
  BY DEF PrintDefaults, RamAndMode, Hist
<1> QED BY <1>1, <1>2, <1>3, GoingOnKeeps

LEMMA changePromKeeps == ConfigInv /\ changeProm => ConfigInv'
<1> SUFFICES ASSUME ConfigInv, changeProm PROVE ConfigInv'
  OBVIOUS
<1>1. ConfigTypes'
  BY DEF ConfigInv, ConfigTypes, changeProm, RamAndMode, Hist, Stages
<1>2. ~Blank
  BY DEF changeProm, Blank
<1>3. /\ UNCHANGED <<prom, ram, spilled, typed, losses, wanted, tooLong, torn>>
      /\ stage = "ask" /\ stage' # "power"
  BY DEF changeProm, RamAndMode, Hist
<1> QED BY <1>1, <1>2, <1>3, GoingOnKeeps

(* A byte written within one field leaves the others as they are.           *)
LEMMA WrittenElsewhere ==
    ASSUME NEW p \in [Cells -> Bytes], NEW f \in Fields, NEW g \in Fields, g # f,
           NEW k \in 0 .. Field - 1, NEW c, NEW s \in Seq(Typable), Holds(p, g, s)
    PROVE  Holds([p EXCEPT ![Addr(f) + k] = c], g, s)
<1> DEFINE q == [p EXCEPT ![Addr(f) + k] = c]
<1>1. Len(s) \in Nat /\ Len(s) < Field
  BY DEF Holds
<1>2. ASSUME NEW j \in 0 .. Field - 1 PROVE q[Addr(g) + j] = p[Addr(g) + j]
  <2>1. Addr(g) + j \in Cells
    BY InEeprom, ConfigSizes
  <2>2. Addr(f) + k # Addr(g) + j
    BY FieldsApart, ConfigSizes
  <2> QED BY <2>1, <2>2
<1> HIDE DEF q
<1>3. q[Addr(g) + Len(s)] = p[Addr(g) + Len(s)]
  BY <1>1, <1>2, ConfigSizes
<1>4. ASSUME NEW i \in 1 .. Len(s) PROVE q[Addr(g) + i - 1] = p[Addr(g) + i - 1]
  <2>1. i - 1 \in 0 .. Field - 1 /\ Addr(g) + (i - 1) = Addr(g) + i - 1
    BY <1>1, FieldsApart, ConfigSizes
  <2> QED BY <2>1, <1>2
<1>5. Holds(q, g, s)
  BY <1>3, <1>4 DEF Holds
<1> QED BY <1>5 DEF q

LEMMA TypeKeeps ==
    ASSUME ConfigInv, NEW c \in Keys, Type(c) PROVE ConfigInv'
<1> DEFINE f == Names[field]
           k == Len(typed)
<1>1. f \in Fields /\ k \in Nat /\ k < MaxTyped /\ typed \in Seq(Typable)
  BY FieldNames DEF ConfigInv, ConfigTypes, Type
<1>2. c \in Typable
  BY DEF Keys, Typable
<1>3. Addr(f) + k \in Cells
  <2>1. k <= MaxTyped
    BY <1>1, ConfigSizes
  <2> HIDE DEF f, k
  <2> QED BY <1>1, <2>1, InEeprom
<1>4. prom' = [prom EXCEPT ![Addr(f) + k] = c] /\ typed' = Append(typed, c)
  BY DEF Type, Write, Here
<1>5. typed' \in Seq(Typable) /\ Len(typed') = k + 1
  BY <1>1, <1>2, <1>4
<1>6. ConfigTypes'
  <2>1. prom' \in [Cells -> Bytes]
    BY <1>2, <1>3, <1>4 DEF ConfigInv, ConfigTypes, Bytes, Typable
  <2>2. Len(typed') <= MaxTyped
    BY <1>1, <1>5, ConfigSizes
  <2> QED BY <1>5, <2>1, <2>2 DEF ConfigInv, ConfigTypes, Type, RamAndMode
<1>7. ~tooLong' => Blank' \/ (Entered /\ Typing /\ Idle)'
  <2> SUFFICES ASSUME ~tooLong' PROVE (Entered /\ Typing /\ Idle)'
    OBVIOUS
  <2>1. ~tooLong /\ Len(typed') < Field
    <3>1. ~(tooLong \/ Len(typed') >= Field)
      BY DEF Type
    <3>2. Len(typed') \in Nat
      BY <1>1, <1>5
    <3> QED BY <3>1, <3>2, ConfigSizes
  <2>2. ~Blank
    BY DEF Type, Blank
  <2>3. Entered /\ Typing
    BY <2>1, <2>2 DEF ConfigInv
  <2>4. ASSUME NEW g \in Fields \ torn, g # f PROVE Holds(prom', g, wanted'[g])
    <3>1. Holds(prom, g, wanted[g]) /\ wanted'[g] = wanted[g]
      BY <2>3, <2>4 DEF Entered, Type
    <3>2. k \in 0 .. Field - 1
      BY <2>1, <1>1, <1>5, ConfigSizes
    <3>3. prom \in [Cells -> Bytes] /\ wanted[g] \in Seq(Typable)
      BY DEF ConfigInv, ConfigTypes
    <3> HIDE DEF f, k
    <3>4. Holds([prom EXCEPT ![Addr(f) + k] = c], g, wanted[g])
      BY <3>1, <3>2, <3>3, <2>4, <1>1, WrittenElsewhere
    <3> QED BY <3>1, <3>4, <1>4
  <2>5. Entered'
    <3>1. typed' # <<>> /\ UNCHANGED <<field, torn>>
      BY <1>1, <1>5 DEF Type
    <3> QED BY <2>4, <3>1 DEF Entered
  <2>6. Typing'
    <3> SUFFICES ASSUME NEW i \in 1 .. k + 1 PROVE prom'[Addr(f) + i - 1] = typed'[i]
      BY <1>5, <2>1 DEF Typing, Type
    <3>1. CASE i = k + 1
      <4>1. Addr(f) + i - 1 = Addr(f) + k
        BY <3>1, <1>1, FieldsApart
      <4> QED BY <3>1, <4>1, <1>1, <1>3, <1>4 DEF ConfigInv, ConfigTypes
    <3>2. CASE i # k + 1
      <4>1. i \in 1 .. k /\ typed'[i] = typed[i]
        BY <3>2, <1>1, <1>4
      <4>2. Addr(f) + i - 1 # Addr(f) + k
        BY <4>1, <1>1, FieldsApart
      <4>3. i - 1 \in Nat /\ i - 1 <= MaxTyped /\ Addr(f) + (i - 1) = Addr(f) + i - 1
        BY <4>1, <1>1, FieldsApart, ConfigSizes
      <4>4. Addr(f) + i - 1 \in Cells
        BY <4>3, <1>1, InEeprom
      <4>5. prom[Addr(f) + i - 1] = typed[i]
        BY <2>3, <4>1 DEF Typing
      <4> QED BY <4>1, <4>2, <4>4, <4>5, <1>4 DEF ConfigInv, ConfigTypes
    <3> QED BY <3>1, <3>2
  <2>7. Idle'
    BY DEF Idle, Type
  <2> QED BY <2>5, <2>6, <2>7
<1>8. stage' # "power"
  BY DEF Type
<1>9. OverrunExplained' /\ SpilledLate'
  BY <1>1 DEF ConfigInv, ConfigTypes, OverrunExplained, SpilledLate, Type, RamAndMode
<1> QED BY <1>6, <1>7, <1>8, <1>9 DEF ConfigInv

LEMMA BangKeeps == ConfigInv /\ Bang => ConfigInv'
<1> SUFFICES ASSUME ConfigInv, Bang PROVE ConfigInv'
  OBVIOUS
<1> DEFINE f == Names[field]
           k == Len(typed)
<1>1. /\ f \in Fields /\ k \in Nat /\ k <= MaxTyped /\ typed \in Seq(Typable)
      /\ prom \in [Cells -> Bytes] /\ wanted \in [Fields -> Seq(Typable)]
      /\ field \in 1 .. 5 /\ stage = "type"
  BY FieldNames DEF ConfigInv, ConfigTypes, Bang
<1>2. typed' = <<>> /\ <<>> \in Seq(Typable) /\ Len(<<>>) = 0
  BY DEF Bang
<1>3. Addr(f) + k \in Cells
  <2> HIDE DEF f, k
  <2> QED BY <1>1, InEeprom
<1>4. /\ stage' \in {"hung", "copy", "type"}
      /\ field' \in 1 .. Len(Names)
  BY <1>1, FieldNames DEF Bang, NextField
<1>5. \/ typed = <<>> /\ UNCHANGED <<prom, wanted, torn>>
      \/ /\ typed # <<>> /\ prom' = [prom EXCEPT ![Addr(f) + k] = END]
         /\ wanted' = [wanted EXCEPT ![f] = typed] /\ torn' = torn \ {f}
  BY DEF Bang, Write, Here, Ended
<1>6. ConfigTypes'
  <2>1. prom' \in [Cells -> Bytes] /\ wanted' \in [Fields -> Seq(Typable)]
    BY <1>1, <1>3, <1>5 DEF Bytes
  <2>2. Len(typed') <= MaxTyped
    BY <1>2, ConfigSizes
  <2>3. UNCHANGED <<RamAndMode, losses, tooLong>>
    BY DEF Bang
  <2>4. torn' \in SUBSET Fields
    BY <1>5 DEF ConfigInv, ConfigTypes
  <2> QED BY <1>2, <1>4, <2>1, <2>2, <2>3, <2>4 DEF ConfigInv, ConfigTypes, RamAndMode, Stages
<1>7. UNCHANGED <<spilled, tooLong>>
  BY DEF Bang, RamAndMode
<1>8. ASSUME ~tooLong PROVE (Entered /\ Typing /\ Idle)'
  <2>1. Entered /\ Typing
    BY <1>1, <1>8 DEF ConfigInv, Blank
  <2>2. ASSUME NEW g \in Fields \ torn' PROVE Holds(prom', g, wanted'[g])
    <3>1. CASE typed = <<>>
      BY <3>1, <2>1, <1>5 DEF Entered
    <3>2. CASE typed # <<>> /\ g # f
      <4>1. Holds(prom, g, wanted[g]) /\ wanted'[g] = wanted[g]
        BY <3>2, <2>1, <1>1, <1>5 DEF Entered
      <4>2. k \in 0 .. Field - 1
        BY <2>1, <1>1, ConfigSizes DEF Typing
      <4>3. wanted[g] \in Seq(Typable)
        BY <1>1
      <4> HIDE DEF f, k
      <4>4. Holds([prom EXCEPT ![Addr(f) + k] = END], g, wanted[g])
        BY <4>1, <4>2, <4>3, <3>2, <1>1, WrittenElsewhere
      <4> QED BY <4>1, <4>4, <3>2, <1>5
    <3>3. CASE typed # <<>> /\ g = f
      <4>1. wanted'[g] = typed /\ prom' = [prom EXCEPT ![Addr(f) + k] = END] /\ k < Field
        BY <3>3, <2>1, <1>1, <1>5 DEF Typing
      <4>2. prom'[Addr(f) + k] = END
        BY <4>1, <1>1, <1>3
      <4>3. ASSUME NEW i \in 1 .. k PROVE prom'[Addr(f) + i - 1] = typed[i]
        <5>1. Addr(f) + i - 1 # Addr(f) + k
          BY <1>1, FieldsApart
        <5>2. i - 1 \in Nat /\ i - 1 < Field /\ Addr(f) + (i - 1) = Addr(f) + i - 1
          BY <4>1, <1>1, FieldsApart, ConfigSizes
        <5>3. Addr(f) + i - 1 \in Cells
          BY <5>2, <1>1, InEeprom
        <5>4. prom[Addr(f) + i - 1] = typed[i]
          BY <2>1 DEF Typing
        <5> QED BY <5>1, <5>3, <5>4, <4>1, <1>1
      <4> QED BY <4>1, <4>2, <4>3, <3>3 DEF Holds
    <3> QED BY <3>1, <3>2, <3>3
  <2>3. Typing'
    BY <1>2, ConfigSizes DEF Typing
  <2> QED BY <2>2, <2>3, <1>2 DEF Entered, Idle
<1>9. OverrunExplained' /\ SpilledLate'
  <2>1. ~spilled
    BY <1>1 DEF ConfigInv, SpilledLate
  <2> QED BY <1>7, <2>1 DEF SpilledLate, OverrunExplained
<1> QED BY <1>1, <1>4, <1>6, <1>7, <1>8, <1>9 DEF ConfigInv

LEMMA CopyAllKeeps == ConfigInv /\ CopyAll => ConfigInv'
<1> SUFFICES ASSUME ConfigInv, CopyAll PROVE ConfigInv'
  OBVIOUS
<1>1. UNCHANGED <<prom, typed, losses, wanted, tooLong, torn, field>> /\ stage = "copy"
  BY DEF CopyAll, Hist
<1>2. stage' \in {"run", "hung"} /\ DOMAIN ram = Fields \ {"wifi"}
  BY DEF CopyAll, ConfigInv, ConfigTypes
<1>3. ConfigTypes'
  BY <1>1, <1>2 DEF ConfigInv, ConfigTypes, CopyAll, Stages
<1>4. ASSUME ~tooLong PROVE (Entered /\ Typing /\ Idle)' /\ (spilled' => spilled \/ torn # {})
  <2>1. Entered /\ Typing /\ typed = <<>>
    BY <1>1, <1>4 DEF ConfigInv, Blank, Idle
  <2>2. (Entered /\ Typing /\ Idle)'
    BY <2>1, <1>1 DEF Entered, Typing, Idle
  <2>3. ASSUME torn = {}, NEW f \in DOMAIN ram PROVE ~(Len(Stored(f)) >= Field)
    <3>1. f \in Fields /\ wanted[f] \in Seq(Typable)
      BY <1>2 DEF ConfigInv, ConfigTypes
    <3>2. Holds(prom, f, wanted[f])
      BY <3>1, <2>1, <2>3 DEF Entered
    <3>3. Stored(f) = wanted[f] /\ Len(wanted[f]) < Field
      BY <3>1, <3>2, HeldIsStored DEF Stored, Holds
    <3> QED BY <3>1, <3>3, ConfigSizes
  <2>4. spilled' => spilled \/ torn # {}
    BY <2>3 DEF CopyAll
  <2> QED BY <2>2, <2>4
<1>5. OverrunExplained' /\ SpilledLate'
  <2>1. ~spilled
    BY <1>1 DEF ConfigInv, SpilledLate
  <2>2. spilled' => stage' = "run"
    BY <2>1 DEF CopyAll
  <2>3. spilled' => tooLong' \/ torn' # {}
    BY <1>1, <1>4, <2>1
  <2> QED BY <2>2, <2>3 DEF OverrunExplained, SpilledLate
<1> QED BY <1>1, <1>2, <1>3, <1>4, <1>5 DEF ConfigInv

LEMMA PowerLossKeeps == ConfigInv /\ PowerLoss => ConfigInv'
<1> SUFFICES ASSUME ConfigInv, PowerLoss PROVE ConfigInv'
  OBVIOUS
<1>1. /\ UNCHANGED <<prom, RamAndMode, field, wanted, tooLong>> /\ typed' = <<>>
      /\ stage' = "power" /\ losses' = losses + 1 /\ losses < MaxPowerLosses
      /\ torn' = (IF typed = <<>> THEN torn ELSE torn \cup {Names[field]})
  BY DEF PowerLoss
<1>2. losses' \in 0 .. MaxPowerLosses /\ losses' # 0
  BY <1>1, ConfigSizes DEF ConfigInv, ConfigTypes
<1>3. ConfigTypes'
  <2>1. typed' \in Seq(Typable) /\ Len(typed') <= MaxTyped
    BY <1>1, ConfigSizes
  <2>2. torn' \in SUBSET Fields
    BY <1>1, FieldNames DEF ConfigInv, ConfigTypes
  <2> QED BY <1>1, <1>2, <2>1, <2>2 DEF ConfigInv, ConfigTypes, RamAndMode, Stages
<1>4. ~tooLong' => Blank' \/ (Entered /\ Typing /\ Idle)'
  <2> SUFFICES ASSUME ~tooLong PROVE Blank' \/ (Entered /\ Typing /\ Idle)'
    BY <1>1
  <2>1. Blank => Blank'
    BY <1>1 DEF Blank, RamAndMode
  <2>2. Entered /\ Typing /\ Idle => (Entered /\ Typing /\ Idle)'
    <3> SUFFICES ASSUME Entered PROVE (Entered /\ Typing /\ Idle)'
      OBVIOUS
    <3>1. Typing' /\ Idle'
      BY <1>1, ConfigSizes DEF Typing, Idle
    <3>2. ASSUME NEW g \in Fields \ torn' PROVE Holds(prom', g, wanted'[g])
      <4>1. g \in Fields \ torn /\ (g = Names[field] => typed = <<>>)
        BY <1>1
      <4>2. Holds(prom, g, wanted[g])
        BY <4>1 DEF Entered
      <4> QED BY <1>1, <4>2
    <3> QED BY <3>1, <3>2 DEF Entered
  <2> QED BY <2>1, <2>2 DEF ConfigInv
<1>5. OverrunExplained' /\ SpilledLate'
  BY <1>1 DEF ConfigInv, OverrunExplained, SpilledLate, RamAndMode
<1> QED BY <1>2, <1>3, <1>4, <1>5 DEF ConfigInv

LEMMA ConfigStutterKeeps == ConfigInv /\ UNCHANGED configVars => ConfigInv'
<1> SUFFICES ASSUME ConfigInv, UNCHANGED configVars PROVE ConfigInv'
  OBVIOUS
<1> USE DEF configVars
<1>1. ConfigTypes'
  BY DEF ConfigInv, ConfigTypes
<1>2. (Blank' <=> Blank) /\ (Entered' <=> Entered) /\ (Typing' <=> Typing) /\ (Idle' <=> Idle)
  BY DEF Blank, Entered, Typing, Idle
<1>3. OverrunExplained' /\ SpilledLate'
  BY DEF ConfigInv, OverrunExplained, SpilledLate
<1> QED BY <1>1, <1>2, <1>3 DEF ConfigInv

LEMMA ConfigInvKept == ConfigInv /\ [ConfigNext]_configVars => ConfigInv'
  BY PowerOnKeeps, PrintItemKeeps, PrintDefaultsKeeps, changePromKeeps, TypeKeeps, BangKeeps,
     CopyAllKeeps, PowerLossKeeps, ConfigStutterKeeps DEF ConfigNext, Boot

(* What the invariant says of the strings.                                  *)
LEMMA ConfigInvImplies == ConfigInv => ConfigSound
<1> SUFFICES ASSUME ConfigInv PROVE ConfigSound
  OBVIOUS
<1>1. ConfigTypeOK
  BY DEF ConfigInv, ConfigTypes, ConfigTypeOK, Bytes, Stages
<1>2. StringsKept
  <2> SUFFICES ASSUME ~tooLong, NEW f \in Fields \ torn, wanted[f] # <<>>,
                      f = Names[field] => typed = <<>>
               PROVE  Stored(f) = wanted[f]
    BY DEF StringsKept
  <2>1. Holds(prom, f, wanted[f])
    BY DEF ConfigInv, Blank, Entered
  <2>2. wanted[f] \in Seq(Typable)
    BY DEF ConfigInv, ConfigTypes
  <2> QED BY <2>1, <2>2, HeldIsStored DEF Stored
<1> QED BY <1>1, <1>2 DEF ConfigInv, ConfigSound

(* What the user has entered for a field is what the EEPROM holds, whatever *)
(* is entered after it and wherever power is lost, as long as it is not     *)
(* lost within that field; and a copy in RAM is written past its end only   *)
(* for a string that was too long or torn like that (Config.cpp:42).        *)
THEOREM ConfigSoundThm == ConfigSpec => []ConfigSound
<1>1. ConfigInit => ConfigInv
  BY ConfigInvInit
<1>2. ConfigInv /\ [ConfigNext]_configVars => ConfigInv'
  BY ConfigInvKept
<1>3. ConfigInv => ConfigSound
  BY ConfigInvImplies
<1> QED BY <1>1, <1>2, <1>3, PTL DEF ConfigSpec

-----------------------------------------------------------------------------
(* Numbers one after the other.                                            *)

Lower == {p \in Nat \X Nat : p[1] < p[2]}

LEMMA LowerIsWellFounded == IsWellFoundedOn(Lower, Nat)
  BY NatLessThanWellFounded DEF OpToRel, Lower

(* Induction, over a set instead of a formula.                              *)
LEMMA AllNumbers ==
    ASSUME NEW T \in SUBSET Nat, 0 \in T, \A n \in T : n + 1 \in T
    PROVE  T = Nat
<1> SUFFICES ASSUME Nat \ T # {} PROVE FALSE
  OBVIOUS
<1>1. PICK x \in Nat \ T : \A y \in Nat \ T : <<y, x>> \notin Lower
  BY LowerIsWellFounded, WFMin
<1>2. x # 0
  OBVIOUS
<1>3. x - 1 \in Nat /\ <<x - 1, x>> \in Lower /\ x = (x - 1) + 1
  BY <1>2 DEF Lower
<1> QED BY <1>1, <1>3

LEMMA LeastNumber ==
    ASSUME NEW T \in SUBSET Nat, T # {}
    PROVE  \E x \in T : \A y \in T : x <= y
<1>1. PICK x \in T : \A y \in T : <<y, x>> \notin Lower
  BY LowerIsWellFounded, WFMin
<1>2. ASSUME NEW y \in T PROVE x <= y
  <2>1. x \in Nat /\ y \in Nat /\ (y < x => <<y, x>> \in Lower)
    BY DEF Lower
  <2> QED BY <1>1, <2>1
<1> QED BY <1>2

-----------------------------------------------------------------------------
(* The keyword list: its nodes in their order.                             *)

(* The nodes in A, each once.                                               *)
Enumerates(s, n, A) ==
    /\ s \in [1 .. n -> A]
    /\ \A i, j \in 1 .. n : s[i] = s[j] => i = j
    /\ \A m \in A : \E i \in 1 .. n : s[i] = m

Put(s, n, p, x) ==
    [i \in 1 .. n + 1 |-> IF i < p THEN s[i] ELSE IF i = p THEN x ELSE s[i - 1]]
Taken(s, n, p) == [i \in 1 .. n - 1 |-> IF i < p THEN s[i] ELSE s[i + 1]]

LEMMA PutAt ==
    ASSUME NEW s, NEW n \in Nat, NEW p \in 1 .. n + 1, NEW x
    PROVE  /\ DOMAIN Put(s, n, p, x) = 1 .. n + 1
           /\ Put(s, n, p, x)[p] = x
           /\ \A i \in 1 .. n : i < p => Put(s, n, p, x)[i] = s[i]
           /\ \A i \in 1 .. n : i >= p => Put(s, n, p, x)[i + 1] = s[i]
<1> DEFINE t == Put(s, n, p, x)
<1>1. \A i \in 1 .. n + 1 : t[i] = IF i < p THEN s[i] ELSE IF i = p THEN x ELSE s[i - 1]
  BY DEF Put
<1>2. DOMAIN t = 1 .. n + 1
  BY DEF Put
<1> HIDE DEF t
<1>3. t[p] = x
  BY <1>1
<1>4. ASSUME NEW i \in 1 .. n, i < p PROVE t[i] = s[i]
  BY <1>1, <1>4
<1>5. ASSUME NEW i \in 1 .. n, i >= p PROVE t[i + 1] = s[i]
  <2>1. i + 1 \in 1 .. n + 1 /\ ~(i + 1 < p) /\ i + 1 # p /\ (i + 1) - 1 = i
    BY <1>5
  <2> QED BY <1>1, <2>1
<1>6. DOMAIN t = 1 .. n + 1 /\ t[p] = x
  BY <1>2, <1>3
<1> QED BY <1>4, <1>5, <1>6 DEF t

(* Every place but p is the old place i, where it was or one further on.    *)
LEMMA PutPlaces ==
    ASSUME NEW n \in Nat, NEW p \in 1 .. n + 1, NEW k \in 1 .. n + 1, k # p
    PROVE  \E i \in 1 .. n : (i < p /\ k = i) \/ (i >= p /\ k = i + 1)
<1>1. CASE k < p
  <2>1. k \in 1 .. n
    BY <1>1
  <2> QED BY <1>1, <2>1
<1>2. CASE k > p
  <2>1. k - 1 \in 1 .. n /\ k - 1 >= p /\ k = (k - 1) + 1
    BY <1>2
  <2> QED BY <2>1
<1> QED BY <1>1, <1>2

LEMMA PutEnumerates ==
    ASSUME NEW A, NEW s, NEW n \in Nat, NEW p \in 1 .. n + 1, NEW x,
           Enumerates(s, n, A), x \notin A
    PROVE  Enumerates(Put(s, n, p, x), n + 1, A \cup {x})
<1> DEFINE t == Put(s, n, p, x)
<1>1. /\ DOMAIN t = 1 .. n + 1 /\ t[p] = x
      /\ \A i \in 1 .. n : i < p => t[i] = s[i]
      /\ \A i \in 1 .. n : i >= p => t[i + 1] = s[i]
  BY PutAt
<1>2. t = [k \in DOMAIN t |-> t[k]]
  BY DEF Put
<1> HIDE DEF t
<1>3. \A i \in 1 .. n : s[i] \in A
  BY DEF Enumerates
<1>4. ASSUME NEW k \in 1 .. n + 1, k # p
      PROVE  \E i \in 1 .. n : t[k] = s[i] /\ ((i < p /\ k = i) \/ (i >= p /\ k = i + 1))
  <2>1. PICK i \in 1 .. n : (i < p /\ k = i) \/ (i >= p /\ k = i + 1)
    BY <1>4, PutPlaces
  <2>2. t[k] = s[i]
    BY <2>1, <1>1
  <2> QED BY <2>1, <2>2
<1>5. \A k \in 1 .. n + 1 : t[k] \in A \cup {x}
  BY <1>1, <1>3, <1>4
<1>6. t \in [1 .. n + 1 -> A \cup {x}]
  BY <1>1, <1>2, <1>5
<1>7. ASSUME NEW k \in 1 .. n + 1, NEW l \in 1 .. n + 1, t[k] = t[l] PROVE k = l
  <2>1. CASE k = p /\ l = p
    BY <2>1
  <2>2. CASE k = p /\ l # p
    BY <1>1, <1>3, <1>4, <1>7, <2>2
  <2>3. CASE k # p /\ l = p
    BY <1>1, <1>3, <1>4, <1>7, <2>3
  <2>4. CASE k # p /\ l # p
    <3>1. PICK i \in 1 .. n : t[k] = s[i] /\ ((i < p /\ k = i) \/ (i >= p /\ k = i + 1))
      BY <1>4, <2>4
    <3>2. PICK j \in 1 .. n : t[l] = s[j] /\ ((j < p /\ l = j) \/ (j >= p /\ l = j + 1))
      BY <1>4, <2>4
    <3>3. i = j
      BY <3>1, <3>2, <1>7 DEF Enumerates
    <3> QED BY <3>1, <3>2, <3>3
  <2> QED BY <2>1, <2>2, <2>3, <2>4
<1>8. ASSUME NEW m \in A \cup {x} PROVE \E k \in 1 .. n + 1 : t[k] = m
  <2>1. CASE m = x
    BY <2>1, <1>1
  <2>2. CASE m \in A
    <3>1. PICK i \in 1 .. n : s[i] = m
      BY <2>2 DEF Enumerates
    <3>2. i \in 1 .. n + 1 /\ i + 1 \in 1 .. n + 1 /\ (i < p \/ i >= p)
      OBVIOUS
    <3> QED BY <3>1, <3>2, <1>1
  <2> QED BY <2>1, <2>2
<1>9. Enumerates(t, n + 1, A \cup {x})
  BY <1>6, <1>7, <1>8 DEF Enumerates
<1> QED BY <1>9 DEF t

LEMMA TakenAt ==
    ASSUME NEW s, NEW n \in Nat, NEW p \in 1 .. n
    PROVE  /\ DOMAIN Taken(s, n, p) = 1 .. n - 1
           /\ \A i \in 1 .. n - 1 : i < p => Taken(s, n, p)[i] = s[i]
           /\ \A i \in 1 .. n - 1 : i >= p => Taken(s, n, p)[i] = s[i + 1]
  BY DEF Taken

LEMMA TakenEnumerates ==
    ASSUME NEW A, NEW s, NEW n \in Nat, NEW p \in 1 .. n, Enumerates(s, n, A)
    PROVE  Enumerates(Taken(s, n, p), n - 1, A \ {s[p]})
<1> DEFINE t == Taken(s, n, p)
<1>1. /\ DOMAIN t = 1 .. n - 1
      /\ \A i \in 1 .. n - 1 : i < p => t[i] = s[i]
      /\ \A i \in 1 .. n - 1 : i >= p => t[i] = s[i + 1]
  BY TakenAt
<1>2. t = [k \in DOMAIN t |-> t[k]]
  BY DEF Taken
<1> HIDE DEF t
<1>3. ASSUME NEW k \in 1 .. n - 1
      PROVE  \E i \in 1 .. n : i # p /\ t[k] = s[i] /\ ((i < p /\ i = k) \/ (i > p /\ i = k + 1))
  <2>1. k \in 1 .. n /\ k + 1 \in 1 .. n /\ (k < p \/ (k >= p /\ k + 1 > p))
    OBVIOUS
  <2>2. CASE k < p
    <3>1. t[k] = s[k] /\ k # p
      BY <1>1, <2>2
    <3> QED BY <2>1, <2>2, <3>1
  <2>3. CASE k >= p /\ k + 1 > p
    <3>1. t[k] = s[k + 1] /\ k + 1 # p
      BY <1>1, <2>3
    <3> QED BY <2>1, <2>3, <3>1
  <2> QED BY <2>1, <2>2, <2>3
<1>4. ASSUME NEW k \in 1 .. n - 1 PROVE t[k] \in A \ {s[p]}
  <2>1. PICK i \in 1 .. n : i # p /\ t[k] = s[i]
    BY <1>3
  <2> QED BY <2>1 DEF Enumerates
<1>5. t \in [1 .. n - 1 -> A \ {s[p]}]
  BY <1>1, <1>2, <1>4
<1>6. ASSUME NEW k \in 1 .. n - 1, NEW l \in 1 .. n - 1, t[k] = t[l] PROVE k = l
  <2>1. PICK i \in 1 .. n : t[k] = s[i] /\ ((i < p /\ i = k) \/ (i > p /\ i = k + 1))
    BY <1>3
  <2>2. PICK j \in 1 .. n : t[l] = s[j] /\ ((j < p /\ j = l) \/ (j > p /\ j = l + 1))
    BY <1>3
  <2>3. i = j
    BY <2>1, <2>2, <1>6 DEF Enumerates
  <2> QED BY <2>1, <2>2, <2>3
<1>7. ASSUME NEW m \in A \ {s[p]} PROVE \E k \in 1 .. n - 1 : t[k] = m
  <2>1. PICK i \in 1 .. n : s[i] = m /\ i # p
    BY DEF Enumerates
  <2>2. CASE i < p
    <3>1. i \in 1 .. n - 1
      BY <2>2
    <3> QED BY <2>1, <2>2, <3>1, <1>1
  <2>3. CASE i > p
    <3>1. i - 1 \in 1 .. n - 1 /\ i - 1 >= p /\ (i - 1) + 1 = i
      BY <2>3
    <3> QED BY <2>1, <3>1, <1>1
  <2> QED BY <2>1, <2>2, <2>3
<1>8. Enumerates(t, n - 1, A \ {s[p]})
  BY <1>5, <1>6, <1>7 DEF Enumerates
<1> QED BY <1>8 DEF t

LEMMA EnumeratedSize ==
    ASSUME NEW A, NEW s, NEW n \in Nat, Enumerates(s, n, A)
    PROVE  Cardinality(A) = n
<1>1. s \in Bijection(1 .. n, A)
  BY DEF Enumerates, Bijection, Injection, Surjection, IsInjective
<1> QED BY <1>1, FS_CountingElements DEF ExistsBijection

-----------------------------------------------------------------------------
(* The keyword list: its links.                                            *)

LEMMA NodesAreNumbers == NULL \notin Nodes /\ Nodes \subseteq Nat /\ NULL \in Nat
  BY ListAssumption DEF NULL

NodeType == [next : Nat, prev : Nat, value : Values]

(* The n nodes of f, in the order s, hold the values c; from head to tail the *)
(* next lead from one to the next.  So do the prev, the other way round, in *)
(* a list that is whole; in any, only the first has none.                   *)
Chain(f, head, tail, c, n, s, whole) ==
    /\ c \in Seq(Values) /\ n \in Nat /\ Len(c) = n
    /\ DOMAIN f \subseteq Nodes /\ Enumerates(s, n, DOMAIN f)
    /\ n = 0 => head = NULL /\ tail = NULL
    /\ n > 0 => head = s[1] /\ tail = s[n]
    /\ \A i \in 1 .. n :
          /\ f[s[i]].value = c[i]
          /\ i = n => f[s[i]].next = NULL
          /\ i < n => f[s[i]].next = s[i + 1]
          /\ i = 1 => f[s[i]].prev = NULL
          /\ i > 1 => f[s[i]].prev # NULL /\ (whole => f[s[i]].prev = s[i - 1])

(* The sequence d is c with v put at p.                                     *)
PutIn(d, c, n, p, v) ==
    /\ d \in Seq(Values) /\ Len(d) = n + 1 /\ d[p] = v
    /\ \A i \in 1 .. n : (i < p => d[i] = c[i]) /\ (i >= p => d[i + 1] = c[i])

(* The nodes of g are those of f and x, which stands at p; in front of it    *)
(* another knows x, behind it another does if the list is to stay whole.    *)
PutLinks(f, head, tail, g, head2, tail2, n, s, p, x, v, whole2) ==
    /\ x \in Nodes /\ x \notin DOMAIN f /\ DOMAIN g = DOMAIN f \cup {x}
    /\ \A i \in 1 .. n :
          /\ g[s[i]].value = f[s[i]].value
          /\ i + 1 = p => g[s[i]].next = x
          /\ i + 1 # p => g[s[i]].next = f[s[i]].next
          /\ i # p => g[s[i]].prev = f[s[i]].prev
          /\ i = p => \/ g[s[i]].prev = x
                      \/ g[s[i]].prev = f[s[i]].prev /\ p > 1 /\ ~whole2
    /\ g[x].value = v
    /\ p = n + 1 => g[x].next = NULL /\ tail2 = x
    /\ p < n + 1 => g[x].next = s[p] /\ tail2 = tail
    /\ p = 1 => g[x].prev = NULL /\ head2 = x
    /\ p > 1 => g[x].prev = s[p - 1] /\ head2 = head

LEMMA ChainPut ==
    ASSUME NEW f, NEW g, NEW head, NEW tail, NEW c, NEW n \in Nat, NEW d, NEW s,
           NEW v, NEW x, NEW p \in 1 .. n + 1, NEW head2, NEW tail2,
           NEW whole \in BOOLEAN, NEW whole2 \in BOOLEAN, whole2 => whole,
           Chain(f, head, tail, c, n, s, whole), PutIn(d, c, n, p, v),
           PutLinks(f, head, tail, g, head2, tail2, n, s, p, x, v, whole2)
    PROVE  \E t : Chain(g, head2, tail2, d, n + 1, t, whole2)
<1> USE DEF PutLinks
<1> DEFINE t == Put(s, n, p, x)
<1>1. n \in Nat /\ Len(d) = n + 1 /\ p \in 1 .. n + 1
  BY DEF PutIn
<1>2. Enumerates(s, n, DOMAIN f)
  BY DEF Chain
<1>3. Enumerates(t, n + 1, DOMAIN g)
  BY <1>1, <1>2, PutEnumerates
<1>4. /\ t[p] = x
      /\ \A i \in 1 .. n : i < p => t[i] = s[i]
      /\ \A i \in 1 .. n : i >= p => t[i + 1] = s[i]
  <2>1. n \in Nat /\ p \in 1 .. n + 1
    BY <1>1
  <2> HIDE DEF t
  <2>2. Put(s, n, p, x)[p] = x
    BY <2>1 DEF Put
  <2>3. \A i \in 1 .. n : i < p => Put(s, n, p, x)[i] = s[i]
    BY <2>1, PutAt
  <2>4. \A i \in 1 .. n : i >= p => Put(s, n, p, x)[i + 1] = s[i]
    BY <2>1, PutAt
  <2> QED BY <2>2, <2>3, <2>4 DEF t
<1>5. (\A i \in 1 .. n : s[i] \in DOMAIN f /\ s[i] # NULL) /\ x # NULL
  BY <1>2, NodesAreNumbers DEF Enumerates, Chain
<1>6. \A i \in 1 .. n :
          /\ f[s[i]].value = c[i]
          /\ i = n => f[s[i]].next = NULL
          /\ i < n => f[s[i]].next = s[i + 1]
          /\ i = 1 => f[s[i]].prev = NULL
          /\ i > 1 => f[s[i]].prev # NULL /\ (whole => f[s[i]].prev = s[i - 1])
  BY DEF Chain
<1> HIDE DEF t
<1>7. head2 = t[1]
  <2>1. CASE p = 1
    BY <2>1, <1>4
  <2>2. CASE p > 1
    <3>1. n > 0 /\ 1 \in 1 .. n
      BY <2>2, <1>1
    <3>2. head = s[1]
      BY <3>1 DEF Chain
    <3> QED BY <2>2, <3>1, <3>2, <1>4
  <2> QED BY <2>1, <2>2, <1>1
<1>8. tail2 = t[n + 1]
  <2>1. CASE p = n + 1
    BY <2>1, <1>4
  <2>2. CASE p < n + 1
    <3>1. n > 0 /\ n \in 1 .. n /\ n >= p
      BY <2>2, <1>1
    <3>2. tail = s[n]
      BY <3>1 DEF Chain
    <3> QED BY <2>2, <3>1, <3>2, <1>4
  <2> QED BY <2>1, <2>2, <1>1
(* The node put in.                                                         *)
<1>9. /\ g[t[p]].value = d[p]
      /\ p = n + 1 => g[t[p]].next = NULL
      /\ p < n + 1 => g[t[p]].next = t[p + 1]
      /\ p = 1 => g[t[p]].prev = NULL
      /\ p > 1 => g[t[p]].prev # NULL /\ g[t[p]].prev = t[p - 1]
  <2>1. g[t[p]].value = d[p]
    BY <1>4 DEF PutIn
  <2>2. p < n + 1 => p \in 1 .. n /\ t[p + 1] = s[p]
    BY <1>1, <1>4
  <2>3. p > 1 => p - 1 \in 1 .. n /\ t[p - 1] = s[p - 1] /\ s[p - 1] # NULL
    BY <1>1, <1>4, <1>5
  <2> QED BY <2>1, <2>2, <2>3, <1>4
(* The nodes before it, and those after it.                                 *)
<1>10. ASSUME NEW i \in 1 .. n, i < p
       PROVE  /\ g[t[i]].value = d[i]
              /\ i < n + 1 /\ g[t[i]].next = t[i + 1]
              /\ i = 1 => g[t[i]].prev = NULL
              /\ i > 1 => g[t[i]].prev # NULL /\ (whole2 => g[t[i]].prev = t[i - 1])
  <2>1. t[i] = s[i] /\ i # p /\ i < n + 1
    BY <1>1, <1>4, <1>10
  <2>2. g[s[i]].value = d[i]
    BY <1>6, <1>10 DEF PutIn
  <2>3. g[s[i]].next = t[i + 1]
    <3>1. CASE i + 1 = p
      BY <3>1, <1>4
    <3>2. CASE i + 1 # p
      <4>1. i < n /\ i + 1 \in 1 .. n /\ i + 1 < p
        BY <3>2, <1>1, <1>10
      <4> QED BY <4>1, <3>2, <1>4, <1>6
    <3> QED BY <3>1, <3>2
  <2>4. g[s[i]].prev = f[s[i]].prev
    BY <2>1
  <2>5. i > 1 => i - 1 \in 1 .. n /\ t[i - 1] = s[i - 1]
    BY <1>1, <1>4, <1>10
  <2> QED BY <2>1, <2>2, <2>3, <2>4, <2>5, <1>6
<1>11. ASSUME NEW i \in 1 .. n, i >= p
       PROVE  /\ g[t[i + 1]].value = d[i + 1]
              /\ i + 1 = n + 1 => g[t[i + 1]].next = NULL
              /\ i + 1 < n + 1 => g[t[i + 1]].next = t[(i + 1) + 1]
              /\ i + 1 > 1 /\ g[t[i + 1]].prev # NULL
              /\ whole2 => g[t[i + 1]].prev = t[(i + 1) - 1]
  <2>1. t[i + 1] = s[i] /\ i + 1 # p /\ i + 1 > 1 /\ (i + 1) - 1 = i
    BY <1>1, <1>4, <1>11
  <2>2. g[s[i]].value = d[i + 1]
    BY <1>6, <1>11 DEF PutIn
  <2>3. g[s[i]].next = f[s[i]].next
    BY <2>1
  <2>4. i < n => i + 1 \in 1 .. n /\ i + 1 >= p /\ t[(i + 1) + 1] = s[i + 1]
    BY <1>1, <1>4, <1>11
  <2>5. i + 1 = n + 1 => i = n
    BY <1>1
  <2>6. i + 1 < n + 1 => i < n
    BY <1>1
  <2>7. g[s[i]].prev # NULL /\ (whole2 => g[s[i]].prev = t[i])
    <3>1. CASE i = p
      <4>1. t[i] = x
        BY <3>1, <1>4
      <4>2. g[s[i]].prev = x \/ (g[s[i]].prev = f[s[i]].prev /\ p > 1 /\ ~whole2)
        BY <3>1
      <4> QED BY <3>1, <4>1, <4>2, <1>5, <1>6
    <3>2. CASE i # p
      <4>1. g[s[i]].prev = f[s[i]].prev
        BY <3>2
      <4>2. i > 1 /\ i - 1 \in 1 .. n /\ i - 1 >= p /\ (i - 1) + 1 = i
        BY <3>2, <1>1, <1>11
      <4>3. t[i] = s[i - 1]
        BY <4>2, <1>4
      <4> QED BY <4>1, <4>2, <4>3, <1>6
    <3> QED BY <3>1, <3>2
  <2> QED BY <2>1, <2>2, <2>3, <2>4, <2>5, <2>6, <2>7, <1>6
<1>12. ASSUME NEW k \in 1 .. n + 1
       PROVE  /\ g[t[k]].value = d[k]
              /\ k = n + 1 => g[t[k]].next = NULL
              /\ k < n + 1 => g[t[k]].next = t[k + 1]
              /\ k = 1 => g[t[k]].prev = NULL
              /\ k > 1 => g[t[k]].prev # NULL /\ (whole2 => g[t[k]].prev = t[k - 1])
  <2>1. CASE k = p
    BY <2>1, <1>9
  <2>2. CASE k # p
    <3>1. PICK i \in 1 .. n : (i < p /\ k = i) \/ (i >= p /\ k = i + 1)
      BY <2>2, <1>1, PutPlaces
    <3>2. CASE i < p /\ k = i
      <4>1. k # n + 1
        BY <3>2, <1>1
      <4> QED BY <3>2, <4>1, <1>10
    <3>3. CASE i >= p /\ k = i + 1
      <4>1. k # 1
        BY <3>3, <1>1
      <4> QED BY <3>3, <4>1, <1>11
    <3> QED BY <3>1, <3>2, <3>3
  <2> QED BY <2>1, <2>2
<1>13. /\ n + 1 \in Nat /\ n + 1 # 0 /\ Len(d) = n + 1 /\ d \in Seq(Values)
       /\ DOMAIN g \subseteq Nodes
  BY <1>1 DEF PutIn, Chain
<1>14. Chain(g, head2, tail2, d, n + 1, t, whole2)
  BY <1>3, <1>7, <1>8, <1>12, <1>13 DEF Chain
<1> QED BY <1>14

(* The sequence d is c without what was at p.                               *)
TakenFrom(d, c, n, p) ==
    /\ d \in Seq(Values) /\ Len(d) = n - 1
    /\ \A i \in 1 .. n - 1 : (i < p => d[i] = c[i]) /\ (i >= p => d[i] = c[i + 1])

(* The nodes of g are those of f without the one at p, whose neighbours are  *)
(* each other's.                                                            *)
TakenLinks(f, head, tail, g, head2, tail2, n, s, p) ==
    /\ DOMAIN g = DOMAIN f \ {s[p]}
    /\ \A i \in 1 .. n : i # p =>
          /\ g[s[i]].value = f[s[i]].value
          /\ i + 1 = p => g[s[i]].next = f[s[p]].next
          /\ i + 1 # p => g[s[i]].next = f[s[i]].next
          /\ i = p + 1 => g[s[i]].prev = f[s[p]].prev
          /\ i # p + 1 => g[s[i]].prev = f[s[i]].prev
    /\ p = 1 => head2 = f[s[p]].next
    /\ p > 1 => head2 = head
    /\ p = n => tail2 = f[s[p]].prev
    /\ p < n => tail2 = tail

LEMMA ChainTake ==
    ASSUME NEW f, NEW g, NEW head, NEW tail, NEW c, NEW n \in Nat, NEW d, NEW s,
           NEW p \in 1 .. n, NEW head2, NEW tail2,
           Chain(f, head, tail, c, n, s, TRUE), TakenFrom(d, c, n, p),
           TakenLinks(f, head, tail, g, head2, tail2, n, s, p)
    PROVE  \E t : Chain(g, head2, tail2, d, n - 1, t, TRUE)
<1> USE DEF TakenLinks
<1> DEFINE t == Taken(s, n, p)
<1>1. n \in Nat /\ Len(d) = n - 1 /\ p \in 1 .. n /\ n - 1 \in Nat
  BY DEF TakenFrom
<1>2. Enumerates(s, n, DOMAIN f)
  BY DEF Chain
<1>3. Enumerates(t, n - 1, DOMAIN g)
  BY <1>1, <1>2, TakenEnumerates
<1>4. /\ \A i \in 1 .. n - 1 : i < p => t[i] = s[i]
      /\ \A i \in 1 .. n - 1 : i >= p => t[i] = s[i + 1]
  <2>1. n \in Nat /\ p \in 1 .. n
    BY <1>1
  <2> HIDE DEF t
  <2>2. \A i \in 1 .. n - 1 : i < p => Taken(s, n, p)[i] = s[i]
    BY <2>1, TakenAt
  <2>3. \A i \in 1 .. n - 1 : i >= p => Taken(s, n, p)[i] = s[i + 1]
    BY <2>1, TakenAt
  <2> QED BY <2>2, <2>3 DEF t
<1>5. \A i \in 1 .. n : s[i] # NULL
  BY <1>2, NodesAreNumbers DEF Enumerates, Chain
<1>6. \A i \in 1 .. n :
          /\ f[s[i]].value = c[i]
          /\ i = n => f[s[i]].next = NULL
          /\ i < n => f[s[i]].next = s[i + 1]
          /\ i = 1 => f[s[i]].prev = NULL
          /\ i > 1 => f[s[i]].prev = s[i - 1]
  BY DEF Chain
<1> HIDE DEF t
<1>7. /\ n - 1 = 0 => head2 = NULL
      /\ n - 1 > 0 => head2 = t[1]
  <2>1. CASE p = 1
    <3>1. n - 1 = 0 => p = n
      BY <2>1, <1>1
    <3>2. n - 1 > 0 => p < n /\ 1 \in 1 .. n - 1 /\ 1 >= p /\ p + 1 = 1 + 1
      BY <2>1, <1>1
    <3> QED BY <2>1, <3>1, <3>2, <1>1, <1>4, <1>6
  <2>2. CASE p > 1
    <3>1. n > 0 /\ n - 1 > 0 /\ 1 \in 1 .. n - 1 /\ 1 < p
      BY <2>2, <1>1
    <3>2. head = s[1]
      BY <3>1 DEF Chain
    <3> QED BY <2>2, <3>1, <3>2, <1>4
  <2> QED BY <2>1, <2>2, <1>1
<1>8. /\ n - 1 = 0 => tail2 = NULL
      /\ n - 1 > 0 => tail2 = t[n - 1]
  <2>1. CASE p = n
    <3>1. n - 1 = 0 => p = 1
      BY <2>1, <1>1
    <3>2. n - 1 > 0 => p > 1 /\ n - 1 \in 1 .. n - 1 /\ n - 1 < p /\ p - 1 = n - 1
      BY <2>1, <1>1
    <3>3. tail2 = f[s[p]].prev
      BY <2>1
    <3> QED BY <3>1, <3>2, <3>3, <1>1, <1>4, <1>6
  <2>2. CASE p < n
    <3>1. n > 0 /\ n - 1 > 0 /\ n - 1 \in 1 .. n - 1 /\ n - 1 >= p /\ (n - 1) + 1 = n
      BY <2>2, <1>1
    <3>2. tail = s[n]
      BY <3>1 DEF Chain
    <3>3. tail2 = tail
      BY <2>2
    <3> QED BY <3>1, <3>2, <3>3, <1>4
  <2> QED BY <2>1, <2>2, <1>1
(* The nodes before the one taken, and those after it.                      *)
<1>9. ASSUME NEW k \in 1 .. n - 1, k < p
      PROVE  /\ g[t[k]].value = d[k]
             /\ k = n - 1 => g[t[k]].next = NULL
             /\ k < n - 1 => g[t[k]].next = t[k + 1]
             /\ k = 1 => g[t[k]].prev = NULL
             /\ k > 1 => g[t[k]].prev # NULL /\ g[t[k]].prev = t[k - 1]
  <2>1. k \in 1 .. n /\ k # p /\ k # p + 1 /\ k < n /\ k + 1 \in 1 .. n
    BY <1>1, <1>9
  <2>2. t[k] = s[k]
    BY <1>4, <1>9
  <2>3. g[s[k]].value = d[k]
    BY <2>1, <1>6, <1>9 DEF TakenFrom
  <2>4. g[s[k]].prev = f[s[k]].prev
    BY <2>1
  <2>5. k > 1 => k - 1 \in 1 .. n /\ t[k - 1] = s[k - 1]
    <3>1. k > 1 => k - 1 \in 1 .. n - 1 /\ k - 1 \in 1 .. n /\ k - 1 < p
      BY <1>1, <1>9
    <3> QED BY <3>1, <1>4
  <2>6. CASE k + 1 = p
    <3>1. g[s[k]].next = f[s[p]].next
      BY <2>1, <2>6
    <3>2. k = n - 1 => p = n
      BY <2>6, <1>1
    <3>3. k < n - 1 => p < n /\ p \in 1 .. n - 1 /\ t[p] = s[p + 1]
      BY <2>6, <1>1, <1>4
    <3>4. /\ k = n - 1 => g[s[k]].next = NULL
          /\ k < n - 1 => g[s[k]].next = t[k + 1]
      BY <3>1, <3>2, <3>3, <2>6, <1>1, <1>6
    <3> QED BY <2>1, <2>2, <2>3, <2>4, <2>5, <3>4, <1>5, <1>6
  <2>7. CASE k + 1 # p
    <3>1. g[s[k]].next = f[s[k]].next
      BY <2>1, <2>7
    <3>2. k < n - 1 /\ k + 1 \in 1 .. n - 1 /\ k + 1 < p
      BY <2>7, <1>1, <1>9
    <3>3. t[k + 1] = s[k + 1] /\ k # n - 1
      BY <3>2, <1>4
    <3> QED BY <2>1, <2>2, <2>3, <2>4, <2>5, <3>1, <3>2, <3>3, <1>5, <1>6
  <2> QED BY <2>6, <2>7
<1>10. ASSUME NEW k \in 1 .. n - 1, k >= p
       PROVE  /\ g[t[k]].value = d[k]
              /\ k = n - 1 => g[t[k]].next = NULL
              /\ k < n - 1 => g[t[k]].next = t[k + 1]
              /\ k = 1 => g[t[k]].prev = NULL
              /\ k > 1 => g[t[k]].prev # NULL /\ g[t[k]].prev = t[k - 1]
  <2> DEFINE i == k + 1
  <2>1. i \in 1 .. n /\ i # p /\ i > 1 /\ i - 1 = k /\ i + 1 # p /\ i \in Nat
    <3>1. k \in Nat /\ p \in Nat /\ n \in Nat /\ p >= 1 /\ k <= n - 1 /\ k >= p
      BY <1>1, <1>10
    <3>2. i \in Nat /\ i = k + 1
      BY <3>1
    <3> HIDE DEF i
    <3> QED BY <3>1, <3>2
  <2>2. t[k] = s[i]
    BY <1>4, <1>10
  <2>3. g[s[i]].value = d[k]
    BY <2>1, <1>6, <1>10 DEF TakenFrom
  <2>4. g[s[i]].next = f[s[i]].next
    BY <2>1
  <2>5. k = n - 1 => i = n
    BY <1>1
  <2>6. k < n - 1 => i < n /\ t[k + 1] = s[i + 1]
    <3>1. k < n - 1 => i < n /\ k + 1 \in 1 .. n - 1 /\ k + 1 >= p
      BY <1>1, <1>10
    <3> QED BY <3>1, <1>4
  <2>7. /\ k = n - 1 => g[s[i]].next = NULL
        /\ k < n - 1 => g[s[i]].next = t[k + 1]
    BY <2>1, <2>4, <2>5, <2>6, <1>6
  <2>8. CASE k = p
    <3>1. g[s[i]].prev = f[s[p]].prev
      BY <2>1, <2>8
    <3>2. k > 1 => k - 1 \in 1 .. n - 1 /\ k - 1 < p /\ k - 1 \in 1 .. n
      BY <2>8, <1>1
    <3>3. k > 1 => t[k - 1] = s[k - 1] /\ s[k - 1] # NULL
      BY <3>2, <1>4, <1>5
    <3> QED BY <2>2, <2>3, <2>7, <2>8, <3>1, <3>3, <1>1, <1>6
  <2>9. CASE k > p
    <3>1. g[s[i]].prev = f[s[i]].prev
      BY <2>1, <2>9
    <3>2. k # 1 /\ k - 1 \in 1 .. n - 1 /\ k - 1 >= p /\ (k - 1) + 1 = k /\ k \in 1 .. n
      BY <2>9, <1>1
    <3>3. t[k - 1] = s[k]
      BY <3>2, <1>4
    <3>4. f[s[i]].prev = s[k]
      BY <2>1, <1>6
    <3> QED BY <2>2, <2>3, <2>7, <3>1, <3>2, <3>3, <3>4, <1>5
  <2> QED BY <2>8, <2>9, <1>1, <1>10
<1>11. /\ n - 1 \in Nat /\ Len(d) = n - 1 /\ d \in Seq(Values)
       /\ DOMAIN g \subseteq Nodes
  BY <1>1 DEF TakenFrom, Chain
<1>12. ASSUME NEW k \in 1 .. n - 1
       PROVE  /\ g[t[k]].value = d[k]
              /\ k = n - 1 => g[t[k]].next = NULL
              /\ k < n - 1 => g[t[k]].next = t[k + 1]
              /\ k = 1 => g[t[k]].prev = NULL
              /\ k > 1 => g[t[k]].prev # NULL /\ g[t[k]].prev = t[k - 1]
  <2>1. k < p \/ k >= p
    BY <1>1
  <2> QED BY <2>1, <1>9, <1>10
<1>13. Chain(g, head2, tail2, d, n - 1, t, TRUE)
  BY <1>3, <1>7, <1>8, <1>11, <1>12 DEF Chain
<1> QED BY <1>13

LEMMA WalkIs ==
    ASSUME NEW from, NEW link, NEW n \in Nat, NEW s, Size = n,
           \A i \in 1 .. n : s[i] \in Alive,
           n > 0 => from = s[1],
           \A i \in 1 .. n : i < n => node[s[i]][link] = s[i + 1]
    PROVE  \A i \in 1 .. n : Walk(from, link)[i] = s[i]
<1> DEFINE step(m) == IF m \in Alive THEN node[m][link] ELSE NULL
           walk[i \in 1 .. Size] == IF i = 1 THEN from ELSE step(walk[i - 1])
           u == [i \in 1 .. n |-> s[i]]
<1>1. Walk(from, link) = walk
  BY DEF Walk
<1>2. u = [i \in 1 .. Size |-> IF i = 1 THEN from ELSE step(u[i - 1])]
  <2>1. ASSUME NEW i \in 1 .. n PROVE s[i] = IF i = 1 THEN from ELSE step(u[i - 1])
    <3>1. CASE i = 1
      BY <3>1
    <3>2. CASE i # 1
      <4>1. i - 1 \in 1 .. n /\ i - 1 < n /\ (i - 1) + 1 = i
        BY <3>2
      <4>2. u[i - 1] = s[i - 1] /\ s[i - 1] \in Alive /\ node[s[i - 1]][link] = s[i]
        BY <4>1
      <4> QED BY <3>2, <4>2
    <3> QED BY <3>1, <3>2
  <2> HIDE DEF step
  <2>2. [i \in 1 .. n |-> s[i]] = [i \in 1 .. n |-> IF i = 1 THEN from ELSE step(u[i - 1])]
    BY <2>1
  <2> QED BY <2>2
<1>3. walk = CHOOSE w : w = [i \in 1 .. Size |-> IF i = 1 THEN from ELSE step(w[i - 1])]
  OBVIOUS
<1> HIDE DEF walk, u
<1>4. walk = [i \in 1 .. Size |-> IF i = 1 THEN from ELSE step(walk[i - 1])]
  BY <1>2, <1>3
<1> PICK T \in SUBSET Nat : T = {i \in Nat : i \in 1 .. n => walk[i] = s[i]}
  OBVIOUS
<1>5. 0 \in T
  OBVIOUS
<1>6. ASSUME NEW i \in T PROVE i + 1 \in T
  <2> SUFFICES ASSUME i + 1 \in 1 .. n PROVE walk[i + 1] = s[i + 1]
    OBVIOUS
  <2>1. walk[i + 1] = IF i + 1 = 1 THEN from ELSE step(walk[(i + 1) - 1])
    BY <1>4
  <2>2. CASE i = 0
    BY <2>1, <2>2
  <2>3. CASE i # 0
    <3>1. i \in 1 .. n /\ (i + 1) - 1 = i /\ i + 1 # 1 /\ i < n
      BY <2>3
    <3>2. walk[i] = s[i] /\ s[i] \in Alive /\ node[s[i]][link] = s[i + 1]
      BY <3>1
    <3> QED BY <2>1, <3>1, <3>2
  <2> QED BY <2>2, <2>3
<1>7. T = Nat
  BY <1>5, <1>6, AllNumbers
<1>8. \A i \in 1 .. n : walk[i] = s[i]
  BY <1>7
<1> QED BY <1>1, <1>8

LEMMA LinkNext ==
    ASSUME NEW A, NEW f \in [A -> NodeType], NEW n \in A \cup {NULL}, NULL \notin A,
           NEW to \in Nat
    PROVE  /\ Link(f, n, "next", to) \in [A -> NodeType]
           /\ \A m \in A : /\ Link(f, n, "next", to)[m].prev = f[m].prev
                           /\ Link(f, n, "next", to)[m].value = f[m].value
           /\ n # NULL => Link(f, n, "next", to)[n].next = to
           /\ \A m \in A \ {n} : Link(f, n, "next", to)[m].next = f[m].next
<1>1. CASE n = NULL
  BY <1>1 DEF Link
<1>2. CASE n # NULL
  BY <1>2 DEF Link, NodeType
<1> QED BY <1>1, <1>2

LEMMA LinkPrev ==
    ASSUME NEW A, NEW f \in [A -> NodeType], NEW n \in A \cup {NULL}, NULL \notin A,
           NEW to \in Nat
    PROVE  /\ Link(f, n, "prev", to) \in [A -> NodeType]
           /\ \A m \in A : /\ Link(f, n, "prev", to)[m].next = f[m].next
                           /\ Link(f, n, "prev", to)[m].value = f[m].value
           /\ n # NULL => Link(f, n, "prev", to)[n].prev = to
           /\ \A m \in A \ {n} : Link(f, n, "prev", to)[m].prev = f[m].prev
<1>1. CASE n = NULL
  BY <1>1 DEF Link
<1>2. CASE n # NULL
  BY <1>2 DEF Link, NodeType
<1> QED BY <1>1, <1>2

LEMMA WithIs ==
    ASSUME NEW f \in [Alive -> NodeType], NEW x, NEW next \in Nat, NEW prev \in Nat, NEW v \in Values
    PROVE  With(f, x, next, prev, v) \in [Alive \cup {x} -> NodeType]
  BY DEF With, NodeType

LEMMA FreshIsFree == Alive \subseteq Nodes /\ Alive # Nodes => FreshNode \in Nodes \ Alive
<1> SUFFICES ASSUME Alive \subseteq Nodes, Alive # Nodes PROVE FreshNode \in Nodes \ Alive
  OBVIOUS
<1> PICK T \in SUBSET Nat : T = Nodes \ Alive /\ T # {}
  BY ListAssumption
<1>1. \E x \in T : \A y \in T : x <= y
  BY LeastNumber
<1> QED BY <1>1 DEF FreshNode

-----------------------------------------------------------------------------
(* The keyword list: its operations.                                       *)

-----------------------------------------------------------------------------
(* The keyword list: its operations.                                       *)

Listed(f, head, tail, c, whole) ==
    /\ f \in [DOMAIN f -> NodeType]
    /\ \E n, s : Chain(f, head, tail, c, n, s, whole)

LEMMA ChainEnds ==
    ASSUME NEW f, NEW head, NEW tail, NEW c, NEW n, NEW s, NEW whole,
           Chain(f, head, tail, c, n, s, whole)
    PROVE  /\ head \in DOMAIN f \cup {NULL} /\ tail \in DOMAIN f \cup {NULL}
           /\ n \in Nat
           /\ n = 0 => head = NULL /\ tail = NULL
           /\ n # 0 => head # NULL /\ tail # NULL /\ head = s[1] /\ tail = s[n]
           /\ \A i \in 1 .. n : s[i] \in DOMAIN f
           /\ \A i \in 1 .. n : i # 1 => s[i] # head
           /\ \A i \in 1 .. n : i # n => s[i] # tail
<1>1. n \in Nat /\ (n # 0 => n > 0 /\ 1 \in 1 .. n /\ n \in 1 .. n)
  BY DEF Chain
<1>2. Enumerates(s, n, DOMAIN f)
  BY DEF Chain
<1>3. \A i \in 1 .. n : s[i] \in DOMAIN f /\ s[i] # NULL
  BY <1>2, NodesAreNumbers DEF Enumerates, Chain
<1>4. /\ n = 0 => head = NULL /\ tail = NULL
      /\ n > 0 => head = s[1] /\ tail = s[n]
  BY DEF Chain
<1>5. ASSUME NEW i \in 1 .. n PROVE (i # 1 => s[i] # head) /\ (i # n => s[i] # tail)
  <2>1. n > 0 /\ 1 \in 1 .. n /\ n \in 1 .. n
    BY <1>1
  <2> QED BY <2>1, <1>2, <1>4 DEF Enumerates
<1> QED BY <1>1, <1>3, <1>4, <1>5

LEMMA PushListed ==
    ASSUME NEW whole \in BOOLEAN, Listed(node, first, last, contents, whole),
           FreshNode \in Nodes \ Alive, NEW v \in Values, Push(v)
    PROVE  Listed(node', first', last', contents', whole)
<1>0. PICK f, head, tail, c, x, g, head2, tail2, d :
         /\ f = node /\ head = first /\ tail = last /\ c = contents /\ x = FreshNode
         /\ g = node' /\ head2 = first' /\ tail2 = last' /\ d = contents'
  OBVIOUS
<1>1. DOMAIN f = Alive /\ x \in Nodes /\ x \notin DOMAIN f /\ f \in [DOMAIN f -> NodeType]
  BY <1>0 DEF Alive, Listed
<1>2. PICK n, s : Chain(f, head, tail, c, n, s, whole)
  BY <1>0 DEF Listed
<1>3. n \in Nat /\ DOMAIN f \subseteq Nodes /\ c \in Seq(Values) /\ Len(c) = n
  BY <1>2 DEF Chain
<1>4. NULL \notin DOMAIN f /\ NULL \in Nat /\ x # NULL /\ x \in Nat /\ DOMAIN f \subseteq Nat
  BY <1>1, <1>3, NodesAreNumbers
<1>5. /\ tail \in DOMAIN f \cup {NULL}
      /\ n = 0 => tail = NULL
      /\ n # 0 => tail # NULL /\ tail = s[n]
      /\ \A i \in 1 .. n : s[i] \in DOMAIN f
      /\ \A i \in 1 .. n : i # n => s[i] # tail
  BY <1>2, ChainEnds
<1> DEFINE h == Link(f, tail, "next", x)
<1>6. /\ h \in [DOMAIN f -> NodeType]
      /\ \A m \in DOMAIN f : h[m].prev = f[m].prev /\ h[m].value = f[m].value
      /\ tail # NULL => h[tail].next = x
      /\ \A m \in DOMAIN f \ {tail} : h[m].next = f[m].next
  BY <1>1, <1>4, <1>5, LinkNext
<1>7. g = With(h, x, NULL, tail, v)
  BY <1>0 DEF Push
<1> HIDE DEF h
<1>8. /\ g \in [DOMAIN f \cup {x} -> NodeType]
      /\ \A m \in DOMAIN f : g[m] = h[m]
      /\ g[x].next = NULL /\ g[x].prev = tail /\ g[x].value = v
  <2>1. tail \in Nat
    BY <1>4, <1>5
  <2>2. h \in [Alive -> NodeType] /\ x \notin Alive
    BY <1>1, <1>6
  <2>3. g \in [Alive \cup {x} -> NodeType]
    BY <2>1, <2>2, <1>4, <1>7, WithIs
  <2>4. \A m \in Alive : g[m] = h[m]
    BY <2>2, <1>7 DEF With
  <2>5. g[x].next = NULL /\ g[x].prev = tail /\ g[x].value = v
    BY <1>7 DEF With
  <2> QED BY <2>3, <2>4, <2>5, <1>1
<1>9. DOMAIN g = DOMAIN f \cup {x} /\ g \in [DOMAIN g -> NodeType]
  BY <1>8
<1>10. /\ n = 0 => head2 = x
       /\ n # 0 => head2 = head
       /\ tail2 = x
  BY <1>0, <1>5 DEF Push
<1>11. PutIn(d, c, n, n + 1, v)
  <2>1. d = Append(c, v)
    BY <1>0 DEF Push
  <2> QED BY <2>1, <1>3 DEF PutIn
<1>12. \A i \in 1 .. n :
          /\ g[s[i]].value = f[s[i]].value /\ g[s[i]].prev = f[s[i]].prev
          /\ i = n => g[s[i]].next = x
          /\ i # n => g[s[i]].next = f[s[i]].next
  <2> SUFFICES ASSUME NEW i \in 1 .. n
               PROVE  /\ g[s[i]].value = f[s[i]].value /\ g[s[i]].prev = f[s[i]].prev
                      /\ i = n => g[s[i]].next = x
                      /\ i # n => g[s[i]].next = f[s[i]].next
    OBVIOUS
  <2>1. s[i] \in DOMAIN f /\ g[s[i]] = h[s[i]]
    BY <1>5, <1>8
  <2>2. i = n => s[i] = tail
    BY <1>3, <1>5
  <2> QED BY <2>1, <2>2, <1>5, <1>6
<1>13. \E t : Chain(g, head2, tail2, d, n + 1, t, whole)
  <2>1. PICK p \in 1 .. n + 1 : p = n + 1
    BY <1>3
  <2>2. (p = 1 <=> n = 0) /\ (p > 1 <=> n # 0) /\ ~(p < n + 1) /\ p - 1 = n
    BY <2>1, <1>3
  <2>3. \A i \in 1 .. n : i # p /\ (i + 1 = p <=> i = n)
    BY <2>1, <1>3
  <2>4. \A i \in 1 .. n :
          /\ g[s[i]].value = f[s[i]].value
          /\ i + 1 = p => g[s[i]].next = x
          /\ i + 1 # p => g[s[i]].next = f[s[i]].next
          /\ i # p => g[s[i]].prev = f[s[i]].prev
          /\ i = p => \/ g[s[i]].prev = x
                      \/ g[s[i]].prev = f[s[i]].prev /\ p > 1 /\ ~whole
    BY <2>3, <1>12
  <2>5. /\ g[x].value = v
        /\ p = n + 1 => g[x].next = NULL /\ tail2 = x
        /\ p < n + 1 => g[x].next = s[p] /\ tail2 = tail
        /\ p = 1 => g[x].prev = NULL /\ head2 = x
        /\ p > 1 => g[x].prev = s[p - 1] /\ head2 = head
    BY <2>2, <1>5, <1>8, <1>10
  <2>6. PutLinks(f, head, tail, g, head2, tail2, n, s, p, x, v, whole)
    BY <2>4, <2>5, <1>1, <1>9 DEF PutLinks
  <2>7. PutIn(d, c, n, p, v)
    BY <2>1, <1>11
  <2> QED BY <2>6, <2>7, <1>2, <1>3, ChainPut
<1> QED BY <1>0, <1>9, <1>13 DEF Listed

LEMMA UnshiftListed ==
    ASSUME NEW whole \in BOOLEAN, Listed(node, first, last, contents, whole),
           FreshNode \in Nodes \ Alive, NEW v \in Values, Unshift(v)
    PROVE  Listed(node', first', last', contents', whole)
<1>0. PICK f, head, tail, c, x, g, head2, tail2, d :
         /\ f = node /\ head = first /\ tail = last /\ c = contents /\ x = FreshNode
         /\ g = node' /\ head2 = first' /\ tail2 = last' /\ d = contents'
  OBVIOUS
<1>1. DOMAIN f = Alive /\ x \in Nodes /\ x \notin DOMAIN f /\ f \in [DOMAIN f -> NodeType]
  BY <1>0 DEF Alive, Listed
<1>2. PICK n, s : Chain(f, head, tail, c, n, s, whole)
  BY <1>0 DEF Listed
<1>3. n \in Nat /\ DOMAIN f \subseteq Nodes /\ c \in Seq(Values) /\ Len(c) = n
  BY <1>2 DEF Chain
<1>4. NULL \notin DOMAIN f /\ NULL \in Nat /\ x # NULL /\ x \in Nat /\ DOMAIN f \subseteq Nat
  BY <1>1, <1>3, NodesAreNumbers
<1>5. /\ head \in DOMAIN f \cup {NULL}
      /\ n = 0 => head = NULL
      /\ n # 0 => head # NULL /\ head = s[1]
      /\ \A i \in 1 .. n : s[i] \in DOMAIN f
      /\ \A i \in 1 .. n : i # 1 => s[i] # head
  BY <1>2, ChainEnds
<1> DEFINE h == Link(f, head, "prev", x)
<1>6. /\ h \in [DOMAIN f -> NodeType]
      /\ \A m \in DOMAIN f : h[m].next = f[m].next /\ h[m].value = f[m].value
      /\ head # NULL => h[head].prev = x
      /\ \A m \in DOMAIN f \ {head} : h[m].prev = f[m].prev
  BY <1>1, <1>4, <1>5, LinkPrev
<1>7. g = With(h, x, head, NULL, v)
  BY <1>0 DEF Unshift
<1> HIDE DEF h
<1>8. /\ g \in [DOMAIN f \cup {x} -> NodeType]
      /\ \A m \in DOMAIN f : g[m] = h[m]
      /\ g[x].next = head /\ g[x].prev = NULL /\ g[x].value = v
  <2>1. head \in Nat
    BY <1>4, <1>5
  <2>2. h \in [Alive -> NodeType] /\ x \notin Alive
    BY <1>1, <1>6
  <2>3. g \in [Alive \cup {x} -> NodeType]
    BY <2>1, <2>2, <1>4, <1>7, WithIs
  <2>4. \A m \in Alive : g[m] = h[m]
    BY <2>2, <1>7 DEF With
  <2>5. g[x].next = head /\ g[x].prev = NULL /\ g[x].value = v
    BY <1>7 DEF With
  <2> QED BY <2>3, <2>4, <2>5, <1>1
<1>9. DOMAIN g = DOMAIN f \cup {x} /\ g \in [DOMAIN g -> NodeType]
  BY <1>8
<1>10. /\ n = 0 => tail2 = x
       /\ n # 0 => tail2 = tail
       /\ head2 = x
  BY <1>0, <1>5 DEF Unshift
<1>11. PutIn(d, c, n, 1, v)
  <2>1. d = <<v>> \o c /\ <<v>> \in Seq(Values) /\ Len(<<v>>) = 1
    BY <1>0 DEF Unshift
  <2>2. /\ d \in Seq(Values) /\ Len(d) = 1 + n
        /\ \A i \in 1 .. 1 + n : d[i] = IF i <= 1 THEN <<v>>[i] ELSE c[i - 1]
    BY <2>1, <1>3, ConcatProperties
  <2>3. d[1] = v
    BY <2>2, <1>3
  <2>4. \A i \in 1 .. n : d[i + 1] = c[i]
    BY <2>2, <1>3
  <2> QED BY <2>2, <2>3, <2>4, <1>3 DEF PutIn
<1>12. \A i \in 1 .. n :
          /\ g[s[i]].value = f[s[i]].value /\ g[s[i]].next = f[s[i]].next
          /\ i = 1 => g[s[i]].prev = x
          /\ i # 1 => g[s[i]].prev = f[s[i]].prev
  <2> SUFFICES ASSUME NEW i \in 1 .. n
               PROVE  /\ g[s[i]].value = f[s[i]].value /\ g[s[i]].next = f[s[i]].next
                      /\ i = 1 => g[s[i]].prev = x
                      /\ i # 1 => g[s[i]].prev = f[s[i]].prev
    OBVIOUS
  <2>1. s[i] \in DOMAIN f /\ g[s[i]] = h[s[i]]
    BY <1>5, <1>8
  <2>2. i = 1 => s[i] = head /\ head # NULL
    BY <1>3, <1>5
  <2> QED BY <2>1, <2>2, <1>5, <1>6
<1>13. \E t : Chain(g, head2, tail2, d, n + 1, t, whole)
  <2>1. PICK p \in 1 .. n + 1 : p = 1
    BY <1>3
  <2>2. (p = n + 1 <=> n = 0) /\ (p < n + 1 <=> n # 0) /\ ~(p > 1)
    BY <2>1, <1>3
  <2>3. \A i \in 1 .. n : i + 1 # p
    BY <2>1, <1>3
  <2>4. \A i \in 1 .. n :
          /\ g[s[i]].value = f[s[i]].value
          /\ i + 1 = p => g[s[i]].next = x
          /\ i + 1 # p => g[s[i]].next = f[s[i]].next
          /\ i # p => g[s[i]].prev = f[s[i]].prev
          /\ i = p => \/ g[s[i]].prev = x
                      \/ g[s[i]].prev = f[s[i]].prev /\ p > 1 /\ ~whole
    <3> SUFFICES ASSUME NEW i \in 1 .. n
                 PROVE  /\ g[s[i]].value = f[s[i]].value
                        /\ i + 1 = p => g[s[i]].next = x
                        /\ i + 1 # p => g[s[i]].next = f[s[i]].next
                        /\ i # p => g[s[i]].prev = f[s[i]].prev
                        /\ i = p => g[s[i]].prev = x
      OBVIOUS
    <3>1. i + 1 # p
      BY <2>3
    <3> QED BY <3>1, <2>1, <1>12
  <2>5. /\ g[x].value = v
        /\ p = n + 1 => g[x].next = NULL /\ tail2 = x
        /\ p < n + 1 => g[x].next = s[p] /\ tail2 = tail
        /\ p = 1 => g[x].prev = NULL /\ head2 = x
        /\ p > 1 => g[x].prev = s[p - 1] /\ head2 = head
    BY <2>1, <2>2, <1>5, <1>8, <1>10
  <2>6. PutLinks(f, head, tail, g, head2, tail2, n, s, p, x, v, whole)
    BY <2>4, <2>5, <1>1, <1>9 DEF PutLinks
  <2>7. PutIn(d, c, n, p, v)
    BY <2>1, <1>11
  <2> QED BY <2>6, <2>7, <1>2, <1>3, ChainPut
<1> QED BY <1>0, <1>9, <1>13 DEF Listed

LEMMA PasteListed ==
    ASSUME NEW n, NEW s, Chain(node, first, last, contents, n, s, TRUE),
           Listed(node, first, last, contents, TRUE),
           FreshNode \in Nodes \ Alive, NEW v \in Values, NEW p \in 2 .. n,
           PasteBefore(s[p], v), contents' = InsertAt(contents, p, v)
    PROVE  Listed(node', first', last', contents', FALSE)
<1>0. PICK f, head, tail, c, x, g, head2, tail2, d :
         /\ f = node /\ head = first /\ tail = last /\ c = contents /\ x = FreshNode
         /\ g = node' /\ head2 = first' /\ tail2 = last' /\ d = contents'
  OBVIOUS
<1>1. DOMAIN f = Alive /\ x \in Nodes /\ x \notin DOMAIN f /\ f \in [DOMAIN f -> NodeType]
  BY <1>0 DEF Alive, Listed
<1>2. Chain(f, head, tail, c, n, s, TRUE)
  BY <1>0
<1>3. n \in Nat /\ DOMAIN f \subseteq Nodes /\ c \in Seq(Values) /\ Len(c) = n
  BY <1>2 DEF Chain
<1>4. NULL \notin DOMAIN f /\ NULL \in Nat /\ x # NULL /\ x \in Nat /\ DOMAIN f \subseteq Nat
  BY <1>1, <1>3, NodesAreNumbers
<1>5. \A i \in 1 .. n : s[i] \in DOMAIN f
  BY <1>2, ChainEnds
<1> DEFINE before == s[p - 1]
<1>6. p \in 1 .. n /\ p - 1 \in 1 .. n /\ p - 1 < n /\ (p - 1) + 1 = p /\ p > 1
  BY <1>3
<1>7. f[s[p]].prev = before /\ f[before].next = s[p] /\ before \in DOMAIN f
  BY <1>2, <1>5, <1>6 DEF Chain
<1> HIDE DEF before
<1> DEFINE h == Link(f, before, "next", x)
<1>8. /\ h \in [DOMAIN f -> NodeType]
      /\ \A m \in DOMAIN f : h[m].prev = f[m].prev /\ h[m].value = f[m].value
      /\ before # NULL => h[before].next = x
      /\ \A m \in DOMAIN f \ {before} : h[m].next = f[m].next
  BY <1>1, <1>4, <1>7, LinkNext
<1>9. /\ g = With(h, x, s[p], before, v)
      /\ head2 = head /\ tail2 = tail
  BY <1>0, <1>7 DEF PasteBefore
<1> HIDE DEF h
<1>10. /\ g \in [DOMAIN f \cup {x} -> NodeType]
       /\ \A m \in DOMAIN f : g[m] = h[m]
       /\ g[x].next = s[p] /\ g[x].prev = before /\ g[x].value = v
  <2>1. before \in Nat /\ s[p] \in Nat
    BY <1>4, <1>5, <1>6, <1>7
  <2>2. h \in [Alive -> NodeType]
    BY <1>1, <1>8
  <2>3. g \in [Alive \cup {x} -> NodeType]
    BY <2>1, <2>2, <1>9, WithIs
  <2>4. \A m \in Alive : g[m] = h[m]
    BY <1>1, <1>9 DEF With
  <2>5. g[x].next = s[p] /\ g[x].prev = before /\ g[x].value = v
    BY <1>9 DEF With
  <2> QED BY <2>3, <2>4, <2>5, <1>1
<1>11. DOMAIN g = DOMAIN f \cup {x} /\ g \in [DOMAIN g -> NodeType]
  BY <1>10
<1>12. PutIn(d, c, n, p, v)
  <2> DEFINE c1 == SubSeq(c, 1, p - 1)
             c2 == SubSeq(c, p, n)
             c3 == c1 \o <<v>>
  <2>1. d = c3 \o c2
    BY <1>0, <1>3 DEF InsertAt
  <2>2. /\ c1 \in Seq(Values) /\ Len(c1) = p - 1
        /\ \A i \in 1 .. p - 1 : c1[i] = c[i]
    BY <1>3, <1>6
  <2>3. /\ c2 \in Seq(Values) /\ Len(c2) = n - p + 1
        /\ \A i \in 1 .. n - p + 1 : c2[i] = c[p + i - 1]
    BY <1>3, <1>6
  <2> HIDE DEF c1, c2
  <2>4. <<v>> \in Seq(Values) /\ Len(<<v>>) = 1 /\ <<v>>[1] = v
    OBVIOUS
  <2>5. /\ c3 \in Seq(Values) /\ Len(c3) = p /\ c3[p] = v
        /\ \A i \in 1 .. p - 1 : c3[i] = c[i]
    <3>1. /\ c3 \in Seq(Values) /\ Len(c3) = Len(c1) + Len(<<v>>)
          /\ \A i \in 1 .. Len(c1) + Len(<<v>>) :
                c3[i] = IF i <= Len(c1) THEN c1[i] ELSE <<v>>[i - Len(c1)]
      BY <2>2, <2>4, ConcatProperties
    <3>2. Len(c1) + Len(<<v>>) = p /\ p - Len(c1) = 1 /\ ~(p <= Len(c1)) /\ p \in 1 .. p
      BY <2>2, <2>4, <1>6
    <3>3. c3[p] = v
      BY <3>1, <3>2, <2>4
    <3>4. \A i \in 1 .. p - 1 : c3[i] = c[i]
      BY <3>1, <3>2, <2>2, <1>6
    <3> QED BY <3>1, <3>2, <3>3, <3>4
  <2> HIDE DEF c3
  <2>6. /\ d \in Seq(Values) /\ Len(d) = p + (n - p + 1)
        /\ \A i \in 1 .. p + (n - p + 1) : d[i] = IF i <= p THEN c3[i] ELSE c2[i - p]
    <3>1. /\ d \in Seq(Values) /\ Len(d) = Len(c3) + Len(c2)
          /\ \A i \in 1 .. Len(c3) + Len(c2) :
                d[i] = IF i <= Len(c3) THEN c3[i] ELSE c2[i - Len(c3)]
      BY <2>1, <2>3, <2>5, ConcatProperties
    <3> QED BY <3>1, <2>3, <2>5
  <2>7. p + (n - p + 1) = n + 1
    BY <1>3, <1>6
  <2>8. d[p] = v
    BY <2>5, <2>6, <2>7, <1>3, <1>6
  <2>9. ASSUME NEW i \in 1 .. n, i < p PROVE d[i] = c[i]
    <3>1. i \in 1 .. n + 1 /\ i <= p /\ i \in 1 .. p - 1
      BY <2>9, <1>3, <1>6
    <3> QED BY <3>1, <2>5, <2>6, <2>7
  <2>10. ASSUME NEW i \in 1 .. n, i >= p PROVE d[i + 1] = c[i]
    <3>1. /\ i + 1 \in 1 .. n + 1 /\ ~(i + 1 <= p) /\ (i + 1) - p \in 1 .. n - p + 1
          /\ p + ((i + 1) - p) - 1 = i
      BY <2>10, <1>3, <1>6
    <3>2. d[i + 1] = c2[(i + 1) - p]
      BY <3>1, <2>6, <2>7
    <3>3. c2[(i + 1) - p] = c[p + ((i + 1) - p) - 1]
      BY <3>1, <2>3
    <3> QED BY <3>1, <3>2, <3>3
  <2> QED BY <2>6, <2>7, <2>8, <2>9, <2>10 DEF PutIn
<1>13. \A i \in 1 .. n :
          /\ g[s[i]].value = f[s[i]].value /\ g[s[i]].prev = f[s[i]].prev
          /\ i + 1 = p => g[s[i]].next = x
          /\ i + 1 # p => g[s[i]].next = f[s[i]].next
  <2> SUFFICES ASSUME NEW i \in 1 .. n
               PROVE  /\ g[s[i]].value = f[s[i]].value /\ g[s[i]].prev = f[s[i]].prev
                      /\ i + 1 = p => g[s[i]].next = x
                      /\ i + 1 # p => g[s[i]].next = f[s[i]].next
    OBVIOUS
  <2>1. s[i] \in DOMAIN f /\ g[s[i]] = h[s[i]]
    BY <1>5, <1>10
  <2>2. i + 1 = p => s[i] = before
    BY <1>3, <1>6 DEF before
  <2>3. before # NULL
    BY <1>4, <1>7
  <2>4. i + 1 # p => s[i] # before
    <3>1. i + 1 # p => i # p - 1
      BY <1>6
    <3> QED BY <3>1, <1>2, <1>6 DEF Chain, Enumerates, before
  <2> QED BY <2>1, <2>2, <2>3, <2>4, <1>8
<1>14. PutLinks(f, head, tail, g, head2, tail2, n, s, p, x, v, FALSE)
  <2>1. p # 1 /\ p < n + 1 /\ p # n + 1
    BY <1>3, <1>6
  <2> QED BY <2>1, <1>1, <1>6, <1>9, <1>10, <1>11, <1>13 DEF PutLinks, before
<1>15. \E t : Chain(g, head2, tail2, d, n + 1, t, FALSE)
  <2>1. p \in 1 .. n + 1
    BY <1>3
  <2> QED BY <2>1, <1>2, <1>3, <1>12, <1>14, ChainPut
<1> QED BY <1>0, <1>11, <1>15 DEF Listed

LEMMA UnhookListed ==
    ASSUME NEW n, NEW s, Chain(node, first, last, contents, n, s, TRUE),
           Listed(node, first, last, contents, TRUE),
           NEW p \in 1 .. n, Unhook(s[p]), contents' = RemoveAt(contents, p)
    PROVE  Listed(node', first', last', contents', TRUE)
<1>0. PICK f, head, tail, c, g, head2, tail2, d :
         /\ f = node /\ head = first /\ tail = last /\ c = contents
         /\ g = node' /\ head2 = first' /\ tail2 = last' /\ d = contents'
  OBVIOUS
<1>1. DOMAIN f = Alive /\ f \in [DOMAIN f -> NodeType]
  BY <1>0 DEF Alive, Listed
<1>2. Chain(f, head, tail, c, n, s, TRUE)
  BY <1>0
<1>3. n \in Nat /\ n > 0 /\ DOMAIN f \subseteq Nodes /\ c \in Seq(Values) /\ Len(c) = n
  BY <1>2 DEF Chain
<1>4. NULL \notin DOMAIN f /\ NULL \in Nat /\ DOMAIN f \subseteq Nat
  BY <1>3, NodesAreNumbers
<1>5. /\ \A i \in 1 .. n : s[i] \in DOMAIN f
      /\ head = s[1] /\ tail = s[n]
      /\ \A i \in 1 .. n : i # 1 => s[i] # head
      /\ \A i \in 1 .. n : i # n => s[i] # tail
  <2>1. \A i \in 1 .. n : s[i] \in DOMAIN f
    BY <1>2, ChainEnds
  <2>2. head = s[1] /\ tail = s[n]
    BY <1>2, <1>3 DEF Chain
  <2>3. ASSUME NEW i \in 1 .. n PROVE (i # 1 => s[i] # head) /\ (i # n => s[i] # tail)
    <3>1. 1 \in 1 .. n /\ n \in 1 .. n
      BY <1>3
    <3> QED BY <3>1, <2>2, <1>2 DEF Chain, Enumerates
  <2> QED BY <2>1, <2>2, <2>3
<1> DEFINE y == s[p]
           next == f[y].next
           prev == f[y].prev
<1>6. /\ y \in DOMAIN f
      /\ p = n => y = tail /\ next = NULL
      /\ p < n => y # tail /\ p + 1 \in 1 .. n /\ next = s[p + 1] /\ next \in DOMAIN f
      /\ p = 1 => y = head /\ prev = NULL
      /\ p > 1 => y # head /\ p - 1 \in 1 .. n /\ prev = s[p - 1] /\ prev \in DOMAIN f
  <2>1. /\ p = n => next = NULL
        /\ p < n => next = s[p + 1]
        /\ p = 1 => prev = NULL
        /\ p > 1 => prev = s[p - 1]
    BY <1>2 DEF Chain
  <2>2. (p < n => p + 1 \in 1 .. n /\ p # n) /\ (p > 1 => p - 1 \in 1 .. n /\ p # 1)
    BY <1>3
  <2> QED BY <2>1, <2>2, <1>5
<1>7. next \in DOMAIN f \cup {NULL} /\ prev \in DOMAIN f \cup {NULL} /\ next \in Nat /\ prev \in Nat
  BY <1>3, <1>4, <1>6
<1> HIDE DEF y, next, prev
<1> DEFINE h == CASE y = head /\ y = tail -> f
                  [] y = head /\ y # tail -> Link(f, next, "prev", NULL)
                  [] y # head /\ y = tail -> Link(f, prev, "next", NULL)
                  [] OTHER -> Link(Link(f, next, "prev", prev), prev, "next", next)
<1>8. /\ h \in [DOMAIN f -> NodeType]
      /\ \A m \in DOMAIN f : h[m].value = f[m].value
      /\ next # NULL => h[next].prev = prev
      /\ prev # NULL => h[prev].next = next
      /\ \A m \in DOMAIN f \ {next} : h[m].prev = f[m].prev
      /\ \A m \in DOMAIN f \ {prev} : h[m].next = f[m].next
  <2>1. CASE p = 1 /\ p = n
    <3>1. h = f /\ next = NULL /\ prev = NULL
      BY <2>1, <1>6
    <3> QED BY <3>1, <1>1
  <2>2. CASE p = 1 /\ p < n
    <3>1. h = Link(f, next, "prev", NULL) /\ prev = NULL
      BY <2>2, <1>6
    <3> QED BY <3>1, <1>1, <1>4, <1>7, LinkPrev
  <2>3. CASE p > 1 /\ p = n
    <3>1. h = Link(f, prev, "next", NULL) /\ next = NULL
      BY <2>3, <1>6
    <3> QED BY <3>1, <1>1, <1>4, <1>7, LinkNext
  <2>4. CASE p > 1 /\ p < n
    <3> DEFINE k == Link(f, next, "prev", prev)
    <3>1. /\ k \in [DOMAIN f -> NodeType]
          /\ \A m \in DOMAIN f : k[m].next = f[m].next /\ k[m].value = f[m].value
          /\ next # NULL => k[next].prev = prev
          /\ \A m \in DOMAIN f \ {next} : k[m].prev = f[m].prev
      BY <1>1, <1>4, <1>7, LinkPrev
    <3>2. h = Link(k, prev, "next", next) /\ next \in DOMAIN f
      BY <2>4, <1>6
    <3> HIDE DEF k, h
    <3>3. /\ h \in [DOMAIN f -> NodeType]
          /\ \A m \in DOMAIN f : h[m].prev = k[m].prev /\ h[m].value = k[m].value
          /\ prev # NULL => h[prev].next = next
          /\ \A m \in DOMAIN f \ {prev} : h[m].next = k[m].next
      BY <3>1, <3>2, <1>4, <1>7, LinkNext
    <3> QED BY <3>1, <3>2, <3>3
  <2> QED BY <2>1, <2>2, <2>3, <2>4, <1>3
<1>9. /\ g = [m \in DOMAIN f \ {y} |-> h[m]]
      /\ head2 = IF y # head THEN head ELSE IF y = tail THEN NULL ELSE next
      /\ tail2 = IF y # tail THEN tail ELSE IF y = head THEN NULL ELSE prev
  BY <1>0, <1>1 DEF Unhook, y, next, prev
<1> HIDE DEF h
<1>10. DOMAIN g = DOMAIN f \ {y} /\ g \in [DOMAIN g -> NodeType]
  BY <1>8, <1>9
<1>11. /\ p = 1 => head2 = next
       /\ p > 1 => head2 = head
       /\ p = n => tail2 = prev
       /\ p < n => tail2 = tail
  BY <1>3, <1>6, <1>9
<1>12. TakenFrom(d, c, n, p)
  <2> DEFINE c1 == SubSeq(c, 1, p - 1)
             c2 == SubSeq(c, p + 1, n)
  <2>1. d = c1 \o c2
    BY <1>0, <1>3 DEF RemoveAt
  <2>2. /\ c1 \in Seq(Values) /\ Len(c1) = p - 1
        /\ \A i \in 1 .. p - 1 : c1[i] = c[i]
    BY <1>3
  <2>3. /\ c2 \in Seq(Values) /\ Len(c2) = n - p
        /\ \A i \in 1 .. n - p : c2[i] = c[p + i]
    BY <1>3
  <2> HIDE DEF c1, c2
  <2>4. /\ d \in Seq(Values) /\ Len(d) = Len(c1) + Len(c2)
        /\ \A i \in 1 .. Len(c1) + Len(c2) :
              d[i] = IF i <= Len(c1) THEN c1[i] ELSE c2[i - Len(c1)]
    BY <2>1, <2>2, <2>3, ConcatProperties
  <2>5. Len(d) = n - 1 /\ \A i \in 1 .. n - 1 : d[i] = IF i <= p - 1 THEN c1[i] ELSE c2[i - (p - 1)]
    <3>1. (p - 1) + (n - p) = n - 1
      BY <1>3
    <3> QED BY <3>1, <2>2, <2>3, <2>4
  <2>6. ASSUME NEW i \in 1 .. n - 1, i < p PROVE d[i] = c[i]
    <3>1. i <= p - 1 /\ i \in 1 .. p - 1
      BY <2>6, <1>3
    <3> QED BY <3>1, <2>2, <2>5
  <2>7. ASSUME NEW i \in 1 .. n - 1, i >= p PROVE d[i] = c[i + 1]
    <3>1. ~(i <= p - 1) /\ i - (p - 1) \in 1 .. n - p /\ p + (i - (p - 1)) = i + 1
      BY <2>7, <1>3
    <3>2. d[i] = c2[i - (p - 1)]
      BY <3>1, <2>5
    <3>3. c2[i - (p - 1)] = c[p + (i - (p - 1))]
      BY <3>1, <2>3
    <3> QED BY <3>1, <3>2, <3>3
  <2> QED BY <2>4, <2>5, <2>6, <2>7 DEF TakenFrom
<1>13. TakenLinks(f, head, tail, g, head2, tail2, n, s, p)
  <2>1. Enumerates(s, n, DOMAIN f)
    BY <1>2 DEF Chain
  <2>2. ASSUME NEW i \in 1 .. n, i # p
        PROVE  /\ g[s[i]].value = f[s[i]].value
               /\ i + 1 = p => g[s[i]].next = next
               /\ i + 1 # p => g[s[i]].next = f[s[i]].next
               /\ i = p + 1 => g[s[i]].prev = prev
               /\ i # p + 1 => g[s[i]].prev = f[s[i]].prev
    <3>1. s[i] \in DOMAIN f /\ s[i] # y
      BY <2>1, <2>2, <1>5 DEF Enumerates, y
    <3>2. g[s[i]] = h[s[i]]
      BY <3>1, <1>9
    <3>3. i + 1 = p => s[i] = prev /\ prev # NULL
      <4>1. i + 1 = p => p > 1 /\ p - 1 = i
        BY <1>3
      <4> QED BY <4>1, <1>4, <1>6
    <3>4. i + 1 # p => s[i] # prev
      <4>1. CASE p = 1
        BY <4>1, <3>1, <1>4, <1>6
      <4>2. CASE p > 1 /\ i + 1 # p
        <5>1. i # p - 1 /\ p - 1 \in 1 .. n /\ prev = s[p - 1]
          BY <4>2, <1>6
        <5> QED BY <5>1, <2>1 DEF Enumerates
      <4> QED BY <4>1, <4>2, <1>3
    <3>5. i = p + 1 => s[i] = next /\ next # NULL
      <4>1. i = p + 1 => p < n
        BY <1>3
      <4> QED BY <4>1, <1>4, <1>6
    <3>6. i # p + 1 => s[i] # next
      <4>1. CASE p = n
        BY <4>1, <3>1, <1>4, <1>6
      <4>2. CASE p < n /\ i # p + 1
        <5>1. p + 1 \in 1 .. n /\ next = s[p + 1]
          BY <4>2, <1>6
        <5> QED BY <5>1, <4>2, <2>1 DEF Enumerates
      <4> QED BY <4>1, <4>2, <1>3
    <3> QED BY <3>1, <3>2, <3>3, <3>4, <3>5, <3>6, <1>8
  <2> QED BY <2>2, <1>10, <1>11 DEF TakenLinks, y, next, prev
<1>14. \E t : Chain(g, head2, tail2, d, n - 1, t, TRUE)
  BY <1>2, <1>3, <1>12, <1>13, ChainTake
<1> QED BY <1>0, <1>10, <1>14 DEF Listed

-----------------------------------------------------------------------------
(* The keyword list: reading and destroying it.                            *)

LEMMA ListedReads ==
    ASSUME NEW n, NEW s, NEW whole \in BOOLEAN,
           Chain(node, first, last, contents, n, s, whole)
    PROVE  /\ n \in Nat /\ Size = n /\ Len(contents) = n
           /\ \A i \in 1 .. n : Forward[i] = s[i]
           /\ whole => \A i \in 1 .. n : Backward[i] = s[n + 1 - i]
<1>1. n \in Nat /\ Len(contents) = n /\ Enumerates(s, n, Alive)
  BY DEF Chain, Alive
<1>2. Size = n
  <2>1. PICK A : A = Alive
    OBVIOUS
  <2>2. Cardinality(A) = n
    BY <1>1, <2>1, EnumeratedSize
  <2> QED BY <2>1, <2>2 DEF Size
<1>3. \A i \in 1 .. n : s[i] \in Alive
  BY <1>1 DEF Enumerates
<1>4. \A i \in 1 .. n : Forward[i] = s[i]
  <2>1. PICK from, link : from = first /\ link = "next"
    OBVIOUS
  <2>2. n > 0 => from = s[1]
    BY <2>1 DEF Chain
  <2>3. \A i \in 1 .. n : i < n => node[s[i]][link] = s[i + 1]
    BY <2>1 DEF Chain
  <2>4. \A i \in 1 .. n : Walk(from, link)[i] = s[i]
    BY <2>2, <2>3, <1>1, <1>2, <1>3, WalkIs
  <2> QED BY <2>1, <2>4 DEF Forward
<1>5. ASSUME whole PROVE \A i \in 1 .. n : Backward[i] = s[n + 1 - i]
  <2>1. PICK from, link : from = last /\ link = "prev"
    OBVIOUS
  <2>2. PICK r : r = [i \in 1 .. n |-> s[n + 1 - i]]
    OBVIOUS
  <2>3. \A i \in 1 .. n : r[i] = s[n + 1 - i] /\ n + 1 - i \in 1 .. n
    BY <2>2, <1>1
  <2>4. \A i \in 1 .. n : r[i] \in Alive
    BY <2>3, <1>3
  <2>5. n > 0 => from = r[1]
    <3>1. n > 0 => 1 \in 1 .. n /\ n + 1 - 1 = n
      BY <1>1
    <3> QED BY <3>1, <2>1, <2>3 DEF Chain
  <2>6. ASSUME NEW i \in 1 .. n, i < n PROVE node[r[i]][link] = r[i + 1]
    <3>1. /\ i + 1 \in 1 .. n /\ n + 1 - i \in 1 .. n /\ n + 1 - i > 1
          /\ n + 1 - (i + 1) = (n + 1 - i) - 1
      BY <2>6, <1>1
    <3>2. node[s[n + 1 - i]].prev = s[(n + 1 - i) - 1]
      BY <3>1, <1>5 DEF Chain
    <3> QED BY <3>1, <3>2, <2>1, <2>3
  <2>7. \A i \in 1 .. n : Walk(from, link)[i] = r[i]
    BY <2>4, <2>5, <2>6, <1>1, <1>2, WalkIs
  <2> QED BY <2>1, <2>3, <2>7 DEF Backward
<1> QED BY <1>1, <1>2, <1>4, <1>5

(* List_destroy frees the prev of the second node to the last, that is the  *)
(* first to the last but one, and then the last.                            *)
LEMMA DestroyedIs ==
    ASSUME NEW n, NEW s, Chain(node, first, last, contents, n, s, TRUE), n > 0
    PROVE  Len(Destroyed) = Size /\ ToSet(Destroyed) = Alive
<1>1. /\ n \in Nat /\ Size = n /\ Enumerates(s, n, Alive) /\ last = s[n]
      /\ \A i \in 1 .. n : Forward[i] = s[i]
  <2>1. n \in Nat /\ Size = n /\ \A i \in 1 .. n : Forward[i] = s[i]
    BY ListedReads
  <2> QED BY <2>1 DEF Chain, Alive
<1> DEFINE prev(i) == node[Forward[i]].prev
           freed[i \in 0 .. Size] ==
              IF i = 0 THEN <<>>
              ELSE IF prev(i) = NULL THEN freed[i - 1] ELSE Append(freed[i - 1], prev(i))
<1>2. Destroyed = Append(freed[Size], last)
  BY DEF Destroyed
<1>3. \A i \in 1 .. n : s[i] \in Alive /\ s[i] # NULL
  BY <1>1, NodesAreNumbers DEF Enumerates, Chain, Alive
<1>4. \A i \in 1 .. n : /\ i = 1 => prev(i) = NULL
                        /\ i > 1 => prev(i) = s[i - 1] /\ prev(i) # NULL
  BY <1>1, ZenonT(30) DEF Chain
(* What is freed before node i + 1 is reached.                              *)
<1> DEFINE done(i) == [j \in 1 .. i - 1 |-> s[j]]
           u == [i \in 0 .. n |-> IF i = 0 THEN <<>> ELSE done(i)]
<1>5. ASSUME NEW i \in 1 .. n PROVE done(i) \in Seq(Alive) /\ Len(done(i)) = i - 1
  BY <1>1, <1>3
<1>6. u = [i \in 0 .. Size |->
              IF i = 0 THEN <<>>
              ELSE IF prev(i) = NULL THEN u[i - 1] ELSE Append(u[i - 1], prev(i))]
  <2>1. ASSUME NEW i \in 1 .. n
        PROVE  done(i) = IF prev(i) = NULL THEN u[i - 1] ELSE Append(u[i - 1], prev(i))
    <3>1. CASE i = 1
      <4>1. done(i) = <<>> /\ u[0] = <<>>
        BY <3>1, <1>1
      <4>2. prev(i) = NULL
        BY <3>1, <1>4
      <4>3. u[i - 1] = <<>>
        <5> HIDE DEF u
        <5> QED BY <3>1, <4>1
      <4> HIDE DEF prev, u, done
      <4> QED BY <4>1, <4>2, <4>3
    <3>2. CASE i > 1
      <4>1. i - 1 \in 1 .. n /\ i - 1 # 0 /\ i - 1 \in 0 .. n
        BY <3>2, <1>1
      <4>2. u[i - 1] = done(i - 1) /\ prev(i) = s[i - 1] /\ prev(i) # NULL
        BY <3>2, <4>1, <1>4
      <4>3. /\ done(i - 1) \in Seq(Alive) /\ Len(done(i - 1)) = i - 2 /\ s[i - 1] \in Alive
            /\ \A j \in 1 .. i - 2 : done(i - 1)[j] = s[j]
        BY <4>1, <1>3, <1>5
      <4>4. Append(done(i - 1), s[i - 1]) = done(i)
        <5> HIDE DEF prev, u
        <5>1. /\ Append(done(i - 1), s[i - 1]) \in Seq(Alive)
              /\ Len(Append(done(i - 1), s[i - 1])) = i - 1
              /\ \A j \in 1 .. i - 1 : Append(done(i - 1), s[i - 1])[j] = s[j]
          <6> DEFINE q == done(i - 1)
          <6>1. q \in Seq(Alive) /\ Len(q) = i - 2 /\ \A j \in 1 .. i - 2 : q[j] = s[j]
            BY <4>3
          <6> HIDE DEF q
          <6>2. /\ Append(q, s[i - 1]) \in Seq(Alive) /\ Len(Append(q, s[i - 1])) = i - 1
                /\ \A j \in 1 .. i - 1 : Append(q, s[i - 1])[j] = s[j]
            BY <6>1, <4>1, <4>3
          <6> QED BY <6>2 DEF q
        <5>2. done(i) \in Seq(Alive) /\ Len(done(i)) = i - 1 /\ \A j \in 1 .. i - 1 : done(i)[j] = s[j]
          BY <1>5
        <5> HIDE DEF done
        <5> QED BY <5>1, <5>2, SeqEqual
      <4> QED BY <4>2, <4>4
    <3> QED BY <3>1, <3>2
  <2> HIDE DEF prev, done
  <2>2. u = [i \in 0 .. n |-> IF i = 0 THEN <<>> ELSE done(i)]
    OBVIOUS
  <2> HIDE DEF u
  <2>3. [i \in 0 .. n |-> IF i = 0 THEN <<>> ELSE done(i)]
        = [i \in 0 .. n |-> IF i = 0 THEN <<>>
                           ELSE IF prev(i) = NULL THEN u[i - 1] ELSE Append(u[i - 1], prev(i))]
    <3>1. \A i \in 0 .. n : i # 0 => i \in 1 .. n
      BY <1>1
    <3> QED BY <2>1, <3>1
  <2> QED BY <1>1, <2>2, <2>3
<1>7. freed = CHOOSE w : w = [i \in 0 .. Size |->
                 IF i = 0 THEN <<>>
                 ELSE IF prev(i) = NULL THEN w[i - 1] ELSE Append(w[i - 1], prev(i))]
  OBVIOUS
<1> HIDE DEF freed
<1>8. freed = [i \in 0 .. Size |->
                 IF i = 0 THEN <<>>
                 ELSE IF prev(i) = NULL THEN freed[i - 1] ELSE Append(freed[i - 1], prev(i))]
  <2> HIDE DEF u
  <2> QED BY <1>6, <1>7
<1>9. \A i \in 0 .. n : freed[i] = u[i]
  <2> HIDE DEF u, prev
  <2>1. PICK T : T = {i \in Nat : i \in 0 .. n => freed[i] = u[i]}
    OBVIOUS
  <2>2. 0 \in T
    <3>1. 0 \in 0 .. Size
      BY <1>1
    <3>2. freed[0] = <<>> /\ u[0] = <<>>
      BY <3>1, <1>6, <1>8
    <3> QED BY <2>1, <3>2
  <2>3. ASSUME NEW i \in T PROVE i + 1 \in T
    <3>1. i \in Nat /\ (i \in 0 .. n => freed[i] = u[i])
      BY <2>1
    <3>2. SUFFICES ASSUME i + 1 \in 0 .. n PROVE freed[i + 1] = u[i + 1]
      BY <2>1, <3>1
    <3>3. i \in 0 .. n /\ i + 1 \in 0 .. Size /\ i + 1 # 0 /\ (i + 1) - 1 = i
      BY <3>1, <3>2, <1>1
    <3>4. freed[i + 1] = IF prev(i + 1) = NULL THEN freed[i] ELSE Append(freed[i], prev(i + 1))
      BY <3>3, <1>8
    <3>5. u[i + 1] = IF prev(i + 1) = NULL THEN u[i] ELSE Append(u[i], prev(i + 1))
      BY <3>3, <1>6
    <3> QED BY <3>1, <3>3, <3>4, <3>5
  <2>4. T = Nat
    <3>1. T \in SUBSET Nat
      BY <2>1
    <3> QED BY <3>1, <2>2, <2>3, AllNumbers
  <2> QED BY <2>1, <2>4
<1>10. Destroyed = Append(done(n), s[n])
  <2>1. n \in 0 .. n /\ n # 0
    BY <1>1
  <2>2. u[n] = done(n)
    <3> HIDE DEF done
    <3> QED BY <2>1
  <2> HIDE DEF done, u
  <2> QED BY <2>1, <2>2, <1>1, <1>2, <1>9
<1>11. /\ Len(Destroyed) = n
       /\ DOMAIN Destroyed = 1 .. n
       /\ \A i \in 1 .. n : Destroyed[i] = s[i]
  <2>1. PICK q : q = done(n)
    OBVIOUS
  <2>2. n \in 1 .. n /\ s[n] \in Alive
    BY <1>1, <1>3
  <2>3. q \in Seq(Alive) /\ Len(q) = n - 1
    BY <2>1, <2>2, <1>5
  <2>4. \A i \in 1 .. n - 1 : q[i] = s[i]
    BY <2>1, <1>1
  <2>5. Destroyed = Append(q, s[n])
    <3> HIDE DEF done
    <3> QED BY <2>1, <1>10
  <2> HIDE DEF done, u, prev
  <2> QED BY <2>2, <2>3, <2>4, <2>5, <1>1
<1> HIDE DEF done, u, prev
<1>12. ToSet(Destroyed) = Alive
  <2>1. \A m \in Alive : \E i \in 1 .. n : s[i] = m
    BY <1>1 DEF Enumerates
  <2> QED BY <1>3, <1>11, <2>1 DEF ToSet
<1> QED BY <1>1, <1>11, <1>12

-----------------------------------------------------------------------------
(* The keyword list: every sequence of calls.                               *)

(* What a program keeps of its list, until a prev that List_paste has left  *)
(* uncorrected is used.                                                     *)
ListInv ==
    /\ pasted \in {"no", "yes", "spoilt"}
    /\ pasted # "spoilt" => Listed(node, first, last, contents, pasted = "no")
    /\ FreedOnce

LEMMA ListInitially == ListInit => ListInv
<1> SUFFICES ASSUME ListInit PROVE ListInv
  OBVIOUS
<1>1. node = <<>> /\ first = NULL /\ last = NULL /\ frees = <<>> /\ pasted = "no" /\ contents = <<>>
  BY DEF ListInit
<1>2. DOMAIN node = {} /\ node \in [DOMAIN node -> NodeType]
  BY <1>1
<1>3. PICK s : s = [i \in 1 .. 0 |-> NULL]
  OBVIOUS
<1>4. Enumerates(s, 0, DOMAIN node)
  BY <1>2, <1>3 DEF Enumerates
<1>5. Chain(node, first, last, contents, 0, s, TRUE)
  BY <1>1, <1>2, <1>4 DEF Chain
<1>6. Listed(node, first, last, contents, TRUE)
  BY <1>2, <1>5 DEF Listed
<1> QED BY <1>1, <1>6 DEF ListInv, FreedOnce

LEMMA EndsOfList ==
    ASSUME NEW n, NEW s, NEW whole, Chain(node, first, last, contents, n, s, whole)
    PROVE  /\ n \in Nat
           /\ first # NULL \/ last # NULL => n # 0
           /\ n # 0 => first = s[1] /\ last = s[n]
<1>1. n \in Nat /\ (n = 0 => first = NULL /\ last = NULL)
  BY DEF Chain
<1>2. n > 0 => first = s[1] /\ last = s[n]
  BY DEF Chain
<1> QED BY <1>1, <1>2

(* In a list that is listed there is room for a node that is not in it.     *)
LEMMA RoomForOne ==
    ASSUME NEW whole, Listed(node, first, last, contents, whole), Alive # Nodes
    PROVE  FreshNode \in Nodes \ Alive
<1>1. Alive \subseteq Nodes
  BY DEF Listed, Chain, Alive
<1> QED BY <1>1, FreshIsFree

LEMMA PushKept ==
    ASSUME ListInv, NEW v \in Values, Usable, Alive # Nodes, Push(v)
    PROVE  ListInv'
<1>1. pasted # "spoilt" /\ pasted' = pasted /\ frees = <<>> /\ frees' = <<>>
  BY DEF Usable, Push
<1>2. PICK whole \in BOOLEAN : whole = (pasted = "no")
  OBVIOUS
<1>3. Listed(node, first, last, contents, whole)
  BY <1>1, <1>2 DEF ListInv
<1>4. Listed(node', first', last', contents', whole)
  BY <1>3, RoomForOne, PushListed
<1> QED BY <1>1, <1>2, <1>4 DEF ListInv, FreedOnce

LEMMA UnshiftKept ==
    ASSUME ListInv, NEW v \in Values, Usable, Alive # Nodes, Unshift(v)
    PROVE  ListInv'
<1>1. pasted # "spoilt" /\ pasted' = pasted /\ frees = <<>> /\ frees' = <<>>
  BY DEF Usable, Unshift
<1>2. PICK whole \in BOOLEAN : whole = (pasted = "no")
  OBVIOUS
<1>3. Listed(node, first, last, contents, whole)
  BY <1>1, <1>2 DEF ListInv
<1>4. Listed(node', first', last', contents', whole)
  BY <1>3, RoomForOne, UnshiftListed
<1> QED BY <1>1, <1>2, <1>4 DEF ListInv, FreedOnce

LEMMA PasteKept ==
    ASSUME ListInv, NEW v \in Values, NEW rc \in 0 .. Size, List_paste(rc, v)
    PROVE  ListInv'
<1>1. Usable /\ Alive # Nodes
  BY DEF List_paste
<1>2. pasted # "spoilt" /\ frees = <<>> /\ frees' = <<>>
  BY <1>1 DEF Usable
<1>3. CASE Push(v)
  BY <1>1, <1>3, PushKept
<1>4. CASE Unshift(v)
  BY <1>1, <1>4, UnshiftKept
<1>5. CASE /\ ~(rc >= Size) /\ node[NodeAt(rc)].prev # NULL
           /\ PasteBefore(NodeAt(rc), v) /\ contents' = InsertAt(contents, rc + 1, v)
  <2>1. CASE pasted = "no"
    <3>1. Listed(node, first, last, contents, TRUE)
      BY <2>1 DEF ListInv
    <3>2. PICK n, s : Chain(node, first, last, contents, n, s, TRUE)
      BY <3>1 DEF Listed
    <3>3. n \in Nat /\ Size = n /\ \A i \in 1 .. n : Forward[i] = s[i]
      BY <3>2, ListedReads
    <3>4. rc + 1 \in 1 .. n
      BY <1>5, <3>3
    <3>5. NodeAt(rc) = s[rc + 1]
      BY <3>3, <3>4 DEF NodeAt
    <3>6. rc + 1 # 1
      <4>1. 1 \in 1 .. n => node[s[1]].prev = NULL
        BY <3>2 DEF Chain
      <4> QED BY <4>1, <3>4, <3>5, <1>5
    <3>7. PICK p \in 2 .. n : p = rc + 1
      BY <3>3, <3>4, <3>6
    <3>8. PasteBefore(s[p], v) /\ contents' = InsertAt(contents, p, v)
      BY <1>5, <3>5, <3>7
    <3>9. Listed(node', first', last', contents', FALSE)
      BY <1>1, <3>1, <3>2, <3>8, RoomForOne, PasteListed
    <3>10. pasted' = "yes"
      BY <1>5, <2>1 DEF PasteBefore
    <3> QED BY <1>2, <3>9, <3>10 DEF ListInv, FreedOnce
  <2>2. CASE pasted # "no"
    <3>1. pasted' = "spoilt"
      BY <1>5, <2>2 DEF PasteBefore
    <3> QED BY <1>2, <3>1 DEF ListInv, FreedOnce
  <2> QED BY <2>1, <2>2
<1> QED BY <1>3, <1>4, <1>5 DEF List_paste

LEMMA RemoveKept ==
    ASSUME ListInv, NEW m, NEW p, List_remove(m, p),
           \A n, s : Chain(node, first, last, contents, n, s, TRUE) => p \in 1 .. n /\ m = s[p]
    PROVE  ListInv'
<1>1. pasted # "spoilt" /\ frees = <<>> /\ frees' = <<>>
  BY DEF List_remove, Usable
<1>2. CASE pasted = "no"
  <2>1. Listed(node, first, last, contents, TRUE)
    BY <1>2 DEF ListInv
  <2>2. PICK n, s : Chain(node, first, last, contents, n, s, TRUE)
    BY <2>1 DEF Listed
  <2>3. p \in 1 .. n /\ m = s[p]
    BY <2>2
  <2>4. Unhook(s[p]) /\ contents' = RemoveAt(contents, p) /\ pasted' = "no"
    BY <1>2, <2>3 DEF List_remove
  <2>5. Listed(node', first', last', contents', TRUE)
    BY <2>1, <2>2, <2>3, <2>4, UnhookListed
  <2> QED BY <1>1, <2>4, <2>5 DEF ListInv, FreedOnce
<1>3. CASE pasted # "no"
  <2>1. pasted' = "spoilt"
    BY <1>3 DEF List_remove
  <2> QED BY <1>1, <2>1 DEF ListInv, FreedOnce
<1> QED BY <1>2, <1>3

LEMMA ShiftKept == ListInv /\ List_shift => ListInv'
<1> SUFFICES ASSUME ListInv, List_shift PROVE ListInv'
  OBVIOUS
<1>1. ASSUME NEW n, NEW s, Chain(node, first, last, contents, n, s, TRUE)
      PROVE  1 \in 1 .. n /\ first = s[1]
  <2>1. n \in Nat /\ n # 0 /\ first = s[1]
    BY <1>1, EndsOfList DEF List_shift
  <2> QED BY <2>1
<1>2. List_remove(first, 1)
  BY DEF List_shift
<1> QED BY <1>1, <1>2, RemoveKept

LEMMA PopKept == ListInv /\ List_pop => ListInv'
<1> SUFFICES ASSUME ListInv, List_pop PROVE ListInv'
  OBVIOUS
<1>1. ASSUME NEW n, NEW s, Chain(node, first, last, contents, n, s, TRUE)
      PROVE  Size \in 1 .. n /\ last = s[Size]
  <2>1. n \in Nat /\ n # 0 /\ last = s[n]
    BY <1>1, EndsOfList DEF List_pop
  <2>2. Size = n
    BY <1>1, ListedReads
  <2> QED BY <2>1, <2>2
<1>2. List_remove(last, Size)
  BY DEF List_pop
<1> QED BY <1>1, <1>2, RemoveKept

LEMMA ClipKept == ASSUME ListInv, NEW rc \in 0 .. Size, List_clip(rc) PROVE ListInv'
<1>1. ASSUME NEW n, NEW s, Chain(node, first, last, contents, n, s, TRUE)
      PROVE  rc + 1 \in 1 .. n /\ NodeAt(rc) = s[rc + 1]
  <2>1. n \in Nat /\ Size = n /\ \A i \in 1 .. n : Forward[i] = s[i]
    BY <1>1, ListedReads
  <2>2. rc + 1 \in 1 .. n
    BY <2>1 DEF List_clip
  <2> QED BY <2>1, <2>2 DEF NodeAt
<1>2. List_remove(NodeAt(rc), rc + 1)
  BY DEF List_clip
<1> QED BY <1>1, <1>2, RemoveKept

LEMMA DestroyKept == ListInv /\ List_destroy => ListInv'
<1> SUFFICES ASSUME ListInv, List_destroy PROVE ListInv'
  OBVIOUS
<1>1. /\ pasted # "spoilt" /\ first # NULL /\ frees' = Destroyed
      /\ node' = node /\ first' = first /\ last' = last
      /\ pasted' = pasted /\ contents' = contents
  BY DEF List_destroy
<1>2. /\ pasted' \in {"no", "yes", "spoilt"}
      /\ pasted' # "spoilt" => Listed(node', first', last', contents', pasted' = "no")
  BY <1>1 DEF ListInv
<1>3. Size' = Size /\ Alive' = Alive
  BY <1>1 DEF Size, Alive
<1>4. ASSUME pasted = "no" PROVE Len(Destroyed) = Size /\ ToSet(Destroyed) = Alive
  <2>1. PICK n, s : Chain(node, first, last, contents, n, s, TRUE)
    BY <1>4 DEF ListInv, Listed
  <2>2. n \in Nat /\ n # 0
    BY <2>1, <1>1, EndsOfList
  <2>3. n > 0
    BY <2>2
  <2> QED BY <2>1, <2>3, DestroyedIs
<1>5. FreedOnce'
  BY <1>1, <1>3, <1>4 DEF FreedOnce
<1> QED BY <1>2, <1>5 DEF ListInv

LEMMA CreateKept == ListInv /\ List_create => ListInv'
<1> SUFFICES ASSUME List_create PROVE ListInv'
  OBVIOUS
<1>1. /\ node' = <<>> /\ first' = NULL /\ last' = NULL /\ frees' = <<>>
      /\ pasted' = "no" /\ contents' = <<>>
  BY DEF List_create
<1>2. DOMAIN node' = {} /\ node' \in [DOMAIN node' -> NodeType]
  BY <1>1
<1>3. PICK s : s = [i \in 1 .. 0 |-> NULL]
  OBVIOUS
<1>4. Enumerates(s, 0, DOMAIN node')
  BY <1>2, <1>3 DEF Enumerates
<1>5. Chain(node', first', last', contents', 0, s, TRUE)
  BY <1>1, <1>2, <1>4 DEF Chain
<1>6. Listed(node', first', last', contents', TRUE)
  BY <1>2, <1>5 DEF Listed
<1> QED BY <1>1, <1>6 DEF ListInv, FreedOnce

LEMMA ListStep == ListInv /\ [ListNext]_listVars => ListInv'
<1> SUFFICES ASSUME ListInv, [ListNext]_listVars PROVE ListInv'
  OBVIOUS
<1>1. ASSUME NEW v \in Values, List_push(v) PROVE ListInv'
  BY <1>1, PushKept DEF List_push
<1>2. ASSUME NEW v \in Values, List_unshift(v) PROVE ListInv'
  BY <1>2, UnshiftKept DEF List_unshift
<1>3. ASSUME NEW v \in Values, NEW rc \in 0 .. Size, List_paste(rc, v) PROVE ListInv'
  BY <1>3, PasteKept
<1>4. CASE List_shift
  BY <1>4, ShiftKept
<1>5. CASE List_pop
  BY <1>5, PopKept
<1>6. ASSUME NEW rc \in 0 .. Size, List_clip(rc) PROVE ListInv'
  BY <1>6, ClipKept
<1>7. CASE List_destroy
  BY <1>7, DestroyKept
<1>8. CASE List_create
  BY <1>8, CreateKept
<1>9. CASE UNCHANGED listVars
  BY <1>9 DEF listVars, ListInv, FreedOnce, Size, Alive
<1> QED BY <1>1, <1>2, <1>3, <1>4, <1>5, <1>6, <1>7, <1>8, <1>9 DEF ListNext

LEMMA ListInvSound == ListInv => ListSound
<1> SUFFICES ASSUME ListInv PROVE ListSound
  OBVIOUS
<1>1. ASSUME pasted # "spoilt"
      PROVE  /\ Size = Len(contents)
             /\ \A rc \in 0 .. Size - 1 : List_query(rc) = contents[rc + 1]
             /\ pasted = "no" => \A i \in 1 .. Size : Backward[i] = Forward[Size + 1 - i]
  <2>1. PICK whole \in BOOLEAN : whole = (pasted = "no")
    OBVIOUS
  <2>2. PICK n, s : Chain(node, first, last, contents, n, s, whole)
    BY <1>1, <2>1 DEF ListInv, Listed
  <2>3. /\ n \in Nat /\ Size = n /\ Len(contents) = n
        /\ \A i \in 1 .. n : Forward[i] = s[i]
        /\ whole => \A i \in 1 .. n : Backward[i] = s[n + 1 - i]
    BY <2>2, ListedReads
  <2>4. ASSUME NEW rc \in 0 .. Size - 1 PROVE List_query(rc) = contents[rc + 1]
    <3>1. rc + 1 \in 1 .. n /\ ~(rc >= Size)
      BY <2>3
    <3>2. NodeAt(rc) = s[rc + 1]
      BY <2>3, <3>1 DEF NodeAt
    <3>3. node[s[rc + 1]].value = contents[rc + 1]
      BY <2>2, <3>1 DEF Chain
    <3> QED BY <3>1, <3>2, <3>3 DEF List_query
  <2>5. ASSUME pasted = "no", NEW i \in 1 .. Size PROVE Backward[i] = Forward[Size + 1 - i]
    <3>1. i \in 1 .. n /\ n + 1 - i \in 1 .. n
      BY <2>3
    <3> QED BY <3>1, <2>1, <2>3, <2>5
  <2> QED BY <2>3, <2>4, <2>5
<1>2. ListIsSequence
  BY <1>1 DEF ListIsSequence
<1>3. BothWays
  BY <1>1 DEF BothWays
<1> QED BY <1>2, <1>3 DEF ListSound, ListInv

(* Every sequence of calls of List.cpp: until a prev that List_paste has    *)
(* left uncorrected is used, the list reads as the sequence its calls       *)
(* describe; until the first paste into the middle both directions agree    *)
(* and List_destroy frees every node once.                                  *)
THEOREM ListSoundThm == ListSpec => []ListSound
<1>1. ListInit => ListInv
  BY ListInitially
<1>2. ListInv /\ [ListNext]_listVars => ListInv'
  BY ListStep
<1>3. ListInv => ListSound
  BY ListInvSound
<1> QED BY <1>1, <1>2, <1>3, PTL DEF ListSpec


-----------------------------------------------------------------------------
(* The frames: quotients, powers and digits.                                *)

LEMMA Quotient ==
    ASSUME NEW n \in Nat, NEW p \in Nat \ {0}
    PROVE  n \div p \in Nat /\ n % p \in 0 .. p - 1 /\ n = p * (n \div p) + (n % p)
  OBVIOUS
LEMMA QuotientIs ==
    ASSUME NEW n \in Nat, NEW p \in Nat \ {0}, NEW q \in Nat, NEW r \in Nat, r < p, n = p * q + r
    PROVE  n \div p = q /\ n % p = r
  OBVIOUS
LEMMA QuotientStep ==
    ASSUME NEW n \in Nat, NEW p \in Nat \ {0}, NEW b \in Nat \ {0}
    PROVE  n \div p = b * (n \div (b * p)) + ((n \div p) % b)
<1>1. PICK q, r \in Nat : q = n \div p /\ r = n % p /\ n = p * q + r /\ r < p
  BY Quotient
<1>2. PICK a, d \in Nat : a = q \div b /\ d = q % b /\ q = b * a + d /\ d < b
  BY Quotient
<1>3. PICK bp \in Nat \ {0} : bp = b * p
  OBVIOUS
<1>4. n = bp * a + (p * d + r)
  <2>1. p * (b * a + d) = p * (b * a) + p * d
    OBVIOUS
  <2>2. p * (b * a) = (b * p) * a
    OBVIOUS
  <2>3. p * q = bp * a + p * d
    BY <2>1, <2>2, <1>2, <1>3
  <2>4. PICK x, y \in Int : x = bp * a /\ y = p * d /\ p * q = x + y
    BY <2>3
  <2>5. PICK w \in Int : w = p * q
    OBVIOUS
  <2>6. n = w + r
    BY <2>5, <1>1
  <2>7. n = x + (y + r)
    BY <2>4, <2>5, <2>6
  <2> QED BY <2>4, <2>7
<1>5. p * d + r \in Nat /\ p * d + r < bp
  <2>1. p * d \in Nat /\ p * d <= p * (b - 1)
    BY <1>2
  <2>2. p * (b - 1) = bp - p
    BY <1>3
  <2> QED BY <2>1, <2>2, <1>1
<1>6. PICK e \in Nat : e = p * d + r
  BY <1>5
<1>7. n \div bp = a
  BY <1>4, <1>5, <1>6, QuotientIs
<1> QED BY <1>1, <1>2, <1>3, <1>7

-----------------------------------------------------------------------------
(* Powers of the base, by induction over sets of numbers.                   *)

LEMMA FramingSizes ==
    /\ Base \in Nat /\ Base >= 2 /\ Base <= 10
    /\ HeadLen \in Nat /\ HeadLen >= 1 /\ HeadLen >= 2 /\ Chunk \in Nat /\ Chunk >= 1
    /\ Patience \in Nat /\ Patience >= 1 /\ LineSize \in Nat
    /\ Lengths \subseteq Nat /\ ReplyLengths \subseteq Nat /\ MaxFrames \in Nat
  BY FramingAssumption

PowersTo(f, n) == f = [m \in 0 .. n |-> IF m = 0 THEN 1 ELSE Base * f[m - 1]]

LEMMA PowersExist == ASSUME NEW n \in Nat PROVE \E f : PowersTo(f, n)
<1>1. PICK T : T = {k \in Nat : \E f : PowersTo(f, k)}
  OBVIOUS
<1>2. 0 \in T
  <2>1. PICK f : f = [m \in 0 .. 0 |-> 1]
    OBVIOUS
  <2>2. f = [m \in 0 .. 0 |-> IF m = 0 THEN 1 ELSE Base * f[m - 1]]
    BY <2>1
  <2> QED BY <1>1, <2>2 DEF PowersTo
<1>3. ASSUME NEW k \in T PROVE k + 1 \in T
  <2>1. k \in Nat /\ \E f : PowersTo(f, k)
    BY <1>1
  <2>2. PICK f : f = [m \in 0 .. k |-> IF m = 0 THEN 1 ELSE Base * f[m - 1]]
    BY <2>1 DEF PowersTo
  <2>3. PICK g : g = [m \in 0 .. k + 1 |-> IF m = 0 THEN 1 ELSE Base * f[m - 1]]
    OBVIOUS
  <2>4. \A m \in 0 .. k : g[m] = f[m]
    BY <2>1, <2>2, <2>3
  <2>5. \A m \in 0 .. k + 1 : m # 0 => g[m - 1] = f[m - 1]
    BY <2>1, <2>4
  <2>6. g = [m \in 0 .. k + 1 |-> IF m = 0 THEN 1 ELSE Base * g[m - 1]]
    BY <2>3, <2>5
  <2> QED BY <1>1, <2>1, <2>6 DEF PowersTo
<1>4. T = Nat
  BY <1>1, <1>2, <1>3, AllNumbers
<1> QED BY <1>1, <1>4

LEMMA PowersAgree ==
    ASSUME NEW n \in Nat, NEW k \in Nat, NEW f, NEW g, PowersTo(f, n), PowersTo(g, k)
    PROVE  \A m \in Nat : m <= n /\ m <= k => f[m] = g[m]
<1>1. \A m \in 0 .. n : f[m] = IF m = 0 THEN 1 ELSE Base * f[m - 1]
  BY DEF PowersTo
<1>2. \A m \in 0 .. k : g[m] = IF m = 0 THEN 1 ELSE Base * g[m - 1]
  BY DEF PowersTo
<1>3. PICK T : T = {m \in Nat : m <= n /\ m <= k => f[m] = g[m]}
  OBVIOUS
<1>4. 0 \in T
  BY <1>1, <1>2, <1>3
<1>5. ASSUME NEW m \in T PROVE m + 1 \in T
  <2> SUFFICES ASSUME m + 1 <= n, m + 1 <= k PROVE f[m + 1] = g[m + 1]
    BY <1>3
  <2>1. m \in Nat /\ f[m] = g[m]
    BY <1>3
  <2>2. m + 1 \in 0 .. n /\ m + 1 \in 0 .. k /\ m + 1 # 0 /\ (m + 1) - 1 = m
    BY <2>1
  <2> QED BY <1>1, <1>2, <2>1, <2>2
<1>6. T = Nat
  BY <1>3, <1>4, <1>5, AllNumbers
<1> QED BY <1>3, <1>6

LEMMA PowerOf == ASSUME NEW n \in Nat PROVE \E f : PowersTo(f, n) /\ Power(n) = f[n]
<1> DEFINE p[m \in 0 .. n] == IF m = 0 THEN 1 ELSE Base * p[m - 1]
<1>1. Power(n) = p[n]
  BY DEF Power
<1>2. p = CHOOSE f : f = [m \in 0 .. n |-> IF m = 0 THEN 1 ELSE Base * f[m - 1]]
  OBVIOUS
<1> HIDE DEF p
<1>3. \E f : f = [m \in 0 .. n |-> IF m = 0 THEN 1 ELSE Base * f[m - 1]]
  BY PowersExist DEF PowersTo
<1>4. PowersTo(p, n)
  BY <1>2, <1>3 DEF PowersTo
<1> QED BY <1>1, <1>4

LEMMA PowerNext ==
    /\ Power(0) = 1
    /\ \A n \in Nat : Power(n + 1) = Base * Power(n)
<1>1. Power(0) = 1
  <2>1. PICK f : PowersTo(f, 0) /\ Power(0) = f[0]
    BY PowerOf
  <2> QED BY <2>1 DEF PowersTo
<1>2. ASSUME NEW n \in Nat PROVE Power(n + 1) = Base * Power(n)
  <2>1. PICK f : PowersTo(f, n) /\ Power(n) = f[n]
    BY PowerOf
  <2>2. n + 1 \in Nat
    OBVIOUS
  <2>3. PICK g : PowersTo(g, n + 1) /\ Power(n + 1) = g[n + 1]
    BY <2>2, PowerOf
  <2>4. f[n] = g[n]
    BY <2>1, <2>2, <2>3, PowersAgree
  <2>5. \A m \in 0 .. n + 1 : g[m] = IF m = 0 THEN 1 ELSE Base * g[m - 1]
    BY <2>3 DEF PowersTo
  <2>6. g[n + 1] = Base * g[n]
    BY <2>5
  <2> QED BY <2>1, <2>3, <2>4, <2>6
<1> QED BY <1>1, <1>2

LEMMA PowerIsNumber == \A n \in Nat : Power(n) \in Nat /\ Power(n) > n
<1>1. PICK T : T = {n \in Nat : Power(n) \in Nat /\ Power(n) > n}
  OBVIOUS
<1>2. 0 \in T
  BY <1>1, PowerNext
<1>3. ASSUME NEW n \in T PROVE n + 1 \in T
  <2>1. PICK p \in Nat : p = Power(n) /\ p > n /\ n \in Nat
    BY <1>1
  <2>2. Power(n + 1) = Base * p
    BY <2>1, PowerNext
  <2>3. Base * p \in Nat /\ Base * p >= 2 * p
    BY <2>1, FramingSizes
  <2>4. PICK q \in Nat : q = Base * p /\ q >= 2 * p
    BY <2>3
  <2> QED BY <1>1, <2>1, <2>2, <2>4
<1>4. T = Nat
  BY <1>1, <1>2, <1>3, AllNumbers
<1> QED BY <1>1, <1>4

LEMMA PowerGrows == \A k \in Nat : \A n \in Nat : Power(n) <= Power(n + k)
<1>1. PICK T : T = {k \in Nat : \A n \in Nat : Power(n) <= Power(n + k)}
  OBVIOUS
<1>2. 0 \in T
  BY <1>1, PowerIsNumber
<1>3. ASSUME NEW k \in T PROVE k + 1 \in T
  <2>1. k \in Nat
    BY <1>1
  <2>2. ASSUME NEW n \in Nat PROVE Power(n) <= Power(n + (k + 1))
    <3>1. Power(n) <= Power(n + k)
      BY <1>1
    <3>2. PICK p \in Nat : p = Power(n + k)
      BY <2>1, PowerIsNumber
    <3>3. Power((n + k) + 1) = Base * p
      BY <2>1, <3>2, PowerNext
    <3>4. Base * p >= p
      BY FramingSizes
    <3>5. n + (k + 1) = (n + k) + 1
      BY <2>1
    <3>6. PICK q \in Nat, r \in Int : q = Power(n) /\ r = Base * p
      BY PowerIsNumber, FramingSizes
    <3> QED BY <3>1, <3>2, <3>3, <3>4, <3>5, <3>6
  <2> QED BY <1>1, <2>1, <2>2
<1>4. T = Nat
  BY <1>1, <1>2, <1>3, AllNumbers
<1> QED BY <1>1, <1>4

LEMMA PowerMonotone ==
    ASSUME NEW m \in Nat, NEW n \in Nat, m <= n
    PROVE  Power(m) <= Power(n)
<1>1. PICK k \in Nat : n = m + k
  <2>1. n - m \in Nat /\ n = m + (n - m)
    OBVIOUS
  <2> QED BY <2>1
<1> QED BY <1>1, PowerGrows

LEMMA WidthIs ==
    ASSUME NEW n \in Nat
    PROVE  /\ Width(n) \in Nat /\ Width(n) >= 1
           /\ n < Power(Width(n))
           /\ Width(n) = 1 \/ n >= Power(Width(n) - 1)
<1>1. PICK T : T = {w \in Nat : w >= 1 /\ n < Power(w)}
  OBVIOUS
<1>2. n + 1 \in T
  <2>1. PICK p \in Nat : p = Power(n + 1) /\ p > n + 1
    BY PowerIsNumber
  <2>2. n + 1 \in Nat /\ n + 1 >= 1 /\ n < p
    BY <2>1
  <2> QED BY <1>1, <2>1, <2>2
<1>3. T \in SUBSET Nat /\ T # {}
  BY <1>1, <1>2
<1>4. PICK x \in T : \A y \in T : x <= y
  BY <1>3, LeastNumber
<1>5. x \in Nat /\ x >= 1 /\ n < Power(x) /\ x <= n + 1
  BY <1>1, <1>2, <1>4
<1>6. x = 1 \/ n >= Power(x - 1)
  <2> SUFFICES ASSUME x # 1 PROVE n >= Power(x - 1)
    OBVIOUS
  <2>1. x - 1 \in Nat /\ x - 1 >= 1 /\ ~(x <= x - 1)
    BY <1>5
  <2>2. x - 1 \notin T
    BY <1>4, <2>1
  <2>3. ~(n < Power(x - 1))
    BY <1>1, <2>1, <2>2
  <2>4. PICK p \in Nat : p = Power(x - 1)
    BY <2>1, PowerIsNumber
  <2> QED BY <2>3, <2>4
<1>7. x \in 1 .. n + 1 /\ n < Power(x) /\ (x = 1 \/ n >= Power(x - 1))
  BY <1>5, <1>6
<1>8. \E w \in 1 .. n + 1 : n < Power(w) /\ (w = 1 \/ n >= Power(w - 1))
  BY <1>7
<1>9. Width(n) \in 1 .. n + 1 /\ n < Power(Width(n)) /\ (Width(n) = 1 \/ n >= Power(Width(n) - 1))
  BY <1>8 DEF Width
<1> QED BY <1>9

LEMMA WidthFits ==
    ASSUME NEW n \in Nat, NEW k \in Nat, k >= 1, n < Power(k)
    PROVE  Width(n) <= k
<1> SUFFICES ASSUME Width(n) > k PROVE FALSE
  BY WidthIs
<1>1. PICK w \in Nat : w = Width(n) /\ n >= Power(w - 1) /\ w > k
  BY WidthIs
<1>2. w - 1 \in Nat /\ k <= w - 1
  BY <1>1
<1>3. Power(k) <= Power(w - 1)
  BY <1>2, PowerMonotone
<1>4. PICK p, q \in Nat : p = Power(k) /\ q = Power(w - 1)
  BY <1>2, PowerIsNumber
<1> QED BY <1>1, <1>3, <1>4

(* The characters.                                                          *)
Characters == {"X", "!", "d", "NUL"} \cup {Digit(d) : d \in 0 .. Base - 1}

LEMMA TenDigits ==
    /\ Digit(0) = "0" /\ Digit(1) = "1" /\ Digit(2) = "2" /\ Digit(3) = "3" /\ Digit(4) = "4"
    /\ Digit(5) = "5" /\ Digit(6) = "6" /\ Digit(7) = "7" /\ Digit(8) = "8" /\ Digit(9) = "9"
  BY DEF Digit

LEMMA DigitIs ==
    ASSUME NEW d \in 0 .. Base - 1
    PROVE  /\ Digit(d) \in Characters /\ Digit(d) \notin {"X", "!", "d", "NUL"}
           /\ IsDigit(Digit(d)) /\ Val(Digit(d)) = d
           /\ Digit(d) = "0" <=> d = 0
<1>1. \A x \in 0 .. 9 : \/ x = 0 \/ x = 1 \/ x = 2 \/ x = 3 \/ x = 4
                        \/ x = 5 \/ x = 6 \/ x = 7 \/ x = 8 \/ x = 9
  OBVIOUS
<1>2. ASSUME NEW x \in 0 .. 9
      PROVE  Digit(x) \notin {"X", "!", "d", "NUL"} /\ (Digit(x) = "0" <=> x = 0)
  BY <1>1, TenDigits
<1>3. ASSUME NEW x \in 0 .. 9, NEW y \in 0 .. 9, Digit(x) = Digit(y) PROVE x = y
  BY <1>1, <1>3, TenDigits
<1>4. d \in 0 .. 9 /\ \A x \in 0 .. Base - 1 : x \in 0 .. 9
  BY FramingSizes
<1>5. \A x \in 0 .. Base - 1 : Digit(x) = Digit(d) => x = d
  BY <1>3, <1>4
<1>6. Val(Digit(d)) = d
  BY <1>5 DEF Val
<1> QED BY <1>2, <1>4, <1>6 DEF Characters, IsDigit

LEMMA ValIs == ASSUME NEW c, IsDigit(c) PROVE Val(c) \in 0 .. Base - 1
  BY DEF IsDigit, Val

LEMMA CharacterIsDigit ==
    /\ ~IsDigit("X") /\ ~IsDigit("!") /\ ~IsDigit("d") /\ ~IsDigit("NUL")
  BY DigitIs DEF IsDigit

(* What atoi computes of the digits in front.                               *)
Horner(f, t, k) ==
    f = [n \in 0 .. k |-> IF n = 0 THEN 0 ELSE f[n - 1] * Base + Val(t[n])]
Leading(t) == {n \in 0 .. Len(t) : \A m \in 1 .. n : IsDigit(t[m])}

LEMMA HornerExists == ASSUME NEW t, NEW n \in Nat PROVE \E f : Horner(f, t, n)
<1>1. PICK T : T = {k \in Nat : \E f : Horner(f, t, k)}
  OBVIOUS
<1>2. 0 \in T
  <2>1. PICK f : f = [m \in 0 .. 0 |-> 0]
    OBVIOUS
  <2>2. f = [m \in 0 .. 0 |-> IF m = 0 THEN 0 ELSE f[m - 1] * Base + Val(t[m])]
    BY <2>1
  <2> QED BY <1>1, <2>2 DEF Horner
<1>3. ASSUME NEW k \in T PROVE k + 1 \in T
  <2>1. k \in Nat /\ \E f : Horner(f, t, k)
    BY <1>1
  <2>2. PICK f : f = [m \in 0 .. k |-> IF m = 0 THEN 0 ELSE f[m - 1] * Base + Val(t[m])]
    BY <2>1 DEF Horner
  <2>3. PICK g : g = [m \in 0 .. k + 1 |-> IF m = 0 THEN 0 ELSE f[m - 1] * Base + Val(t[m])]
    OBVIOUS
  <2>4. \A m \in 0 .. k : g[m] = f[m]
    BY <2>1, <2>2, <2>3
  <2>5. \A m \in 0 .. k + 1 : m # 0 => g[m - 1] = f[m - 1]
    BY <2>1, <2>4
  <2>6. g = [m \in 0 .. k + 1 |-> IF m = 0 THEN 0 ELSE g[m - 1] * Base + Val(t[m])]
    BY <2>3, <2>5
  <2> QED BY <1>1, <2>1, <2>6 DEF Horner
<1>4. T = Nat
  BY <1>1, <1>2, <1>3, AllNumbers
<1> QED BY <1>1, <1>4

LEMMA AtoiOf ==
    ASSUME NEW t, Len(t) \in Nat
    PROVE  \E f, k : /\ Horner(f, t, Len(t)) /\ atoi(t) = f[k]
                     /\ k \in Leading(t) /\ \A m \in Leading(t) : m <= k
<1> DEFINE value[n \in 0 .. Len(t)] == IF n = 0 THEN 0 ELSE value[n - 1] * Base + Val(t[n])
<1>1. atoi(t) = value[CHOOSE n \in Leading(t) : \A m \in Leading(t) : m <= n]
  BY DEF atoi, Leading
<1>2. value = CHOOSE f : f = [n \in 0 .. Len(t) |-> IF n = 0 THEN 0 ELSE f[n - 1] * Base + Val(t[n])]
  OBVIOUS
<1> HIDE DEF value
<1>3. \E f : f = [n \in 0 .. Len(t) |-> IF n = 0 THEN 0 ELSE f[n - 1] * Base + Val(t[n])]
  BY HornerExists DEF Horner
<1>4. Horner(value, t, Len(t))
  BY <1>2, <1>3 DEF Horner
<1>5. \E k \in Leading(t) : \A m \in Leading(t) : m <= k
  <2>1. PICK l \in Nat : l = Len(t)
    OBVIOUS
  <2>2. PICK T : T = {n \in Nat : l - n \in Leading(t)}
    OBVIOUS
  <2>3. l \in T
    <3>1. l - l = 0 /\ 0 \in 0 .. l
      BY <2>1
    <3>2. 0 \in Leading(t)
      BY <2>1, <3>1 DEF Leading
    <3> QED BY <2>2, <3>1, <3>2
  <2>4. PICK x \in T : \A y \in T : x <= y
    BY <2>2, <2>3, LeastNumber
  <2>5. x \in Nat /\ l - x \in Leading(t)
    BY <2>2
  <2>6. ASSUME NEW m \in Leading(t) PROVE m <= l - x
    <3>1. m \in Nat /\ m <= l
      BY <2>1 DEF Leading
    <3>2. l - m \in Nat /\ l - (l - m) = m
      BY <2>1, <3>1
    <3>3. l - m \in T
      BY <2>2, <3>2
    <3>4. x <= l - m
      BY <2>4, <3>3
    <3> QED BY <2>1, <2>5, <3>1, <3>4
  <2> QED BY <2>5, <2>6
<1>6. PICK k : k = CHOOSE n \in Leading(t) : \A m \in Leading(t) : m <= n
  OBVIOUS
<1>7. k \in Leading(t) /\ \A m \in Leading(t) : m <= k
  BY <1>5, <1>6
<1> QED BY <1>1, <1>4, <1>6, <1>7

LEMMA AtoiBound ==
    ASSUME NEW t, Len(t) \in Nat
    PROVE  atoi(t) \in Nat /\ atoi(t) < Power(Len(t))
<1>1. PICK f, k : /\ Horner(f, t, Len(t)) /\ atoi(t) = f[k]
                  /\ k \in Leading(t) /\ \A m \in Leading(t) : m <= k
  BY AtoiOf
<1>2. k \in Nat /\ k <= Len(t) /\ \A m \in 1 .. k : IsDigit(t[m])
  BY <1>1 DEF Leading
<1>3. PICK T : T = {n \in Nat : n <= k => f[n] \in Nat /\ f[n] < Power(n)}
  OBVIOUS
<1>4. \A n \in 0 .. Len(t) : f[n] = IF n = 0 THEN 0 ELSE f[n - 1] * Base + Val(t[n])
  BY <1>1 DEF Horner
<1>5. 0 \in T
  <2>1. f[0] = 0
    BY <1>4
  <2> QED BY <1>3, <2>1, PowerNext
<1>6. ASSUME NEW n \in T PROVE n + 1 \in T
  <2> SUFFICES ASSUME n \in Nat, n + 1 <= k PROVE f[n + 1] \in Nat /\ f[n + 1] < Power(n + 1)
    BY <1>3
  <2>1. f[n] \in Nat /\ f[n] < Power(n)
    BY <1>2, <1>3
  <2>2. n + 1 \in 1 .. k /\ n + 1 \in 0 .. Len(t) /\ n + 1 # 0 /\ (n + 1) - 1 = n
    BY <1>2
  <2>3. PICK v \in Nat : v = Val(t[n + 1]) /\ v <= Base - 1
    BY <1>2, <2>2, ValIs, FramingSizes
  <2>4. PICK p \in Nat, x \in Nat : p = Power(n) /\ x = f[n] /\ x <= p - 1
    <3>1. PICK p \in Nat : p = Power(n)
      BY PowerIsNumber
    <3>2. PICK x \in Nat : x = f[n]
      BY <2>1
    <3>3. x < p
      BY <2>1, <3>1, <3>2
    <3>4. x <= p - 1
      BY <3>3
    <3> QED BY <3>1, <3>2, <3>4
  <2>5. PICK b \in Nat : b = Base /\ b >= 2
    BY FramingSizes
  <2>6. f[n + 1] = x * b + v
    BY <1>4, <2>2, <2>3, <2>4, <2>5
  <2>7. Power(n + 1) = b * p
    BY <2>4, <2>5, PowerNext
  <2>8. x * b <= (p - 1) * b
    BY <2>4, <2>5
  <2>9. (p - 1) * b = b * p - b
    BY <2>4, <2>5
  <2>10. PICK y \in Nat, w \in Nat : y = x * b /\ w = b * p
    BY <2>4, <2>5
  <2>11. y + v \in Nat /\ y + v < w
    BY <2>3, <2>5, <2>8, <2>9, <2>10
  <2> QED BY <2>6, <2>7, <2>10, <2>11
<1>7. T = Nat
  BY <1>3, <1>5, <1>6, AllNumbers
<1>8. f[k] \in Nat /\ f[k] < Power(k)
  BY <1>2, <1>3, <1>7
<1>9. Power(k) <= Power(Len(t))
  BY <1>2, PowerMonotone
<1>10. PICK p, q \in Nat : p = Power(k) /\ q = Power(Len(t))
  BY <1>2, PowerIsNumber
<1> QED BY <1>1, <1>8, <1>9, <1>10

(* The digits of b, k of them, which suffice.                               *)
LEMMA AtoiIs ==
    ASSUME NEW b \in Nat, NEW k \in Nat, b < Power(k), NEW t, Len(t) = k,
           \A j \in 1 .. k : t[j] = Digit((b \div Power(k - j)) % Base)
    PROVE  atoi(t) = b
<1>1. PICK f, e : /\ Horner(f, t, k) /\ atoi(t) = f[e]
                  /\ e \in Leading(t) /\ \A m \in Leading(t) : m <= e
  BY AtoiOf
<1>2. ASSUME NEW j \in 1 .. k
      PROVE  /\ k - j \in Nat /\ Power(k - j) \in Nat \ {0}
             /\ (b \div Power(k - j)) % Base \in 0 .. Base - 1
             /\ IsDigit(t[j]) /\ Val(t[j]) = (b \div Power(k - j)) % Base
  <2>1. PICK p \in Nat \ {0} : p = Power(k - j)
    BY PowerIsNumber
  <2>2. PICK q \in Nat : q = b \div p
    BY Quotient
  <2>3. q % Base \in 0 .. Base - 1
    BY FramingSizes, Quotient
  <2>4. t[j] = Digit(q % Base)
    BY <2>1, <2>2
  <2> QED BY <2>1, <2>2, <2>3, <2>4, DigitIs
<1>3. e = k
  <2>1. k \in Leading(t)
    BY <1>2 DEF Leading
  <2>2. e <= k /\ k <= e /\ e \in Nat
    BY <1>1, <2>1 DEF Leading
  <2> QED BY <2>2
<1>4. \A n \in 0 .. k : f[n] = IF n = 0 THEN 0 ELSE f[n - 1] * Base + Val(t[n])
  BY <1>1 DEF Horner
<1>5. PICK T : T = {n \in Nat : n <= k => f[n] = b \div Power(k - n)}
  OBVIOUS
<1>6. 0 \in T
  <2>1. f[0] = 0 /\ k - 0 = k
    BY <1>4
  <2>2. PICK p \in Nat \ {0} : p = Power(k) /\ b < p
    BY PowerIsNumber
  <2>3. b \div p = 0
    BY <2>2
  <2> QED BY <1>5, <2>1, <2>2, <2>3
<1>7. ASSUME NEW n \in T PROVE n + 1 \in T
  <2> SUFFICES ASSUME n \in Nat, n + 1 <= k PROVE f[n + 1] = b \div Power(k - (n + 1))
    BY <1>5
  <2>1. f[n] = b \div Power(k - n)
    BY <1>5
  <2>2. /\ n + 1 \in 1 .. k /\ n + 1 \in 0 .. k /\ n + 1 # 0 /\ (n + 1) - 1 = n
        /\ k - n = (k - (n + 1)) + 1 /\ k - (n + 1) \in Nat
    OBVIOUS
  <2>3. PICK p \in Nat \ {0} : p = Power(k - (n + 1))
    BY <2>2, PowerIsNumber
  <2>4. Power(k - n) = Base * p
    BY <2>2, <2>3, PowerNext
  <2>5. Val(t[n + 1]) = (b \div p) % Base
    BY <1>2, <2>2, <2>3
  <2>6. b \div p = Base * (b \div (Base * p)) + ((b \div p) % Base)
    <3>1. PICK c \in Nat \ {0} : c = Base
      BY FramingSizes
    <3>2. b \div p = c * (b \div (c * p)) + ((b \div p) % c)
      BY QuotientStep
    <3> QED BY <3>1, <3>2
  <2>7. f[n + 1] = f[n] * Base + Val(t[n + 1])
    BY <1>4, <2>2
  <2>8. PICK q \in Nat : q = f[n] /\ q = b \div (Base * p)
    <3>1. Base * p \in Nat \ {0}
      BY FramingSizes
    <3>2. b \div (Base * p) \in Nat
      BY <3>1, Quotient
    <3> QED BY <2>1, <2>4, <3>2
  <2>9. q * Base = Base * q
    BY FramingSizes
  <2>10. f[n + 1] = b \div p
    BY <2>5, <2>6, <2>7, <2>8, <2>9
  <2> QED BY <2>3, <2>10
<1>8. T = Nat
  BY <1>5, <1>6, <1>7, AllNumbers
<1>9. f[k] = b \div Power(k - k)
  BY <1>5, <1>8
<1>10. Power(k - k) = 1 /\ b \div 1 = b
  BY PowerNext
<1> QED BY <1>1, <1>3, <1>9, <1>10

-----------------------------------------------------------------------------
(* Frames: what encode writes and the two readers make of it.              *)

(* The digits of b that the head shows; X stands for the others.            *)
Shown(b) == IF b = 0 THEN 0 ELSE Width(b)
Place(b, i) == Digit((b \div Power(HeadLen - i)) % Base)

LEMMA ShownIs ==
    ASSUME NEW b \in Nat, b < Power(HeadLen)
    PROVE  /\ Shown(b) \in Nat /\ Shown(b) <= HeadLen
           /\ b < Power(Shown(b))
           /\ Shown(b) # 0 => b >= Power(Shown(b) - 1)
<1>1. CASE b = 0
  BY <1>1, PowerNext, FramingSizes DEF Shown
<1>2. CASE b # 0
  <2>1. PICK w \in Nat : w = Width(b) /\ w >= 1 /\ b < Power(w) /\ (w = 1 \/ b >= Power(w - 1))
    BY WidthIs
  <2>2. w <= HeadLen
    BY <2>1, WidthFits, FramingSizes
  <2>3. w = 1 => b >= Power(w - 1)
    BY <1>2, PowerNext
  <2>4. Shown(b) = w
    BY <1>2, <2>1 DEF Shown
  <2> QED BY <2>1, <2>2, <2>3, <2>4
<1> QED BY <1>1, <1>2

LEMMA PlaceIs ==
    ASSUME NEW b \in Nat, b < Power(HeadLen), NEW i \in 1 .. HeadLen
    PROVE  /\ \E d \in 0 .. Base - 1 : Place(b, i) = Digit(d)
           /\ i <= HeadLen - Shown(b) => Place(b, i) = "0"
           /\ i = HeadLen - Shown(b) + 1 => Place(b, i) # "0"
<1>1. PICK h \in Nat, w \in Nat : h = HeadLen /\ w = Shown(b) /\ w <= h
  BY ShownIs, FramingSizes
<1>2. h - i \in Nat /\ i \in Nat
  BY <1>1
<1>3. PICK p \in Nat \ {0} : p = Power(h - i)
  BY <1>2, PowerIsNumber
<1>4. PICK q \in Nat : q = b \div p /\ b = p * q + (b % p) /\ b % p \in 0 .. p - 1
  BY Quotient
<1>5. q % Base \in 0 .. Base - 1 /\ Place(b, i) = Digit(q % Base)
  <2>1. PICK c \in Nat \ {0} : c = Base
    BY FramingSizes
  <2>2. q % c \in 0 .. c - 1
    BY <2>1
  <2>3. Place(b, i) = Digit((b \div p) % Base)
    BY <1>1, <1>3 DEF Place
  <2> QED BY <1>4, <2>1, <2>2, <2>3
<1>6. ASSUME i <= h - w PROVE Place(b, i) = "0"
  <2>1. w <= h - i
    BY <1>1, <1>6
  <2>2. Power(w) <= p
    BY <1>2, <1>3, <2>1, PowerMonotone
  <2>3. b < p
    <3>1. PICK x \in Nat : x = Power(w) /\ b < x
      BY <1>1, ShownIs, PowerIsNumber
    <3> QED BY <2>2, <3>1
  <2>4. q = 0
    BY <1>4, <2>3, QuotientIs
  <2>5. q % Base = 0
    BY <2>4, FramingSizes
  <2> QED BY <1>5, <2>5, DigitIs
<1>7. ASSUME i = h - w + 1 PROVE Place(b, i) # "0"
  <2>1. w # 0 /\ h - i = w - 1 /\ w = (h - i) + 1
    BY <1>1, <1>7
  <2>2. b >= p
    BY <1>1, <1>3, <2>1, ShownIs
  <2>3. Power(w) = Base * p
    BY <1>2, <1>3, <2>1, PowerNext
  <2>4. b < Base * p
    BY <1>1, <2>3, ShownIs
  <2>5. q # 0
    <3> SUFFICES ASSUME q = 0 PROVE FALSE
      OBVIOUS
    <3>1. b = b % p
      BY <1>4
    <3> QED BY <1>4, <2>2, <3>1
  <2>6. q < Base
    <3> SUFFICES ASSUME q >= Base PROVE FALSE
      BY FramingSizes
    <3>1. p * q >= p * Base
      BY FramingSizes
    <3>2. p * Base = Base * p
      BY FramingSizes
    <3>3. PICK x \in Nat, y \in Nat : x = p * q /\ y = Base * p
      BY FramingSizes
    <3> QED BY <1>4, <2>4, <3>1, <3>2, <3>3
  <2>7. q \in 0 .. Base - 1 /\ q % Base = q
    BY <2>6, FramingSizes
  <2> QED BY <1>5, <2>5, <2>7, DigitIs
<1> QED BY <1>1, <1>5, <1>6, <1>7

LEMMA CodeIs ==
    ASSUME NEW b \in Nat, b < Power(HeadLen)
    PROVE  /\ encode(b) \in Seq(Characters) /\ Len(encode(b)) = HeadLen + b
           /\ \A i \in 1 .. HeadLen : i <= HeadLen - Shown(b) => encode(b)[i] = "X"
           /\ \A i \in 1 .. HeadLen : i > HeadLen - Shown(b) =>
                encode(b)[i] = Place(b, i) /\ encode(b)[i] # "X" /\ encode(b)[i] # "!"
           /\ \A i \in 1 .. b : encode(b)[HeadLen + i] = "d"
<1>1. PICK h \in Nat, w \in Nat : h = HeadLen /\ w = Shown(b) /\ w <= h /\ h >= 1
  BY ShownIs, FramingSizes
<1>2. Padded(b) = [i \in 1 .. h |-> Place(b, i)]
  <2>1. PICK x \in Nat : x = Width(b)
    BY WidthIs
  <2>2. x <= h
    BY <1>1, <2>1, WidthFits
  <2>3. ~(Width(b) > HeadLen)
    BY <1>1, <2>1, <2>2
  <2> QED BY <1>1, <2>3 DEF Padded, Place
<1>3. PICK s : s = [i \in 1 .. h |-> Place(b, i)]
  OBVIOUS
<1>4. \A i \in 1 .. h : /\ s[i] \in Characters /\ s[i] # "X" /\ s[i] # "!"
                        /\ i <= h - w => s[i] = "0"
                        /\ i = h - w + 1 => s[i] # "0"
  <2>1. ASSUME NEW i \in 1 .. h
        PROVE  /\ s[i] \in Characters /\ s[i] # "X" /\ s[i] # "!"
               /\ i <= h - w => s[i] = "0"
               /\ i = h - w + 1 => s[i] # "0"
    <3>1. /\ \E d \in 0 .. Base - 1 : Place(b, i) = Digit(d)
          /\ i <= h - w => Place(b, i) = "0"
          /\ i = h - w + 1 => Place(b, i) # "0"
      BY <1>1, PlaceIs
    <3>2. s[i] = Place(b, i)
      BY <1>3
    <3> QED BY <3>1, <3>2, DigitIs
  <2> QED BY <2>1
<1>5. PICK t : t = Head4(s)
  OBVIOUS
<1>6. s \in Seq(Characters) /\ Len(s) = h
  BY <1>3, <1>4
<1>7. t = [i \in 1 .. h |-> IF i <= HeadLen /\ \A j \in 1 .. i : s[j] = "0" THEN "X" ELSE s[i]]
  BY <1>5, <1>6 DEF Head4
<1>8. \A i \in 1 .. h : i <= h - w => t[i] = "X"
  <2>1. ASSUME NEW i \in 1 .. h, i <= h - w PROVE \A j \in 1 .. i : s[j] = "0"
    BY <1>1, <1>4, <2>1
  <2> QED BY <1>1, <1>7, <2>1
<1>9. \A i \in 1 .. h : i > h - w => t[i] = s[i]
  <2>1. ASSUME NEW i \in 1 .. h, i > h - w PROVE ~(\A j \in 1 .. i : s[j] = "0")
    <3>1. h - w + 1 \in 1 .. i /\ h - w + 1 \in 1 .. h
      BY <1>1, <2>1
    <3>2. s[h - w + 1] # "0"
      BY <1>4, <3>1
    <3> QED BY <3>1, <3>2
  <2> QED BY <1>7, <2>1
<1>10. \A i \in 1 .. h : t[i] \in Characters
  BY <1>4, <1>7 DEF Characters
<1>11. t \in Seq(Characters) /\ Len(t) = h
  BY <1>7, <1>10
<1>12. PICK r : r = [i \in 1 .. b |-> "d"]
  OBVIOUS
<1>13. r \in Seq(Characters) /\ Len(r) = b
  BY <1>12 DEF Characters
<1>14. PICK e : e = encode(b) /\ e = t \o r
  BY <1>2, <1>3, <1>5, <1>12 DEF encode
<1>15. /\ e \in Seq(Characters) /\ Len(e) = h + b
       /\ \A i \in 1 .. h : e[i] = t[i]
       /\ \A i \in 1 .. b : e[h + i] = r[i]
  <2>1. /\ e \in Seq(Characters) /\ Len(e) = h + b
        /\ \A i \in 1 .. h + b : e[i] = IF i <= h THEN t[i] ELSE r[i - h]
    <3>1. t \o r \in Seq(Characters)
      BY <1>11, <1>13, ConcatProperties
    <3>2. Len(t \o r) = Len(t) + Len(r)
      BY <1>11, <1>13, ConcatProperties
    <3>3. \A i \in 1 .. Len(t) + Len(r) :
            (t \o r)[i] = IF i <= Len(t) THEN t[i] ELSE r[i - Len(t)]
      BY <1>11, <1>13, ConcatProperties
    <3> QED BY <1>11, <1>13, <1>14, <3>1, <3>2, <3>3
  <2>2. \A i \in 1 .. h : i \in 1 .. h + b /\ i <= h
    OBVIOUS
  <2>3. \A i \in 1 .. b : h + i \in 1 .. h + b /\ ~(h + i <= h) /\ (h + i) - h = i
    OBVIOUS
  <2> QED BY <2>1, <2>2, <2>3
<1>16. \A i \in 1 .. h : i > h - w => e[i] = Place(b, i) /\ e[i] # "X" /\ e[i] # "!"
  BY <1>3, <1>4, <1>9, <1>15
<1> QED BY <1>1, <1>8, <1>12, <1>14, <1>15, <1>16

FrameSize(b) == HeadLen + b

(* Every block, also one too long for its head, is text.                    *)
LEMMA EncodeIsText == ASSUME NEW b \in Nat PROVE encode(b) \in Seq(Characters)
<1>1. PICK w \in Nat : w = (IF Width(b) > HeadLen THEN Width(b) ELSE HeadLen)
  BY WidthIs, FramingSizes
<1>2. Padded(b) = [i \in 1 .. w |-> Digit((b \div Power(w - i)) % Base)]
  BY <1>1 DEF Padded
<1>3. ASSUME NEW i \in 1 .. w PROVE Digit((b \div Power(w - i)) % Base) \in Characters
  <2>1. w - i \in Nat
    BY <1>1
  <2>2. PICK p \in Nat \ {0} : p = Power(w - i)
    BY <2>1, PowerIsNumber
  <2>3. PICK q \in Nat : q = b \div p
    BY Quotient
  <2>4. q % Base \in 0 .. Base - 1
    BY FramingSizes, Quotient
  <2> QED BY <2>2, <2>3, <2>4, DigitIs
<1>4. PICK s : s = Padded(b)
  OBVIOUS
<1>5. s \in Seq(Characters) /\ Len(s) = w
  BY <1>2, <1>3, <1>4
<1>6. PICK t : t = Head4(s)
  OBVIOUS
<1>7. t = [i \in 1 .. w |-> IF i <= HeadLen /\ \A j \in 1 .. i : s[j] = "0" THEN "X" ELSE s[i]]
  BY <1>5, <1>6 DEF Head4
<1>8. \A i \in 1 .. w : t[i] \in Characters
  BY <1>5, <1>7 DEF Characters
<1>9. t \in Seq(Characters)
  BY <1>7, <1>8
<1>10. [i \in 1 .. b |-> "d"] \in Seq(Characters)
  BY DEF Characters
<1>11. PICK r \in Seq(Characters) : r = [i \in 1 .. b |-> "d"]
  BY <1>10
<1>12. encode(b) = t \o r
  BY <1>4, <1>6, <1>11 DEF encode
<1> QED BY <1>9, <1>12, ConcatProperties

(* The host's reader, from the head.                                        *)
Keeps(u, s, n) ==
    u = [i \in 0 .. n |-> IF i = 0 THEN <<>>
                          ELSE IF s[i] = "X" THEN u[i - 1] ELSE Append(u[i - 1], s[i])]

LEMMA KeepsAgree ==
    ASSUME NEW s, NEW n \in Nat, NEW u, NEW v, Keeps(u, s, n), Keeps(v, s, n)
    PROVE  u[n] = v[n]
<1>1. PICK T : T = {k \in Nat : k <= n => u[k] = v[k]}
  OBVIOUS
<1>2. \A i \in 0 .. n : u[i] = IF i = 0 THEN <<>>
                               ELSE IF s[i] = "X" THEN u[i - 1] ELSE Append(u[i - 1], s[i])
  BY DEF Keeps
<1>3. \A i \in 0 .. n : v[i] = IF i = 0 THEN <<>>
                               ELSE IF s[i] = "X" THEN v[i - 1] ELSE Append(v[i - 1], s[i])
  BY DEF Keeps
<1>4. 0 \in T
  BY <1>1, <1>2, <1>3
<1>5. ASSUME NEW k \in T PROVE k + 1 \in T
  <2> SUFFICES ASSUME k + 1 <= n PROVE u[k + 1] = v[k + 1]
    BY <1>1
  <2>1. k \in Nat /\ u[k] = v[k]
    BY <1>1
  <2>2. k + 1 \in 0 .. n /\ k + 1 # 0 /\ (k + 1) - 1 = k
    BY <2>1
  <2> QED BY <1>2, <1>3, <2>1, <2>2
<1>6. T = Nat
  BY <1>1, <1>4, <1>5, AllNumbers
<1> QED BY <1>1, <1>6

LEMMA HeadValueOf ==
    ASSUME NEW s, Len(s) \in Nat, NEW u, Keeps(u, s, Len(s))
    PROVE  HeadValue(s) = atoi(u[Len(s)])
<1> DEFINE kept[i \in 0 .. Len(s)] ==
             IF i = 0 THEN <<>> ELSE IF s[i] = "X" THEN kept[i - 1] ELSE Append(kept[i - 1], s[i])
<1>1. HeadValue(s) = atoi(kept[Len(s)])
  BY DEF HeadValue
<1>2. kept = CHOOSE f : f = [i \in 0 .. Len(s) |->
               IF i = 0 THEN <<>> ELSE IF s[i] = "X" THEN f[i - 1] ELSE Append(f[i - 1], s[i])]
  OBVIOUS
<1> HIDE DEF kept
<1>3. \E f : f = [i \in 0 .. Len(s) |->
               IF i = 0 THEN <<>> ELSE IF s[i] = "X" THEN f[i - 1] ELSE Append(f[i - 1], s[i])]
  BY DEF Keeps
<1>4. Keeps(kept, s, Len(s))
  BY <1>2, <1>3 DEF Keeps
<1>5. kept[Len(s)] = u[Len(s)]
  BY <1>4, KeepsAgree
<1> QED BY <1>1, <1>5

(* What a reader has of the digits of b after i characters of the head.     *)
Zeros(b) == HeadLen - Shown(b)
DigitsOf(b, i) == [j \in 1 .. (IF i <= Zeros(b) THEN 0 ELSE i - Zeros(b)) |-> Place(b, Zeros(b) + j)]

LEMMA ZerosAre ==
    ASSUME NEW b \in Nat, b < Power(HeadLen)
    PROVE  \E h, w, o \in Nat :
             h = HeadLen /\ w = Shown(b) /\ w <= h /\ h >= 1 /\ o = Zeros(b) /\ o = h - w
<1>1. PICK h \in Nat : h = HeadLen /\ h >= 1
  BY FramingSizes
<1>2. PICK w \in Nat : w = Shown(b) /\ w <= h
  BY <1>1, ShownIs
<1>3. h - w \in Nat /\ Zeros(b) = h - w
  BY <1>1, <1>2 DEF Zeros
<1> QED BY <1>1, <1>2, <1>3

LEMMA DigitsAre ==
    ASSUME NEW b \in Nat, b < Power(HeadLen), NEW i \in 0 .. HeadLen
    PROVE  /\ DigitsOf(b, i) \in Seq(Characters)
           /\ Len(DigitsOf(b, i)) = IF i <= Zeros(b) THEN 0 ELSE i - Zeros(b)
           /\ Len(DigitsOf(b, i)) <= i /\ Len(DigitsOf(b, i)) <= Shown(b)
           /\ i <= Zeros(b) => DigitsOf(b, i) = <<>>
           /\ i < HeadLen /\ i >= Zeros(b) => DigitsOf(b, i + 1) = Append(DigitsOf(b, i), Place(b, i + 1))
<1>1. PICK h, w, o \in Nat :
        h = HeadLen /\ w = Shown(b) /\ w <= h /\ h >= 1 /\ o = Zeros(b) /\ o = h - w
  BY ZerosAre
<1>2. \A k \in 1 .. h : Place(b, k) \in Characters
  BY <1>1, PlaceIs, DigitIs
<1>3. PICK n \in Nat : n = (IF i <= o THEN 0 ELSE i - o) /\ n <= i /\ n <= w /\ (n # 0 => o + n = i)
  BY <1>1
<1>4. DigitsOf(b, i) = [j \in 1 .. n |-> Place(b, o + j)]
  BY <1>1, <1>3 DEF DigitsOf
<1>5. \A j \in 1 .. n : o + j \in 1 .. h
  BY <1>1, <1>3
<1>6. \A j \in 1 .. n : Place(b, o + j) \in Characters
  BY <1>2, <1>5
<1>7. PICK s : s = DigitsOf(b, i)
  OBVIOUS
<1>8. s \in Seq(Characters) /\ Len(s) = n
  BY <1>4, <1>6, <1>7
<1>9. i <= o => s = <<>>
  BY <1>3, <1>8
<1>10. ASSUME i < HeadLen, i >= o PROVE DigitsOf(b, i + 1) = Append(s, Place(b, i + 1))
  <2>1. n = i - o /\ n + 1 \in Nat /\ o + (n + 1) = i + 1 /\ ~(i + 1 <= o) /\ (i + 1) - o = n + 1
    BY <1>3, <1>10
  <2>2. DigitsOf(b, i + 1) = [j \in 1 .. n + 1 |-> Place(b, o + j)]
    BY <1>1, <2>1 DEF DigitsOf
  <2>3. PICK c : c = Place(b, i + 1)
    OBVIOUS
  <2>4. c \in Characters
    BY <1>1, <1>2, <1>10, <2>3
  <2>5. PICK t : t = [j \in 1 .. n + 1 |-> Place(b, o + j)]
    OBVIOUS
  <2>6. \A j \in 1 .. n + 1 : t[j] = IF j <= n THEN s[j] ELSE c
    BY <1>4, <1>7, <2>1, <2>3, <2>5
  <2>7. PICK a : a = Append(s, c)
    OBVIOUS
  <2>8. Len(a) = n + 1 /\ a \in Seq(Characters) /\ a[n + 1] = c /\ \A j \in 1 .. n : a[j] = s[j]
    BY <1>8, <2>4, <2>7, AppendProperties
  <2>9. a = [j \in 1 .. n + 1 |-> a[j]]
    BY <2>8
  <2>10. \A j \in 1 .. n + 1 : t[j] = a[j]
    <3>1. \A j \in 1 .. n + 1 : j \in 1 .. n \/ j = n + 1
      BY <2>1
    <3> QED BY <2>6, <2>8, <3>1, <1>3
  <2>11. t = a
    BY <2>5, <2>9, <2>10
  <2> QED BY <2>2, <2>3, <2>5, <2>7, <2>11
<1> QED BY <1>1, <1>3, <1>7, <1>8, <1>9, <1>10

LEMMA DigitsRead ==
    ASSUME NEW b \in Nat, b < Power(HeadLen)
    PROVE  atoi(DigitsOf(b, HeadLen)) = b /\ Len(DigitsOf(b, HeadLen)) = Shown(b)
<1>1. PICK h, w, o \in Nat :
        h = HeadLen /\ w = Shown(b) /\ w <= h /\ h >= 1 /\ o = Zeros(b) /\ o = h - w
  BY ZerosAre
<1>2. PICK t : t = DigitsOf(b, h)
  OBVIOUS
<1>3. Len(t) = IF h <= o THEN 0 ELSE h - o
  <2>1. h \in 0 .. HeadLen
    BY <1>1
  <2>2. Len(DigitsOf(b, h)) = IF h <= Zeros(b) THEN 0 ELSE h - Zeros(b)
    BY <2>1, DigitsAre
  <2> QED BY <1>1, <1>2, <2>2
<1>4. Len(t) = w
  BY <1>1, <1>3
<1>5. t = [j \in 1 .. w |-> Place(b, o + j)]
  <2>1. (IF h <= o THEN 0 ELSE h - o) = w
    BY <1>1
  <2> QED BY <1>1, <1>2, <2>1 DEF DigitsOf
<1>6. ASSUME NEW j \in 1 .. w PROVE t[j] = Digit((b \div Power(w - j)) % Base)
  <2>1. HeadLen - (o + j) = w - j
    BY <1>1
  <2> QED BY <1>5, <2>1 DEF Place
<1>7. b < Power(w)
  BY <1>1, ShownIs
<1>8. atoi(t) = b
  BY <1>4, <1>6, <1>7, AtoiIs
<1> QED BY <1>1, <1>2, <1>4, <1>8

(* All but the last digit, and a NUL: zero only for a number of one digit.  *)
LEMMA CutHead ==
    ASSUME NEW b \in Nat, b < Power(HeadLen), NEW t, t = Append(DigitsOf(b, HeadLen - 1), "NUL"),
           atoi(t) = 0
    PROVE  b < Base
<1>1. PICK h, w, o \in Nat :
        h = HeadLen /\ w = Shown(b) /\ w <= h /\ h >= 1 /\ o = Zeros(b) /\ o = h - w
  BY ZerosAre
<1>2. h >= 2
  BY <1>1, FramingSizes
<1>3. CASE w <= 1
  <2>1. PICK q \in Nat, p \in Nat : q = Power(w) /\ b < q /\ p = Power(1) /\ q <= p
    BY <1>1, <1>3, ShownIs, PowerIsNumber, PowerMonotone
  <2>2. Power(1) = Base
    <3>1. Power(0) = 1 /\ Power(0 + 1) = Base * Power(0) /\ 0 + 1 = 1
      BY PowerNext
    <3> QED BY <3>1, FramingSizes
  <2> QED BY <2>1, <2>2
<1>4. CASE w > 1
  <2>1. PICK s : s = DigitsOf(b, h - 1)
    OBVIOUS
  <2>2. PICK k \in Nat : k = w - 1 /\ k >= 1 /\ k = (h - 1) - o /\ h - 1 \in 0 .. HeadLen
    BY <1>1, <1>2, <1>4
  <2>3. s = [j \in 1 .. k |-> Place(b, o + j)] /\ s \in Seq(Characters) /\ Len(s) = k
    <3>1. ~(h - 1 <= Zeros(b)) /\ (h - 1) - Zeros(b) = k
      BY <1>1, <2>2
    <3>2. s = [j \in 1 .. k |-> Place(b, o + j)]
      BY <1>1, <2>1, <3>1 DEF DigitsOf
    <3>3. DigitsOf(b, h - 1) \in Seq(Characters)
      BY <2>2, DigitsAre
    <3> QED BY <2>1, <3>2, <3>3
  <2>4. \A j \in 1 .. k : IsDigit(s[j]) /\ Val(s[j]) \in Nat /\ (j = 1 => Val(s[j]) # 0)
    <3> SUFFICES ASSUME NEW j \in 1 .. k
                 PROVE  IsDigit(s[j]) /\ Val(s[j]) \in Nat /\ (j = 1 => Val(s[j]) # 0)
      OBVIOUS
    <3>1. o + j \in 1 .. HeadLen /\ s[j] = Place(b, o + j) /\ (j = 1 => o + j = HeadLen - Shown(b) + 1)
      BY <1>1, <2>2, <2>3
    <3>2. PICK d \in 0 .. Base - 1 : s[j] = Digit(d) /\ (j = 1 => s[j] # "0")
      BY <3>1, PlaceIs
    <3>3. IsDigit(s[j]) /\ Val(s[j]) = d /\ (s[j] = "0" <=> d = 0)
      BY <3>2, DigitIs
    <3> QED BY <3>2, <3>3, FramingSizes
  <2>5. Len(t) = k + 1 /\ t[k + 1] = "NUL" /\ \A j \in 1 .. k : t[j] = s[j]
    <3>1. "NUL" \in Characters
      BY DEF Characters
    <3> QED BY <1>1, <2>1, <2>3, <3>1, AppendProperties
  <2>6. PICK f, e : /\ Horner(f, t, Len(t)) /\ atoi(t) = f[e]
                    /\ e \in Leading(t) /\ \A m \in Leading(t) : m <= e
    <3>1. Len(t) \in Nat
      BY <2>2, <2>5
    <3> QED BY <3>1, AtoiOf
  <2>7. e = k
    <3>1. k \in Leading(t)
      BY <2>4, <2>5 DEF Leading
    <3>2. e \in 0 .. k + 1 /\ k <= e
      BY <2>5, <2>6, <3>1 DEF Leading
    <3>3. e # k + 1
      <4> SUFFICES ASSUME e = k + 1 PROVE FALSE
        OBVIOUS
      <4>1. k + 1 \in 1 .. e
        OBVIOUS
      <4>2. IsDigit(t[k + 1])
        BY <2>6, <4>1 DEF Leading
      <4> QED BY <2>5, <4>2, CharacterIsDigit
    <3> QED BY <3>2, <3>3
  <2>8. \A n \in 0 .. k + 1 : f[n] = IF n = 0 THEN 0 ELSE f[n - 1] * Base + Val(t[n])
    BY <2>5, <2>6 DEF Horner
  <2>9. PICK T : T = {n \in Nat : n + 1 <= k => f[n + 1] \in Nat /\ f[n + 1] >= 1}
    OBVIOUS
  <2>10. 0 \in T
    <3>1. 0 \in 0 .. k + 1 /\ 1 \in 0 .. k + 1 /\ 1 \in 1 .. k
      BY <2>2
    <3>2. f[0] = 0 /\ f[1] = f[0] * Base + Val(t[1])
      BY <2>8, <3>1
    <3>3. PICK v \in Nat : v = Val(t[1]) /\ v # 0
      BY <2>4, <2>5, <3>1
    <3>4. f[1] = v
      BY <3>2, <3>3, FramingSizes
    <3> QED BY <2>9, <3>3, <3>4
  <2>11. ASSUME NEW n \in T PROVE n + 1 \in T
    <3> SUFFICES ASSUME n \in Nat, (n + 1) + 1 <= k
                 PROVE  f[(n + 1) + 1] \in Nat /\ f[(n + 1) + 1] >= 1
      BY <2>9
    <3>1. PICK x \in Nat : x = f[n + 1] /\ x >= 1
      BY <2>9
    <3>2. (n + 1) + 1 \in 1 .. k /\ (n + 1) + 1 \in 0 .. k + 1 /\ ((n + 1) + 1) - 1 = n + 1 /\ (n + 1) + 1 # 0
      BY <2>2
    <3>3. PICK v \in Nat : v = Val(t[(n + 1) + 1])
      BY <2>4, <2>5, <3>2
    <3>4. f[(n + 1) + 1] = x * Base + v
      BY <2>8, <3>1, <3>2, <3>3
    <3>5. PICK c \in Nat : c = Base /\ c >= 2
      BY FramingSizes
    <3>6. PICK y \in Nat : y = x * c /\ y >= 1
      <4>1. x * c >= 1 * c /\ x * c \in Nat /\ 1 * c = c
        BY <3>1, <3>5
      <4> QED BY <3>5, <4>1
    <3>7. f[(n + 1) + 1] = y + v
      BY <3>4, <3>5, <3>6
    <3>8. \A i, j \in Nat : i >= 1 => i + j \in Nat /\ i + j >= 1
      OBVIOUS
    <3>9. y \in Nat /\ y >= 1 /\ v \in Nat
      BY <3>3, <3>6
    <3>10. y + v \in Nat /\ y + v >= 1
      BY <3>8, <3>9
    <3> QED BY <3>7, <3>10
  <2>12. T = Nat
    BY <2>9, <2>10, <2>11, AllNumbers
  <2>13. k - 1 \in Nat /\ (k - 1) + 1 = k
    BY <2>2
  <2>14. f[k] >= 1
    <3>1. PICK n \in T : n = k - 1
      BY <2>12, <2>13
    <3>2. n \in Nat /\ n + 1 = k
      BY <2>13, <3>1
    <3>3. f[n + 1] >= 1
      BY <2>9, <3>2
    <3> QED BY <3>2, <3>3
  <2> QED BY <2>6, <2>7, <2>14
<1> QED BY <1>1, <1>3, <1>4

LEMMA HeadRead ==
    ASSUME NEW b \in Nat, b < Power(HeadLen), NEW s, Len(s) = HeadLen,
           \A i \in 1 .. HeadLen : s[i] = encode(b)[i]
    PROVE  HeadValue(s) = b
<1>1. PICK h, w, o \in Nat :
        h = HeadLen /\ w = Shown(b) /\ w <= h /\ h >= 1 /\ o = Zeros(b) /\ o = h - w
  BY ZerosAre
<1>2. PICK u : u = [i \in 0 .. h |-> DigitsOf(b, i)]
  OBVIOUS
<1>3. u[0] = <<>>
  <2>1. 0 \in 0 .. HeadLen /\ 0 <= Zeros(b)
    BY <1>1
  <2>2. DigitsOf(b, 0) = <<>>
    BY <2>1, DigitsAre
  <2> QED BY <1>2, <2>2
<1>4. ASSUME NEW i \in 0 .. h, i # 0
      PROVE  u[i] = IF s[i] = "X" THEN u[i - 1] ELSE Append(u[i - 1], s[i])
  <2>1. i \in 1 .. h /\ i - 1 \in 0 .. h /\ (i - 1) + 1 = i /\ i - 1 < h
    BY <1>4
  <2>2. u[i] = DigitsOf(b, i) /\ u[i - 1] = DigitsOf(b, i - 1)
    BY <1>2, <2>1
  <2>3. CASE i <= o
    <3>1. s[i] = "X"
      <4>1. i \in 1 .. HeadLen /\ i <= HeadLen - Shown(b)
        BY <1>1, <2>1, <2>3
      <4>2. encode(b)[i] = "X"
        BY <4>1, CodeIs
      <4> QED BY <4>1, <4>2
    <3>2. DigitsOf(b, i) = <<>> /\ DigitsOf(b, i - 1) = <<>>
      <4>1. i \in 0 .. HeadLen /\ i - 1 \in 0 .. HeadLen /\ i <= Zeros(b) /\ i - 1 <= Zeros(b)
        BY <1>1, <2>1, <2>3
      <4> QED BY <4>1, DigitsAre
    <3> QED BY <2>2, <3>1, <3>2
  <2>4. CASE i > o
    <3>1. s[i] = Place(b, i) /\ s[i] # "X"
      <4>1. i \in 1 .. HeadLen /\ i > HeadLen - Shown(b)
        BY <1>1, <2>1, <2>4
      <4>2. encode(b)[i] = Place(b, i) /\ encode(b)[i] # "X"
        BY <4>1, CodeIs
      <4> QED BY <4>1, <4>2
    <3>2. i - 1 \in 0 .. HeadLen /\ i - 1 < HeadLen /\ i - 1 >= Zeros(b)
      BY <1>1, <2>1, <2>4
    <3>3. DigitsOf(b, (i - 1) + 1) = Append(DigitsOf(b, i - 1), Place(b, (i - 1) + 1))
      BY <3>2, DigitsAre
    <3> QED BY <2>1, <2>2, <3>1, <3>3
  <2> QED BY <1>1, <2>1, <2>3, <2>4
<1>5. u = [i \in 0 .. h |-> IF i = 0 THEN <<>>
                          ELSE IF s[i] = "X" THEN u[i - 1] ELSE Append(u[i - 1], s[i])]
  BY <1>2, <1>3, <1>4
<1>6. Keeps(u, s, Len(s))
  BY <1>1, <1>5 DEF Keeps
<1>7. HeadValue(s) = atoi(u[h])
  BY <1>1, <1>6, HeadValueOf
<1>8. u[h] = DigitsOf(b, HeadLen)
  BY <1>1, <1>2
<1> QED BY <1>7, <1>8, DigitsRead

(* On a line str lie the frames of the numbers bs, frame k behind place     *)
(* off[k], as far as they are there; the rest of the line are pings.        *)
Text == Seq(Characters)
Offsets(bs, off) ==
    /\ off \in [1 .. Len(bs) + 1 -> Int]
    /\ \A k \in 1 .. Len(bs) : off[k] + FrameSize(bs[k]) <= off[k + 1]
Written(str, bs, off) ==
    \A k \in 1 .. Len(bs) : \A i \in 1 .. FrameSize(bs[k]) :
        off[k] + i \in 1 .. Len(str) => str[off[k] + i] = encode(bs[k])[i]
Gaps(str, bs, off) ==
    /\ \A j \in 1 .. Len(str) : j <= off[1] => str[j] = "!"
    /\ \A k \in 1 .. Len(bs) : \A j \in 1 .. Len(str) :
          off[k] + FrameSize(bs[k]) < j /\ j <= off[k + 1] => str[j] = "!"
Frames(str, bs, off) ==
    Offsets(bs, off) /\ Len(str) <= off[Len(bs) + 1] /\ Written(str, bs, off) /\ Gaps(str, bs, off)
Tight(bs, off) == \A k \in 1 .. Len(bs) : off[k + 1] = off[k] + FrameSize(bs[k])

LEMMA SizeIs == \A b \in Nat : FrameSize(b) \in Nat /\ FrameSize(b) >= 1 /\ FrameSize(b) >= HeadLen
  BY FramingSizes DEF FrameSize

Earlier(bs, off) == [k \in 1 .. Len(bs) + 1 |-> off[k] - 1]

LEMMA TakeChar ==
    ASSUME NEW str \in Text, NEW bs \in Seq(Nat), NEW off, Frames(str, bs, off), str # <<>>
    PROVE  /\ Frames(Tail(str), bs, Earlier(bs, off))
           /\ Tight(bs, off) => Tight(bs, Earlier(bs, off))
<1>1. PICK n \in Nat : n = Len(bs) /\ \A k \in 1 .. n : bs[k] \in Nat
  BY ElementOfSeq
<1>2. PICK l \in Nat : l = Len(str) /\ l >= 1
  BY EmptySeq DEF Text
<1>3. PICK t : t = Tail(str)
  OBVIOUS
<1>4. Len(t) = l - 1 /\ l - 1 \in Nat /\ \A j \in 1 .. l - 1 : t[j] = str[j + 1]
  BY <1>2, <1>3, HeadTailProperties DEF Text
<1>5. PICK o : o = Earlier(bs, off)
  OBVIOUS
<1>6. off \in [1 .. n + 1 -> Int] /\ o = [k \in 1 .. n + 1 |-> off[k] - 1]
  BY <1>1, <1>5 DEF Frames, Offsets, Earlier
<1>7. o \in [1 .. n + 1 -> Int] /\ \A k \in 1 .. n + 1 : off[k] \in Int /\ o[k] = off[k] - 1
  BY <1>6
<1>8. \A k \in 1 .. n : k \in 1 .. n + 1 /\ k + 1 \in 1 .. n + 1
  OBVIOUS
<1>9. Offsets(bs, o)
  <2>1. ASSUME NEW k \in 1 .. n PROVE o[k] + FrameSize(bs[k]) <= o[k + 1]
    <3>1. off[k] + FrameSize(bs[k]) <= off[k + 1]
      BY <1>1 DEF Frames, Offsets
    <3>2. PICK s \in Nat : s = FrameSize(bs[k])
      BY <1>1, SizeIs
    <3>3. PICK a, e \in Int : a = off[k] /\ o[k] = a - 1 /\ e = off[k + 1] /\ o[k + 1] = e - 1
      BY <1>7, <1>8
    <3>4. a + s <= e
      BY <3>1, <3>2, <3>3
    <3> QED BY <3>2, <3>3, <3>4
  <2> QED BY <1>1, <1>7, <2>1 DEF Offsets
<1>10. Len(t) <= o[n + 1]
  <2>1. l <= off[n + 1] /\ n + 1 \in 1 .. n + 1
    BY <1>1, <1>2 DEF Frames
  <2> QED BY <1>2, <1>4, <1>7, <2>1
<1>11. Written(t, bs, o)
  <2>1. ASSUME NEW k \in 1 .. n, NEW i \in 1 .. FrameSize(bs[k]), o[k] + i \in 1 .. Len(t)
        PROVE  t[o[k] + i] = encode(bs[k])[i]
    <3>1. i \in Int
      BY <1>1, SizeIs
    <3>2. PICK a \in Int : a = off[k] /\ o[k] = a - 1
      BY <1>7, <1>8
    <3>3. (a - 1) + i \in 1 .. l - 1
      BY <1>4, <2>1, <3>2
    <3>4. a + i \in 1 .. l /\ ((a - 1) + i) + 1 = a + i
      BY <1>2, <3>1, <3>3
    <3>5. off[k] + i \in 1 .. l /\ o[k] + i \in 1 .. l - 1 /\ (o[k] + i) + 1 = off[k] + i
      BY <3>2, <3>3, <3>4
    <3>6. str[off[k] + i] = encode(bs[k])[i]
      BY <1>1, <1>2, <3>5 DEF Frames, Written
    <3> QED BY <1>4, <3>5, <3>6
  <2> QED BY <1>1, <2>1 DEF Written
<1>12. Gaps(t, bs, o)
  <2>1. ASSUME NEW j \in 1 .. l - 1 PROVE j + 1 \in 1 .. l /\ t[j] = str[j + 1]
    BY <1>2, <1>4
  <2>2. ASSUME NEW j \in 1 .. l - 1, j <= o[1] PROVE t[j] = "!"
    <3>1. j + 1 <= off[1] /\ 1 \in 1 .. n + 1
      BY <1>2, <1>7, <2>2
    <3> QED BY <1>2, <2>1, <3>1 DEF Frames, Gaps
  <2>3. ASSUME NEW k \in 1 .. n, NEW j \in 1 .. l - 1, o[k] + FrameSize(bs[k]) < j, j <= o[k + 1]
        PROVE  t[j] = "!"
    <3>1. PICK s \in Nat : s = FrameSize(bs[k])
      BY <1>1, SizeIs
    <3>2. PICK a, b \in Int : a = off[k] /\ o[k] = a - 1 /\ b = off[k + 1] /\ o[k + 1] = b - 1
      BY <1>7, <1>8
    <3>3. (a - 1) + s < j /\ j <= b - 1 /\ j \in Int
      BY <2>3, <3>1, <3>2
    <3>4. off[k] + s < j + 1 /\ j + 1 <= off[k + 1]
      BY <3>1, <3>2, <3>3, SMTT(15)
    <3> QED BY <1>1, <1>2, <2>1, <3>1, <3>4 DEF Frames, Gaps
  <2> QED BY <1>1, <1>4, <2>2, <2>3 DEF Gaps
<1>13. ASSUME Tight(bs, off) PROVE Tight(bs, o)
  <2>1. ASSUME NEW k \in 1 .. n PROVE o[k + 1] = o[k] + FrameSize(bs[k])
    <3>1. PICK s \in Nat : s = FrameSize(bs[k])
      BY <1>1, SizeIs
    <3>2. off[k + 1] = off[k] + s
      BY <1>1, <1>13, <3>1 DEF Tight
    <3> QED BY <1>7, <1>8, <3>1, <3>2
  <2> QED BY <1>1, <2>1 DEF Tight
<1> QED BY <1>1, <1>3, <1>5, <1>9, <1>10, <1>11, <1>12, <1>13 DEF Frames

LEMMA RestIs ==
    ASSUME NEW S, NEW s \in Seq(S), s # <<>>
    PROVE  /\ Rest(s) \in Seq(S) /\ Len(Rest(s)) = Len(s) - 1
           /\ \A k \in 1 .. Len(s) - 1 : Rest(s)[k] = s[k + 1]
<1>1. PICK n \in Nat : n = Len(s) /\ n >= 1
  BY EmptySeq
<1>2. SubSeq(s, 2, n) = [k \in 1 .. n - 1 |-> s[k + 1]]
  <2>1. SubSeq(s, 2, n) = [k \in 1 .. (1 + n - 2) |-> s[2 + k - 1]]
    BY <1>1
  <2>2. 1 + n - 2 = n - 1 /\ \A k \in 1 .. n - 1 : 2 + k - 1 = k + 1
    BY <1>1
  <2> QED BY <2>1, <2>2
<1>3. \A k \in 1 .. n - 1 : k + 1 \in 1 .. n /\ s[k + 1] \in S
  BY <1>1, ElementOfSeq
<1>4. n - 1 \in Nat
  BY <1>1
<1>5. PICK r : r = Rest(s)
  OBVIOUS
<1>6. r = [k \in 1 .. n - 1 |-> s[k + 1]]
  BY <1>1, <1>2, <1>5 DEF Rest
<1>7. r \in Seq(S) /\ Len(r) = n - 1
  BY <1>3, <1>4, <1>6
<1> QED BY <1>1, <1>5, <1>6, <1>7

Later(bs, off) == [k \in 1 .. Len(bs) |-> off[k + 1]]

LEMMA DropFrame ==
    ASSUME NEW str \in Text, NEW bs \in Seq(Nat), NEW off, Frames(str, bs, off),
           bs # <<>>, off[1] + FrameSize(bs[1]) <= 0
    PROVE  /\ Frames(str, Rest(bs), Later(bs, off))
           /\ Tight(bs, off) => Tight(Rest(bs), Later(bs, off))
<1>1. PICK n \in Nat : n = Len(bs) /\ n >= 1 /\ \A k \in 1 .. n : bs[k] \in Nat
  BY ElementOfSeq, EmptySeq
<1>2. PICK l \in Nat : l = Len(str)
  BY DEF Text
<1>3. PICK m \in Nat, c \in Seq(Nat) : m = n - 1 /\ c = Rest(bs)
  BY <1>1, RestIs
<1>4. c \in Seq(Nat) /\ Len(c) = m /\ \A k \in 1 .. m : c[k] = bs[k + 1]
  BY <1>1, <1>3, RestIs
<1>5. PICK o : o = Later(bs, off)
  OBVIOUS
<1>6. off \in [1 .. n + 1 -> Int] /\ o = [k \in 1 .. m + 1 |-> off[k + 1]]
  BY <1>1, <1>3, <1>5 DEF Frames, Offsets, Later
<1>7. \A k \in 1 .. m + 1 : k + 1 \in 1 .. n + 1 /\ o[k] = off[k + 1]
  BY <1>1, <1>3, <1>6
<1>8. o \in [1 .. m + 1 -> Int]
  BY <1>6, <1>7
<1>9. \A k \in 1 .. m : k + 1 \in 1 .. n /\ k \in 1 .. m + 1 /\ k + 1 \in 1 .. m + 1
  BY <1>1, <1>3
<1>10. Offsets(c, o)
  <2>1. ASSUME NEW k \in 1 .. m PROVE o[k] + FrameSize(c[k]) <= o[k + 1]
    <3>1. off[k + 1] + FrameSize(bs[k + 1]) <= off[(k + 1) + 1]
      BY <1>1, <1>9 DEF Frames, Offsets
    <3> QED BY <1>4, <1>7, <1>9, <3>1
  <2> QED BY <1>4, <1>8, <2>1 DEF Offsets
<1>11. l <= o[m + 1]
  <2>1. m + 1 \in 1 .. m + 1 /\ (m + 1) + 1 = n + 1
    BY <1>1, <1>3
  <2>2. l <= off[n + 1]
    BY <1>1, <1>2 DEF Frames
  <2> QED BY <1>7, <2>1, <2>2
<1>12. Written(str, c, o)
  <2>1. ASSUME NEW k \in 1 .. m, NEW i \in 1 .. FrameSize(c[k]), o[k] + i \in 1 .. l
        PROVE  str[o[k] + i] = encode(c[k])[i]
    <3>1. c[k] = bs[k + 1] /\ o[k] = off[k + 1] /\ k + 1 \in 1 .. n
      BY <1>4, <1>7, <1>9
    <3> QED BY <1>1, <1>2, <2>1, <3>1 DEF Frames, Written
  <2> QED BY <1>2, <1>4, <2>1 DEF Written
<1>13. Gaps(str, c, o)
  <2>1. ASSUME NEW j \in 1 .. l, j <= o[1] PROVE str[j] = "!"
    <3>1. 1 \in 1 .. n /\ 1 \in 1 .. m + 1 /\ o[1] = off[1 + 1]
      BY <1>1, <1>3, <1>7
    <3>2. off[1] + FrameSize(bs[1]) < j
      <4>1. PICK a \in Int : a = off[1]
        <5>1. 1 \in 1 .. n + 1
          BY <1>1
        <5>2. off[1] \in Int
          BY <1>6, <5>1
        <5> QED BY <5>2
      <4>2. PICK s \in Nat : s = FrameSize(bs[1])
        BY <1>1, <3>1, SizeIs
      <4>3. a + s <= 0
        BY <4>1, <4>2
      <4> QED BY <4>1, <4>2, <4>3
    <3>3. j <= off[1 + 1]
      BY <2>1, <3>1
    <3> QED BY <1>1, <1>2, <3>1, <3>2, <3>3 DEF Frames, Gaps
  <2>2. ASSUME NEW k \in 1 .. m, NEW j \in 1 .. l, o[k] + FrameSize(c[k]) < j, j <= o[k + 1]
        PROVE  str[j] = "!"
    <3>1. /\ c[k] = bs[k + 1] /\ o[k] = off[k + 1] /\ o[k + 1] = off[(k + 1) + 1]
          /\ k + 1 \in 1 .. n
      BY <1>4, <1>7, <1>9
    <3>2. off[k + 1] + FrameSize(bs[k + 1]) < j /\ j <= off[(k + 1) + 1]
      BY <2>2, <3>1
    <3> QED BY <1>1, <1>2, <3>1, <3>2 DEF Frames, Gaps
  <2> QED BY <1>2, <1>4, <2>1, <2>2 DEF Gaps
<1>14. ASSUME Tight(bs, off) PROVE Tight(c, o)
  <2>1. ASSUME NEW k \in 1 .. m PROVE o[k + 1] = o[k] + FrameSize(c[k])
    <3>1. /\ c[k] = bs[k + 1] /\ o[k] = off[k + 1] /\ o[k + 1] = off[(k + 1) + 1]
          /\ k + 1 \in 1 .. n
      BY <1>4, <1>7, <1>9
    <3>2. off[(k + 1) + 1] = off[k + 1] + FrameSize(bs[k + 1])
      BY <1>1, <1>14, <3>1 DEF Tight
    <3> QED BY <3>1, <3>2
  <2> QED BY <1>4, <2>1 DEF Tight
<1> QED BY <1>2, <1>3, <1>4, <1>5, <1>10, <1>11, <1>12, <1>13, <1>14 DEF Frames

LEMMA OffsetsOrdered ==
    ASSUME NEW bs \in Seq(Nat), NEW off, Offsets(bs, off)
    PROVE  \A k \in 1 .. Len(bs) + 1 : off[k] \in Int /\ off[k] <= off[Len(bs) + 1]
<1>1. PICK n \in Nat : n = Len(bs) /\ \A k \in 1 .. n : bs[k] \in Nat
  BY ElementOfSeq
<1>2. \A k \in 1 .. n + 1 : off[k] \in Int
  BY <1>1 DEF Offsets
<1>3. PICK T : T = {d \in Nat : d <= n => off[(n + 1) - d] <= off[n + 1]}
  OBVIOUS
<1>4. 0 \in T
  <2>1. (n + 1) - 0 = n + 1 /\ n + 1 \in 1 .. n + 1
    OBVIOUS
  <2>2. PICK e \in Int : e = off[n + 1]
    BY <1>2, <2>1
  <2> QED BY <1>3, <2>1, <2>2
<1>5. ASSUME NEW d \in T PROVE d + 1 \in T
  <2> SUFFICES ASSUME d + 1 <= n PROVE off[(n + 1) - (d + 1)] <= off[n + 1]
    BY <1>3
  <2>1. d \in Nat /\ d <= n /\ off[(n + 1) - d] <= off[n + 1]
    BY <1>3
  <2>2. PICK k \in Nat : k = (n + 1) - (d + 1) /\ k \in 1 .. n /\ k + 1 = (n + 1) - d
    BY <2>1
  <2>3. off[k] + FrameSize(bs[k]) <= off[k + 1]
    BY <1>1, <2>2 DEF Offsets
  <2>4. k \in 1 .. n + 1 /\ k + 1 \in 1 .. n + 1 /\ n + 1 \in 1 .. n + 1
    BY <2>2
  <2>5. PICK a, b, e \in Int : a = off[k] /\ b = off[k + 1] /\ e = off[n + 1]
    BY <1>2, <2>4
  <2>6. PICK s \in Nat : s = FrameSize(bs[k])
    BY <1>1, <2>2, SizeIs
  <2>7. a + s <= b
    BY <2>3, <2>5, <2>6
  <2>8. b <= e
    BY <2>1, <2>2, <2>5
  <2> QED BY <2>2, <2>5, <2>7, <2>8
<1>6. T = Nat
  BY <1>3, <1>4, <1>5, AllNumbers
<1>7. ASSUME NEW k \in 1 .. n + 1 PROVE off[k] <= off[n + 1]
  <2>1. PICK d \in Nat : d = (n + 1) - k /\ d <= n /\ (n + 1) - d = k
    OBVIOUS
  <2> QED BY <1>3, <1>6, <2>1
<1> QED BY <1>1, <1>2, <1>7

And(bs, off, e) == [k \in 1 .. Len(bs) + 2 |-> IF k <= Len(bs) + 1 THEN off[k] ELSE e]

LEMMA AppendFrame ==
    ASSUME NEW str \in Text, NEW bs \in Seq(Nat), NEW off, Frames(str, bs, off),
           off[Len(bs) + 1] = Len(str), NEW b \in Nat, b < Power(HeadLen),
           NEW o, o = And(bs, off, Len(str) + FrameSize(b))
    PROVE  /\ Frames(str \o encode(b), Append(bs, b), o)
           /\ o[1] = off[1]
           /\ o[Len(Append(bs, b)) + 1] = Len(str \o encode(b))
           /\ Tight(bs, off) => Tight(Append(bs, b), o)
<1>1. PICK n \in Nat : n = Len(bs) /\ \A k \in 1 .. n : bs[k] \in Nat
  BY ElementOfSeq
<1>2. PICK l \in Nat : l = Len(str)
  BY DEF Text
<1>3. PICK x \in Nat, c \in Text : c = encode(b) /\ x = FrameSize(b) /\ Len(c) = x
  <2>1. encode(b) \in Text /\ Len(encode(b)) = FrameSize(b)
    BY CodeIs DEF Text, FrameSize
  <2> QED BY <2>1, SizeIs
<1>4. PICK t : t = str \o c
  OBVIOUS
<1>5. t \in Text /\ Len(t) = l + x /\ \A j \in 1 .. l + x : t[j] = IF j <= l THEN str[j] ELSE c[j - l]
  <2>1. str \o c \in Seq(Characters)
    BY ConcatProperties DEF Text
  <2>2. Len(str \o c) = Len(str) + Len(c)
    BY ConcatProperties DEF Text
  <2>3. \A j \in 1 .. Len(str) + Len(c) :
           (str \o c)[j] = IF j <= Len(str) THEN str[j] ELSE c[j - Len(str)]
    BY ConcatProperties DEF Text
  <2> QED BY <1>2, <1>3, <1>4, <2>1, <2>2, <2>3 DEF Text
<1>6. PICK a : a = Append(bs, b)
  OBVIOUS
<1>7. a \in Seq(Nat) /\ Len(a) = n + 1 /\ a[n + 1] = b /\ \A k \in 1 .. n : a[k] = bs[k]
  BY <1>1, <1>6, AppendProperties
<1>8. off \in [1 .. n + 1 -> Int] /\ off[n + 1] = l
  BY <1>1, <1>2 DEF Frames, Offsets
<1>9. o = [k \in 1 .. n + 2 |-> IF k <= n + 1 THEN off[k] ELSE l + x]
  BY <1>1, <1>2, <1>3 DEF And
<1>10. /\ \A k \in 1 .. n + 1 : k \in 1 .. n + 2 /\ o[k] = off[k]
       /\ o[n + 2] = l + x /\ o[n + 1] = l
  BY <1>8, <1>9
<1>11. o \in [1 .. n + 2 -> Int]
  <2>1. ASSUME NEW k \in 1 .. n + 2 PROVE (IF k <= n + 1 THEN off[k] ELSE l + x) \in Int
    BY <1>8
  <2> QED BY <1>9, <2>1
<1>12. \A k \in 1 .. n + 1 : k \in 1 .. n \/ k = n + 1
  OBVIOUS
<1>13. \A k \in 1 .. n : /\ a[k] = bs[k] /\ o[k] = off[k] /\ o[k + 1] = off[k + 1]
                         /\ k \in 1 .. n + 1 /\ k + 1 \in 1 .. n + 1
  BY <1>7, <1>10
<1>14. a[n + 1] = b /\ o[n + 1] = l /\ o[(n + 1) + 1] = l + x
  <2>1. (n + 1) + 1 = n + 2
    OBVIOUS
  <2> QED BY <1>7, <1>10, <2>1
<1>15. \A k \in 1 .. n : off[k] + FrameSize(bs[k]) <= off[k + 1]
  BY <1>1 DEF Frames, Offsets
<1>16. \A k \in 1 .. n + 1 : off[k] \in Int /\ off[k] <= l
  <2>1. Offsets(bs, off)
    BY DEF Frames
  <2> QED BY <1>1, <1>8, <2>1, OffsetsOrdered
<1>17. Offsets(a, o)
  <2>1. ASSUME NEW k \in 1 .. n + 1 PROVE o[k] + FrameSize(a[k]) <= o[k + 1]
    <3>1. CASE k \in 1 .. n
      BY <1>13, <1>15, <3>1
    <3>2. CASE k = n + 1
      BY <1>3, <1>14, <3>2
    <3> QED BY <1>12, <3>1, <3>2
  <2>2. (n + 1) + 1 = n + 2
    OBVIOUS
  <2> QED BY <1>7, <1>11, <2>1, <2>2 DEF Offsets
<1>18. Written(t, a, o)
  <2>1. ASSUME NEW k \in 1 .. n + 1, NEW i \in 1 .. FrameSize(a[k]), o[k] + i \in 1 .. l + x
        PROVE  t[o[k] + i] = encode(a[k])[i]
    <3>1. CASE k \in 1 .. n
      <4>1. a[k] = bs[k] /\ o[k] = off[k]
        BY <1>13, <3>1
      <4>2. PICK p \in Int, s \in Nat, e \in Int :
              p = off[k] /\ s = FrameSize(bs[k]) /\ e = off[k + 1] /\ p + s <= e
        BY <1>1, <1>8, <1>13, <1>15, <3>1, SizeIs
      <4>3. e <= l
        BY <1>13, <1>16, <3>1, <4>2
      <4>4. i <= s /\ i \in Nat
        BY <2>1, <4>1, <4>2
      <4>5. p + i \in 1 .. l + x
        BY <2>1, <4>1, <4>2
      <4>6. p + i \in 1 .. l
        <5>1. 1 <= p + i /\ p + i <= p + s
          BY <4>2, <4>4, <4>5
        <5>2. p + s <= l
          BY <4>2, <4>3
        <5>3. PICK d \in Int : d = p + i
          BY <4>2, <4>4
        <5>4. 1 <= d /\ d <= l
          BY <4>2, <5>1, <5>2, <5>3
        <5> QED BY <5>3, <5>4
      <4>7. str[p + i] = encode(bs[k])[i]
        BY <1>1, <1>2, <2>1, <3>1, <4>1, <4>2, <4>6 DEF Frames, Written
      <4>8. t[p + i] = str[p + i]
        BY <1>5, <4>5, <4>6
      <4> QED BY <4>1, <4>2, <4>7, <4>8
    <3>2. CASE k = n + 1
      <4>1. i \in 1 .. x /\ o[k] = l /\ a[k] = b
        BY <1>3, <1>14, <2>1, <3>2
      <4>2. l + i \in 1 .. l + x /\ ~(l + i <= l) /\ (l + i) - l = i
        BY <4>1
      <4>3. t[l + i] = c[i]
        BY <1>5, <4>2
      <4> QED BY <1>3, <4>1, <4>3
    <3> QED BY <1>12, <3>1, <3>2
  <2> QED BY <1>5, <1>7, <2>1 DEF Written
<1>19. \A j \in 1 .. l : j \in 1 .. l + x /\ t[j] = str[j]
  BY <1>5
<1>20. Gaps(t, a, o)
  <2>1. ASSUME NEW j \in 1 .. l + x, j <= o[1] PROVE t[j] = "!"
    <3>1. PICK p \in Int : p = off[1] /\ o[1] = p /\ p <= l
      BY <1>10, <1>16
    <3>2. j \in 1 .. l /\ j <= off[1]
      BY <2>1, <3>1
    <3> QED BY <1>2, <1>19, <3>2 DEF Frames, Gaps
  <2>2. ASSUME NEW k \in 1 .. n + 1, NEW j \in 1 .. l + x, o[k] + FrameSize(a[k]) < j, j <= o[k + 1]
        PROVE  t[j] = "!"
    <3>1. CASE k \in 1 .. n
      <4>1. a[k] = bs[k] /\ o[k] = off[k] /\ o[k + 1] = off[k + 1]
        BY <1>13, <3>1
      <4>2. PICK e \in Int : e = off[k + 1] /\ e <= l
        BY <1>13, <1>16, <3>1
      <4>3. j \in 1 .. l
        BY <2>2, <4>1, <4>2
      <4> QED BY <1>1, <1>2, <1>19, <2>2, <3>1, <4>1, <4>3 DEF Frames, Gaps
    <3>2. CASE k = n + 1
      <4>1. l + x < j /\ j <= l + x /\ j \in Int
        BY <1>3, <1>14, <2>2, <3>2
      <4> QED BY <4>1
    <3> QED BY <1>12, <3>1, <3>2
  <2> QED BY <1>5, <1>7, <2>1, <2>2 DEF Gaps
<1>21. ASSUME Tight(bs, off) PROVE Tight(a, o)
  <2>1. ASSUME NEW k \in 1 .. n + 1 PROVE o[k + 1] = o[k] + FrameSize(a[k])
    <3>1. CASE k \in 1 .. n
      BY <1>1, <1>13, <1>21, <3>1 DEF Tight
    <3>2. CASE k = n + 1
      BY <1>3, <1>14, <3>2
    <3> QED BY <1>12, <3>1, <3>2
  <2> QED BY <1>7, <2>1 DEF Tight
<1>22. Frames(t, a, o) /\ o[1] = off[1] /\ o[Len(a) + 1] = Len(t)
  <2>1. 1 \in 1 .. n + 1
    OBVIOUS
  <2>2. o[Len(a) + 1] = l + x
    BY <1>7, <1>14
  <2> QED BY <1>5, <1>10, <1>17, <1>18, <1>20, <2>1, <2>2 DEF Frames
<1> QED BY <1>3, <1>4, <1>6, <1>21, <1>22

PingIn(bs, off, e) == [k \in 1 .. Len(bs) + 1 |-> IF k = Len(bs) + 1 THEN e ELSE off[k]]

LEMMA AppendPing ==
    ASSUME NEW str \in Text, NEW bs \in Seq(Nat), NEW off, Frames(str, bs, off),
           off[Len(bs) + 1] = Len(str),
           NEW o, o = PingIn(bs, off, Len(str) + 1)
    PROVE  /\ Frames(Append(str, "!"), bs, o)
           /\ o[Len(bs) + 1] = Len(Append(str, "!"))
           /\ o[1] = IF Len(bs) = 0 THEN off[1] + 1 ELSE off[1]
<1>1. PICK n \in Nat : n = Len(bs) /\ \A k \in 1 .. n : bs[k] \in Nat
  BY ElementOfSeq
<1>2. PICK l \in Nat : l = Len(str)
  BY DEF Text
<1>3. PICK t : t = Append(str, "!")
  OBVIOUS
<1>4. Len(t) = l + 1 /\ t[l + 1] = "!" /\ \A j \in 1 .. l : t[j] = str[j]
  <2>1. "!" \in Characters
    BY DEF Characters
  <2> QED BY <1>2, <1>3, <2>1, AppendProperties DEF Text
<1>5. off \in [1 .. n + 1 -> Int] /\ off[n + 1] = l
  BY <1>1, <1>2 DEF Frames, Offsets
<1>6. o = [k \in 1 .. n + 1 |-> IF k = n + 1 THEN l + 1 ELSE off[k]]
  BY <1>1, <1>2 DEF PingIn
<1>7. /\ \A k \in 1 .. n : k \in 1 .. n + 1 /\ k + 1 \in 1 .. n + 1 /\ off[k] \in Int /\ o[k] = off[k]
      /\ o[n + 1] = l + 1 /\ n + 1 \in 1 .. n + 1
  BY <1>5, <1>6
<1>8. \A k \in 1 .. n : /\ off[k + 1] \in Int
                        /\ o[k + 1] = off[k + 1] \/ (k = n /\ off[k + 1] = l /\ o[k + 1] = l + 1)
  <2>1. ASSUME NEW k \in 1 .. n
        PROVE  /\ off[k + 1] \in Int
               /\ o[k + 1] = off[k + 1] \/ (k = n /\ off[k + 1] = l /\ o[k + 1] = l + 1)
    <3>1. CASE k = n
      BY <1>5, <1>7, <3>1
    <3>2. CASE k # n
      <4>1. k + 1 \in 1 .. n
        BY <3>2
      <4> QED BY <1>7, <4>1
    <3> QED BY <3>1, <3>2
  <2> QED BY <2>1
<1>9. o \in [1 .. n + 1 -> Int]
  <2>1. ASSUME NEW k \in 1 .. n + 1 PROVE (IF k = n + 1 THEN l + 1 ELSE off[k]) \in Int
    BY <1>5
  <2> QED BY <1>6, <2>1
<1>10. Offsets(bs, o)
  <2>1. ASSUME NEW k \in 1 .. n PROVE o[k] + FrameSize(bs[k]) <= o[k + 1]
    <3>1. PICK a \in Int, s \in Nat, e \in Int : a = off[k] /\ s = FrameSize(bs[k]) /\ e = off[k + 1]
      BY <1>1, <1>7, <1>8, SizeIs
    <3>2. a + s <= e
      BY <1>1, <3>1 DEF Frames, Offsets
    <3>3. o[k] = a /\ (o[k + 1] = e \/ o[k + 1] = e + 1)
      BY <1>7, <1>8, <3>1
    <3> QED BY <3>1, <3>2, <3>3
  <2> QED BY <1>1, <1>9, <2>1 DEF Offsets
<1>11. Written(t, bs, o)
  <2>1. ASSUME NEW k \in 1 .. n, NEW i \in 1 .. FrameSize(bs[k]), o[k] + i \in 1 .. l + 1
        PROVE  t[o[k] + i] = encode(bs[k])[i]
    <3>1. PICK a \in Int, s \in Nat, e \in Int : a = off[k] /\ s = FrameSize(bs[k]) /\ e = off[k + 1]
      BY <1>1, <1>7, <1>8, SizeIs
    <3>2. a + s <= e
      BY <1>1, <3>1 DEF Frames, Offsets
    <3>3. e <= l
      <4>1. \A m \in 1 .. n + 1 : off[m] \in Int /\ off[m] <= off[n + 1]
        BY <1>1, OffsetsOrdered DEF Frames
      <4> QED BY <1>5, <1>7, <3>1, <4>1
    <3>4. o[k] = a /\ i <= s /\ i \in Nat
      BY <1>7, <3>1
    <3>5. a + i \in 1 .. l + 1
      BY <2>1, <3>4
    <3>6. a + i \in 1 .. l
      BY <3>1, <3>2, <3>3, <3>4, <3>5
    <3>7. str[a + i] = encode(bs[k])[i]
      BY <1>1, <1>2, <2>1, <3>1, <3>6 DEF Frames, Written
    <3> QED BY <1>4, <3>4, <3>6, <3>7
  <2> QED BY <1>1, <1>4, <2>1 DEF Written
<1>12. \A j \in 1 .. l + 1 : j = l + 1 \/ (j \in 1 .. l /\ j \in Int)
  OBVIOUS
<1>13. Gaps(t, bs, o)
  <2>1. ASSUME NEW j \in 1 .. l, j <= o[1] PROVE t[j] = "!"
    <3>1. j <= off[1]
      <4>1. CASE n = 0
        BY <1>5, <4>1
      <4>2. CASE n # 0
        <5>1. 1 \in 1 .. n
          BY <4>2
        <5> QED BY <1>7, <2>1, <5>1
      <4> QED BY <4>1, <4>2
    <3> QED BY <1>2, <1>4, <3>1 DEF Frames, Gaps
  <2>2. ASSUME NEW k \in 1 .. n, NEW j \in 1 .. l, o[k] + FrameSize(bs[k]) < j, j <= o[k + 1]
        PROVE  t[j] = "!"
    <3>1. j <= off[k + 1]
      BY <1>8, <2>2
    <3>2. off[k] + FrameSize(bs[k]) < j
      BY <1>7, <2>2
    <3> QED BY <1>1, <1>2, <1>4, <3>1, <3>2 DEF Frames, Gaps
  <2> QED BY <1>1, <1>4, <1>12, <2>1, <2>2 DEF Gaps
<1>14. o[1] = IF n = 0 THEN off[1] + 1 ELSE off[1]
  <2>1. CASE n = 0
    BY <1>5, <1>7, <2>1
  <2>2. CASE n # 0
    <3>1. 1 \in 1 .. n
      BY <2>2
    <3> QED BY <1>7, <2>2, <3>1
  <2> QED BY <2>1, <2>2
<1>15. Frames(t, bs, o)
  BY <1>1, <1>4, <1>7, <1>10, <1>11, <1>13 DEF Frames
<1> QED BY <1>1, <1>3, <1>4, <1>7, <1>14, <1>15

LEMMA Truncate ==
    ASSUME NEW str \in Text, NEW bs \in Seq(Nat), NEW off, Frames(str, bs, off),
           NEW m \in 0 .. Len(str)
    PROVE  SubSeq(str, 1, m) \in Text /\ Frames(SubSeq(str, 1, m), bs, off)
<1>1. PICK n \in Nat : n = Len(bs) /\ \A k \in 1 .. n : bs[k] \in Nat
  BY ElementOfSeq
<1>2. PICK l \in Nat : l = Len(str) /\ m <= l /\ m \in Nat
  BY DEF Text
<1>3. PICK t : t = SubSeq(str, 1, m)
  OBVIOUS
<1>4. t \in Text /\ Len(t) = m /\ \A j \in 1 .. m : j \in 1 .. l /\ t[j] = str[j]
  <2>1. SubSeq(str, 1, m) = [j \in 1 .. m |-> str[j]]
    <3>1. SubSeq(str, 1, m) = [j \in 1 .. (1 + m - 1) |-> str[1 + j - 1]]
      BY <1>2
    <3>2. 1 + m - 1 = m /\ \A j \in 1 .. m : 1 + j - 1 = j
      BY <1>2
    <3> QED BY <3>1, <3>2
  <2>2. \A j \in 1 .. m : j \in 1 .. l /\ str[j] \in Characters
    BY <1>2, ElementOfSeq DEF Text
  <2> QED BY <1>2, <1>3, <2>1, <2>2 DEF Text
<1>5. Offsets(bs, off) /\ l <= off[n + 1] /\ Written(str, bs, off) /\ Gaps(str, bs, off)
  BY <1>1, <1>2 DEF Frames
<1>6. m <= off[n + 1]
  <2>1. PICK e \in Int : e = off[n + 1]
    BY <1>1, <1>5 DEF Offsets
  <2> QED BY <1>2, <1>5, <2>1
<1>7. Written(t, bs, off)
  <2>1. ASSUME NEW k \in 1 .. n, NEW i \in 1 .. FrameSize(bs[k]), off[k] + i \in 1 .. m
        PROVE  t[off[k] + i] = encode(bs[k])[i]
    BY <1>1, <1>2, <1>4, <1>5, <2>1 DEF Written
  <2> QED BY <1>1, <1>4, <2>1 DEF Written
<1>8. Gaps(t, bs, off)
  BY <1>2, <1>4, <1>5 DEF Gaps
<1> QED BY <1>1, <1>3, <1>4, <1>5, <1>6, <1>7, <1>8 DEF Frames

(* transmit loses nothing of what it sends piece by piece.                  *)
LEMMA PieceRest ==
    ASSUME NEW s \in Text, NEW str \in Text
    PROVE  /\ Piece(s) \in Text /\ SubSeq(s, Chunk + 1, Len(s)) \in Text
           /\ (str \o Piece(s)) \o SubSeq(s, Chunk + 1, Len(s)) = str \o s
<1>1. PICK l \in Nat, c \in Nat : l = Len(s) /\ c = Chunk /\ c >= 1
  BY FramingSizes DEF Text
<1>2. PICK r : r = SubSeq(s, c + 1, l)
  OBVIOUS
<1>3. \A i \in 1 .. l : s[i] \in Characters
  BY <1>1, ElementOfSeq DEF Text
<1>4. r \in Text
  <2>1. \A i \in c + 1 .. l : s[i] \in Characters
    BY <1>3
  <2>2. c + 1 \in Int /\ l \in Int
    OBVIOUS
  <2> QED BY <1>2, <2>1, <2>2, SubSeqProperties DEF Text
<1>5. PICK p \in Text : p = Piece(s) /\ p \o r = s
  <2>1. CASE l > c
    <3>1. SubSeq(s, 1, c) \in Text
      <4>1. \A i \in 1 .. c : s[i] \in Characters
        BY <1>1, <1>3, <2>1
      <4> QED BY <4>1, SubSeqProperties DEF Text
    <3>2. /\ 1 \in 1 .. Len(s) + 1 /\ c \in 1 - 1 .. Len(s) /\ l \in c .. Len(s)
      BY <1>1, <2>1
    <3>3. SubSeq(s, 1, c) \o SubSeq(s, c + 1, l) = SubSeq(s, 1, l)
      BY <3>2, ConcatAdjacentSubSeq DEF Text
    <3>4. SubSeq(s, 1, l) = s
      BY <1>1, SubSeqFull DEF Text
    <3>5. Piece(s) = SubSeq(s, 1, c)
      BY <1>1, <2>1 DEF Piece
    <3> QED BY <1>2, <3>1, <3>3, <3>4, <3>5
  <2>2. CASE l <= c
    <3>1. Piece(s) = s
      BY <1>1, <2>2 DEF Piece
    <3>2. r = <<>>
      BY <1>2, <2>2, SubSeqEmpty
    <3> QED BY <3>1, <3>2, ConcatEmptySeq DEF Text
  <2> QED BY <1>1, <2>1, <2>2
<1>6. (str \o p) \o r = str \o (p \o r)
  <2>1. str \in Seq(Characters) /\ p \in Seq(Characters) /\ r \in Seq(Characters)
    BY <1>4 DEF Text
  <2> QED BY <2>1, ConcatAssociative
<1> QED BY <1>1, <1>2, <1>4, <1>5, <1>6

(* The way to the board: nothing between the frames; taken characters of    *)
(* the first one are read, and all of the last one is there if the host is. *)
ToBoard(str, bs, off, taken, on) ==
    /\ Frames(str, bs, off) /\ Tight(bs, off) /\ off[1] + taken = 0
    /\ on => off[Len(bs) + 1] = Len(str)
BoardLine(str, bs, taken, on) == \E off : ToBoard(str, bs, off, taken, on)

LEMMA FirstOffsets ==
    ASSUME NEW str \in Text, NEW bs \in Seq(Nat), NEW off, Frames(str, bs, off)
    PROVE  \E n, l \in Nat : \E p, e \in Int :
             /\ n = Len(bs) /\ l = Len(str) /\ p = off[1] /\ e = off[n + 1]
             /\ p <= e /\ l <= e /\ off \in [1 .. n + 1 -> Int]
             /\ n = 0 => p = e
             /\ n # 0 => bs # <<>> /\ bs[1] \in Nat /\ 1 \in 1 .. n /\ off[2] \in Int
<1>1. PICK n \in Nat : n = Len(bs) /\ \A k \in 1 .. n : bs[k] \in Nat
  BY ElementOfSeq
<1>2. PICK l \in Nat : l = Len(str)
  BY DEF Text
<1>3. off \in [1 .. n + 1 -> Int] /\ l <= off[n + 1]
  BY <1>1, <1>2 DEF Frames, Offsets
<1>4. 1 \in 1 .. n + 1 /\ n + 1 \in 1 .. n + 1
  OBVIOUS
<1>5. PICK p, e \in Int : p = off[1] /\ e = off[n + 1]
  BY <1>3, <1>4
<1>6. p <= e
  <2>1. \A k \in 1 .. n + 1 : off[k] <= off[n + 1]
    BY <1>1, OffsetsOrdered DEF Frames
  <2> QED BY <1>4, <1>5, <2>1
<1>7. ASSUME n # 0 PROVE bs # <<>> /\ bs[1] \in Nat /\ 1 \in 1 .. n /\ off[2] \in Int
  <2>1. 1 \in 1 .. n /\ 2 \in 1 .. n + 1
    BY <1>7
  <2>2. bs # <<>>
    BY <1>1, <1>7, EmptySeq
  <2> QED BY <1>1, <1>3, <2>1, <2>2
<1>8. n = 0 => p = e
  BY <1>5
<1> QED BY <1>1, <1>2, <1>3, <1>5, <1>6, <1>7, <1>8

LEMMA BoardTakes ==
    ASSUME NEW str \in Text, NEW bs \in Seq(Nat), NEW taken \in Nat, NEW on,
           BoardLine(str, bs, taken, on), str # <<>>
    PROVE  /\ bs # <<>> /\ bs[1] \in Nat
           /\ BoardLine(Tail(str), bs, taken + 1, on)
           /\ taken < FrameSize(bs[1]) => Head(str) = encode(bs[1])[taken + 1]
<1>1. PICK off : ToBoard(str, bs, off, taken, on)
  BY DEF BoardLine
<1>2. PICK n, l \in Nat, p, e \in Int :
             /\ n = Len(bs) /\ l = Len(str) /\ p = off[1] /\ e = off[n + 1]
             /\ p <= e /\ l <= e /\ off \in [1 .. n + 1 -> Int]
             /\ n = 0 => p = e
             /\ n # 0 => bs # <<>> /\ bs[1] \in Nat /\ 1 \in 1 .. n /\ off[2] \in Int
  BY <1>1, FirstOffsets DEF ToBoard
<1>3. l >= 1 /\ p + taken = 0
  <2>1. l # 0
    BY <1>2, EmptySeq DEF Text
  <2> QED BY <1>1, <1>2, <2>1 DEF ToBoard
<1>4. n # 0
  BY <1>2, <1>3
<1>5. PICK o : o = Earlier(bs, off)
  OBVIOUS
<1>6. o[1] + (taken + 1) = 0 /\ o[n + 1] = e - 1
  <2>1. 1 \in 1 .. n + 1 /\ n + 1 \in 1 .. n + 1
    OBVIOUS
  <2>2. o[1] = p - 1 /\ o[n + 1] = e - 1
    BY <1>2, <1>5, <2>1 DEF Earlier
  <2> QED BY <1>3, <2>2
<1>7. Frames(Tail(str), bs, o) /\ Tight(bs, o)
  BY <1>1, <1>5, TakeChar DEF ToBoard
<1>8. Len(Tail(str)) = l - 1
  BY <1>2, HeadTailProperties DEF Text
<1>9. on => o[n + 1] = Len(Tail(str))
  BY <1>1, <1>2, <1>6, <1>8 DEF ToBoard
<1>10. ToBoard(Tail(str), bs, o, taken + 1, on)
  BY <1>2, <1>6, <1>7, <1>9 DEF ToBoard
<1>11. ASSUME taken < FrameSize(bs[1]) PROVE Head(str) = encode(bs[1])[taken + 1]
  <2>1. PICK s \in Nat : s = FrameSize(bs[1])
    BY <1>2, <1>4, SizeIs
  <2>2. taken + 1 \in 1 .. s /\ p + (taken + 1) = 1 /\ 1 \in 1 .. l
    BY <1>3, <1>11, <2>1
  <2>3. str[1] = encode(bs[1])[taken + 1]
    BY <1>1, <1>2, <1>4, <2>1, <2>2 DEF ToBoard, Frames, Written
  <2>4. Head(str) = str[1]
    OBVIOUS
  <2> QED BY <2>3, <2>4
<1> QED BY <1>2, <1>4, <1>10, <1>11 DEF BoardLine

LEMMA BoardDrops ==
    ASSUME NEW str \in Text, NEW bs \in Seq(Nat), NEW on,
           bs # <<>>, BoardLine(str, bs, FrameSize(bs[1]), on)
    PROVE  BoardLine(str, Rest(bs), 0, on)
<1>1. PICK off : ToBoard(str, bs, off, FrameSize(bs[1]), on)
  BY DEF BoardLine
<1>2. PICK n, l \in Nat, p, e \in Int :
             /\ n = Len(bs) /\ l = Len(str) /\ p = off[1] /\ e = off[n + 1]
             /\ p <= e /\ l <= e /\ off \in [1 .. n + 1 -> Int]
             /\ n = 0 => p = e
             /\ n # 0 => bs # <<>> /\ bs[1] \in Nat /\ 1 \in 1 .. n /\ off[2] \in Int
  BY <1>1, FirstOffsets DEF ToBoard
<1>3. n # 0
  BY <1>2, EmptySeq
<1>4. PICK s \in Nat : s = FrameSize(bs[1]) /\ p + s = 0
  BY <1>1, <1>2, <1>3, SizeIs DEF ToBoard
<1>5. p + s = 0 /\ off[1 + 1] = p + s
  BY <1>1, <1>2, <1>3, <1>4 DEF ToBoard, Tight
<1>6. PICK o : o = Later(bs, off)
  OBVIOUS
<1>7. Frames(str, bs, off) /\ Tight(bs, off) /\ off[1] + FrameSize(bs[1]) <= 0
  BY <1>1, <1>2, <1>4, <1>5 DEF ToBoard
<1>8. Frames(str, Rest(bs), o) /\ Tight(Rest(bs), o)
  BY <1>6, <1>7, DropFrame
<1>9. o[1] = 0
  BY <1>2, <1>3, <1>5, <1>6 DEF Later
<1>10. Len(Rest(bs)) + 1 = n /\ n \in 1 .. n
  <2>1. Len(Rest(bs)) = n - 1
    BY <1>2, RestIs
  <2> QED BY <1>3, <2>1
<1>11. o[Len(Rest(bs)) + 1] = e
  BY <1>2, <1>6, <1>10 DEF Later
<1>12. ToBoard(str, Rest(bs), o, 0, on)
  <2>1. on => e = l
    BY <1>1, <1>2 DEF ToBoard
  <2>2. o[1] + 0 = 0
    BY <1>9
  <2> QED BY <1>2, <1>8, <1>11, <2>1, <2>2 DEF ToBoard
<1> QED BY <1>12 DEF BoardLine

LEMMA BoardGets ==
    ASSUME NEW str \in Text, NEW bs \in Seq(Nat), NEW taken \in Nat,
           NEW b \in Nat, b < Power(HeadLen), BoardLine(str, bs, taken, TRUE)
    PROVE  BoardLine(str \o encode(b), Append(bs, b), taken, TRUE)
<1>1. PICK off : ToBoard(str, bs, off, taken, TRUE)
  BY DEF BoardLine
<1>2. PICK o : o = And(bs, off, Len(str) + FrameSize(b))
  OBVIOUS
<1>3. /\ Frames(str \o encode(b), Append(bs, b), o) /\ o[1] = off[1]
      /\ o[Len(Append(bs, b)) + 1] = Len(str \o encode(b))
      /\ Tight(Append(bs, b), o)
  BY <1>1, <1>2, AppendFrame DEF ToBoard
<1>4. ToBoard(str \o encode(b), Append(bs, b), o, taken, TRUE)
  BY <1>1, <1>3 DEF ToBoard
<1> QED BY <1>4 DEF BoardLine

LEMMA BoardLoses ==
    ASSUME NEW str \in Text, NEW bs \in Seq(Nat), NEW taken \in Nat, NEW on,
           NEW m \in 0 .. Len(str), BoardLine(str, bs, taken, on)
    PROVE  SubSeq(str, 1, m) \in Text /\ BoardLine(SubSeq(str, 1, m), bs, taken, FALSE)
<1>1. PICK off : ToBoard(str, bs, off, taken, on)
  BY DEF BoardLine
<1>2. SubSeq(str, 1, m) \in Text /\ Frames(SubSeq(str, 1, m), bs, off)
  BY <1>1, Truncate DEF ToBoard
<1>3. ToBoard(SubSeq(str, 1, m), bs, off, taken, FALSE)
  BY <1>1, <1>2 DEF ToBoard
<1> QED BY <1>2, <1>3 DEF BoardLine

(* The way to the host: pings lie between the frames, heard is the part of  *)
(* the first one that the host has.                                         *)
Hears(bs, had) ==
    /\ bs # <<>> /\ Len(had) < FrameSize(bs[1])
    /\ \A i \in 1 .. Len(had) : had[i] = encode(bs[1])[i]
ToHost(str, bs, off, had) ==
    /\ Frames(str, bs, off) /\ off[Len(bs) + 1] = Len(str)
    /\ IF had = <<>> THEN off[1] >= 0 ELSE off[1] + Len(had) = 0 /\ Hears(bs, had)
HostLine(str, bs, had) == \E off : ToHost(str, bs, off, had)

LEMMA HostPinged ==
    ASSUME NEW str \in Text, NEW bs \in Seq(Nat), NEW had \in Text, HostLine(str, bs, had)
    PROVE  HostLine(Append(str, "!"), bs, had)
<1>1. PICK off : ToHost(str, bs, off, had)
  BY DEF HostLine
<1>2. PICK n, l \in Nat, p, e \in Int :
             /\ n = Len(bs) /\ l = Len(str) /\ p = off[1] /\ e = off[n + 1]
             /\ p <= e /\ l <= e /\ off \in [1 .. n + 1 -> Int]
             /\ n = 0 => p = e
             /\ n # 0 => bs # <<>> /\ bs[1] \in Nat /\ 1 \in 1 .. n /\ off[2] \in Int
  BY <1>1, FirstOffsets DEF ToHost
<1>3. PICK o : o = PingIn(bs, off, Len(str) + 1)
  OBVIOUS
<1>4. /\ Frames(Append(str, "!"), bs, o)
      /\ o[Len(bs) + 1] = Len(Append(str, "!"))
      /\ o[1] = IF Len(bs) = 0 THEN off[1] + 1 ELSE off[1]
  BY <1>1, <1>3, AppendPing DEF ToHost
<1>5. IF had = <<>> THEN o[1] >= 0 ELSE o[1] + Len(had) = 0 /\ Hears(bs, had)
  <2>1. CASE had = <<>>
    <3>1. p >= 0
      BY <1>1, <1>2, <2>1 DEF ToHost
    <3> QED BY <1>2, <1>4, <2>1, <3>1
  <2>2. CASE had # <<>>
    <3>1. off[1] + Len(had) = 0 /\ Hears(bs, had)
      BY <1>1, <2>2 DEF ToHost
    <3>2. n # 0
      BY <1>2, <3>1, EmptySeq DEF Hears
    <3> QED BY <1>2, <1>4, <2>2, <3>1, <3>2
  <2> QED BY <2>1, <2>2
<1>6. ToHost(Append(str, "!"), bs, o, had)
  BY <1>4, <1>5 DEF ToHost
<1> QED BY <1>6 DEF HostLine

LEMMA HostGets ==
    ASSUME NEW str \in Text, NEW bs \in Seq(Nat), NEW had \in Text, HostLine(str, bs, had),
           NEW b \in Nat, b < Power(HeadLen)
    PROVE  HostLine(str \o encode(b), Append(bs, b), had)
<1>1. PICK off : ToHost(str, bs, off, had)
  BY DEF HostLine
<1>2. PICK o : o = And(bs, off, Len(str) + FrameSize(b))
  OBVIOUS
<1>3. /\ Frames(str \o encode(b), Append(bs, b), o) /\ o[1] = off[1]
      /\ o[Len(Append(bs, b)) + 1] = Len(str \o encode(b))
  BY <1>1, <1>2, AppendFrame DEF ToHost
<1>4. Hears(bs, had) => Hears(Append(bs, b), had)
  <2> SUFFICES ASSUME Hears(bs, had) PROVE Hears(Append(bs, b), had)
    OBVIOUS
  <2>1. bs # <<>> /\ Len(bs) \in Nat /\ Len(bs) # 0
    BY EmptySeq DEF Hears
  <2>2. 1 \in 1 .. Len(bs)
    BY <2>1
  <2>3. Append(bs, b)[1] = bs[1] /\ Append(bs, b) # <<>>
    BY <2>2, AppendProperties
  <2> QED BY <2>3 DEF Hears
<1>5. ToHost(str \o encode(b), Append(bs, b), o, had)
  BY <1>1, <1>3, <1>4 DEF ToHost
<1> QED BY <1>5 DEF HostLine

(* No character of a frame is a ping.                                       *)
LEMMA NoPingInside ==
    ASSUME NEW b \in Nat, b < Power(HeadLen), NEW i \in 1 .. FrameSize(b)
    PROVE  encode(b)[i] # "!"
<1>1. PICK h, w, o \in Nat :
        h = HeadLen /\ w = Shown(b) /\ w <= h /\ h >= 1 /\ o = Zeros(b) /\ o = h - w
  BY ZerosAre
<1>2. i \in 1 .. h + b
  BY <1>1 DEF FrameSize
<1>3. CASE i <= h
  <2>1. i \in 1 .. HeadLen
    BY <1>1, <1>2, <1>3
  <2> QED BY <1>1, <2>1, CodeIs
<1>4. CASE i > h
  <2>1. i - h \in 1 .. b /\ h + (i - h) = i
    BY <1>2, <1>4
  <2>2. encode(b)[h + (i - h)] = "d"
    BY <1>1, <2>1, CodeIs
  <2> QED BY <2>1, <2>2
<1> QED BY <1>2, <1>3, <1>4

LEMMA HostSkips ==
    ASSUME NEW str \in Text, NEW bs \in Seq(Nat), NEW had \in Text, HostLine(str, bs, had),
           \A k \in 1 .. Len(bs) : bs[k] < Power(HeadLen),
           str # <<>>, had = <<>>, Head(str) = "!"
    PROVE  HostLine(Tail(str), bs, had)
<1>1. PICK off : ToHost(str, bs, off, had)
  BY DEF HostLine
<1>2. PICK n, l \in Nat, p, e \in Int :
             /\ n = Len(bs) /\ l = Len(str) /\ p = off[1] /\ e = off[n + 1]
             /\ p <= e /\ l <= e /\ off \in [1 .. n + 1 -> Int]
             /\ n = 0 => p = e
             /\ n # 0 => bs # <<>> /\ bs[1] \in Nat /\ 1 \in 1 .. n /\ off[2] \in Int
  BY <1>1, FirstOffsets DEF ToHost
<1>3. l >= 1 /\ p >= 0 /\ e = l /\ str[1] = "!"
  <2>1. l # 0
    BY <1>2, EmptySeq DEF Text
  <2> QED BY <1>1, <1>2, <2>1 DEF ToHost
<1>4. p >= 1
  <2> SUFFICES ASSUME p = 0 PROVE FALSE
    BY <1>3
  <2>1. n # 0
    BY <1>2, <1>3
  <2>2. 1 \in 1 .. FrameSize(bs[1]) /\ p + 1 = 1 /\ 1 \in 1 .. l
    BY <1>2, <1>3, <2>1, SizeIs
  <2>3. str[1] = encode(bs[1])[1]
    BY <1>1, <1>2, <2>1, <2>2 DEF ToHost, Frames, Written
  <2>4. encode(bs[1])[1] # "!"
    <3>1. bs[1] < Power(HeadLen) /\ 1 \in 1 .. FrameSize(bs[1])
      BY <1>2, <2>1, <2>2
    <3> QED BY <1>2, <2>1, <3>1, NoPingInside
  <2> QED BY <1>3, <2>3, <2>4
<1>5. PICK o : o = Earlier(bs, off)
  OBVIOUS
<1>6. Frames(Tail(str), bs, o)
  BY <1>1, <1>5, TakeChar DEF ToHost
<1>7. o[1] = p - 1 /\ o[n + 1] = e - 1
  <2>1. 1 \in 1 .. n + 1 /\ n + 1 \in 1 .. n + 1
    OBVIOUS
  <2> QED BY <1>2, <1>5, <2>1 DEF Earlier
<1>8. Len(Tail(str)) = l - 1
  BY <1>2, HeadTailProperties DEF Text
<1>9. ToHost(Tail(str), bs, o, had)
  BY <1>2, <1>3, <1>4, <1>6, <1>7, <1>8 DEF ToHost
<1> QED BY <1>9 DEF HostLine

(* The host with one more character of a frame, maybe its last.             *)
HostHas(rest, bs, now) ==
    /\ now \in Text /\ bs # <<>> /\ bs[1] \in Nat /\ Len(now) <= FrameSize(bs[1])
    /\ \A i \in 1 .. Len(now) : now[i] = encode(bs[1])[i]
    /\ Len(now) < FrameSize(bs[1]) => HostLine(rest, bs, now)
    /\ Len(now) = FrameSize(bs[1]) => HostLine(rest, Rest(bs), <<>>)

LEMMA HostTakes ==
    ASSUME NEW str \in Text, NEW bs \in Seq(Nat), NEW had \in Text, HostLine(str, bs, had),
           str # <<>>, ~(had = <<>> /\ Head(str) = "!")
    PROVE  HostHas(Tail(str), bs, Append(had, Head(str)))
<1> DEFINE now == Append(had, Head(str))
<1> HIDE DEF now
<1>1. PICK off : ToHost(str, bs, off, had)
  BY DEF HostLine
<1>2. PICK n, l \in Nat, p, e \in Int :
             /\ n = Len(bs) /\ l = Len(str) /\ p = off[1] /\ e = off[n + 1]
             /\ p <= e /\ l <= e /\ off \in [1 .. n + 1 -> Int]
             /\ n = 0 => p = e
             /\ n # 0 => bs # <<>> /\ bs[1] \in Nat /\ 1 \in 1 .. n /\ off[2] \in Int
  BY <1>1, FirstOffsets DEF ToHost
<1>3. l >= 1 /\ e = l /\ Head(str) = str[1] /\ Head(str) \in Characters
  <2>1. l # 0
    BY <1>2, EmptySeq DEF Text
  <2>2. Head(str) \in Characters
    BY HeadTailProperties DEF Text
  <2> QED BY <1>1, <1>2, <2>1, <2>2 DEF ToHost
<1>4. PICK x \in Nat : x = Len(had)
  BY DEF Text
<1>5. p + x = 0 /\ \A i \in 1 .. x : had[i] = encode(bs[1])[i]
  <2>1. CASE had = <<>>
    <3>1. x = 0 /\ p >= 0
      BY <1>1, <1>2, <1>4, <2>1 DEF ToHost
    <3>2. p = 0
      <4> SUFFICES ASSUME 1 <= p PROVE FALSE
        BY <3>1
      <4>1. str[1] = "!"
        BY <1>1, <1>2, <1>3 DEF ToHost, Frames, Gaps
      <4> QED BY <1>3, <2>1, <4>1
    <3> QED BY <3>1, <3>2
  <2>2. CASE had # <<>>
    <3>1. off[1] + Len(had) = 0 /\ Hears(bs, had)
      BY <1>1, <2>2 DEF ToHost
    <3>2. \A i \in 1 .. Len(had) : had[i] = encode(bs[1])[i]
      BY <3>1 DEF Hears
    <3> QED BY <1>2, <1>4, <3>1, <3>2
  <2> QED BY <2>1, <2>2
<1>6. n # 0
  BY <1>2, <1>3, <1>5
<1>7. PICK s \in Nat : s = FrameSize(bs[1]) /\ x < s
  <2>1. FrameSize(bs[1]) \in Nat /\ FrameSize(bs[1]) >= 1
    BY <1>2, <1>6, SizeIs
  <2>2. CASE had = <<>>
    BY <1>4, <2>1, <2>2
  <2>3. CASE had # <<>>
    BY <1>1, <1>4, <2>1, <2>3 DEF ToHost, Hears
  <2> QED BY <2>1, <2>2, <2>3
<1>8. str[1] = encode(bs[1])[x + 1]
  <2>1. x + 1 \in 1 .. s /\ p + (x + 1) = 1 /\ 1 \in 1 .. l
    BY <1>3, <1>5, <1>7
  <2> QED BY <1>1, <1>2, <1>6, <1>7, <2>1 DEF ToHost, Frames, Written
<1>9. /\ now \in Text /\ Len(now) = x + 1 /\ now[x + 1] = str[1]
      /\ \A i \in 1 .. x : now[i] = had[i]
  BY <1>3, <1>4, AppendProperties DEF Text, now
<1>10. ASSUME NEW i \in 1 .. x + 1 PROVE now[i] = encode(bs[1])[i]
  <2>1. i \in 1 .. x \/ i = x + 1
    OBVIOUS
  <2> QED BY <1>5, <1>8, <1>9, <2>1
<1>11. PICK o : o = Earlier(bs, off)
  OBVIOUS
<1>12. Frames(Tail(str), bs, o) /\ Tail(str) \in Text
  <2>1. Tail(str) \in Text
    BY HeadTailProperties DEF Text
  <2> QED BY <1>1, <1>11, <2>1, TakeChar DEF ToHost
<1>13. o[1] = p - 1 /\ o[n + 1] = e - 1 /\ o[2] = off[2] - 1
  <2>1. 1 \in 1 .. n + 1 /\ n + 1 \in 1 .. n + 1 /\ 2 \in 1 .. n + 1
    BY <1>6
  <2> QED BY <1>2, <1>11, <2>1 DEF Earlier
<1>14. Len(Tail(str)) = l - 1
  BY <1>2, HeadTailProperties DEF Text
<1>15. ASSUME x + 1 < s PROVE HostLine(Tail(str), bs, now)
  <2>1. now # <<>>
    BY <1>9
  <2>2. o[1] + Len(now) = 0
    BY <1>5, <1>9, <1>13
  <2>3. Hears(bs, now)
    BY <1>2, <1>6, <1>7, <1>9, <1>10, <1>15 DEF Hears
  <2>4. o[Len(bs) + 1] = Len(Tail(str))
    BY <1>2, <1>3, <1>13, <1>14
  <2>5. ToHost(Tail(str), bs, o, now)
    BY <1>12, <2>1, <2>2, <2>3, <2>4 DEF ToHost
  <2> QED BY <2>5 DEF HostLine
<1>16. ASSUME x + 1 = s PROVE HostLine(Tail(str), Rest(bs), <<>>)
  <2>1. o[1] + FrameSize(bs[1]) <= 0
    BY <1>5, <1>7, <1>13, <1>16
  <2>2. PICK q : q = Later(bs, o)
    OBVIOUS
  <2>3. Frames(Tail(str), Rest(bs), q)
    BY <1>2, <1>6, <1>12, <2>1, <2>2, DropFrame
  <2>4. Len(Rest(bs)) = n - 1
    BY <1>2, <1>6, RestIs
  <2>5. q[1] = o[2] /\ q[n] = o[n + 1]
    <3>1. n \in 1 .. n
      BY <1>6
    <3> QED BY <1>2, <1>6, <2>2, <3>1 DEF Later
  <2>6. q[1] >= 0
    <3>1. off[1] + FrameSize(bs[1]) <= off[1 + 1]
      BY <1>1, <1>2, <1>6 DEF ToHost, Frames, Offsets
    <3>2. PICK a \in Int : a = off[2]
      BY <1>2, <1>6
    <3>3. p + s <= a
      BY <1>2, <1>7, <3>1, <3>2
    <3> QED BY <1>5, <1>13, <1>16, <2>5, <3>2, <3>3
  <2>7. q[Len(Rest(bs)) + 1] = Len(Tail(str))
    <3>1. Len(Rest(bs)) + 1 = n
      BY <2>4
    <3> QED BY <1>3, <1>13, <1>14, <2>5, <3>1
  <2>8. ToHost(Tail(str), Rest(bs), q, <<>>)
    BY <2>3, <2>6, <2>7 DEF ToHost
  <2> QED BY <2>8 DEF HostLine
<1>17. HostHas(Tail(str), bs, now)
  BY <1>2, <1>6, <1>7, <1>9, <1>10, <1>15, <1>16 DEF HostHas
<1> QED BY <1>17 DEF now

FramingTypes ==
    /\ commInterface \in {"PROXY", "WIFI"}
    /\ place \in {"head", "body", "work", "send", "blink", "hung"}
    /\ toBoard \in Text /\ toHost \in Text /\ out \in Text /\ heard \in Text /\ len \in Text
    /\ blocks \in Seq(Nat) /\ replies \in Seq(Nat) /\ longest \in Nat /\ got \in Nat
    /\ z \in 0 .. Patience /\ frames \in 0 .. MaxFrames
    /\ online \in BOOLEAN /\ open \in BOOLEAN /\ wrong \in BOOLEAN /\ smashed \in BOOLEAN
    /\ nuls \in Nat /\ tornBlock \in {"no", "last", "empty", "other"}
    /\ place = "head" => got < HeadLen /\ Len(len) <= got
    /\ place = "body" => got < atoi(len) /\ Len(len) <= HeadLen
    /\ place \in {"work", "send", "blink", "hung"} => got = 0 /\ len = <<>>
    /\ place # "send" => out = <<>>
    /\ place = "hung" => ~online
    /\ ~open => ~online /\ toBoard = <<>>
    /\ open => nuls = 0 /\ place # "blink"

LEMMA RestOfAny == ASSUME NEW s \in Seq(Nat) PROVE Rest(s) \in Seq(Nat)
<1>1. CASE s = <<>>
  <2>1. SubSeq(s, 2, 0) = <<>>
    BY SubSeqEmpty
  <2> QED BY <1>1, <2>1 DEF Rest
<1>2. CASE s # <<>>
  BY <1>2, RestIs
<1> QED BY <1>1, <1>2

LEMMA EmptyText == <<>> \in Text /\ Len(<<>>) = 0
  BY DEF Text

(* What the two loops of readBlock leave alone, and what read() may do.     *)
ReadsOnly ==
    /\ toBoard' \in Text /\ open' \in BOOLEAN /\ nuls' \in Nat
    /\ ~open' => ~online /\ toBoard' = <<>>
    /\ open' => nuls' = 0
    /\ UNCHANGED <<commInterface, out, toHost, online, heard, frames, replies, longest>>

LEMMA ReadEndsTypes ==
    ASSUME FramingTypes, NEW n \in Nat, ReadEnds(n)
    PROVE  blocks' \in Seq(Nat) /\ wrong' \in BOOLEAN /\ tornBlock' \in {"no", "last", "empty", "other"}
<1>1. blocks' \in Seq(Nat)
  BY RestOfAny DEF ReadEnds, FramingTypes
<1>2. CASE nuls' = 0
  BY <1>1, <1>2 DEF ReadEnds, FramingTypes
<1>3. CASE nuls' # 0
  <2>1. tornBlock' = Tear(n) /\ wrong' = wrong
    BY <1>3 DEF ReadEnds
  <2>2. Tear(n) \in {"no", "last", "empty", "other"}
    BY DEF Tear
  <2> QED BY <1>1, <2>1, <2>2 DEF FramingTypes
<1> QED BY <1>2, <1>3

LEMMA TakeHeadTypes ==
    ASSUME FramingTypes, place = "head", NEW c \in Characters, TakeHead(c), ReadsOnly
    PROVE  FramingTypes'
<1> DEFINE more == IF c = "X" THEN len ELSE Append(len, c)
<1>1. /\ got < HeadLen /\ Len(len) <= got
      /\ IF got + 1 < HeadLen
           THEN /\ got' = got + 1 /\ len' = more /\ z' = 0
                /\ UNCHANGED <<place, smashed, blocks, wrong, tornBlock>>
           ELSE /\ smashed' = (smashed \/ Len(more) >= HeadLen)
                /\ IF atoi(more) = 0
                   THEN Quit("work") /\ ReadEnds(0)
                   ELSE /\ place' = "body" /\ got' = 0 /\ len' = more /\ z' = 0
                        /\ UNCHANGED <<blocks, wrong, tornBlock>>
  BY DEF TakeHead, FramingTypes
<1>2. toBoard' \in Text /\ open' \in BOOLEAN /\ nuls' \in Nat
      /\ (~open' => ~online' /\ toBoard' = <<>>) /\ (open' => nuls' = 0)
      /\ UNCHANGED <<commInterface, out, toHost, online, heard, frames, replies, longest>>
  BY DEF ReadsOnly
<1>3. PICK m : m = more
  OBVIOUS
<1>4. m \in Text /\ Len(m) \in Nat /\ Len(m) <= got + 1
  <2>1. PICK l \in Text : l = len
    BY DEF FramingTypes
  <2>2. Append(l, c) \in Text /\ Len(Append(l, c)) = Len(l) + 1 /\ Len(l) \in Nat
    BY AppendProperties DEF Text
  <2>3. m = l \/ m = Append(l, c)
    BY <1>3, <2>1
  <2>4. PICK k \in Nat : k = Len(l) /\ k <= got /\ got \in Nat
    BY <1>1, <2>1, <2>2 DEF FramingTypes
  <2>5. CASE m = l
    BY <2>4, <2>5
  <2>6. CASE m = Append(l, c)
    <3>1. Len(m) = k + 1
      BY <2>2, <2>4, <2>6
    <3> QED BY <2>2, <2>4, <2>6, <3>1
  <2> QED BY <2>3, <2>5, <2>6
<1> HIDE DEF more
<1>5. 0 \in 0 .. Patience
  BY FramingSizes
<1>6. CASE got + 1 < HeadLen
  <2>1. got' = got + 1 /\ len' = m /\ z' = 0 /\ UNCHANGED <<place, smashed, blocks, wrong, tornBlock>>
    BY <1>1, <1>3, <1>6
  <2> QED BY <1>2, <1>4, <1>5, <1>6, <2>1 DEF FramingTypes
<1>7. CASE ~(got + 1 < HeadLen)
  <2>1. smashed' \in BOOLEAN /\ Len(m) <= HeadLen
    BY <1>1, <1>3, <1>4, <1>7, FramingSizes DEF FramingTypes
  <2>2. CASE atoi(m) = 0
    <3>1. place' = "work" /\ got' = 0 /\ len' = <<>> /\ z' = 0 /\ ReadEnds(0)
      BY <1>1, <1>3, <1>7, <2>2 DEF Quit
    <3>2. blocks' \in Seq(Nat) /\ wrong' \in BOOLEAN /\ tornBlock' \in {"no", "last", "empty", "other"}
      BY <3>1, ReadEndsTypes
    <3> QED BY <1>2, <1>5, <2>1, <3>1, <3>2, EmptyText DEF FramingTypes
  <2>3. CASE atoi(m) # 0
    <3>1. place' = "body" /\ got' = 0 /\ len' = m /\ z' = 0 /\ UNCHANGED <<blocks, wrong, tornBlock>>
      BY <1>1, <1>3, <1>7, <2>3
    <3>2. atoi(m) \in Nat /\ 0 < atoi(m)
      BY <1>4, <2>3, AtoiBound
    <3>3. got' < atoi(len')
      BY <3>1, <3>2
    <3> QED BY <1>2, <1>4, <1>5, <2>1, <3>1, <3>3 DEF FramingTypes
  <2> QED BY <2>2, <2>3
<1> QED BY <1>6, <1>7

LEMMA TakeBodyTypes ==
    ASSUME FramingTypes, place = "body", TakeBody, ReadsOnly
    PROVE  FramingTypes'
<1>1. /\ got < atoi(len) /\ Len(len) <= HeadLen /\ smashed' = smashed
      /\ IF got + 1 < atoi(len)
         THEN got' = got + 1 /\ UNCHANGED <<place, len, z, blocks, wrong, tornBlock>>
         ELSE Quit("work") /\ ReadEnds(got + 1)
  BY DEF TakeBody, FramingTypes
<1>2. toBoard' \in Text /\ open' \in BOOLEAN /\ nuls' \in Nat
      /\ (~open' => ~online' /\ toBoard' = <<>>) /\ (open' => nuls' = 0)
      /\ UNCHANGED <<commInterface, out, toHost, online, heard, frames, replies, longest>>
  BY DEF ReadsOnly
<1>3. CASE got + 1 < atoi(len)
  <2>1. got' = got + 1 /\ UNCHANGED <<place, len, z, blocks, wrong, tornBlock>>
    BY <1>1, <1>3
  <2>2. got' < atoi(len')
    BY <1>3, <2>1
  <2> QED BY <1>1, <1>2, <2>1, <2>2 DEF FramingTypes
<1>4. CASE ~(got + 1 < atoi(len))
  <2>1. place' = "work" /\ got' = 0 /\ len' = <<>> /\ z' = 0
    BY <1>1, <1>4 DEF Quit
  <2>2. got + 1 \in Nat
    BY DEF FramingTypes
  <2>3. blocks' \in Seq(Nat) /\ wrong' \in BOOLEAN /\ tornBlock' \in {"no", "last", "empty", "other"}
    BY <1>1, <1>4, <2>2, ReadEndsTypes
  <2>4. z' \in 0 .. Patience
    BY <2>1, FramingSizes
  <2> QED BY <1>1, <1>2, <2>1, <2>3, <2>4, EmptyText DEF FramingTypes
<1> QED BY <1>3, <1>4

LEMMA TakesOnly ==
    ASSUME FramingTypes, Takes,
           UNCHANGED <<commInterface, out, toHost, online, hostVars, replies, longest>>
    PROVE  /\ ReadsOnly /\ open /\ nuls' = 0 /\ Head(toBoard) \in Characters
           /\ toBoard # <<>> /\ toBoard' = Tail(toBoard)
<1>1. toBoard # <<>> /\ toBoard' = Tail(toBoard) /\ open' = open /\ nuls' = nuls
  BY DEF Takes
<1>2. toBoard' \in Text /\ Head(toBoard) \in Characters
  BY <1>1, HeadTailProperties DEF FramingTypes, Text
<1>3. open /\ nuls = 0
  BY <1>1 DEF FramingTypes
<1> QED BY <1>1, <1>2, <1>3 DEF ReadsOnly, hostVars

LEMMA ReadEndedOnly ==
    ASSUME FramingTypes, ReadEnded
    PROVE  ReadsOnly /\ nuls' = 1 /\ open /\ ~open' /\ toBoard' = toBoard /\ ~online
<1>1. open /\ ~online /\ toBoard = <<>> /\ ~open' /\ open' = FALSE /\ nuls' = nuls + 1
      /\ UNCHANGED <<commInterface, out, toBoard, toHost, online, heard, frames, replies, longest>>
  BY DEF ReadEnded, lineVars, hostVars
<1>2. nuls = 0 /\ toBoard' \in Text /\ toBoard' = <<>>
  BY <1>1 DEF FramingTypes
<1>3. nuls' = 1
  BY <1>1, <1>2
<1>4. open' \in BOOLEAN /\ (open' => nuls' = 0)
  BY <1>1
<1>5. ReadsOnly
  BY <1>1, <1>2, <1>3, <1>4 DEF ReadsOnly
<1> QED BY <1>1, <1>2, <1>3, <1>5

LEMMA ReadTypes ==
    ASSUME FramingTypes, ReadHead \/ ReadBody \/ ReadEnded
    PROVE  FramingTypes'
<1>1. CASE ReadHead
  <2>1. place = "head" /\ ReadsOnly /\ Head(toBoard) \in Characters /\ TakeHead(Head(toBoard))
    BY <1>1, TakesOnly DEF ReadHead
  <2> QED BY <2>1, TakeHeadTypes
<1>2. CASE ReadBody
  <2>1. place = "body" /\ ReadsOnly /\ TakeBody
    BY <1>2, TakesOnly DEF ReadBody
  <2> QED BY <2>1, TakeBodyTypes
<1>3. CASE ReadEnded
  <2>1. ReadsOnly
    BY <1>3, ReadEndedOnly
  <2>2. "NUL" \in Characters
    BY DEF Characters
  <2>3. (place = "head" /\ TakeHead("NUL")) \/ (place = "body" /\ TakeBody)
    BY <1>3 DEF ReadEnded
  <2> QED BY <2>1, <2>2, <2>3, TakeHeadTypes, TakeBodyTypes
<1> QED BY <1>1, <1>2, <1>3

LEMMA LargerIs ==
    ASSUME longest \in Nat, NEW n \in Nat
    PROVE  Larger(n) \in Nat /\ longest <= Larger(n) /\ n <= Larger(n)
  BY DEF Larger

LEMMA BoardTypes ==
    ASSUME FramingTypes, Poll \/ Disconnected \/ Hangs \/ Reply \/ transmit
    PROVE  FramingTypes'
<1>1. CASE Poll
  <2>1. /\ place = "head"
        /\ UNCHANGED <<commInterface, open, place, got, len, out, smashed, toBoard, online, heard, frames,
                        blocks, replies, longest, wrong, nuls, tornBlock>>
        /\ z' \in 0 .. Patience /\ (toHost' = toHost \/ toHost' = Append(toHost, "!"))
    BY <1>1, FramingSizes DEF Poll, Waiting, hostVars, history, FramingTypes
  <2>2. PICK h \in Text : h = toHost
    BY DEF FramingTypes
  <2>3. Append(h, "!") \in Text
    <3>1. "!" \in Characters
      BY DEF Characters
    <3> QED BY <3>1, AppendProperties DEF Text
  <2>4. toHost' \in Text
    BY <2>1, <2>2, <2>3
  <2>5. atoi(len') = atoi(len)
    BY <2>1
  <2> QED BY <2>1, <2>4, <2>5 DEF FramingTypes
<1>2. CASE Disconnected
  <2>1. /\ place = "head" /\ toBoard = <<>> /\ (~open \/ ~online) /\ open' = FALSE
        /\ place' = "blink" /\ got' = 0 /\ len' = <<>> /\ z' = 0
        /\ UNCHANGED <<commInterface, out, smashed, toBoard, toHost, online, heard, frames,
                       blocks, replies, longest, wrong, nuls, tornBlock>>
    BY <1>2 DEF Disconnected, Waiting, Quit, lineVars, hostVars, history
  <2>2. ~online
    BY <2>1 DEF FramingTypes
  <2>3. z' \in 0 .. Patience /\ len' \in Text /\ got' \in Nat
    BY <2>1, EmptyText, FramingSizes
  <2>5. ~open' /\ open' \in BOOLEAN /\ ~online'
    BY <2>1, <2>2
  <2>4. out' = <<>> /\ toBoard' = <<>> /\ place' # "send" /\ online' \in BOOLEAN
    BY <2>1 DEF FramingTypes
  <2> QED BY <2>1, <2>2, <2>3, <2>4, <2>5 DEF FramingTypes
<1>5. CASE Hangs
  <2>1. /\ open /\ ~online /\ place' = "hung" /\ got' = 0 /\ len' = <<>> /\ z' = 0 /\ out' = <<>>
        /\ UNCHANGED <<commInterface, open, smashed, toBoard, toHost, online, heard, frames,
                       blocks, replies, longest, wrong, nuls, tornBlock>>
    BY <1>5 DEF Hangs, Quit, lineVars, hostVars, history
  <2>2. nuls' = 0 /\ open' /\ ~online'
    BY <2>1 DEF FramingTypes
  <2>3. z' \in 0 .. Patience /\ len' \in Text /\ out' \in Text /\ got' \in Nat
    BY <2>1, EmptyText, FramingSizes
  <2>4. open' \in BOOLEAN /\ online' \in BOOLEAN /\ (open' => nuls' = 0 /\ place' # "blink")
    BY <2>1, <2>2 DEF FramingTypes
  <2> QED BY <2>1, <2>2, <2>3, <2>4 DEF FramingTypes
<1>3. CASE Reply
  <2>1. PICK n \in ReplyLengths : out' = encode(n) /\ replies' = Append(replies, n) /\ longest' = Larger(n)
    BY <1>3 DEF Reply
  <2>2. /\ place = "work" /\ place' = "send"
        /\ UNCHANGED <<commInterface, open, got, len, z, smashed, toBoard, toHost, online, heard, frames,
                        blocks, wrong, nuls, tornBlock>>
    BY <1>3 DEF Reply, lineVars, hostVars
  <2>3. n \in Nat
    BY FramingSizes
  <2>4. out' \in Text
    BY <2>1, <2>3, EncodeIsText DEF Text
  <2>5. replies' \in Seq(Nat)
    BY <2>1, <2>3, AppendProperties DEF FramingTypes
  <2>6. longest' \in Nat
    BY <2>1, <2>3, LargerIs DEF FramingTypes
  <2> QED BY <2>2, <2>4, <2>5, <2>6 DEF FramingTypes
<1>4. CASE transmit
  <2>1. /\ place = "send"
        /\ UNCHANGED <<commInterface, open, got, len, z, smashed, toBoard, online, heard, frames,
                       blocks, replies, longest, wrong, nuls, tornBlock>>
    BY <1>4 DEF transmit, hostVars, history
  <2>2. got = 0 /\ len = <<>> /\ Len(len) <= got /\ got < HeadLen
    <3>1. got = 0 /\ len = <<>>
      BY <2>1 DEF FramingTypes
    <3> QED BY <3>1, EmptyText, FramingSizes
  <2>3. CASE out = <<>>
    <3>1. place' = "head" /\ UNCHANGED <<out, toHost>>
      BY <1>4, <2>3 DEF transmit
    <3> QED BY <2>1, <2>2, <2>3, <3>1 DEF FramingTypes
  <2>4. CASE out # <<>>
    <3>1. /\ place' = place /\ out' = SubSeq(out, Chunk + 1, Len(out))
          /\ toHost' = IF online THEN toHost \o Piece(out) ELSE toHost
      BY <1>4, <2>4 DEF transmit
    <3>2. PICK s \in Text, h \in Text : s = out /\ h = toHost
      BY DEF FramingTypes
    <3>3. Piece(s) \in Text /\ SubSeq(s, Chunk + 1, Len(s)) \in Text
      BY PieceRest
    <3>4. h \o Piece(s) \in Text
      BY <3>3, ConcatProperties DEF Text
    <3>5. out' \in Text /\ toHost' \in Text
      BY <3>1, <3>2, <3>3, <3>4
    <3> QED BY <2>1, <3>1, <3>5 DEF FramingTypes
  <2> QED BY <2>3, <2>4
<1> QED BY <1>1, <1>2, <1>3, <1>4, <1>5

LEMMA HostTypes ==
    ASSUME FramingTypes, HostReads \/ HostLeaves \/ \E n \in Lengths : HostSends(n)
    PROVE  FramingTypes'
<1>1. CASE HostReads
  <2>1. /\ toHost # <<>> /\ toHost' = Tail(toHost)
        /\ UNCHANGED <<commInterface, open, place, got, len, z, out, smashed, toBoard, online, frames,
                        blocks, longest, nuls, tornBlock>>
    BY <1>1 DEF HostReads, boardVars
  <2>2. toHost' \in Text /\ Head(toHost) \in Characters
    BY <2>1, HeadTailProperties DEF FramingTypes, Text
  <2>3. PICK now : now = IF heard = <<>> /\ Head(toHost) = "!" THEN <<>> ELSE Append(heard, Head(toHost))
    OBVIOUS
  <2>4. now \in Text
    <3>1. PICK h \in Text, c \in Characters : h = heard /\ c = Head(toHost)
      BY <2>2 DEF FramingTypes
    <3>2. Append(h, c) \in Text
      BY AppendProperties DEF Text
    <3> QED BY <2>3, <3>1, <3>2, EmptyText
  <2>5. (heard' = now \/ heard' = <<>>) /\ (replies' = replies \/ replies' = Rest(replies)) /\ wrong' \in BOOLEAN
    BY <1>1, <2>3 DEF HostReads, FramingTypes
  <2>6. heard' \in Text /\ replies' \in Seq(Nat)
    BY <2>4, <2>5, EmptyText, RestOfAny DEF FramingTypes
  <2> QED BY <2>1, <2>2, <2>5, <2>6 DEF FramingTypes
<1>2. CASE HostLeaves
  <2>1. /\ online /\ online' = FALSE /\ toHost' = <<>>
        /\ UNCHANGED <<commInterface, open, place, got, len, z, out, smashed, heard, frames,
                       blocks, replies, longest, wrong, nuls, tornBlock>>
    BY <1>2 DEF HostLeaves, boardVars, hostVars, history
  <2>2. PICK n \in 0 .. Len(toBoard) : toBoard' = SubSeq(toBoard, 1, n)
    BY <1>2 DEF HostLeaves
  <2>3. toBoard' \in Text
    <3>1. PICK s \in Text : s = toBoard
      BY DEF FramingTypes
    <3>2. \A i \in 1 .. n : s[i] \in Characters
      BY <2>2, <3>1, ElementOfSeq DEF Text
    <3>3. SubSeq(s, 1, n) \in Seq(Characters)
      <4>1. n \in Int /\ 1 \in Int
        BY <3>1 DEF Text
      <4> QED BY <3>2, <4>1, SubSeqProperties
    <3> QED BY <2>2, <3>1, <3>3 DEF Text
  <2> QED BY <2>1, <2>3, EmptyText DEF FramingTypes
<1>4. ASSUME NEW n \in Lengths, HostSends(n) PROVE FramingTypes'
  <2>1. /\ online /\ frames < MaxFrames /\ frames' = frames + 1
        /\ toBoard' = toBoard \o encode(n) /\ blocks' = Append(blocks, n) /\ longest' = Larger(n)
        /\ UNCHANGED <<commInterface, open, place, got, len, z, out, smashed, toHost, online, heard, replies,
                        wrong, nuls, tornBlock>>
    BY <1>4 DEF HostSends, boardVars
  <2>2. n \in Nat
    BY FramingSizes
  <2>3. PICK s \in Text : s = toBoard
    BY DEF FramingTypes
  <2>4. s \o encode(n) \in Text
    BY <2>2, EncodeIsText, ConcatProperties DEF Text
  <2>5. toBoard' \in Text /\ blocks' \in Seq(Nat) /\ longest' \in Nat
    BY <2>1, <2>2, <2>3, <2>4, AppendProperties, LargerIs DEF FramingTypes
  <2>6. frames' \in 0 .. MaxFrames
    BY <2>1, FramingSizes DEF FramingTypes
  <2> QED BY <2>1, <2>5, <2>6 DEF FramingTypes
<1> QED BY <1>1, <1>2, <1>4

LEMMA TypesStep == ASSUME FramingTypes, [FramingNext]_framingVars PROVE FramingTypes'
<1>1. CASE FramingNext
  BY <1>1, ReadTypes, BoardTypes, HostTypes DEF FramingNext, Board
<1>2. CASE UNCHANGED framingVars
  BY <1>2 DEF framingVars, boardVars, lineVars, hostVars, history, FramingTypes
<1> QED BY <1>1, <1>2

LEMMA TypesInit == ASSUME FramingInit PROVE FramingTypes
<1>1. <<>> \in Text /\ <<>> \in Seq(Nat)
  BY EmptyText
<1>2. 0 < HeadLen /\ 0 \in 0 .. Patience /\ 0 \in 0 .. MaxFrames
  BY FramingSizes
<1>3. Len(len) <= got /\ got < HeadLen
  BY <1>2, EmptyText DEF FramingInit
<1> QED BY <1>1, <1>2, <1>3 DEF FramingInit, FramingTypes

LEMMA TypesEnough == ASSUME FramingTypes PROVE FramingTypeOK
<1>1. PICK h \in Nat, p \in Nat : h = HeadLen /\ p = Power(h) /\ h < p /\ h >= 1
  BY FramingSizes, PowerIsNumber
<1>2. got \in 0 .. p /\ Len(len) <= HeadLen
  <2>1. CASE place = "head"
    BY <1>1, <2>1 DEF FramingTypes, Text
  <2>2. CASE place = "body"
    <3>1. PICK l \in Text : l = len
      BY DEF FramingTypes
    <3>2. PICK m \in Nat, a \in Nat : m = Len(l) /\ a = atoi(l) /\ a < Power(m)
      BY AtoiBound DEF Text
    <3>3. m <= h /\ got < a /\ got \in Nat
      BY <1>1, <2>2, <3>1, <3>2 DEF FramingTypes
    <3>4. PICK q \in Nat : q = Power(m) /\ q <= p
      BY <1>1, <3>2, <3>3, PowerIsNumber, PowerMonotone
    <3> QED BY <1>1, <3>1, <3>2, <3>3, <3>4
  <2>3. CASE place \in {"work", "send", "blink", "hung"}
    BY <1>1, <2>3, EmptyText DEF FramingTypes
  <2> QED BY <2>1, <2>2, <2>3 DEF FramingTypes
<1> QED BY <1>1, <1>2 DEF FramingTypes, FramingTypeOK

Bounded(s, x) == \A k \in 1 .. Len(s) : s[k] <= x
CharsTaken == IF place = "head" THEN got ELSE IF place = "body" THEN HeadLen + got ELSE 0

BoardReads ==
    open /\ place # "hung" =>
        /\ BoardLine(toBoard, blocks, CharsTaken, online)
        /\ place = "head" /\ got # 0 => blocks # <<>> /\ len = DigitsOf(blocks[1], got)
        /\ place = "body" => blocks # <<>> /\ atoi(len) = blocks[1]
HostHears == online => HostLine(toHost \o out, replies, heard)
Kept ==
    /\ ~wrong /\ tornBlock # "other"
    /\ Bounded(blocks, longest) /\ Bounded(replies, longest) /\ BoardReads /\ HostHears

FramingInv ==
    FramingTypes /\ SmashedOnlyByLongBlocks /\ (longest < Power(HeadLen) => Kept)

LEMMA BoundRest ==
    ASSUME NEW s \in Seq(Nat), NEW x \in Nat, Bounded(s, x)
    PROVE  Bounded(Rest(s), x)
<1>1. CASE s = <<>>
  <2>1. SubSeq(s, 2, 0) = <<>>
    BY SubSeqEmpty
  <2>2. Rest(s) = <<>>
    BY <1>1, <2>1 DEF Rest
  <2> QED BY <2>2 DEF Bounded
<1>2. CASE s # <<>>
  <2>1. PICK n \in Nat : n = Len(s) /\ n >= 1
    BY <1>2, EmptySeq
  <2>2. Len(Rest(s)) = n - 1 /\ \A k \in 1 .. n - 1 : Rest(s)[k] = s[k + 1] /\ k + 1 \in 1 .. n
    BY <1>2, <2>1, RestIs
  <2> QED BY <2>1, <2>2 DEF Bounded
<1> QED BY <1>1, <1>2

LEMMA BoundAppend ==
    ASSUME NEW s \in Seq(Nat), NEW x \in Nat, NEW y \in Nat, NEW n \in Nat, x <= y, n <= y, Bounded(s, x)
    PROVE  Bounded(Append(s, n), y)
<1>1. PICK l \in Nat : l = Len(s) /\ \A k \in 1 .. l : s[k] \in Nat
  BY ElementOfSeq
<1>2. Len(Append(s, n)) = l + 1 /\ Append(s, n)[l + 1] = n /\ \A k \in 1 .. l : Append(s, n)[k] = s[k]
  BY <1>1, AppendProperties
<1>3. \A k \in 1 .. l : s[k] <= y
  BY <1>1 DEF Bounded
<1>4. \A k \in 1 .. l + 1 : k \in 1 .. l \/ k = l + 1
  OBVIOUS
<1> QED BY <1>2, <1>3, <1>4 DEF Bounded

LEMMA FirstBounded ==
    ASSUME NEW s \in Seq(Nat), NEW x \in Nat, Bounded(s, x), s # <<>>
    PROVE  s[1] \in Nat /\ s[1] <= x
<1>1. 1 \in 1 .. Len(s)
  BY EmptySeq
<1> QED BY <1>1, ElementOfSeq DEF Bounded

LEMMA HeadChar ==
    ASSUME NEW b \in Nat, b < Power(HeadLen), NEW i \in Nat, i < HeadLen,
           NEW c, c = encode(b)[i + 1], NEW l, l = DigitsOf(b, i)
    PROVE  (IF c = "X" THEN l ELSE Append(l, c)) = DigitsOf(b, i + 1)
<1>1. PICK h, w, o \in Nat :
        h = HeadLen /\ w = Shown(b) /\ w <= h /\ h >= 1 /\ o = Zeros(b) /\ o = h - w
  BY ZerosAre
<1>2. i + 1 \in 1 .. HeadLen /\ i \in 0 .. HeadLen /\ i + 1 \in 0 .. HeadLen
  BY <1>1
<1>3. CASE i + 1 <= o
  <2>1. c = "X"
    BY <1>1, <1>2, <1>3, CodeIs
  <2>2. i <= Zeros(b) /\ i + 1 <= Zeros(b)
    BY <1>1, <1>3
  <2>3. DigitsOf(b, i + 1) = <<>>
    BY <1>2, <2>2, DigitsAre
  <2>4. DigitsOf(b, i) = <<>>
    BY <1>2, <2>2, DigitsAre
  <2> QED BY <2>1, <2>3, <2>4
<1>4. CASE i + 1 > o
  <2>1. c = Place(b, i + 1) /\ c # "X"
    BY <1>1, <1>2, <1>4, CodeIs
  <2>2. i >= Zeros(b)
    BY <1>1, <1>4
  <2>3. DigitsOf(b, i + 1) = Append(DigitsOf(b, i), Place(b, i + 1))
    BY <1>2, <2>2, DigitsAre
  <2> QED BY <2>1, <2>3
<1> QED BY <1>1, <1>3, <1>4

(* What the board has when it takes one more character of the head.         *)
LEMMA HeadTaken ==
    ASSUME FramingTypes, Kept, longest < Power(HeadLen), place = "head", toBoard # <<>>
    PROVE  \E b \in Nat : /\ blocks # <<>> /\ b = blocks[1] /\ b <= longest /\ b < Power(HeadLen)
                          /\ (IF Head(toBoard) = "X" THEN len ELSE Append(len, Head(toBoard)))
                               = DigitsOf(b, got + 1)
                          /\ BoardLine(Tail(toBoard), blocks, got + 1, online)
<1>1. PICK str \in Text, bs \in Seq(Nat), g \in Nat, on \in BOOLEAN, l \in Text, m \in Nat :
        str = toBoard /\ bs = blocks /\ g = got /\ on = online /\ l = len /\ m = longest
  BY DEF FramingTypes
<1>2. g < HeadLen /\ Len(l) <= g /\ l \in Text
  BY <1>1 DEF FramingTypes
<1>3. BoardLine(str, bs, g, on) /\ (g # 0 => l = DigitsOf(bs[1], g)) /\ Bounded(bs, m)
  <2>1. open /\ place # "hung"
    BY DEF FramingTypes
  <2> QED BY <1>1, <2>1 DEF Kept, BoardReads, CharsTaken
<1>4. /\ bs # <<>> /\ bs[1] \in Nat
      /\ BoardLine(Tail(str), bs, g + 1, on)
      /\ g < FrameSize(bs[1]) => Head(str) = encode(bs[1])[g + 1]
  BY <1>1, <1>3, BoardTakes
<1>5. PICK b \in Nat : b = bs[1] /\ b <= m
  BY <1>3, <1>4, FirstBounded
<1>6. PICK p \in Nat : p = Power(HeadLen) /\ m < p /\ b < p
  <2>1. PICK p \in Nat : p = Power(HeadLen)
    BY FramingSizes, PowerIsNumber
  <2>2. m < p
    BY <1>1, <2>1
  <2> QED BY <1>5, <2>1, <2>2
<1>7. l = DigitsOf(b, g)
  <2>1. CASE g = 0
    <3>1. l = <<>>
      BY <1>2, <2>1, EmptySeq DEF Text
    <3>2. 0 \in 0 .. HeadLen /\ 0 <= Zeros(b)
      BY <1>6, ZerosAre
    <3>3. DigitsOf(b, 0) = <<>>
      BY <1>6, <3>2, DigitsAre
    <3> QED BY <2>1, <3>1, <3>3
  <2>2. CASE g # 0
    BY <1>3, <1>5, <2>2
  <2> QED BY <2>1, <2>2
<1>8. g < FrameSize(bs[1])
  <2>1. PICK s \in Nat, h \in Nat : s = FrameSize(b) /\ h = HeadLen /\ s >= h
    BY SizeIs, FramingSizes
  <2> QED BY <1>2, <1>5, <2>1
<1>9. PICK c : c = Head(str) /\ c = encode(b)[g + 1]
  BY <1>4, <1>5, <1>8
<1>10. (IF c = "X" THEN l ELSE Append(l, c)) = DigitsOf(b, g + 1)
  BY <1>2, <1>6, <1>7, <1>9, HeadChar
<1> QED BY <1>1, <1>4, <1>5, <1>6, <1>9, <1>10

LEMMA ReadHeadKeeps ==
    ASSUME FramingTypes, Kept, longest < Power(HeadLen), ReadHead
    PROVE  Kept'
<1> DEFINE more == IF Head(toBoard) = "X" THEN len ELSE Append(len, Head(toBoard))
<1>1. /\ place = "head" /\ toBoard # <<>> /\ toBoard' = Tail(toBoard) /\ got < HeadLen /\ got \in Nat
      /\ nuls' = 0 /\ UNCHANGED <<out, toHost, online, heard, replies, longest>>
      /\ IF got + 1 < HeadLen
           THEN got' = got + 1 /\ len' = more /\ UNCHANGED <<place, blocks, wrong, tornBlock>>
           ELSE IF atoi(more) = 0
                THEN Quit("work") /\ ReadEnds(0)
                ELSE place' = "body" /\ got' = 0 /\ len' = more /\ UNCHANGED <<blocks, wrong, tornBlock>>
  BY TakesOnly DEF ReadHead, TakeHead, FramingTypes, hostVars
<1>2. PICK b \in Nat : /\ blocks # <<>> /\ b = blocks[1] /\ b <= longest /\ b < Power(HeadLen)
                       /\ more = DigitsOf(b, got + 1)
                       /\ BoardLine(Tail(toBoard), blocks, got + 1, online)
  BY <1>1, HeadTaken
<1>3. PICK m : m = more
  OBVIOUS
<1> HIDE DEF more
<1>4. HostHears' /\ Bounded(replies, longest)'
  BY <1>1 DEF HostHears, Kept
<1>5. PICK h \in Nat : h = HeadLen
  BY FramingSizes
<1>6. ~wrong /\ tornBlock # "other" /\ Bounded(blocks, longest)
  BY DEF Kept
<1>7. CASE got + 1 < HeadLen
  <2>1. got' = got + 1 /\ len' = m /\ place' = place /\ blocks' = blocks /\ wrong' = wrong /\ tornBlock' = tornBlock
    BY <1>1, <1>3, <1>7
  <2>2. CharsTaken' = got + 1
    BY <1>1, <2>1 DEF CharsTaken
  <2>3. BoardReads'
    BY <1>1, <1>2, <1>3, <2>1, <2>2 DEF BoardReads
  <2> QED BY <1>1, <1>4, <1>6, <2>1, <2>3 DEF Kept
<1>8. CASE ~(got + 1 < HeadLen)
  <2>1. got + 1 = h
    BY <1>1, <1>5, <1>8
  <2>2. atoi(m) = b
    BY <1>2, <1>3, <1>5, <2>1, DigitsRead
  <2>3. CASE b = 0
    <3>1. /\ place' = "work" /\ got' = 0 /\ len' = <<>>
          /\ blocks' = Rest(blocks) /\ wrong' = (wrong \/ ~StartsWith(blocks, 0)) /\ tornBlock' = tornBlock
      BY <1>1, <1>3, <1>8, <2>2, <2>3 DEF Quit, ReadEnds
    <3>2. PICK str \in Text, bs \in Seq(Nat), on \in BOOLEAN :
            str = Tail(toBoard) /\ bs = blocks /\ on = online
      BY <1>1, HeadTailProperties DEF FramingTypes, Text
    <3>3. bs # <<>> /\ bs[1] = 0
      BY <1>2, <2>3, <3>2
    <3>4. StartsWith(blocks, 0)
      BY <3>2, <3>3 DEF StartsWith
    <3>5. FrameSize(bs[1]) = got + 1
      <4>1. HeadLen + 0 = h
        BY <1>5
      <4> QED BY <2>1, <3>3, <4>1 DEF FrameSize
    <3>6. BoardLine(str, Rest(bs), 0, on)
      BY <1>2, <3>2, <3>5, BoardDrops
    <3>7. CharsTaken' = 0
      BY <3>1 DEF CharsTaken
    <3>8. BoardReads'
      BY <1>1, <3>1, <3>2, <3>6, <3>7 DEF BoardReads
    <3>9. Bounded(blocks', longest')
      <4>1. PICK x \in Nat : x = longest
        BY DEF FramingTypes
      <4> QED BY <1>1, <1>6, <3>1, <3>2, <4>1, BoundRest
    <3> QED BY <1>4, <1>6, <3>1, <3>4, <3>8, <3>9 DEF Kept
  <2>4. CASE b # 0
    <3>1. place' = "body" /\ got' = 0 /\ len' = m /\ blocks' = blocks /\ wrong' = wrong /\ tornBlock' = tornBlock
      BY <1>1, <1>3, <1>8, <2>2, <2>4
    <3>2. CharsTaken' = got + 1
      BY <1>5, <2>1, <3>1 DEF CharsTaken
    <3>3. BoardReads'
      BY <1>1, <1>2, <2>2, <3>1, <3>2 DEF BoardReads
    <3> QED BY <1>1, <1>4, <1>6, <3>1, <3>3 DEF Kept
  <2> QED BY <2>3, <2>4
<1> QED BY <1>7, <1>8

LEMMA ReadBodyKeeps ==
    ASSUME FramingTypes, Kept, longest < Power(HeadLen), ReadBody
    PROVE  Kept'
<1>1. /\ place = "body" /\ toBoard # <<>> /\ toBoard' = Tail(toBoard) /\ got < atoi(len) /\ got \in Nat
      /\ open /\ nuls' = 0 /\ UNCHANGED <<out, toHost, online, heard, replies, longest>>
      /\ IF got + 1 < atoi(len)
         THEN got' = got + 1 /\ UNCHANGED <<place, len, blocks, wrong, tornBlock>>
         ELSE Quit("work") /\ ReadEnds(got + 1)
  BY TakesOnly DEF ReadBody, TakeBody, FramingTypes, hostVars
<1>2. PICK str \in Text, bs \in Seq(Nat), g \in Nat, on \in BOOLEAN, x \in Nat :
        str = toBoard /\ bs = blocks /\ g = got /\ on = online /\ x = longest
  BY DEF FramingTypes
<1>3. ~wrong /\ tornBlock # "other" /\ Bounded(bs, x) /\ BoardLine(str, bs, HeadLen + g, on) /\ bs # <<>> /\ atoi(len) = bs[1]
  BY <1>1, <1>2 DEF Kept, BoardReads, CharsTaken
<1>4. PICK h \in Nat, b \in Nat : h = HeadLen /\ b = bs[1] /\ g < b
  BY <1>1, <1>2, <1>3, FramingSizes, FirstBounded
<1>5. BoardLine(Tail(str), bs, (h + g) + 1, on)
  BY <1>1, <1>2, <1>3, <1>4, BoardTakes
<1>6. HostHears' /\ Bounded(replies, longest)'
  BY <1>1 DEF HostHears, Kept
<1>7. CASE got + 1 < atoi(len)
  <2>1. got' = got + 1 /\ place' = place /\ len' = len /\ blocks' = blocks /\ wrong' = wrong /\ tornBlock' = tornBlock
    BY <1>1, <1>7
  <2>2. CharsTaken' = (h + g) + 1
    <3>1. h + (g + 1) = (h + g) + 1
      OBVIOUS
    <3> QED BY <1>1, <1>2, <1>4, <2>1, <3>1 DEF CharsTaken
  <2>3. BoardReads'
    BY <1>1, <1>2, <1>3, <1>5, <2>1, <2>2 DEF BoardReads
  <2> QED BY <1>1, <1>2, <1>3, <1>6, <2>1, <2>3 DEF Kept
<1>8. CASE ~(got + 1 < atoi(len))
  <2>1. g + 1 = b
    BY <1>2, <1>3, <1>4, <1>8
  <2>2. /\ place' = "work" /\ got' = 0 /\ len' = <<>>
        /\ blocks' = Rest(blocks) /\ wrong' = (wrong \/ ~StartsWith(blocks, got + 1)) /\ tornBlock' = tornBlock
    BY <1>1, <1>8 DEF Quit, ReadEnds
  <2>3. StartsWith(blocks, got + 1)
    BY <1>2, <1>3, <1>4, <2>1 DEF StartsWith
  <2>4. FrameSize(bs[1]) = (h + g) + 1
    <3>1. h + (g + 1) = (h + g) + 1
      OBVIOUS
    <3> QED BY <1>4, <2>1, <3>1 DEF FrameSize
  <2>5. Tail(str) \in Text
    BY <1>1, <1>2, HeadTailProperties DEF Text
  <2>6. BoardLine(Tail(str), Rest(bs), 0, on)
    BY <1>3, <1>5, <2>4, <2>5, BoardDrops
  <2>7. CharsTaken' = 0
    BY <2>2 DEF CharsTaken
  <2>8. BoardReads'
    BY <1>1, <1>2, <2>2, <2>6, <2>7 DEF BoardReads
  <2>9. Bounded(blocks', longest')
    BY <1>1, <1>2, <1>3, <2>2, BoundRest
  <2> QED BY <1>3, <1>6, <2>2, <2>3, <2>8, <2>9 DEF Kept
<1> QED BY <1>7, <1>8

(* A character that read() made up: what it hands on is torn as allowed,    *)
(* and no socket is left to read from.                                      *)
LEMMA ReadEndedKeeps ==
    ASSUME FramingTypes, Kept, longest < Power(HeadLen), ReadEnded
    PROVE  Kept'
<1>1. /\ open /\ ~online /\ ~open' /\ nuls' = 1
      /\ UNCHANGED <<out, toHost, online, heard, replies, longest>>
  BY ReadEndedOnly DEF ReadsOnly
<1>2. BoardReads' /\ HostHears' /\ Bounded(replies', longest')
  BY <1>1 DEF BoardReads, HostHears, Kept
<1>3. PICK bs \in Seq(Nat), x \in Nat, g \in Nat : bs = blocks /\ x = longest /\ g = got
  BY DEF FramingTypes
<1>4. ~wrong /\ tornBlock # "other" /\ Bounded(bs, x)
  BY <1>3 DEF Kept
<1>5. ASSUME UNCHANGED <<blocks, wrong, tornBlock>> PROVE Kept'
  BY <1>1, <1>2, <1>3, <1>4, <1>5 DEF Kept
<1>6. ASSUME NEW n \in Nat, ReadEnds(n),
             \/ StartsWith(blocks, n)
             \/ n = 0 /\ blocks # <<>> /\ Head(blocks) < Base
      PROVE  Kept'
  <2>1. blocks' = Rest(blocks) /\ tornBlock' = Tear(n) /\ wrong' = wrong
    BY <1>1, <1>6 DEF ReadEnds
  <2>2. Tear(n) \in {"last", "empty"}
    BY <1>1, <1>6 DEF Tear
  <2>3. Bounded(blocks', longest')
    BY <1>1, <1>3, <1>4, <2>1, BoundRest
  <2> QED BY <1>2, <1>4, <2>1, <2>2, <2>3 DEF Kept
<1>7. open /\ place # "hung" => BoardReads /\ (place = "head" /\ got # 0 => blocks # <<>> /\ len = DigitsOf(blocks[1], got))
                                 /\ (place = "body" => blocks # <<>> /\ atoi(len) = blocks[1])
  BY DEF Kept, BoardReads
<1>8. CASE place = "head" /\ TakeHead("NUL")
  <2>1. PICK m : m = Append(len, "NUL")
    OBVIOUS
  <2>2. \/ UNCHANGED <<blocks, wrong, tornBlock>>
        \/ ~(got + 1 < HeadLen) /\ atoi(m) = 0 /\ ReadEnds(0)
    BY <1>8, <2>1 DEF TakeHead
  <2>3. ASSUME ~(got + 1 < HeadLen), atoi(m) = 0, ReadEnds(0) PROVE Kept'
    <3>1. PICK h \in Nat : h = HeadLen /\ h >= 2 /\ g = h - 1 /\ g # 0
      BY <1>3, <1>8, <2>3, FramingSizes DEF FramingTypes
    <3>2. bs # <<>> /\ len = DigitsOf(bs[1], HeadLen - 1)
      BY <1>1, <1>3, <1>7, <1>8, <3>1
    <3>3. PICK b \in Nat : b = bs[1] /\ b <= x
      BY <1>4, <3>2, FirstBounded
    <3>4. b < Power(HeadLen)
      <4>1. PICK p \in Nat : p = Power(HeadLen) /\ x < p
        BY <1>3, FramingSizes, PowerIsNumber
      <4> QED BY <3>3, <4>1
    <3>5. b < Base
      BY <2>1, <2>3, <3>2, <3>3, <3>4, CutHead
    <3>6. blocks # <<>> /\ Head(blocks) < Base
      BY <1>3, <3>2, <3>3, <3>5
    <3> QED BY <1>6, <2>3, <3>6
  <2> QED BY <1>5, <2>2, <2>3
<1>9. CASE place = "body" /\ TakeBody
  <2>1. \/ UNCHANGED <<blocks, wrong, tornBlock>>
        \/ ~(got + 1 < atoi(len)) /\ ReadEnds(got + 1)
    BY <1>9 DEF TakeBody
  <2>2. ASSUME ~(got + 1 < atoi(len)), ReadEnds(got + 1) PROVE Kept'
    <3>1. bs # <<>> /\ atoi(len) = bs[1] /\ g < atoi(len)
      BY <1>1, <1>3, <1>7, <1>9 DEF FramingTypes
    <3>2. PICK b \in Nat : b = bs[1]
      BY <1>4, <3>1, FirstBounded
    <3>3. g + 1 = b /\ g + 1 \in Nat
      BY <1>3, <2>2, <3>1, <3>2
    <3>4. StartsWith(blocks, got + 1)
      BY <1>3, <3>1, <3>2, <3>3 DEF StartsWith
    <3> QED BY <1>3, <1>6, <2>2, <3>3, <3>4
  <2> QED BY <1>5, <2>1, <2>2
<1> QED BY <1>8, <1>9 DEF ReadEnded

LEMMA PollKeeps == ASSUME FramingTypes, Kept, Poll PROVE Kept'
<1>1. /\ place = "head"
      /\ UNCHANGED <<open, place, got, len, out, toBoard, online, heard, blocks, replies, longest, wrong, tornBlock>>
      /\ (toHost' = toHost \/ toHost' = Append(toHost, "!")) /\ out = <<>>
  BY DEF Poll, Waiting, hostVars, history, FramingTypes
<1>2. BoardReads'
  <2>1. CharsTaken' = CharsTaken
    BY <1>1 DEF CharsTaken
  <2> QED BY <1>1, <2>1 DEF BoardReads, Kept
<1>3. HostHears'
  <2> SUFFICES ASSUME online PROVE HostLine(toHost' \o out', replies', heard')
    BY <1>1 DEF HostHears
  <2>1. PICK str \in Text, bs \in Seq(Nat), had \in Text : str = toHost /\ bs = replies /\ had = heard
    BY DEF FramingTypes
  <2>2. str \o <<>> = str
    BY ConcatEmptySeq DEF Text
  <2>3. HostLine(str, bs, had)
    BY <1>1, <2>1, <2>2 DEF Kept, HostHears
  <2>4. CASE toHost' = toHost
    BY <1>1, <2>1, <2>2, <2>3, <2>4
  <2>5. CASE toHost' = Append(toHost, "!")
    <3>1. Append(str, "!") \in Text
      <4>1. "!" \in Characters
        BY DEF Characters
      <4> QED BY <4>1, AppendProperties DEF Text
    <3>2. Append(str, "!") \o <<>> = Append(str, "!")
      BY <3>1, ConcatEmptySeq DEF Text
    <3>3. HostLine(Append(str, "!"), bs, had)
      BY <2>3, HostPinged
    <3> QED BY <1>1, <2>1, <2>5, <3>2, <3>3
  <2> QED BY <1>1, <2>4, <2>5
<1> QED BY <1>1, <1>2, <1>3 DEF Kept

LEMMA EndKeeps == ASSUME FramingTypes, Kept, Disconnected \/ Hangs PROVE Kept'
<1>1. /\ ~open' \/ place' = "hung"
      /\ UNCHANGED <<toHost, online, heard, blocks, replies, longest, wrong, tornBlock>>
  BY DEF Disconnected, Hangs, Quit, lineVars, hostVars, history
<1>2. ~online
  BY DEF Disconnected, Hangs, FramingTypes
<1>3. BoardReads' /\ HostHears'
  BY <1>1, <1>2 DEF BoardReads, HostHears
<1> QED BY <1>1, <1>3 DEF Kept

LEMMA ReplyKeeps == ASSUME FramingTypes, Kept, Reply, longest' < Power(HeadLen) PROVE Kept'
<1>1. PICK n \in ReplyLengths : out' = encode(n) /\ replies' = Append(replies, n) /\ longest' = Larger(n)
  BY DEF Reply
<1>2. /\ place = "work" /\ place' = "send" /\ out = <<>>
      /\ UNCHANGED <<open, got, len, toBoard, toHost, online, heard, blocks, wrong, tornBlock>>
  BY DEF Reply, lineVars, hostVars, FramingTypes
<1>3. n \in Nat
  BY FramingSizes
<1>4. PICK x \in Nat, y \in Nat : x = longest /\ y = longest' /\ x <= y /\ n <= y
  BY <1>1, <1>3, LargerIs DEF FramingTypes
<1>5. n < Power(HeadLen)
  <2>1. PICK p \in Nat : p = Power(HeadLen)
    BY FramingSizes, PowerIsNumber
  <2>2. y < p
    BY <1>4, <2>1
  <2> QED BY <1>3, <1>4, <2>1, <2>2
<1>6. PICK bs \in Seq(Nat), rs \in Seq(Nat) : bs = blocks /\ rs = replies
  BY DEF FramingTypes
<1>7. Bounded(blocks', longest') /\ Bounded(replies', longest')
  <2>1. Bounded(bs, x) /\ Bounded(rs, x)
    BY <1>4, <1>6 DEF Kept
  <2>2. Bounded(Append(rs, n), y)
    BY <1>3, <1>4, <2>1, BoundAppend
  <2>3. Bounded(bs, y)
    <3>1. \A k \in 1 .. Len(bs) : bs[k] \in Nat
      BY ElementOfSeq
    <3> QED BY <1>4, <2>1, <3>1 DEF Bounded
  <2> QED BY <1>1, <1>2, <1>4, <1>6, <2>2, <2>3
<1>8. BoardReads'
  <2>1. CharsTaken' = CharsTaken
    BY <1>2 DEF CharsTaken
  <2> QED BY <1>2, <2>1 DEF BoardReads, Kept
<1>9. HostHears'
  <2> SUFFICES ASSUME online PROVE HostLine(toHost' \o out', replies', heard')
    BY <1>2 DEF HostHears
  <2>1. PICK str \in Text, had \in Text : str = toHost /\ had = heard
    BY DEF FramingTypes
  <2>2. str \o <<>> = str
    BY ConcatEmptySeq DEF Text
  <2>3. HostLine(str, rs, had)
    BY <1>2, <1>6, <2>1, <2>2 DEF Kept, HostHears
  <2>4. HostLine(str \o encode(n), Append(rs, n), had)
    BY <1>3, <1>5, <2>3, HostGets
  <2> QED BY <1>1, <1>2, <1>6, <2>1, <2>4
<1> QED BY <1>2, <1>7, <1>8, <1>9 DEF Kept

LEMMA transmitKeeps == ASSUME FramingTypes, Kept, transmit PROVE Kept'
<1>1. /\ place = "send" /\ place' \in {"send", "head"}
      /\ UNCHANGED <<open, got, len, toBoard, online, heard, blocks, replies, longest, wrong, tornBlock>>
  BY DEF transmit, hostVars, history
<1>2. BoardReads'
  <2>1. got = 0
    BY <1>1 DEF FramingTypes
  <2>2. CharsTaken = 0 /\ CharsTaken' = 0
    BY <1>1, <2>1 DEF CharsTaken
  <2> QED BY <1>1, <2>1, <2>2 DEF BoardReads, Kept
<1>3. ASSUME online PROVE toHost' \o out' = toHost \o out
  <2>1. CASE out = <<>>
    BY <2>1 DEF transmit
  <2>2. CASE out # <<>>
    <3>1. out' = SubSeq(out, Chunk + 1, Len(out)) /\ toHost' = toHost \o Piece(out)
      BY <1>3, <2>2 DEF transmit
    <3>2. PICK s \in Text, str \in Text : s = out /\ str = toHost
      BY DEF FramingTypes
    <3>3. (str \o Piece(s)) \o SubSeq(s, Chunk + 1, Len(s)) = str \o s
      BY PieceRest
    <3> QED BY <3>1, <3>2, <3>3
  <2> QED BY <2>1, <2>2
<1>4. HostHears'
  BY <1>1, <1>3 DEF HostHears, Kept
<1> QED BY <1>1, <1>2, <1>4 DEF Kept

LEMMA HostSendsKeeps ==
    ASSUME FramingTypes, Kept, NEW n \in Lengths, HostSends(n), longest' < Power(HeadLen)
    PROVE  Kept'
<1>1. /\ online /\ toBoard' = toBoard \o encode(n) /\ blocks' = Append(blocks, n) /\ longest' = Larger(n)
      /\ UNCHANGED <<open, place, got, len, out, toHost, online, heard, replies, wrong, tornBlock>>
  BY DEF HostSends, boardVars
<1>2. n \in Nat
  BY FramingSizes
<1>3. PICK x \in Nat, y \in Nat : x = longest /\ y = longest' /\ x <= y /\ n <= y
  BY <1>1, <1>2, LargerIs DEF FramingTypes
<1>4. n < Power(HeadLen)
  <2>1. PICK p \in Nat : p = Power(HeadLen)
    BY FramingSizes, PowerIsNumber
  <2>2. y < p
    BY <1>3, <2>1
  <2> QED BY <1>2, <1>3, <2>1, <2>2
<1>5. PICK str \in Text, bs \in Seq(Nat), rs \in Seq(Nat), g \in Nat :
        str = toBoard /\ bs = blocks /\ rs = replies /\ g = CharsTaken
  <2>1. CharsTaken \in Nat
    BY FramingSizes DEF CharsTaken, FramingTypes
  <2> QED BY <2>1 DEF FramingTypes
<1>6. Bounded(bs, x) /\ Bounded(rs, x) /\ open /\ place # "hung"
  BY <1>1, <1>3, <1>5 DEF Kept, FramingTypes
<1>7. Bounded(blocks', longest') /\ Bounded(replies', longest')
  <2>1. Bounded(Append(bs, n), y)
    BY <1>2, <1>3, <1>6, BoundAppend
  <2>2. Bounded(rs, y)
    <3>1. \A k \in 1 .. Len(rs) : rs[k] \in Nat
      BY ElementOfSeq
    <3> QED BY <1>3, <1>6, <3>1 DEF Bounded
  <2> QED BY <1>1, <1>3, <1>5, <2>1, <2>2
<1>8. bs # <<>> => Append(bs, n) # <<>> /\ Append(bs, n)[1] = bs[1]
  <2> SUFFICES ASSUME bs # <<>> PROVE Append(bs, n) # <<>> /\ Append(bs, n)[1] = bs[1]
    OBVIOUS
  <2>1. 1 \in 1 .. Len(bs)
    BY EmptySeq
  <2> QED BY <1>2, <2>1, AppendProperties
<1>9. BoardLine(str \o encode(n), Append(bs, n), g, TRUE)
  <2>1. BoardLine(str, bs, g, TRUE)
    <3>1. online = TRUE
      BY <1>1 DEF FramingTypes
    <3> QED BY <1>5, <1>6, <3>1 DEF Kept, BoardReads
  <2> QED BY <1>2, <1>4, <2>1, BoardGets
<1>10. BoardReads'
  <2>1. CharsTaken' = g
    BY <1>1, <1>5 DEF CharsTaken
  <2>2. online' = TRUE
    BY <1>1 DEF FramingTypes
  <2>3. BoardLine(toBoard', blocks', CharsTaken', online')
    BY <1>1, <1>5, <1>9, <2>1, <2>2
  <2>4. place' = "head" /\ got' # 0 => blocks' # <<>> /\ len' = DigitsOf(blocks'[1], got')
    <3> SUFFICES ASSUME place = "head", got # 0
                 PROVE  blocks' # <<>> /\ len' = DigitsOf(blocks'[1], got')
      BY <1>1
    <3>1. blocks # <<>> /\ len = DigitsOf(blocks[1], got)
      BY <1>6 DEF Kept, BoardReads
    <3>2. blocks' # <<>> /\ blocks'[1] = blocks[1]
      BY <1>1, <1>5, <1>8, <3>1
    <3> QED BY <1>1, <3>1, <3>2
  <2>5. place' = "body" => blocks' # <<>> /\ atoi(len') = blocks'[1]
    <3> SUFFICES ASSUME place = "body" PROVE blocks' # <<>> /\ atoi(len') = blocks'[1]
      BY <1>1
    <3>1. blocks # <<>> /\ atoi(len) = blocks[1]
      BY <1>6 DEF Kept, BoardReads
    <3>2. blocks' # <<>> /\ blocks'[1] = blocks[1]
      BY <1>1, <1>5, <1>8, <3>1
    <3> QED BY <1>1, <3>1, <3>2
  <2> QED BY <2>3, <2>4, <2>5 DEF BoardReads
<1>11. HostHears'
  BY <1>1 DEF HostHears, Kept
<1> QED BY <1>1, <1>7, <1>10, <1>11 DEF Kept

LEMMA HostReadsKeeps ==
    ASSUME FramingTypes, Kept, HostReads, longest < Power(HeadLen)
    PROVE  Kept'
<1>1. /\ online /\ toHost # <<>> /\ toHost' = Tail(toHost)
      /\ UNCHANGED <<open, place, got, len, out, toBoard, online, blocks, longest, tornBlock>>
  BY DEF HostReads, boardVars
<1>2. PICK str \in Text, o \in Text, rs \in Seq(Nat), had \in Text, x \in Nat :
        str = toHost /\ o = out /\ rs = replies /\ had = heard /\ x = longest
  BY DEF FramingTypes
<1>3. Bounded(rs, x) /\ ~wrong /\ tornBlock # "other" /\ HostLine(str \o o, rs, had)
  BY <1>1, <1>2 DEF Kept, HostHears
<1>4. PICK t : t = str \o o
  OBVIOUS
<1>5. t \in Text /\ t # <<>> /\ Head(t) = Head(str) /\ Tail(t) = Tail(str) \o o
  <2>1. str \in Seq(Characters) /\ o \in Seq(Characters) /\ str # <<>>
    BY <1>1, <1>2 DEF Text
  <2>2. t \in Seq(Characters) /\ Len(t) = Len(str) + Len(o)
    BY <1>4, <2>1, ConcatProperties
  <2>3. \A i \in 1 .. Len(str) + Len(o) : t[i] = IF i <= Len(str) THEN str[i] ELSE o[i - Len(str)]
    BY <1>4, <2>1, ConcatProperties
  <2>4. PICK l \in Nat, k \in Nat : l = Len(str) /\ k = Len(o) /\ l >= 1
    BY <2>1, EmptySeq
  <2>5. t # <<>>
    BY <2>2, <2>4
  <2>6. Head(t) = Head(str)
    <3>1. t[1] = str[1]
      BY <2>3, <2>4
    <3> QED BY <3>1
  <2>7. Tail(t) = Tail(str) \o o
    <3>1. PICK u \in Seq(Characters), v \in Seq(Characters) : u = Tail(t) /\ v = Tail(str)
      BY <2>1, <2>2, <2>5, HeadTailProperties
    <3>2. Len(u) = (l + k) - 1 /\ \A i \in 1 .. (l + k) - 1 : u[i] = t[i + 1]
      BY <2>2, <2>4, <2>5, <3>1, HeadTailProperties
    <3>3. Len(v) = l - 1 /\ \A i \in 1 .. l - 1 : v[i] = str[i + 1]
      BY <2>1, <2>4, <3>1, HeadTailProperties
    <3>4. PICK q : q = v \o o
      OBVIOUS
    <3>5. q \in Seq(Characters) /\ Len(q) = (l - 1) + k
      <4>1. v \o o \in Seq(Characters)
        BY <2>1, ConcatProperties
      <4>2. Len(v \o o) = Len(v) + Len(o)
        BY <2>1, ConcatProperties
      <4> QED BY <2>4, <3>3, <3>4, <4>1, <4>2
    <3>6. \A i \in 1 .. Len(v) + Len(o) : q[i] = IF i <= Len(v) THEN v[i] ELSE o[i - Len(v)]
      BY <2>1, <3>4, ConcatProperties
    <3>7. ASSUME NEW i \in 1 .. (l + k) - 1 PROVE u[i] = q[i]
      <4>1. i \in 1 .. Len(v) + Len(o) /\ i + 1 \in 1 .. l + k
        BY <2>4, <3>3
      <4>2. u[i] = IF i + 1 <= l THEN str[i + 1] ELSE o[(i + 1) - l]
        BY <2>3, <2>4, <3>2, <4>1
      <4>3. q[i] = IF i <= l - 1 THEN v[i] ELSE o[i - (l - 1)]
        BY <3>3, <3>6, <4>1
      <4>4. CASE i <= l - 1
        BY <2>4, <3>3, <4>2, <4>3, <4>4
      <4>5. CASE ~(i <= l - 1)
        <5>1. ~(i + 1 <= l) /\ i - (l - 1) = (i + 1) - l
          BY <2>4, <4>5
        <5> QED BY <4>2, <4>3, <4>5, <5>1
      <4> QED BY <4>4, <4>5
    <3>8. (l + k) - 1 = (l - 1) + k
      OBVIOUS
    <3>9. u = q
      BY <3>1, <3>2, <3>5, <3>7, <3>8, SeqEqual
    <3> QED BY <3>1, <3>4, <3>9
  <2> QED BY <2>2, <2>5, <2>6, <2>7 DEF Text
<1>6. BoardReads' /\ Bounded(blocks, longest)'
  <2>1. CharsTaken' = CharsTaken
    BY <1>1 DEF CharsTaken
  <2> QED BY <1>1, <2>1 DEF BoardReads, Kept
<1>7. PICK now : now = IF had = <<>> /\ Head(str) = "!" THEN <<>> ELSE Append(had, Head(str))
  OBVIOUS
<1>8. PICK v : v = HeadValue(SubSeq(now, 1, HeadLen))
  OBVIOUS
<1>9. IF Len(now) < HeadLen \/ Len(now) < HeadLen + v
      THEN heard' = now /\ UNCHANGED <<replies, wrong>>
      ELSE /\ heard' = <<>>
           /\ replies' = Rest(replies)
           /\ wrong' = (wrong \/ ~StartsWith(replies, v) \/ "!" \in ToSet(now))
  BY <1>2, <1>7, <1>8 DEF HostReads
<1>10. CASE had = <<>> /\ Head(str) = "!"
  <2>1. now = <<>> /\ Len(now) < HeadLen
    BY <1>7, <1>10, EmptyText, FramingSizes
  <2>2. heard' = <<>> /\ replies' = replies /\ wrong' = wrong
    BY <1>9, <2>1
  <2>3. \A k \in 1 .. Len(rs) : rs[k] < Power(HeadLen)
    <3>1. PICK p \in Nat : p = Power(HeadLen) /\ x < p
      <4>1. PICK p \in Nat : p = Power(HeadLen)
        BY FramingSizes, PowerIsNumber
      <4> QED BY <1>2, <4>1
    <3>2. \A k \in 1 .. Len(rs) : rs[k] \in Nat /\ rs[k] <= x
      BY <1>3, ElementOfSeq DEF Bounded
    <3> QED BY <3>1, <3>2
  <2>4. HostLine(Tail(t), rs, had)
    BY <1>3, <1>4, <1>5, <1>10, <2>3, HostSkips
  <2>5. HostHears'
    BY <1>1, <1>2, <1>5, <1>10, <2>2, <2>4 DEF HostHears
  <2> QED BY <1>1, <1>2, <1>3, <1>6, <2>2, <2>5 DEF Kept
<1>11. CASE ~(had = <<>> /\ Head(str) = "!")
  <2>1. now = Append(had, Head(t))
    BY <1>5, <1>7, <1>11
  <2>2. ~(had = <<>> /\ Head(t) = "!")
    BY <1>5, <1>11
  <2>3. /\ now \in Text /\ rs # <<>> /\ rs[1] \in Nat /\ Len(now) <= FrameSize(rs[1])
        /\ \A i \in 1 .. Len(now) : now[i] = encode(rs[1])[i]
        /\ Len(now) < FrameSize(rs[1]) => HostLine(Tail(t), rs, now)
        /\ Len(now) = FrameSize(rs[1]) => HostLine(Tail(t), Rest(rs), <<>>)
    <3>1. HostLine(t, rs, had)
      BY <1>3, <1>4
    <3>2. HostHas(Tail(t), rs, Append(had, Head(t)))
      BY <1>5, <2>2, <3>1, HostTakes
    <3> QED BY <2>1, <3>2 DEF HostHas
  <2>4. PICK b \in Nat, h \in Nat, n \in Nat : b = rs[1] /\ h = HeadLen /\ n = Len(now) /\ n <= h + b
    <3>1. Len(now) \in Nat
      BY <2>3 DEF Text
    <3> QED BY <2>3, <3>1, FramingSizes DEF FrameSize
  <2>5. b < Power(HeadLen)
    <3>1. PICK p \in Nat : p = Power(HeadLen)
      BY FramingSizes, PowerIsNumber
    <3>2. x < p
      BY <1>2, <3>1
    <3>3. b <= x
      BY <1>3, <2>3, <2>4, FirstBounded
    <3> QED BY <3>1, <3>2, <3>3
  <2>6. ASSUME n >= h PROVE v = b
    <3>1. SubSeq(now, 1, h) = [i \in 1 .. h |-> now[i]]
      <4>1. SubSeq(now, 1, h) = [i \in 1 .. (1 + h - 1) |-> now[1 + i - 1]]
        OBVIOUS
      <4>2. 1 + h - 1 = h /\ \A i \in 1 .. h : 1 + i - 1 = i
        OBVIOUS
      <4> QED BY <4>1, <4>2
    <3>2. PICK s : s = SubSeq(now, 1, h)
      OBVIOUS
    <3>3. \A i \in 1 .. h : i \in 1 .. n /\ now[i] \in Characters
      BY <2>3, <2>4, <2>6, ElementOfSeq DEF Text
    <3>4. Len(s) = h /\ \A i \in 1 .. h : s[i] = encode(b)[i]
      BY <2>3, <2>4, <3>1, <3>2, <3>3
    <3>5. HeadValue(s) = b
      BY <2>4, <2>5, <3>4, HeadRead
    <3> QED BY <1>8, <2>4, <3>2, <3>5
  <2>7. CASE n < h + b
    <3>1. Len(now) < HeadLen \/ Len(now) < HeadLen + v
      <4>1. CASE n < h
        BY <2>4, <4>1
      <4>2. CASE n >= h
        <5>1. v = b
          BY <2>6, <4>2
        <5> QED BY <2>4, <2>7, <5>1
      <4> QED BY <4>1, <4>2
    <3>2. heard' = now /\ replies' = replies /\ wrong' = wrong
      BY <1>9, <3>1
    <3>3. HostLine(Tail(t), rs, now)
      BY <2>3, <2>4, <2>7 DEF FrameSize
    <3>4. HostHears'
      BY <1>1, <1>2, <1>5, <3>2, <3>3 DEF HostHears
    <3> QED BY <1>1, <1>2, <1>3, <1>6, <3>2, <3>4 DEF Kept
  <2>8. CASE n = h + b
    <3>1. v = b
      BY <2>4, <2>6, <2>8
    <3>2. ~(Len(now) < HeadLen \/ Len(now) < HeadLen + v)
      BY <2>4, <2>8, <3>1
    <3>3. /\ heard' = <<>> /\ replies' = Rest(replies)
          /\ wrong' = (wrong \/ ~StartsWith(replies, v) \/ "!" \in ToSet(now))
      BY <1>9, <3>2
    <3>4. StartsWith(replies, v)
      BY <1>2, <2>3, <2>4, <3>1 DEF StartsWith
    <3>5. "!" \notin ToSet(now)
      <4>1. \A i \in 1 .. n : i \in 1 .. FrameSize(b)
        BY <2>4, <2>8 DEF FrameSize
      <4>2. \A i \in 1 .. n : now[i] # "!"
        BY <2>3, <2>4, <2>5, <4>1, NoPingInside
      <4> QED BY <2>4, <4>2 DEF ToSet
    <3>6. HostLine(Tail(t), Rest(rs), <<>>)
      BY <2>3, <2>4, <2>8 DEF FrameSize
    <3>7. HostHears'
      BY <1>1, <1>2, <1>5, <3>3, <3>6 DEF HostHears
    <3>8. Bounded(replies', longest')
      BY <1>1, <1>2, <1>3, <3>3, BoundRest
    <3>9. ~wrong' /\ tornBlock' # "other"
      BY <1>1, <1>3, <3>3, <3>4, <3>5
    <3>10. BoardReads' /\ Bounded(blocks', longest')
      BY <1>1, <1>6
    <3> QED BY <3>7, <3>8, <3>9, <3>10 DEF Kept
  <2> QED BY <2>4, <2>7, <2>8
<1> QED BY <1>10, <1>11

LEMMA HostGoesKeeps == ASSUME FramingTypes, Kept, HostLeaves PROVE Kept'
<1>1. /\ online' = FALSE /\ online /\ toHost' = <<>>
      /\ UNCHANGED <<open, place, got, len, out, heard, blocks, replies, longest, wrong, tornBlock>>
  BY DEF HostLeaves, boardVars, hostVars, history
<1>2. PICK m \in 0 .. Len(toBoard) : toBoard' = SubSeq(toBoard, 1, m)
  BY DEF HostLeaves
<1>3. PICK str \in Text, bs \in Seq(Nat), g \in Nat : str = toBoard /\ bs = blocks /\ g = CharsTaken
  <2>1. CharsTaken \in Nat
    BY FramingSizes DEF CharsTaken, FramingTypes
  <2> QED BY <2>1 DEF FramingTypes
<1>4. CharsTaken' = g
  BY <1>1, <1>3 DEF CharsTaken
<1>5. BoardReads'
  <2>1. ASSUME open, place # "hung" PROVE BoardLine(SubSeq(str, 1, m), bs, g, FALSE)
    <3>1. BoardLine(str, bs, g, TRUE)
      <4>1. online = TRUE
        BY <1>1 DEF FramingTypes
      <4> QED BY <1>3, <2>1, <4>1 DEF Kept, BoardReads
    <3>2. m \in 0 .. Len(str)
      BY <1>3
    <3> QED BY <3>1, <3>2, BoardLoses
  <2> QED BY <1>1, <1>2, <1>3, <1>4, <2>1 DEF BoardReads, Kept
<1> QED BY <1>1, <1>5 DEF Kept, HostHears

LEMMA KeptStep ==
    ASSUME FramingTypes, longest < Power(HeadLen) => Kept,
           [FramingNext]_framingVars, longest' < Power(HeadLen)
    PROVE  Kept'
<1>1. PICK p \in Nat : p = Power(HeadLen)
  BY FramingSizes, PowerIsNumber
<1>2. longest \in Nat /\ longest' \in Nat /\ longest <= longest'
  <2>1. CASE UNCHANGED longest
    BY <2>1 DEF FramingTypes
  <2>2. ASSUME NEW n \in Nat, longest' = Larger(n) PROVE longest' \in Nat /\ longest <= longest'
    BY <2>2, LargerIs DEF FramingTypes
  <2>3. \/ UNCHANGED longest
        \/ \E n \in Nat : longest' = Larger(n)
    BY FramingSizes DEF FramingNext, Board, ReadHead, ReadBody, ReadEnded, Poll, Disconnected, Hangs, Reply, transmit,
          HostReads, HostLeaves, HostSends, framingVars, history
  <2> QED BY <2>1, <2>2, <2>3 DEF FramingTypes
<1>3. longest < Power(HeadLen)
  BY <1>1, <1>2
<1>4. Kept
  BY <1>3
<1>5. CASE Board
  BY <1>3, <1>4, <1>5, ReadHeadKeeps, ReadBodyKeeps, ReadEndedKeeps, PollKeeps,
     EndKeeps, ReplyKeeps, transmitKeeps DEF Board
<1>6. CASE HostReads \/ HostLeaves
  BY <1>3, <1>4, <1>6, HostReadsKeeps, HostGoesKeeps
<1>7. CASE \E n \in Lengths : HostSends(n)
  BY <1>4, <1>7, HostSendsKeeps
<1>8. CASE UNCHANGED framingVars
  <2>1. UNCHANGED <<open, place, got, len, out, toBoard, toHost, online, heard, blocks, replies, longest, wrong,
                    tornBlock>>
    BY <1>8 DEF framingVars, boardVars, lineVars, hostVars, history
  <2>2. CharsTaken' = CharsTaken
    BY <2>1 DEF CharsTaken
  <2> QED BY <1>4, <2>1, <2>2 DEF Kept, BoardReads, HostHears
<1> QED BY <1>5, <1>6, <1>7, <1>8 DEF FramingNext

LEMMA SmashedStep ==
    ASSUME FramingTypes, FramingTypes', SmashedOnlyByLongBlocks, longest < Power(HeadLen) => Kept,
           [FramingNext]_framingVars
    PROVE  SmashedOnlyByLongBlocks'
<1>1. PICK h \in Nat, k \in Nat : h = HeadLen /\ k = h - 1
  BY FramingSizes
<1>2. PICK p \in Nat, q \in Nat : p = Power(h) /\ q = Power(k) /\ q <= p
  BY <1>1, PowerIsNumber, PowerMonotone
<1>3. longest \in Nat /\ longest' \in Nat
  BY DEF FramingTypes
<1>4. CASE ReadHead
  <2> SUFFICES ASSUME smashed', ~smashed, longest < q PROVE FALSE
    <3>1. longest' = longest
      BY <1>4 DEF ReadHead
    <3> QED BY <1>1, <1>2, <1>3, <3>1 DEF SmashedOnlyByLongBlocks
  <2>1. place = "head" /\ toBoard # <<>> /\ got < HeadLen /\ got \in Nat
    BY <1>4 DEF ReadHead, Takes, FramingTypes
  <2>2. longest < Power(HeadLen)
    BY <1>1, <1>2, <1>3
  <2>3. PICK m : m = IF Head(toBoard) = "X" THEN len ELSE Append(len, Head(toBoard))
    OBVIOUS
  <2>4. PICK b \in Nat : b <= longest /\ b < Power(HeadLen) /\ m = DigitsOf(b, got + 1)
    BY <2>1, <2>2, <2>3, HeadTaken
  <2>5. ~(got + 1 < HeadLen) /\ Len(m) >= HeadLen
    BY <1>4, <2>3 DEF ReadHead, TakeHead
  <2>6. got + 1 = HeadLen
    BY <1>1, <2>1, <2>5
  <2>7. Len(m) = Shown(b)
    BY <2>4, <2>6, DigitsRead
  <2>8. Shown(b) = h
    BY <1>1, <2>4, <2>5, <2>7, ShownIs
  <2>9. h # 0
    BY <1>1, FramingSizes
  <2>10. b >= Power(Shown(b) - 1)
    BY <2>4, <2>8, <2>9, ShownIs
  <2>11. b >= q
    BY <1>1, <1>2, <2>8, <2>10
  <2> QED BY <1>2, <1>3, <2>4, <2>11
<1>5. CASE ReadEnded
  <2> SUFFICES ASSUME smashed', ~smashed, longest < q PROVE FALSE
    <3>1. longest' = longest
      BY <1>5 DEF ReadEnded
    <3> QED BY <1>1, <1>2, <1>3, <3>1 DEF SmashedOnlyByLongBlocks
  <2>1. PICK m : m = Append(len, "NUL")
    OBVIOUS
  <2>2. place = "head" /\ ~(got + 1 < HeadLen) /\ Len(m) >= HeadLen /\ open
    BY <1>5, <2>1 DEF ReadEnded, TakeHead, TakeBody
  <2>3. longest < Power(HeadLen)
    BY <1>1, <1>2, <1>3
  <2>4. PICK g \in Nat : g = got /\ g = h - 1 /\ g # 0 /\ g \in 0 .. HeadLen
    BY <1>1, <2>2, FramingSizes DEF FramingTypes
  <2>5. PICK bs \in Seq(Nat), x \in Nat : bs = blocks /\ x = longest
    BY DEF FramingTypes
  <2>6. bs # <<>> /\ len = DigitsOf(bs[1], g) /\ Bounded(bs, x)
    BY <2>2, <2>3, <2>4, <2>5 DEF Kept, BoardReads
  <2>7. PICK b \in Nat : b = bs[1] /\ b <= x /\ b < p
    BY <1>1, <1>2, <2>3, <2>5, <2>6, FirstBounded
  <2>8. PICK d, w, o \in Nat :
          d = HeadLen /\ w = Shown(b) /\ w <= d /\ d >= 1 /\ o = Zeros(b) /\ o = d - w
    BY <1>1, <1>2, <2>7, ZerosAre
  <2>9. Len(len) = (IF g <= o THEN 0 ELSE g - o) /\ len \in Seq(Characters)
    <3>1. b < Power(HeadLen)
      BY <1>1, <1>2, <2>7
    <3>2. /\ DigitsOf(b, g) \in Seq(Characters)
          /\ Len(DigitsOf(b, g)) = IF g <= Zeros(b) THEN 0 ELSE g - Zeros(b)
      BY <2>4, <3>1, DigitsAre
    <3> QED BY <2>6, <2>7, <2>8, <3>2
  <2>10. Len(m) = Len(len) + 1
    <3>1. "NUL" \in Characters
      BY DEF Characters
    <3>2. PICK l \in Seq(Characters) : l = len
      BY <2>9
    <3> QED BY <2>1, <3>1, <3>2, AppendProperties
  <2>11. w = h
    BY <1>1, <2>2, <2>4, <2>8, <2>9, <2>10
  <2>12. b >= Power(Shown(b) - 1)
    <3>1. b < Power(HeadLen)
      BY <1>1, <1>2, <2>7
    <3>2. Shown(b) # 0
      BY <1>1, <2>8, <2>11, FramingSizes
    <3> QED BY <3>1, <3>2, ShownIs
  <2>13. b >= q
    BY <1>1, <1>2, <2>8, <2>11, <2>12
  <2> QED BY <1>2, <1>3, <2>5, <2>7, <2>13
<1>6. CASE ~ReadHead /\ ~ReadEnded
  <2>1. smashed' = smashed
    BY <1>6 DEF FramingNext, Board, ReadBody, TakeBody, Poll, Disconnected, Hangs, Reply, transmit,
          HostReads, HostLeaves, HostSends, framingVars, boardVars
  <2>2. longest' = longest \/ \E n \in Nat : longest' = Larger(n)
    BY FramingSizes DEF FramingNext, Board, ReadHead, ReadBody, ReadEnded, Poll, Disconnected, Hangs, Reply, transmit,
          HostReads, HostLeaves, HostSends, framingVars, history
  <2>3. longest <= longest'
    BY <1>3, <2>2, LargerIs
  <2> QED BY <1>1, <1>2, <1>3, <2>1, <2>3 DEF SmashedOnlyByLongBlocks
<1> QED BY <1>4, <1>5, <1>6

LEMMA KeptInit == ASSUME FramingInit PROVE Kept
<1>1. PICK off : off = [k \in 1 .. 1 |-> 0]
  OBVIOUS
<1>2. <<>> \in Text /\ <<>> \in Seq(Nat) /\ Len(<<>>) = 0 /\ <<>> \o <<>> = <<>>
  BY EmptyText, ConcatEmptySeq
<1>3. Frames(<<>>, <<>>, off) /\ Tight(<<>>, off) /\ off[1] = 0
  BY <1>1, <1>2 DEF Frames, Offsets, Written, Gaps, Tight
<1>4. ToBoard(<<>>, <<>>, off, 0, TRUE) /\ ToHost(<<>>, <<>>, off, <<>>)
  BY <1>2, <1>3 DEF ToBoard, ToHost
<1>5. BoardReads
  BY <1>4 DEF FramingInit, BoardReads, BoardLine, CharsTaken
<1>6. HostHears
  BY <1>2, <1>4 DEF FramingInit, HostHears, HostLine
<1> QED BY <1>2, <1>5, <1>6 DEF FramingInit, Kept, Bounded

(* Whatever the base, the sizes and the lengths, and however the characters *)
(* of both sides, the pings and the host's leaving interleave: as long as   *)
(* no length needs more digits than the head has, readBlock reads the       *)
(* blocks and the host the replies with the lengths they were sent with and *)
(* in their order, no ping falls into a reply, and the head's array is      *)
(* written past its end only after a length that takes all of its digits;   *)
(* and when the host leaves within a frame, read()'s 0 makes a block of it  *)
(* only if the last character was missing, of the body or of a head that    *)
(* shows one digit.                                                         *)
THEOREM FramingSoundThm == FramingSpec => [](FramingSound /\ OnlyTheEndTorn)
<1>1. FramingInit => FramingInv
  BY TypesInit, KeptInit DEF FramingInv, FramingInit, SmashedOnlyByLongBlocks
<1>2. FramingInv /\ [FramingNext]_framingVars => FramingInv'
  BY TypesStep, KeptStep, SmashedStep DEF FramingInv
<1>3. FramingInv => FramingSound /\ OnlyTheEndTorn
  <2> SUFFICES ASSUME FramingInv PROVE FramingSound /\ OnlyTheEndTorn
    OBVIOUS
  <2>1. PICK p \in Nat : p = Power(HeadLen)
    BY FramingSizes, PowerIsNumber
  <2>2. FramesKept /\ OnlyTheEndTorn
    <3>1. longest \in Nat /\ (longest < p => ~wrong /\ tornBlock # "other")
      BY <2>1 DEF FramingInv, FramingTypes, Kept
    <3> QED BY <2>1, <3>1 DEF FramesKept, OnlyTheEndTorn
  <2> QED BY <2>2, TypesEnough DEF FramingInv, FramingSound
<1> QED BY <1>1, <1>2, <1>3, PTL DEF FramingSpec
=============================================================================
