-------------------------- MODULE JumpTable_proofs --------------------------
(***************************************************************************)
(* Proofs about JumpTable, for every finite set of labels, every width of  *)
(* an int and every length of the array.                                   *)
(***************************************************************************)
EXTENDS JumpTable, TLAPS, FiniteSetTheorems, SequenceTheorems, WellFoundedInduction

(* What is left to grant to a label whose first entry counts n: n jumps,   *)
(* or the one jump of the second registration.                             *)
Left(n) == IF n > 1 THEN n ELSE 1

Limit(l) == IF granted[l] > 1 THEN granted[l] ELSE 1

NoEntry(l) == Entries(l) = {} /\ taken[l] = 0

OneEntry(l) ==
    \E i \in 1..Len(jumps) :
        /\ Entries(l) = {i}
        /\ taken[l] + Left(jumps[i].count) <= Limit(l)

TwoEntries(l) ==
    \E i, j \in 1..Len(jumps) :
        /\ i < j
        /\ Entries(l) = {i, j}
        /\ jumps[i].count < -1
        /\ taken[l] <= Limit(l)

(* The life of a label in a block: unregistered, registered, registered    *)
(* twice.                                                                  *)
LabelInv(l) == NoEntry(l) \/ OneEntry(l) \/ TwoEntries(l)

TableInv ==
    /\ TableTypeOK
    /\ ~wrapped /\ ~overrun => \A l \in Labels : LabelInv(l)
    /\ FewLabelsFit

-----------------------------------------------------------------------------

LEMMA Minimum ==
    ASSUME NEW S \in SUBSET Nat, S # {}
    PROVE  \E n \in S : \A m \in S : n <= m
<1>1. \E n \in S : \A m \in S : ~ (<<m, n>> \in OpToRel(<, Nat))
  BY NatLessThanWellFounded, WFMin
<1>2. \A m, n \in S : ~ (<<m, n>> \in OpToRel(<, Nat)) => n <= m
  BY DEF OpToRel
<1> QED
  BY <1>1, <1>2

LEMMA PairCardinality ==
    ASSUME NEW a, NEW b
    PROVE  /\ IsFiniteSet({a, b}) /\ Cardinality({a, b}) <= 2
           /\ a # b => Cardinality({a, b}) = 2
<1> DEFINE S == {a}
<1>1. IsFiniteSet(S) /\ Cardinality(S) = 1
  BY FS_Singleton
<1>2. {a, b} = S \cup {b} /\ (b \in S <=> a = b)
  OBVIOUS
<1> HIDE DEF S
<1>3. /\ IsFiniteSet(S \cup {b})
      /\ Cardinality(S \cup {b}) = IF b \in S THEN Cardinality(S) ELSE Cardinality(S) + 1
  BY <1>1, FS_AddElement
<1> QED
  BY <1>1, <1>2, <1>3

(* First(l) is the least entry of a registered label.                      *)
LEMMA FirstEntry ==
    ASSUME TableTypeOK, NEW l \in Labels, Entries(l) # {}
    PROVE  /\ First(l) \in Entries(l)
           /\ \A j \in Entries(l) : First(l) <= j
<1>1. Entries(l) \in SUBSET Nat
  BY DEF Entries, TableTypeOK
<1>2. \E i \in Entries(l) : \A j \in Entries(l) : i <= j
  BY <1>1, Minimum
<1> QED
  BY <1>2 DEF First

LEMMA DecType ==
    ASSUME NEW n \in CInt
    PROVE  /\ Dec(n) \in CInt
           /\ n # IntMin => Dec(n) = n - 1
BY IntMaxAssumption DEF CInt, IntMin, Dec

(* getJumpCount changes one counter and nothing else.                      *)
LEMMA DecrementedType ==
    ASSUME TableTypeOK, NEW l \in Labels
    PROVE  /\ Decremented(l) \in Seq(JumpEntry)
           /\ Len(Decremented(l)) = Len(jumps)
           /\ \A i \in 1..Len(jumps) : Decremented(l)[i].label = jumps[i].label
           /\ \A i \in 1..Len(jumps) :
                Decremented(l)[i].count =
                    IF Entries(l) # {} /\ i = First(l)
                    THEN Dec(jumps[i].count) ELSE jumps[i].count
<1>1. CASE Entries(l) = {}
  BY <1>1 DEF Decremented, TableTypeOK
<1>2. CASE Entries(l) # {}
  <2>1. First(l) \in 1..Len(jumps)
    BY <1>2, FirstEntry DEF Entries
  <2>2. jumps[First(l)] \in JumpEntry
    BY <2>1, ElementOfSeq DEF TableTypeOK
  <2> DEFINE e == [jumps[First(l)] EXCEPT !.count = Dec(@)]
  <2>3. /\ e \in JumpEntry
        /\ e.label = jumps[First(l)].label
        /\ e.count = Dec(jumps[First(l)].count)
    BY <2>2, DecType DEF JumpEntry
  <2>4. Decremented(l) = [jumps EXCEPT ![First(l)] = e]
    BY <1>2 DEF Decremented
  <2> HIDE DEF e
  <2>5. /\ Decremented(l) \in Seq(JumpEntry)
        /\ Len(Decremented(l)) = Len(jumps)
        /\ \A i \in 1..Len(jumps) :
             Decremented(l)[i] = IF i = First(l) THEN e ELSE jumps[i]
    BY <2>1, <2>3, <2>4, ExceptSeq DEF TableTypeOK
  <2> QED
    BY <1>2, <2>3, <2>5
<1> QED
  BY <1>1, <1>2

LEMMA JumpCountType ==
    ASSUME TableTypeOK, NEW l \in Labels
    PROVE  /\ JumpCount(l) \in CInt
           /\ Entries(l) # {} => JumpCount(l) = jumps[First(l)].count
<1>1. -1 \in CInt
  BY IntMaxAssumption DEF CInt, IntMin
<1>2. Entries(l) # {} => First(l) \in 1..Len(jumps)
  BY FirstEntry DEF Entries
<1>3. ASSUME Entries(l) # {} PROVE jumps[First(l)].count \in CInt
  <2>1. jumps[First(l)] \in JumpEntry
    BY <1>2, <1>3, ElementOfSeq DEF TableTypeOK
  <2> QED
    BY <2>1 DEF JumpEntry
<1> QED
  BY <1>1, <1>3, Zenon DEF JumpCount

-----------------------------------------------------------------------------

LEMMA NoCountsType ==
    NoCounts \in [Labels -> Nat] /\ NoCounts \in [Labels -> CInt]
<1>1. 0 \in CInt
  BY IntMaxAssumption DEF CInt, IntMin
<1> QED
  BY <1>1 DEF NoCounts

LEMMA EmptyTable ==
    << >> \in Seq(JumpEntry) /\ Len(<< >>) <= JumpSlots
BY JumpSlotsAssumption, EmptySeq

LEMMA InitTableInv == TableInit => TableInv
<1> SUFFICES ASSUME TableInit PROVE TableInv
  OBVIOUS
<1>2. TableTypeOK
  BY NoCountsType, EmptyTable DEF TableInit, TableTypeOK
<1>3. \A l \in Labels : LabelInv(l)
  BY DEF TableInit, LabelInv, NoEntry, Entries, NoCounts
<1> QED
  BY <1>2, <1>3 DEF TableInv, FewLabelsFit, TableInit

LEMMA NewBlockTableInv == TableInv /\ NewBlock => TableInv'
<1> SUFFICES ASSUME TableInv, NewBlock PROVE TableInv'
  OBVIOUS
<1>2. TableTypeOK'
  BY NoCountsType, EmptyTable DEF TableInv, NewBlock, TableTypeOK
<1>3. \A l \in Labels : LabelInv(l)'
  BY DEF NewBlock, LabelInv, NoEntry, Entries, NoCounts
<1> QED
  BY <1>2, <1>3 DEF TableInv, FewLabelsFit, NewBlock

LEMMA VisitTableTypeOK ==
    ASSUME TableTypeOK, NEW l \in Labels, NEW c \in CInt, Visit(l, c)
    PROVE  TableTypeOK'
<1>1. 0 \in CInt
  BY IntMaxAssumption DEF CInt, IntMin
<1>2. /\ taken' \in [Labels -> Nat]
      /\ granted' \in [Labels -> CInt]
  BY <1>1, SMTT(15) DEF TableTypeOK, Visit, Count, NoCounts
<1>3. jumps' \in Seq(JumpEntry) /\ Len(jumps') <= JumpSlots
  <2> DEFINE e == [label |-> l, count |-> Dec(c)]
  <2>1. e \in JumpEntry
    BY DecType DEF JumpEntry
  <2>2. CASE Registers(l) /\ Len(jumps) # JumpSlots
    <3>1. jumps' = Append(Decremented(l), e)
      BY <2>2 DEF Visit
    <3> HIDE DEF e
    <3> QED
      BY <2>1, <2>2, <3>1, DecrementedType, AppendProperties, JumpSlotsAssumption
      DEF TableTypeOK
  <2>3. CASE ~(Registers(l) /\ Len(jumps) # JumpSlots)
    BY <2>3, DecrementedType DEF Visit, TableTypeOK
  <2> QED
    BY <2>2, <2>3
<1>4. overrun' \in BOOLEAN /\ wrapped' \in BOOLEAN
  BY DEF TableTypeOK, Visit
<1> QED
  BY <1>2, <1>3, <1>4 DEF TableTypeOK
-----------------------------------------------------------------------------

(* What one visit does to the table when no counter wraps: the entries     *)
(* there keep their labels, the first entry of l loses one, and a new      *)
(* entry appears when l was taken for unregistered and the array has room. *)
LEMMA VisitTable ==
    ASSUME TableTypeOK, NEW l \in Labels, NEW c \in CInt, Visit(l, c), ~wrapped'
    PROVE  /\ \A i \in 1..Len(jumps) : jumps'[i].label = jumps[i].label
           /\ \A i \in 1..Len(jumps) :
                jumps'[i].count = IF Entries(l) # {} /\ i = First(l)
                                  THEN jumps[i].count - 1 ELSE jumps[i].count
           /\ \/ Len(jumps') = Len(jumps) /\ (Registers(l) => overrun')
              \/ /\ Registers(l)
                 /\ Len(jumps') = Len(jumps) + 1
                 /\ jumps'[Len(jumps) + 1].label = l
                 /\ jumps'[Len(jumps) + 1].count = c - 1
<1> DEFINE e == [label |-> l, count |-> Dec(c)]
<1>1. e \in JumpEntry
  BY DecType DEF JumpEntry
<1>2. jumps' = Decremented(l) \/ (jumps' = Append(Decremented(l), e) /\ Registers(l))
  BY DEF Visit
<1>3. jumps' = Decremented(l) => ~Registers(l) \/ overrun'
  <2>1. Append(Decremented(l), e) # Decremented(l)
    BY <1>1, DecrementedType, AppendProperties, LenProperties
  <2> QED
    BY <2>1 DEF Visit
<1>4. Registers(l) => Dec(c) = c - 1
  BY DecType DEF Visit
<1>5. Entries(l) # {} => Dec(JumpCount(l)) = JumpCount(l) - 1
  BY DecType, JumpCountType DEF Visit
<1>6. \A i \in 1..Len(jumps) :
         /\ Decremented(l)[i].label = jumps[i].label
         /\ Decremented(l)[i].count = IF Entries(l) # {} /\ i = First(l)
                                      THEN jumps[i].count - 1 ELSE jumps[i].count
  BY <1>5, DecrementedType, JumpCountType
<1>7. CASE jumps' = Decremented(l)
  BY <1>3, <1>6, <1>7, DecrementedType
<1>8. CASE jumps' = Append(Decremented(l), e) /\ Registers(l)
  <2>1. e.label = l /\ e.count = c - 1
    BY <1>4, <1>8
  <2> HIDE DEF e
  <2>2. /\ Len(jumps') = Len(jumps) + 1
        /\ \A i \in 1..Len(jumps) : jumps'[i] = Decremented(l)[i]
        /\ jumps'[Len(jumps) + 1] = e
    BY <1>1, <1>8, DecrementedType, AppendProperties
  <2> QED
    BY <1>6, <1>8, <2>1, <2>2
<1> QED
  BY <1>2, <1>7, <1>8

LEMMA VisitEntries ==
    ASSUME TableTypeOK, NEW l \in Labels, NEW c \in CInt, Visit(l, c), ~wrapped'
    PROVE  /\ \A m \in Labels \ {l} : Entries(m)' = Entries(m)
           /\ ~Registers(l) => Entries(l)' = Entries(l)
           /\ Registers(l) => \/ Entries(l)' = Entries(l) /\ overrun'
                              \/ /\ Entries(l)' = Entries(l) \cup {Len(jumps) + 1}
                                 /\ Len(jumps') = Len(jumps) + 1
                                 /\ jumps'[Len(jumps) + 1].count = c - 1
<1>1. Len(jumps) \in Nat
  BY LenProperties DEF TableTypeOK
<1>2. CASE Len(jumps') = Len(jumps) /\ (Registers(l) => overrun')
  BY <1>2, VisitTable DEF Entries
<1>3. CASE /\ Registers(l)
           /\ Len(jumps') = Len(jumps) + 1
           /\ jumps'[Len(jumps) + 1].label = l
           /\ jumps'[Len(jumps) + 1].count = c - 1
  <2>1. 1..Len(jumps') = 1..Len(jumps) \cup {Len(jumps) + 1}
    BY <1>1, <1>3
  <2>2. \A i \in 1..Len(jumps) : jumps'[i].label = jumps[i].label
    BY VisitTable
  <2> QED
    BY <1>1, <1>3, <2>1, <2>2 DEF Entries
<1> QED
  BY <1>2, <1>3, VisitTable

LEMMA VisitOther ==
    ASSUME TableTypeOK, NEW l \in Labels, NEW c \in CInt, Visit(l, c), ~wrapped',
           NEW m \in Labels \ {l}, LabelInv(m)
    PROVE  LabelInv(m)'
<1>1. Entries(m)' = Entries(m) /\ Len(jumps') >= Len(jumps) /\ Len(jumps) \in Nat
  BY VisitEntries, VisitTable, LenProperties DEF TableTypeOK
<1>2. taken'[m] = taken[m] /\ granted'[m] = granted[m]
  BY DEF Visit, Count, TableTypeOK
<1>3. \A i \in Entries(m) : i \in 1..Len(jumps') /\ jumps'[i].count = jumps[i].count
  <2>1. Entries(l) # {} => First(l) \notin Entries(m)
    BY FirstEntry DEF Entries
  <2>2. Entries(m) \subseteq 1..Len(jumps)
    BY DEF Entries
  <2> QED
    BY <1>1, <2>1, <2>2, VisitTable, LenProperties DEF TableTypeOK
<1>4. CASE NoEntry(m)
  BY <1>1, <1>2, <1>4 DEF NoEntry, LabelInv
<1>5. CASE OneEntry(m)
  BY <1>1, <1>2, <1>3, <1>5 DEF OneEntry, LabelInv, Limit
<1>6. CASE TwoEntries(m)
  BY <1>1, <1>2, <1>3, <1>6 DEF TwoEntries, LabelInv, Limit
<1> QED
  BY <1>4, <1>5, <1>6 DEF LabelInv

(* The visited label moves along: NoEntry to OneEntry, OneEntry to itself  *)
(* while its counter is not -1 and to TwoEntries when it is, TwoEntries to *)
(* itself.                                                                 *)
LEMMA VisitSelf ==
    ASSUME TableTypeOK, NEW l \in Labels, NEW c \in CInt, Visit(l, c), ~wrapped',
           ~overrun', LabelInv(l)
    PROVE  LabelInv(l)'
<1>1. /\ taken' = IF Jumps(l, c) THEN [taken EXCEPT ![l] = @ + 1] ELSE taken
      /\ granted' = IF Entries(l) = {} THEN [granted EXCEPT ![l] = c] ELSE granted
      /\ Registers(l) => Dec(c) = c - 1
  BY DecType DEF Visit, Count
<1>2. Len(jumps) \in Nat /\ Len(jumps') \in Nat /\ Len(jumps') >= Len(jumps)
  BY VisitTable, LenProperties DEF TableTypeOK
<1>3. /\ taken[l] \in Nat /\ granted[l] \in Int /\ c \in Int
      /\ taken'[l] = IF Jumps(l, c) THEN taken[l] + 1 ELSE taken[l]
      /\ granted'[l] = IF Entries(l) = {} THEN c ELSE granted[l]
  BY <1>1 DEF TableTypeOK, CInt, IntMin
<1>4. CASE NoEntry(l)
  <2>1. Registers(l) /\ Entries(l) = {} /\ taken[l] = 0
    BY <1>4 DEF NoEntry, Registers, JumpCount
  <2>2. Jumps(l, c) <=> c - 1 > 1
    BY <1>1, <2>1 DEF Jumps, Remaining
  <2>3. /\ Entries(l)' = {Len(jumps) + 1}
        /\ Len(jumps) + 1 \in 1..Len(jumps')
        /\ jumps'[Len(jumps) + 1].count = c - 1
    BY <1>2, <2>1, VisitEntries
  <2>4. taken'[l] + Left(c - 1) <= IF granted'[l] > 1 THEN granted'[l] ELSE 1
    BY <1>3, <2>1, <2>2 DEF Left
  <2> QED
    BY <2>3, <2>4 DEF LabelInv, OneEntry, Limit
<1>5. CASE OneEntry(l)
  <2>1. PICK i \in 1..Len(jumps) :
            Entries(l) = {i} /\ taken[l] + Left(jumps[i].count) <= Limit(l)
    BY <1>5 DEF OneEntry
  <2>2. First(l) = i /\ JumpCount(l) = jumps[i].count /\ Entries(l) # {}
    BY <2>1, FirstEntry, JumpCountType
  <2>3. jumps[i].count \in Int /\ jumps'[i].count = jumps[i].count - 1
    BY <2>1, <2>2, VisitTable, JumpCountType, SMTT(15) DEF CInt, IntMin
  <2>4. CASE Registers(l)
    <3>1. jumps[i].count = -1
      BY <2>2, <2>4 DEF Registers
    <3>2. /\ Entries(l)' = {i, Len(jumps) + 1}
          /\ Len(jumps) + 1 \in 1..Len(jumps')
          /\ i \in 1..Len(jumps') /\ i < Len(jumps) + 1
      BY <1>2, <2>1, <2>4, VisitEntries
    <3>3. taken'[l] <= IF granted'[l] > 1 THEN granted'[l] ELSE 1
      BY <1>3, <2>1, <2>2, <3>1 DEF Left, Limit
    <3> QED
      BY <2>3, <3>1, <3>2, <3>3 DEF LabelInv, TwoEntries, Limit
  <2>5. CASE ~Registers(l)
    <3>1. Jumps(l, c) <=> jumps[i].count > 1
      BY <2>2, <2>5 DEF Jumps, Remaining
    <3>2. Entries(l)' = {i} /\ i \in 1..Len(jumps')
      BY <1>2, <2>1, <2>5, VisitEntries
    <3>3. taken'[l] + Left(jumps[i].count - 1)
             <= IF granted'[l] > 1 THEN granted'[l] ELSE 1
      BY <1>3, <2>1, <2>2, <2>3, <3>1 DEF Left, Limit
    <3> QED
      BY <2>3, <3>2, <3>3 DEF LabelInv, OneEntry, Limit
  <2> QED
    BY <2>4, <2>5
<1>6. CASE TwoEntries(l)
  <2>1. PICK i \in 1..Len(jumps), j \in 1..Len(jumps) :
            /\ i < j /\ Entries(l) = {i, j}
            /\ jumps[i].count < -1 /\ taken[l] <= Limit(l)
    BY <1>6 DEF TwoEntries
  <2>2. First(l) = i /\ JumpCount(l) = jumps[i].count /\ Entries(l) # {}
    <3>1. Entries(l) # {} /\ i \in Entries(l)
      BY <2>1
    <3>2. First(l) \in {i, j} /\ First(l) <= i
      BY <2>1, <3>1, FirstEntry
    <3>3. First(l) = i
      BY <1>2, <2>1, <3>2
    <3> QED
      BY <3>1, <3>3, JumpCountType
  <2>3. jumps[i].count \in Int /\ jumps'[i].count = jumps[i].count - 1
    <3>1. jumps[i].count \in Int
      BY <2>2, JumpCountType DEF CInt, IntMin
    <3>2. jumps'[i].count = jumps[i].count - 1
      BY <2>2, VisitTable
    <3> QED
      BY <3>1, <3>2
  <2>4. ~Registers(l) /\ ~Jumps(l, c)
    BY <2>1, <2>2, <2>3 DEF Registers, Jumps, Remaining
  <2>5. /\ Entries(l)' = {i, j} /\ i \in 1..Len(jumps') /\ j \in 1..Len(jumps')
        /\ jumps'[i].count < -1
    BY <1>2, <2>1, <2>3, <2>4, VisitEntries
  <2>6. taken'[l] <= IF granted'[l] > 1 THEN granted'[l] ELSE 1
    BY <1>3, <2>1, <2>2, <2>4 DEF Limit
  <2> QED
    BY <2>1, <2>5, <2>6 DEF LabelInv, TwoEntries, Limit
<1> QED
  BY <1>4, <1>5, <1>6 DEF LabelInv

(* While every label has at most two entries, the entries are told apart   *)
(* by their label and by being its first or not; so a table that is full   *)
(* and about to take another entry has fewer than two slots per label.     *)
LEMMA VisitOverrun ==
    ASSUME TableTypeOK, NEW l \in Labels, NEW c \in CInt, Visit(l, c), overrun',
           \A m \in Labels : LabelInv(m)
    PROVE  2 * Cardinality(Labels) > JumpSlots
<1> DEFINE n == Len(jumps)
           rank(i) == IF i = First(jumps[i].label) THEN 1 ELSE 2
           slot == [i \in 1..(n + 1) |->
                      IF i = n + 1
                      THEN <<l, IF Entries(l) = {} THEN 1 ELSE 2>>
                      ELSE <<jumps[i].label, rank(i)>>]
<1>1. Registers(l) /\ n = JumpSlots /\ n \in Nat
  BY JumpSlotsAssumption DEF Visit, TableTypeOK
<1>2. \A i \in 1..n : jumps[i].label \in Labels /\ i \in Entries(jumps[i].label)
  <2> TAKE i \in 1..n
  <2>1. jumps[i] \in JumpEntry
    BY ElementOfSeq DEF TableTypeOK
  <2> QED
    BY <2>1 DEF JumpEntry, Entries
<1>3. \A m \in Labels : \A i, j \in Entries(m) :
         i # First(m) /\ j # First(m) => i = j
  <2> TAKE m \in Labels
  <2>1. CASE NoEntry(m)
    BY <2>1 DEF NoEntry
  <2>2. CASE OneEntry(m)
    BY <2>2 DEF OneEntry
  <2>3. CASE TwoEntries(m)
    <3>1. PICK a, b \in 1..n : Entries(m) = {a, b}
      BY <2>3 DEF TwoEntries
    <3>2. First(m) \in {a, b}
      BY <3>1, FirstEntry
    <3> QED
      BY <3>1, <3>2
  <2> QED
    BY <2>1, <2>2, <2>3 DEF LabelInv
<1>4. \A i \in Entries(l) : i = First(l)
  <2>1. CASE NoEntry(l)
    BY <2>1 DEF NoEntry
  <2>2. CASE OneEntry(l)
    BY <2>2, FirstEntry DEF OneEntry
  <2>3. CASE TwoEntries(l)
    <3>1. PICK a \in 1..n, b \in 1..n :
              a < b /\ Entries(l) = {a, b} /\ jumps[a].count < -1
      BY <2>3 DEF TwoEntries
    <3>2. First(l) \in {a, b} /\ First(l) <= a
      BY <3>1, FirstEntry
    <3>3. First(l) = a
      BY <1>1, <3>1, <3>2
    <3>4. JumpCount(l) = jumps[a].count
      BY <3>1, <3>3, JumpCountType
    <3> QED
      BY <1>1, <3>1, <3>4 DEF Registers
  <2> QED
    BY <2>1, <2>2, <2>3 DEF LabelInv
<1>5. slot \in [1..(n + 1) -> Labels \X {1, 2}]
  BY <1>2
<1>6. ASSUME NEW i \in 1..(n + 1), NEW j \in 1..(n + 1), i < j, slot[i] = slot[j]
      PROVE  FALSE
  <2>1. i \in 1..n /\ i # n + 1 /\ slot[i] = <<jumps[i].label, rank(i)>>
    BY <1>1, <1>6
  <2>2. CASE j = n + 1
    <3>1. jumps[i].label = l /\ rank(i) = IF Entries(l) = {} THEN 1 ELSE 2
      BY <1>6, <2>1, <2>2
    <3>2. i \in Entries(l) /\ i = First(l)
      BY <1>2, <1>4, <2>1, <3>1
    <3> QED
      BY <3>1, <3>2
  <2>3. CASE j # n + 1
    <3>1. j \in 1..n /\ slot[j] = <<jumps[j].label, rank(j)>>
      BY <1>1, <2>3
    <3>2. jumps[i].label = jumps[j].label /\ rank(i) = rank(j)
      BY <1>6, <2>1, <3>1
    <3>3. i # First(jumps[i].label) /\ j # First(jumps[i].label)
      BY <1>6, <3>2
    <3>4. i = j
      BY <1>2, <1>3, <2>1, <3>1, <3>2, <3>3
    <3> QED
      BY <1>6, <3>4
  <2> QED
    BY <2>2, <2>3
<1> HIDE DEF slot
<1>7. \A i, j \in 1..(n + 1) : slot[i] = slot[j] => i = j
  <2> SUFFICES ASSUME NEW i \in 1..(n + 1), NEW j \in 1..(n + 1),
                      slot[i] = slot[j], i # j
               PROVE  FALSE
    OBVIOUS
  <2>1. i < j \/ j < i
    BY <1>1
  <2> QED
    BY <1>6, <2>1
<1>8. slot \in Injection(1..(n + 1), Labels \X {1, 2})
  BY <1>5, <1>7 DEF Injection, IsInjective
<1>9. /\ IsFiniteSet(Labels \X {1, 2})
      /\ Cardinality(Labels \X {1, 2}) = Cardinality(Labels) * 2
  <2>3. IsFiniteSet({1, 2}) /\ Cardinality({1, 2}) = 2
    <3>1. 1 # 2
      OBVIOUS
    <3>2. PICK a, b : a = 1 /\ b = 2
      OBVIOUS
    <3>3. IsFiniteSet({a, b}) /\ Cardinality({a, b}) = 2
      BY <3>1, <3>2, PairCardinality
    <3> QED
      BY <3>2, <3>3
  <2> QED
    BY <2>3, FS_Product, LabelsAssumption
<1>10. Cardinality(1..(n + 1)) = n + 1
  BY <1>1, FS_Interval
<1>11. Cardinality(1..(n + 1)) <= Cardinality(Labels \X {1, 2})
  BY <1>8, <1>9, FS_Injection
<1>12. Cardinality(Labels) \in Nat
  BY LabelsAssumption, FS_CardinalityType
<1> QED
  BY <1>1, <1>9, <1>10, <1>11, <1>12

LEMMA VisitTableInv ==
    ASSUME TableInv, NEW l \in Labels, NEW c \in CInt, Visit(l, c)
    PROVE  TableInv'
<1>1. TableTypeOK /\ ~overrun
  BY DEF TableInv, Visit
<1>2. TableTypeOK'
  BY <1>1, VisitTableTypeOK
<1>3. wrapped => wrapped'
  BY DEF Visit
<1>4. ~wrapped' => \A m \in Labels : LabelInv(m)
  BY <1>1, <1>3 DEF TableInv
<1>5. ASSUME ~wrapped', ~overrun', NEW m \in Labels
      PROVE  LabelInv(m)'
  <2>1. CASE m = l
    BY <1>1, <1>4, <1>5, <2>1, VisitSelf
  <2>2. CASE m # l
    BY <1>1, <1>4, <1>5, <2>2, VisitOther
  <2> QED
    BY <2>1, <2>2
<1>6. overrun' /\ ~wrapped' => 2 * Cardinality(Labels) > JumpSlots
  BY <1>1, <1>4, VisitOverrun
<1> QED
  BY <1>2, <1>5, <1>6 DEF TableInv, FewLabelsFit

LEMMA StutterTableInv == TableInv /\ UNCHANGED tableVars => TableInv'
BY DEF tableVars, TableInv, TableTypeOK, FewLabelsFit, LabelInv, NoEntry, OneEntry, TwoEntries,
       Limit, Entries

LEMMA TableInductive == TableSpec => []TableInv
<1>1. TableInv /\ [TableNext]_tableVars => TableInv'
  BY NewBlockTableInv, VisitTableInv, StutterTableInv DEF TableNext
<1> QED
  BY <1>1, InitTableInv, PTL DEF TableSpec

LEMMA TableInvTwoEntries == TableInv => TwoEntriesPerLabel
<1> SUFFICES ASSUME TableInv, ~wrapped, ~overrun, NEW l \in Labels
             PROVE  /\ Cardinality(Entries(l)) <= 2
                    /\ Cardinality(Entries(l)) = 2 => JumpCount(l) < -1
  BY DEF TwoEntriesPerLabel
<1>1. TableTypeOK /\ LabelInv(l)
  BY DEF TableInv
<1>2. CASE NoEntry(l)
  BY <1>2, FS_EmptySet DEF NoEntry
<1>3. CASE OneEntry(l)
  <2>1. PICK i \in 1..Len(jumps) : Entries(l) = {i}
    BY <1>3 DEF OneEntry
  <2>2. Cardinality({i}) = 1
    BY FS_Singleton
  <2>3. Cardinality(Entries(l)) = 1
    BY <2>1, <2>2
  <2> QED
    BY <2>3
<1>4. CASE TwoEntries(l)
  <2>1. PICK i \in 1..Len(jumps), j \in 1..Len(jumps) :
            i < j /\ Entries(l) = {i, j} /\ jumps[i].count < -1
    BY <1>4 DEF TwoEntries
  <2>4. Cardinality(Entries(l)) <= 2
    BY <2>1, PairCardinality
  <2>5. First(l) \in {i, j} /\ First(l) <= i
    BY <1>1, <2>1, FirstEntry
  <2>6. Len(jumps) \in Nat
    BY <1>1, LenProperties DEF TableTypeOK
  <2>7. First(l) = i
    BY <2>1, <2>5, <2>6
  <2>8. JumpCount(l) = jumps[i].count
    BY <1>1, <2>1, <2>7, JumpCountType
  <2> QED
    BY <2>1, <2>4, <2>8
<1> QED
  BY <1>1, <1>2, <1>3, <1>4 DEF LabelInv

LEMMA TableInvJumps == TableInv => JumpsWithinCount
<1> SUFFICES ASSUME TableInv, ~wrapped, ~overrun, NEW l \in Labels
             PROVE  taken[l] <= Limit(l)
  BY DEF JumpsWithinCount, Limit
<1>1. TableTypeOK /\ LabelInv(l) /\ taken[l] \in Nat /\ granted[l] \in Int
  BY DEF TableInv, TableTypeOK, CInt, IntMin
<1>2. CASE NoEntry(l)
  BY <1>1, <1>2 DEF NoEntry, Limit
<1>3. CASE OneEntry(l)
  <2>1. PICK i \in 1..Len(jumps) : taken[l] + Left(jumps[i].count) <= Limit(l)
    BY <1>3 DEF OneEntry
  <2>2. jumps[i] \in JumpEntry
    BY <1>1, ElementOfSeq DEF TableTypeOK
  <2>3. jumps[i].count \in Int
    BY <2>2 DEF JumpEntry, CInt, IntMin
  <2> QED
    BY <1>1, <2>1, <2>3 DEF Left, Limit
<1>4. CASE TwoEntries(l)
  BY <1>4 DEF TwoEntries
<1> QED
  BY <1>1, <1>2, <1>3, <1>4 DEF LabelInv

-----------------------------------------------------------------------------

(* The jump table always has its type: at most JumpSlots entries of a      *)
(* label and an int.                                                       *)
THEOREM TableTypeCorrect == TableSpec => []TableTypeOK
BY TableInductive, PTL DEF TableInv

(* Until a counter wraps or the array overflows, gotox registers a label   *)
(* at most twice.                                                          *)
THEOREM TwoEntriesThm == TableSpec => []TwoEntriesPerLabel
BY TableInductive, TableInvTwoEntries, PTL

(* Until then, no label is jumped to more often than its count allows.     *)
THEOREM JumpsWithinCountThm == TableSpec => []JumpsWithinCount
BY TableInductive, TableInvJumps, PTL

(* gotox stores past the end of jumps only in a program with more labels   *)
(* than half of the slots, or after a counter has wrapped.                 *)
THEOREM FewLabelsFitThm == TableSpec => []FewLabelsFit
BY TableInductive, PTL DEF TableInv
(* All of it together: whatever counted gotos a program makes, in any       *)
(* order, the table keeps what gotox, getJumpCount and setJumpCount         *)
(* (Lang.cpp:168-224) rely on.                                              *)
THEOREM TableSoundThm == TableSpec => []TableSound
<1>1. TableTypeOK /\ TwoEntriesPerLabel /\ JumpsWithinCount /\ FewLabelsFit => TableSound
  BY DEF TableSound
<1> QED BY <1>1, TableTypeCorrect, TwoEntriesThm, JumpsWithinCountThm, FewLabelsFitThm, PTL
=============================================================================
