----------------------------- MODULE JumpTable -----------------------------
(***************************************************************************)
(* The jump table behind the counted "goto" command: the global array      *)
(* jumps[8] with its fill count nJumps (CPX_cpp.ino:57-60), gotox and      *)
(* getJumpCount (Lang.cpp:205-227, 291-297), and the reset at the top of   *)
(* every block (CPX_cpp.ino:307).                                          *)
(*                                                                         *)
(* A behaviour of this module is any sequence of counted gotos, executed   *)
(* with any labels and counts; the Interpreter module runs real programs   *)
(* on top of it.  Counters are C ints: they wrap at the width of an int.   *)
(***************************************************************************)
EXTENDS Integers, Sequences, FiniteSets

CONSTANTS
    Labels,     \* the labels that counted gotos name
    IntMax,     \* largest C int (32767 on the board)
    JumpSlots   \* length of the array jumps (8 in the code)

ASSUME LabelsAssumption == IsFiniteSet(Labels)
ASSUME IntMaxAssumption == IntMax \in Nat \ {0}
ASSUME JumpSlotsAssumption == JumpSlots \in Nat \ {0}

VARIABLES
    jumps,      \* the first nJumps entries of the array, in order
    overrun,    \* an entry was stored past the end of the array
    taken,      \* history: jumps granted per label since the block began
    granted,    \* history: the count each label was first registered with
    wrapped     \* history: some counter went below the smallest int

tableVars == <<jumps, overrun, taken, granted, wrapped>>

IntMin == -(IntMax + 1)
CInt   == IntMin .. IntMax

\* jumpTYPE (Lang.h:13-16).
JumpEntry == [label : Labels, count : CInt]

\* The C decrement of an int.
Dec(n) == IF n = IntMin THEN IntMax ELSE n - 1

-----------------------------------------------------------------------------

Entries(l) == {i \in 1..Len(jumps) : jumps[i].label = l}

\* The scan of getJumpCount stops at the first entry with the label.
First(l) == CHOOSE i \in Entries(l) : \A j \in Entries(l) : i <= j

\* What getJumpCount returns: -1 stands for "no entry", and is also what an
\* entry whose counter has reached -1 returns.
JumpCount(l) == IF Entries(l) = {} THEN -1 ELSE jumps[First(l)].count

\* getJumpCount's side effect: the entry it finds loses one.
Decremented(l) ==
    IF Entries(l) = {} THEN jumps
                       ELSE [jumps EXCEPT ![First(l)].count = Dec(@)]

Registers(l) == JumpCount(l) = -1

\* The k of gotox, and its test "k > 1".
Remaining(l, c) == IF Registers(l) THEN Dec(c) ELSE JumpCount(l)

\* Mutant of Jumps: the test reads "k > 0".
Jumps_positive(l, c) == Remaining(l, c) > 0

Jumps(l, c) == Remaining(l, c) > 1

-----------------------------------------------------------------------------

NoCounts == [l \in Labels |-> 0]

TableInit ==
    /\ jumps = << >>
    /\ overrun = FALSE
    /\ taken = NoCounts
    /\ granted = NoCounts
    /\ wrapped = FALSE

\* loop() sets nJumps = 0 before it reads the next block.
NewBlock ==
    /\ ~overrun
    /\ jumps' = << >>
    /\ taken' = NoCounts
    /\ granted' = NoCounts
    /\ wrapped' = FALSE
    /\ UNCHANGED overrun

\* The histories of a visit; they are given up once a counter has wrapped.
Count(l, c) ==
    IF wrapped'
    THEN taken' = NoCounts /\ granted' = NoCounts
    ELSE /\ granted' = IF Entries(l) = {} THEN [granted EXCEPT ![l] = c] ELSE granted
         /\ taken' = IF Jumps(l, c) THEN [taken EXCEPT ![l] = @ + 1] ELSE taken

\* One execution of  goto where=l count=c.
Visit(l, c) ==
    /\ ~overrun
    /\ wrapped' = \/ wrapped
                  \/ Entries(l) # {} /\ JumpCount(l) = IntMin
                  \/ Registers(l) /\ c = IntMin
    /\ Count(l, c)
    /\ IF Registers(l) /\ Len(jumps) = JumpSlots
       THEN overrun' = TRUE /\ jumps' = Decremented(l)
       ELSE /\ UNCHANGED overrun
            /\ jumps' = IF Registers(l)
                        THEN Append(Decremented(l), [label |-> l, count |-> Dec(c)])
                        ELSE Decremented(l)

TableNext ==
    \/ NewBlock
    \/ \E l \in Labels, c \in CInt : Visit(l, c)

TableSpec == TableInit /\ [][TableNext]_tableVars

-----------------------------------------------------------------------------

(* The table is a list of label/count pairs that fits the array, and the   *)
(* histories have their types.                                             *)
TableTypeOK ==
    /\ jumps \in Seq(JumpEntry)
    /\ Len(jumps) <= JumpSlots
    /\ overrun \in BOOLEAN
    /\ taken \in [Labels -> Nat]
    /\ granted \in [Labels -> CInt]
    /\ wrapped \in BOOLEAN

(* Until a counter wraps or the array overflows, a label has at most two   *)
(* entries: the first visit adds one, and the visit that finds the counter *)
(* at -1 takes it for "not found" (Lang.cpp:211) and adds the other.  Then *)
(* the first entry is at -2 or below and hides the second for good.        *)
TwoEntriesPerLabel ==
    ~wrapped /\ ~overrun => \A l \in Labels :
        /\ Cardinality(Entries(l)) <= 2
        /\ Cardinality(Entries(l)) = 2 => JumpCount(l) < -1

(* Until then, the counted gotos of one label together jump no             *)
(* more often than the count of the first of them allows, or once when     *)
(* that count is not positive ("count = number of times jump is allowed",  *)
(* cpx.rb:209): the entry that is added twice costs at most one more jump. *)
JumpsWithinCount ==
    ~wrapped /\ ~overrun => \A l \in Labels :
        taken[l] <= IF granted[l] > 1 THEN granted[l] ELSE 1

(* A program with at most JumpSlots \div 2 labels does not write past the  *)
(* end of jumps (gotox stores at jumps[nJumps] unchecked, Lang.cpp:213)    *)
(* before one of its counters wraps.                                       *)
FewLabelsFit ==
    overrun => wrapped \/ 2 * Cardinality(Labels) > JumpSlots

(* What gotox keeps of its table, for any order of the counted gotos.       *)
TableSound == TableTypeOK /\ TwoEntriesPerLabel /\ JumpsWithinCount /\ FewLabelsFit

=============================================================================
