--------------------------------- MODULE Rfid ---------------------------------
(***************************************************************************)
(* The RFID reader library (rfidmaster/MFRC522.cpp): how one card of those *)
(* in the field is selected by its UID (PICC_Select: anticollision and     *)
(* cascade levels), the encrypted session with a MIFARE card, its value    *)
(* block, and the dump of its sectors.  A byte has ByteBits bits and a     *)
(* level of a UID LevelBytes bytes, where the source has 8 and 4; the      *)
(* cards and the radio are external.                                       *)
(***************************************************************************)
EXTENDS Integers, Sequences, FiniteSets

CONSTANTS
    ByteBits, LevelBytes,   \* 8 and 4
    CT,                     \* the cascade tag, a byte
    Uids,                   \* UIDs of the cards there are: sequences of bytes
    SectorBlocks, Sectors,  \* bound: blocks of a sector, sectors of a card
    MaxNoise,               \* bound: transmissions the radio spoils
    MaxMoves                \* bound: cards brought to the field or taken away

ASSUME RfidAssumption ==
    /\ {ByteBits, LevelBytes, SectorBlocks, Sectors} \subseteq Nat \ {0} /\ LevelBytes > 1
    /\ {MaxNoise, MaxMoves} \subseteq Nat

VARIABLES
    picc,       \* state of each card: away, idle, ready, active or halt
    level,      \* of a ready card: the cascade level it is at
    session,    \* external: the card that holds an encrypted session
    crypto,     \* MFCrypto1On of the reader
    op,         \* the function that runs, "none" between calls
    status,     \* what the last call returned
    sel,        \* locals of PICC_Select
    uid,        \* bytes of the class variable uid, as far as written
    size,       \* uid.size
    dump,       \* locals of the dump of a sector
    access,     \* what MIFARE_SetAccessBits was given and wrote
    volatile, stored,   \* external: the volatile value of the card, its value block
    awaits,     \* external: the card awaits the data of a two-step command
    believed,   \* the value the reader believes to be in the volatile memory
    noise, moves

rfidVars == <<picc, level, session, crypto, op, status, sel, uid, size, dump, access,
              volatile, stored, awaits, believed, noise, moves>>
cardVars == <<picc, level, session>>
valueVars == <<volatile, stored, awaits, believed>>
budget == <<noise, moves>>

-----------------------------------------------------------------------------
(* External: what a card sends at a cascade level.  A UID of l levels has   *)
(* (LevelBytes - 1) * l + 1 bytes; every level but the last begins with CT. *)

Step == LevelBytes - 1
Levels(u) == (Len(u) - 1) \div Step
CardBytes == [1 .. ByteBits -> {0, 1}]

(* What ISO 14443-3 says of UIDs: up to three levels, none but the cascade  *)
(* tag begins a level like it.                                              *)
ASSUME UidAssumption ==
    /\ CT \in CardBytes
    /\ \A u \in Uids : /\ u \in Seq(CardBytes)
                       /\ \E l \in 1 .. 3 : Len(u) = Step * l + 1 /\ u[Step * (l - 1) + 1] # CT

Bits(bytes) == [n \in 1 .. ByteBits * Len(bytes) |->
                   bytes[1 + ((n - 1) \div ByteBits)][1 + ((n - 1) % ByteBits)]]
LevelOf(u, l) ==
    Bits(IF l < Levels(u) THEN <<CT>> \o SubSeq(u, Step * (l - 1) + 1, Step * l)
         ELSE SubSeq(u, Step * (l - 1) + 1, Len(u)))
LevelBits == ByteBits * LevelBytes
ByteAt(bits, n) == SubSeq(bits, ByteBits * n + 1, ByteBits * (n + 1))
Present == {c \in Uids : picc[c] # "away"}
Prefix(s, t) == SubSeq(t, 1, Len(s)) = s

(* A card in the field understands the reader when neither encrypts or both *)
(* do.                                                                      *)
Understands(c) == crypto = (session = c)
Sense(c) == IF session = c THEN "idle" ELSE picc[c]

(* The radio may spoil a transmission.                                      *)
Spoilt == noise < MaxNoise /\ noise' = noise + 1
Clear == noise' = noise

None == 2    \* nothing is believed
Return(s) == status' = s /\ op' = "none"

NoSel == [level |-> 0, known |-> 0, bits |-> <<>>, given |-> <<>>]
NoDump == [sector |-> 0, offset |-> 0, trailer |-> FALSE]

RfidInit ==
    /\ picc = [c \in Uids |-> "away"] /\ level = [c \in Uids |-> 1]
    /\ session = <<>> /\ crypto = FALSE
    /\ op = "none" /\ status = "OK"
    /\ sel = NoSel
    /\ uid = [n \in 1 .. 3 * Step + 1 |-> <<>>] /\ size = 0
    /\ dump = NoDump
    /\ access = <<>>
    /\ volatile = 0 /\ stored = 0 /\ awaits = FALSE /\ believed = None
    /\ noise = 0 /\ moves = 0

Enter ==
    /\ op # "access" /\ moves < MaxMoves /\ moves' = moves + 1
    /\ \E c \in Uids \ Present : picc' = [picc EXCEPT ![c] = "idle"]
    /\ UNCHANGED <<level, session, crypto, op, status, sel, uid, size, dump, access, valueVars, noise>>
Leave ==
    /\ moves < MaxMoves /\ moves' = moves + 1
    /\ \E c \in Present :
          /\ picc' = [picc EXCEPT ![c] = "away"]
          /\ session' = IF session = c THEN <<>> ELSE session
          /\ awaits' = IF session = c THEN FALSE ELSE awaits
    /\ UNCHANGED <<level, crypto, op, status, sel, uid, size, dump, access, volatile, stored, believed, noise>>

-----------------------------------------------------------------------------
(* PICC_RequestA and PICC_WakeupA: cards that are idle, or also halted      *)
(* ones, become ready.  Two answers at once are a collision.                *)

PICC_REQA_or_WUPA(wake) ==
    LET called == {c \in Present : /\ picc[c] = "idle" \/ (wake /\ picc[c] = "halt")
                                   /\ ~crypto}
    IN  /\ op = "none"
        /\ picc' = [c \in Uids |-> IF c \in called THEN "ready"
                                   ELSE IF picc[c] \in {"ready", "active"} THEN "idle" ELSE picc[c]]
        /\ level' = [c \in Uids |-> 1]
        /\ session' = <<>> /\ awaits' = FALSE
        /\ \/ Clear /\ Return(IF called = {} THEN "TIMEOUT"
                              ELSE IF Cardinality(called) = 1 THEN "OK" ELSE "COLLISION")
           \/ Spoilt /\ \E s \in {"TIMEOUT", "ERROR"} : Return(s)
        /\ UNCHANGED <<crypto, sel, uid, size, dump, access, volatile, stored, believed, moves>>

-----------------------------------------------------------------------------
(* PICC_Select.                                                             *)

(* The bits of a level that are known beforehand, from a UID that the       *)
(* caller gives; with its size the cascade tag is known as well.            *)

LevelStart(l, given) ==
    LET known == IF given = <<>> THEN <<>>
                 ELSE SubSeq(given, Step * (l - 1) + 1, Len(given))
        tag == l < 3 /\ Len(given) > Step * l + 1
        bytes == (IF tag THEN <<CT>> ELSE <<>>) \o known
    IN  [level |-> l, given |-> given,
         known |-> ByteBits * Len(bytes),
         bits |-> Bits(SubSeq(bytes, 1, IF Len(bytes) < LevelBytes THEN Len(bytes) ELSE LevelBytes))]

PICC_Select ==
    /\ op = "none"
    /\ \E given \in Uids \cup {<<>>} : sel' = LevelStart(1, given)
    /\ op' = "select" /\ UNCHANGED status
    /\ UNCHANGED <<cardVars, crypto, uid, size, dump, access, valueVars, budget>>

(* The bit at which answers collide is set in the buffer, whose bytes 0 and *)
(* 1 are SEL and NVB; a bit that falls outside of the UID is written to a   *)
(* byte that is overwritten before it is sent.                              *)
SetBit(bits, at) == IF at \in 1 .. LevelBits THEN [bits EXCEPT ![at] = 1] ELSE bits
ChooseBit_exact(bits, known) == SetBit(bits, known)

ChooseBit(bits, known) ==
    LET count == (known - 1) % ByteBits
        index == 1 + known \div ByteBits + (IF count # 0 THEN 1 ELSE 0)
    IN  SetBit(bits, ByteBits * (index - 2) + count + 1)

Hears == {c \in Present : picc[c] = "ready" /\ ~crypto /\ level[c] = sel.level
                          /\ Prefix(sel.bits, LevelOf(c, sel.level))}
Answers == {LevelOf(c, sel.level) : c \in Hears}
Differ == {n \in 1 .. LevelBits : \E s, t \in Answers : s[n] # t[n]}
CollPos == CHOOSE n \in Differ : \A m \in Differ : n <= m

(* ANTICOLLISION: the cards with the known bits send the rest.  At a        *)
(* collision the bits before it are received, the one at it is either and   *)
(* those behind it are cleared.                                             *)
Anticollision ==
    /\ op = "select" /\ sel.known < LevelBits
    /\ \/ /\ Clear /\ Answers = {} /\ Return("TIMEOUT") /\ sel' = NoSel
       \/ /\ Clear /\ Answers # {} /\ Differ = {}
          /\ sel' = [sel EXCEPT !.known = LevelBits, !.bits = CHOOSE s \in Answers : TRUE]
          /\ UNCHANGED <<op, status>>
       \/ /\ Clear /\ Differ # {} /\ CollPos <= sel.known
          /\ Return("INTERNAL_ERROR") /\ sel' = NoSel
       \/ /\ Clear /\ Differ # {} /\ CollPos > sel.known
          /\ \E s \in Answers :
                LET received == [n \in 1 .. LevelBits |-> IF n <= CollPos THEN s[n] ELSE 0]
                IN  sel' = [sel EXCEPT !.known = CollPos,
                                       !.bits = SubSeq(ChooseBit(received, CollPos), 1, CollPos)]
          /\ UNCHANGED <<op, status>>
       \/ /\ Spoilt /\ \E s \in {"TIMEOUT", "ERROR", "COLLISION"} : Return(s)
          /\ sel' = NoSel
    /\ UNCHANGED <<cardVars, crypto, uid, size, dump, access, valueVars, moves>>

(* SELECT: the card with these bits acknowledges and the others go back.    *)
(* The bytes behind a cascade tag go to uid before the answer is checked.   *)
Copied == LET bytes == [n \in 1 .. LevelBytes |-> ByteAt(sel.bits, n - 1)]
          IN  IF bytes[1] = CT THEN Tail(bytes) ELSE bytes
UidAfter(n) == SubSeq(uid, 1, n) \o Copied \o SubSeq(uid, n + Len(Copied) + 1, Len(uid))
NextUid_whole == UidAfter(LevelBytes * (sel.level - 1))

NextUid == UidAfter(Step * (sel.level - 1))
Chosen == {c \in Hears : LevelOf(c, sel.level) = sel.bits}
Select ==
    /\ op = "select" /\ sel.known >= LevelBits
    /\ picc' = [c \in Uids |->
                  IF c \in Chosen THEN IF sel.level = Levels(c) THEN "active" ELSE "ready"
                  ELSE IF picc[c] = "ready" THEN "idle" ELSE picc[c]]
    /\ level' = [c \in Uids |-> IF c \in Chosen /\ sel.level < Levels(c) THEN level[c] + 1 ELSE 1]
    /\ \/ Clear /\ Chosen = {} /\ Return("TIMEOUT") /\ sel' = NoSel /\ UNCHANGED <<uid, size>>
       \/ /\ Clear
          /\ \E c \in Chosen :
                IF sel.level < Levels(c)
                THEN /\ uid' = NextUid /\ UNCHANGED <<size, op, status>>
                     /\ sel' = LevelStart(sel.level + 1, sel.given)
                ELSE /\ uid' = NextUid /\ size' = Step * sel.level + 1
                     /\ Return("OK") /\ sel' = NoSel
       \/ Spoilt /\ Return("TIMEOUT") /\ sel' = NoSel /\ UNCHANGED <<uid, size>>
       \/ /\ Spoilt /\ Chosen # {}
          /\ uid' = NextUid /\ \E s \in {"ERROR", "CRC_WRONG"} : Return(s)
          /\ sel' = NoSel /\ UNCHANGED size
    /\ UNCHANGED <<session, crypto, dump, access, valueVars, moves>>

-----------------------------------------------------------------------------
(* A command to the one card that is active: it arrives or is lost on the   *)
(* way out, and its answer is lost or spoilt on the way back.  "No card"    *)
(* is a lost command as well.                                               *)

Active == {c \in Present : picc[c] = "active" /\ Understands(c)}
Back(answer) == \/ Clear /\ status' = answer
                \/ Spoilt /\ \E s \in {"TIMEOUT", "ERROR"} : status' = s
Unheard == \/ Clear /\ Active = {} /\ status' = "TIMEOUT"
           \/ Spoilt /\ status' = "TIMEOUT"

(* PICC_HaltA: only silence is success, also when nobody heard it.          *)
PICC_HaltA ==
    \/ /\ Active # {} /\ Clear /\ status' = "OK"
       /\ picc' = [c \in Uids |-> IF c \in Active THEN "halt" ELSE picc[c]]
       /\ session' = IF session \in Active THEN <<>> ELSE session
       /\ awaits' = FALSE
    \/ Clear /\ Active = {} /\ status' = "OK" /\ UNCHANGED <<picc, session, awaits>>
    \/ Spoilt /\ \E s \in {"OK", "ERROR"} : status' = s /\ UNCHANGED <<picc, session, awaits>>

Halt ==
    /\ op = "none" /\ op' = op
    /\ PICC_HaltA
    /\ UNCHANGED <<level, crypto, sel, uid, size, dump, access, volatile, stored, believed, moves>>

(* PCD_Authenticate sends the first LevelBytes bytes of uid; with another   *)
(* UID or another key the card falls silent and drops out.  A session is    *)
(* taken to begin with a value of 0 in the block and in the memory.         *)
OwnUid(c) == Prefix(SubSeq(uid, 1, LevelBytes), c)
PCD_Authenticate ==
    \/ /\ Clear /\ \E c \in Active :
             \/ /\ OwnUid(c) /\ session' = c /\ crypto' = TRUE /\ status' = "OK"
                /\ volatile' = 0 /\ stored' = 0 /\ believed' = None
                /\ UNCHANGED picc
             \/ /\ picc' = [picc EXCEPT ![c] = "idle"]
                /\ session' = IF session = c THEN <<>> ELSE session
                /\ status' = "TIMEOUT" /\ UNCHANGED <<crypto, volatile, stored, believed>>
       /\ awaits' = FALSE
    \/ Unheard /\ UNCHANGED <<picc, session, crypto, valueVars>>

Authenticate ==
    /\ op = "none" /\ op' = op /\ size > 0
    /\ PCD_Authenticate
    /\ UNCHANGED <<level, sel, uid, size, dump, access, moves>>

PCD_StopCrypto1 ==
    /\ op = "none" /\ crypto' = FALSE
    /\ UNCHANGED <<cardVars, op, status, sel, uid, size, dump, access, valueVars, budget>>

-----------------------------------------------------------------------------
(* Values.  The card keeps the result of Increment, Decrement and Restore   *)
(* in a volatile memory until Transfer writes it to the block.  External:   *)
(* a card that awaits data takes any other frame as a broken one, refuses   *)
(* it and forgets the session.                                              *)

Delta(name) == IF name = "restore" THEN 0 ELSE 1
InSession == {c \in Active : session = c}
DropOut == /\ picc' = [picc EXCEPT ![session] = "idle"] /\ session' = <<>> /\ awaits' = FALSE
Refuse == /\ InSession # {} /\ awaits
          /\ DropOut /\ Back("MIFARE_NACK") /\ UNCHANGED <<volatile, stored>>
Lost == Unheard /\ UNCHANGED <<picc, session, awaits, volatile, stored>>
NoSession == /\ Clear /\ Active # {} /\ InSession = {} /\ status' = "MIFARE_NACK"
             /\ UNCHANGED <<picc, session, awaits, volatile, stored>>

(* Step 1 of MIFARE_TwoStepHelper and of MIFARE_Write.                      *)
TwoSteps == {"inc", "dec", "restore"}
Continue(name) == op' = IF status' = "OK" THEN name ELSE "none"
StepOne(name) ==
    /\ op = "none" /\ size > 0
    /\ \/ /\ InSession # {} /\ ~awaits /\ awaits' = TRUE /\ Back("OK")
          /\ UNCHANGED <<picc, session, volatile, stored>>
       \/ Refuse \/ Lost \/ NoSession
    /\ Continue(name)
    /\ UNCHANGED <<level, crypto, sel, uid, size, dump, access, believed, moves>>

MIFARE_TwoStepHelper == \E name \in TwoSteps : StepOne(name)

(* Step 2: the card answers to the operand with silence, and silence is     *)
(* taken for success.                                                       *)
Accept(s) == IF s = "TIMEOUT" THEN "OK" ELSE s
StepTwo ==
    /\ op \in TwoSteps /\ op' = "none"
    /\ \/ /\ Clear /\ InSession # {} /\ awaits
          /\ volatile' = (stored + Delta(op)) % 2 /\ awaits' = FALSE
          /\ status' = Accept("TIMEOUT")
          /\ UNCHANGED <<picc, session, stored>>
       \/ /\ UNCHANGED <<picc, session, awaits, volatile, stored>>
          /\ \/ Clear /\ (InSession = {} \/ ~awaits) /\ status' = Accept("TIMEOUT")
             \/ Spoilt /\ \E s \in {"TIMEOUT", "ERROR"} : status' = Accept(s)
    /\ believed' = IF status' = "OK" THEN (stored + Delta(op)) % 2 ELSE believed
    /\ UNCHANGED <<level, crypto, sel, uid, size, dump, access, moves>>

Answered_silence(s) == Accept(s)

(* PCD_MIFARE_Transceive without acceptTimeout returns what came.           *)
Answered(s) == s
MIFARE_Transfer ==
    /\ op = "none" /\ op' = op /\ size > 0
    /\ \/ /\ Clear /\ InSession # {} /\ ~awaits /\ stored' = volatile /\ status' = Answered("OK")
          /\ UNCHANGED <<picc, session, awaits, volatile>>
       \/ /\ InSession # {} /\ awaits /\ DropOut /\ UNCHANGED <<volatile, stored>>
          /\ \/ Clear /\ status' = Answered("MIFARE_NACK")
             \/ Spoilt /\ status' = Answered("TIMEOUT")
       \/ /\ Spoilt /\ status' = Answered("TIMEOUT")
          /\ stored' \in (IF InSession # {} /\ ~awaits THEN {stored, volatile} ELSE {stored})
          /\ UNCHANGED <<picc, session, awaits, volatile>>
       \/ /\ Clear /\ InSession = {}
          /\ status' = IF Active = {} THEN Answered("TIMEOUT") ELSE Answered("MIFARE_NACK")
          /\ UNCHANGED <<picc, session, awaits, volatile, stored>>
    /\ UNCHANGED <<level, crypto, sel, uid, size, dump, access, believed, moves>>

(* MIFARE_Write: a buffer of more than 16 bytes is refused only at step 2,  *)
(* when the card already awaits the data.                                   *)
Sizes == {15, 16, 18}
MIFARE_Write ==
    \/ \E bytes \in Sizes \ {15} : StepOne(IF bytes = 16 THEN "write" ELSE "write too much")
    \/ /\ op = "none" /\ 15 \in Sizes /\ op' = op /\ status' = "INVALID"
       /\ UNCHANGED <<cardVars, crypto, sel, uid, size, dump, access, valueVars, budget>>
WriteData ==
    /\ op = "write" /\ op' = "none"
    /\ \/ /\ InSession # {} /\ awaits /\ awaits' = FALSE /\ Back("OK")
          /\ stored' = 0
          /\ UNCHANGED <<picc, session, volatile>>
       \/ Lost \/ NoSession
    /\ UNCHANGED <<level, crypto, sel, uid, size, dump, access, believed, moves>>
WriteRefused ==
    /\ op = "write too much" /\ op' = "none" /\ status' = "INVALID"
    /\ UNCHANGED <<cardVars, crypto, sel, uid, size, dump, access, valueVars, budget>>

-----------------------------------------------------------------------------
(* PICC_DumpToSerial of a MIFARE Classic card: the sectors from the highest *)
(* to the lowest, the blocks of each likewise; the session is begun at the  *)
(* first block, the trailer, and its access bits are parsed.                *)

SectorStart(n) == [sector |-> n, offset |-> SectorBlocks - 1, trailer |-> TRUE]
NextSector == IF dump.sector = 0 THEN op' = "dump end" /\ dump' = NoDump
              ELSE op' = "dump" /\ dump' = SectorStart(dump.sector - 1)
Dump ==
    /\ op = "none" /\ size > 0 /\ op' = "dump" /\ dump' = SectorStart(Sectors - 1)
    /\ UNCHANGED <<cardVars, crypto, status, sel, uid, size, access, valueVars, budget>>

DumpAuthenticate ==
    /\ op = "dump" /\ dump.trailer
    /\ PCD_Authenticate
    /\ IF status' = "OK" THEN op' = "dump read" /\ UNCHANGED dump ELSE NextSector
    /\ UNCHANGED <<level, sel, uid, size, access, moves>>

(* MIFARE_Read and what the loop does with it: after a failure the next     *)
(* block is read as the first was.                                          *)
TrailerAfter_always(s) == FALSE
TrailerAfter(s) == dump.trailer /\ s # "OK"
DumpBlock ==
    /\ op = "dump read" \/ (op = "dump" /\ ~dump.trailer)
    /\ \/ /\ InSession # {} /\ ~awaits /\ Back("OK") /\ UNCHANGED <<picc, session, awaits>>
       \/ /\ InSession # {} /\ awaits /\ DropOut /\ Back("MIFARE_NACK")
       \/ /\ Clear /\ InSession = {} /\ UNCHANGED <<picc, session, awaits>>
          /\ status' = IF Active = {} THEN "TIMEOUT" ELSE "MIFARE_NACK"
    /\ IF dump.offset = 0 THEN NextSector
       ELSE /\ op' = "dump"
            /\ dump' = [dump EXCEPT !.offset = @ - 1, !.trailer = TrailerAfter(status')]
    /\ UNCHANGED <<level, crypto, sel, uid, size, access, volatile, stored, believed, moves>>

(* The card is halted before the encrypted session is stopped.              *)
DumpSteps ==
    \/ /\ op = "dump end" /\ PICC_HaltA /\ op' = "dump stop" /\ UNCHANGED crypto
    \/ /\ op = "dump stop" /\ crypto' = FALSE /\ op' = "dump halt"
       /\ UNCHANGED <<picc, session, awaits, status, noise>>
    \/ /\ op = "dump halt" /\ PICC_HaltA /\ op' = "none" /\ UNCHANGED crypto
DumpEnd == DumpSteps /\ UNCHANGED <<level, sel, uid, size, dump, access, volatile, stored, believed, moves>>

-----------------------------------------------------------------------------
(* MIFARE_SetAccessBits and the parsing of the trailer: three bits for each *)
(* of four groups of blocks, kept as three nibbles and their complements.   *)

BitOf(g, k) == (g \div 2 ^ k) % 2
Nibble(g, k) == BitOf(g[1], k) + 2 * BitOf(g[2], k) + 4 * BitOf(g[3], k) + 8 * BitOf(g[4], k)
AccessBytes(g) ==
    LET c1 == Nibble(g, 2)  c2 == Nibble(g, 1)  c3 == Nibble(g, 0)
    IN  <<16 * (15 - c2) + 15 - c1, 16 * c1 + 15 - c3, 16 * c3 + c2>>

Parsed(b) == LET c1 == b[2] \div 16  c2 == b[3] % 16  c3 == b[3] \div 16
             IN  [n \in 1 .. 4 |-> 4 * BitOf(c1, n - 1) + 2 * BitOf(c2, n - 1) + BitOf(c3, n - 1)]
InvertedError(b) ==
    \/ b[2] \div 16 # 15 - (b[1] % 16)
    \/ b[3] % 16 # 15 - (b[1] \div 16)
    \/ b[3] \div 16 # 15 - (b[2] % 16)

MIFARE_SetAccessBits ==
    /\ moves = 0 /\ noise = 0 /\ status = "OK"
    /\ \/ op = "none" /\ op' = "access" /\ \E g \in [1 .. 4 -> {0, 1, 3, 6, 7}] : access' = <<g, AccessBytes(g)>>
       \/ op = "access" /\ op' = "none" /\ access' = <<>>
    /\ UNCHANGED <<cardVars, crypto, status, sel, uid, size, dump, valueVars, budget>>

-----------------------------------------------------------------------------
RfidNext ==
    \/ Enter \/ Leave
    \/ \E wake \in BOOLEAN : PICC_REQA_or_WUPA(wake)
    \/ PICC_Select \/ Anticollision \/ Select
    \/ Halt \/ Authenticate \/ PCD_StopCrypto1
    \/ MIFARE_TwoStepHelper \/ StepTwo \/ MIFARE_Transfer
    \/ MIFARE_Write \/ WriteData \/ WriteRefused
    \/ Dump \/ DumpAuthenticate \/ DumpBlock \/ DumpEnd
    \/ MIFARE_SetAccessBits

RfidSpec == RfidInit /\ [][RfidNext]_rfidVars

-----------------------------------------------------------------------------
(* A select that returns OK has made exactly one card active, and uid and   *)
(* size are that card's UID over all its cascade levels: also when several  *)
(* cards collide, leave, or a transmission is lost on the way.              *)
SelectedIsActive ==
    [][op = "select" /\ op' = "none" /\ status' = "OK" =>
         {c \in Uids : picc'[c] = "active"} = {SubSeq(uid', 1, size')}]_rfidVars

(* A select that is given a UID never ends with another card's.             *)
GivenIsSelected ==
    [][op = "select" /\ op' = "none" /\ status' = "OK" /\ sel.given # <<>> =>
         SubSeq(uid', 1, size') = sel.given]_rfidVars

(* An acknowledged Transfer has written the result that the acknowledged    *)
(* calls before it promised, although silence counts as an acknowledgement  *)
(* of their second step.                                                    *)
TransferStoresPromise ==
    [][MIFARE_Transfer /\ status' = "OK" /\ believed # None => stored' = believed]_rfidVars

(* A dump never stops the encryption of the reader while the card still     *)
(* encrypts, unless a frame was lost: the card would hear nobody any more.  *)
DumpHalts ==
    [][op # "none" /\ crypto /\ ~crypto' /\ noise = 0 => session = <<>>]_rfidVars

(* The access bits that MIFARE_SetAccessBits writes are those that the dump *)
(* parses from the trailer, and their complements match.                    *)
AccessBitsKept == access # <<>> => Parsed(access[2]) = access[1] /\ ~InvertedError(access[2])

-----------------------------------------------------------------------------
(* The comment at "Choose the PICC with the bit set": the bits handed to    *)
(* the next round are those of a card whose bit is set.                     *)
ChosenBitSet ==
    [][Anticollision /\ sel'.known > sel.known /\ sel'.known < LevelBits =>
         \E s \in Answers : sel'.bits = SubSeq(s, 1, CollPos) /\ s[CollPos] = 1]_rfidVars

(* "Set to true while handling the last (ie highest address) in the         *)
(* sector": only the trailer is parsed as the trailer.                      *)
TrailerIsLast == op = "dump read" /\ dump.trailer => dump.offset = SectorBlocks - 1

(* The card that PICC_Select reports is the card that will answer.          *)
SelectSound == SelectedIsActive /\ GivenIsSelected

(* What the sector trailers, the value blocks and the dump promise.         *)
TransfersSound == TransferStoresPromise /\ DumpHalts /\ []AccessBitsKept

=============================================================================
