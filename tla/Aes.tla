--------------------------------- MODULE Aes ---------------------------------
(***************************************************************************)
(* The cipher with which SmartConfig keys are decrypted                    *)
(* (CC3000Library/utility/security.cpp): AES-128 on one block in place,    *)
(* with the tables of the source, against the definition of the standard:  *)
(* the inverse in GF(2^8), the matrix of MixColumns, the rounds.           *)
(* A block and a key are sequences of 16 bytes.                            *)
(***************************************************************************)
EXTENDS Integers, Sequences, SequencesExt

CONSTANT MaxBlocks      \* bound: blocks that are encrypted one after the other

ASSUME AesAssumption == MaxBlocks \in Nat

VARIABLES block,        \* the plain text
          aesKey,
          cipher,       \* what aes_encrypt made of block
          expandedKey,  \* the 176 bytes of the key schedule
          standardKey,  \* history: the schedule of the standard for that key
          blocks        \* how many there have been

aesVars == <<block, aesKey, cipher, expandedKey, standardKey, blocks>>

-----------------------------------------------------------------------------
(* Exclusive or of bytes, from a table for half bytes.                      *)

XorBit(a, b, n) == (((a \div n) + (b \div n)) % 2) * n
HalfXor == [a \in 0 .. 15, b \in 0 .. 15 |->
               XorBit(a, b, 8) + XorBit(a, b, 4) + XorBit(a, b, 2) + XorBit(a, b, 1)]
Xor(a, b) == 16 * HalfXor[a \div 16, b \div 16] + HalfXor[a % 16, b % 16]
Bytes(F(_)) == <<F(1), F(2), F(3), F(4), F(5), F(6), F(7), F(8),
                 F(9), F(10), F(11), F(12), F(13), F(14), F(15), F(16)>>
XorSeq(s, t) == Bytes(LAMBDA i : Xor(s[i], t[i]))

sboxTable ==
    <<99, 124, 119, 123, 242, 107, 111, 197, 48, 1, 103, 43, 254, 215, 171, 118, 202, 130, 201, 125,
      250, 89, 71, 240, 173, 212, 162, 175, 156, 164, 114, 192, 183, 253, 147, 38, 54, 63, 247, 204,
      52, 165, 229, 241, 113, 216, 49, 21, 4, 199, 35, 195, 24, 150, 5, 154, 7, 18, 128, 226,
      235, 39, 178, 117, 9, 131, 44, 26, 27, 110, 90, 160, 82, 59, 214, 179, 41, 227, 47, 132,
      83, 209, 0, 237, 32, 252, 177, 91, 106, 203, 190, 57, 74, 76, 88, 207, 208, 239, 170, 251,
      67, 77, 51, 133, 69, 249, 2, 127, 80, 60, 159, 168, 81, 163, 64, 143, 146, 157, 56, 245,
      188, 182, 218, 33, 16, 255, 243, 210, 205, 12, 19, 236, 95, 151, 68, 23, 196, 167, 126, 61,
      100, 93, 25, 115, 96, 129, 79, 220, 34, 42, 144, 136, 70, 238, 184, 20, 222, 94, 11, 219,
      224, 50, 58, 10, 73, 6, 36, 92, 194, 211, 172, 98, 145, 149, 228, 121, 231, 200, 55, 109,
      141, 213, 78, 169, 108, 86, 244, 234, 101, 122, 174, 8, 186, 120, 37, 46, 28, 166, 180, 198,
      232, 221, 116, 31, 75, 189, 139, 138, 112, 62, 181, 102, 72, 3, 246, 14, 97, 53, 87, 185,
      134, 193, 29, 158, 225, 248, 152, 17, 105, 217, 142, 148, 155, 30, 135, 233, 206, 85, 40, 223,
      140, 161, 137, 13, 191, 230, 66, 104, 65, 153, 45, 15, 176, 84, 187, 22>>
rsboxTable ==
    <<82, 9, 106, 213, 48, 54, 165, 56, 191, 64, 163, 158, 129, 243, 215, 251, 124, 227, 57, 130,
      155, 47, 255, 135, 52, 142, 67, 68, 196, 222, 233, 203, 84, 123, 148, 50, 166, 194, 35, 61,
      238, 76, 149, 11, 66, 250, 195, 78, 8, 46, 161, 102, 40, 217, 36, 178, 118, 91, 162, 73,
      109, 139, 209, 37, 114, 248, 246, 100, 134, 104, 152, 22, 212, 164, 92, 204, 93, 101, 182, 146,
      108, 112, 72, 80, 253, 237, 185, 218, 94, 21, 70, 87, 167, 141, 157, 132, 144, 216, 171, 0,
      140, 188, 211, 10, 247, 228, 88, 5, 184, 179, 69, 6, 208, 44, 30, 143, 202, 63, 15, 2,
      193, 175, 189, 3, 1, 19, 138, 107, 58, 145, 17, 65, 79, 103, 220, 234, 151, 242, 207, 206,
      240, 180, 230, 115, 150, 172, 116, 34, 231, 173, 53, 133, 226, 249, 55, 232, 28, 117, 223, 110,
      71, 241, 26, 113, 29, 41, 197, 137, 111, 183, 98, 14, 170, 24, 190, 27, 252, 86, 62, 75,
      198, 210, 121, 32, 154, 219, 192, 254, 120, 205, 90, 244, 31, 221, 168, 51, 136, 7, 199, 49,
      177, 18, 16, 89, 39, 128, 236, 95, 96, 81, 127, 169, 25, 181, 74, 13, 45, 229, 122, 159,
      147, 201, 156, 239, 160, 224, 59, 77, 174, 42, 245, 176, 200, 235, 187, 60, 131, 83, 153, 97,
      23, 43, 4, 126, 186, 119, 214, 38, 225, 105, 20, 99, 85, 33, 12, 125>>
Rcon == <<141, 1, 2, 4, 8, 16, 32, 64, 128, 27, 54>>
sbox(b) == sboxTable[b + 1]
rsbox(b) == rsboxTable[b + 1]

galois_mul2_unreduced(value) == (2 * value) % 256

galois_mul2(value) == IF value >= 128 THEN Xor((2 * value) % 256, 27) ELSE 2 * value

(* The 16 bytes of round ii of the expanded key, from those of the last:    *)
(* the first word takes the last one, turned by a byte, through the S-box.  *)
XorWord(s, t) == <<Xor(s[1], t[1]), Xor(s[2], t[2]), Xor(s[3], t[3]), Xor(s[4], t[4])>>
Word(w, n) == SubSeq(w, 4 * n + 1, 4 * n + 4)
Turned(v) == <<sbox(v[2]), sbox(v[3]), sbox(v[4]), sbox(v[1])>>
NextKey_unturned(w, ii) ==
    LET old(n) == Word(w, 4 * ii - 4 + n)
        word0 == XorWord(<<sbox(old(3)[1]), sbox(old(3)[2]), sbox(old(3)[3]), sbox(old(3)[4])>>,
                         XorWord(old(0), <<Rcon[ii + 1], 0, 0, 0>>))
        word1 == XorWord(old(1), word0)
        word2 == XorWord(old(2), word1)
    IN  word0 \o word1 \o word2 \o XorWord(old(3), word2)

NextKey(w, ii) ==
    LET old(n) == Word(w, 4 * ii - 4 + n)
        word0 == XorWord(Turned(old(3)), XorWord(old(0), <<Rcon[ii + 1], 0, 0, 0>>))
        word1 == XorWord(old(1), word0)
        word2 == XorWord(old(2), word1)
    IN  word0 \o word1 \o word2 \o XorWord(old(3), word2)
Upto(n) == [i \in 1 .. n |-> i - 1]
expandKey(key) == FoldLeft(LAMBDA w, r : w \o NextKey(w, r + 1), key, Upto(10))
RoundKey(w, round) == SubSeq(w, 16 * round + 1, 16 * round + 16)

(* Where byte i comes from when row r moves r columns to the left or right. *)
LeftOf(i) == ((i - 1 + 4 * ((i - 1) % 4)) % 16) + 1
RightOf(i) == ((i - 1 - 4 * ((i - 1) % 4)) % 16) + 1

Column(i) == 4 * ((i - 1) \div 4)
MixColumns(s) ==
    Bytes(LAMBDA i :
        LET c == Column(i)
            next == IF i = c + 4 THEN c + 1 ELSE i + 1
            all == Xor(Xor(s[c + 1], s[c + 2]), Xor(s[c + 3], s[c + 4]))
        IN  Xor(Xor(s[i], galois_mul2(Xor(s[i], s[next]))), all))

(* The step before MixColumns that makes it its inverse.                    *)
Barreto(s) ==
    Bytes(LAMBDA i :
        LET other == Column(i) + ((i - 1 + 2) % 4) + 1
        IN  Xor(s[i], galois_mul2(galois_mul2(Xor(s[i], s[other])))))

SubShift(s, k) == Bytes(LAMBDA i : sbox(Xor(s[LeftOf(i)], k[LeftOf(i)])))
ShiftSub(s, k) == Bytes(LAMBDA i : Xor(rsbox(s[RightOf(i)]), k[i]))

aes_encr(s, w) ==
    LET nine == FoldLeft(LAMBDA t, r : MixColumns(SubShift(t, RoundKey(w, r))), s, Upto(9))
    IN  XorSeq(SubShift(nine, RoundKey(w, 9)), RoundKey(w, 10))

(* The rounds backwards, the tenth without MixColumns first.                *)

aes_decr(s, w) ==
    LET tenth == ShiftSub(XorSeq(s, RoundKey(w, 10)), RoundKey(w, 9))
    IN  FoldLeft(LAMBDA t, r : ShiftSub(MixColumns(Barreto(t)), RoundKey(w, 8 - r)), tenth, Upto(9))

aes_decrypt(s, key) == aes_decr(s, expandKey(key))

-----------------------------------------------------------------------------
(* The standard.                                                            *)

Byte == 0 .. 255
Times2(b) == IF b < 128 THEN 2 * b ELSE Xor((2 * b) % 256, 27)
Product[a \in Byte, b \in Byte] ==
    IF a = 0 THEN 0
    ELSE Xor(IF a % 2 = 1 THEN b ELSE 0, Product[a \div 2, Times2(b)])
FieldInverse(b) == IF b = 0 THEN 0 ELSE CHOOSE x \in Byte : Product[b, x] = 1
Rotated(b, n) == ((b * 2 ^ n) % 256) + ((b * 2 ^ n) \div 256)
SubByte(b) ==
    LET i == FieldInverse(b)
    IN  Xor(99, Xor(Xor(i, Rotated(i, 1)), Xor(Xor(Rotated(i, 2), Rotated(i, 3)), Rotated(i, 4))))
SubByteOf == [b \in Byte |-> SubByte(b)]
Power2[n \in Nat] == IF n = 0 THEN 1 ELSE Times2(Power2[n - 1])

(* The schedule of keys, word by word.                                      *)
StandardWord(w, n) ==
    LET last == Word(w, n - 1)
        turned == <<Xor(SubByteOf[last[2]], Power2[n \div 4 - 1]),
                    SubByteOf[last[3]], SubByteOf[last[4]], SubByteOf[last[1]]>>
    IN  XorWord(IF n % 4 = 0 THEN turned ELSE last, Word(w, n - 4))
StandardKey(key) == FoldLeft(LAMBDA w, n : w \o StandardWord(w, n + 4), key, Upto(40))

Matrix == <<<<2, 3, 1, 1>>, <<1, 2, 3, 1>>, <<1, 1, 2, 3>>, <<3, 1, 1, 2>>>>
StandardRound(s, k, mixed) ==
    LET sub == Bytes(LAMBDA i : SubByteOf[s[i]])
        at(row, col) == sub[(4 * ((col + row) % 4)) + row + 1]
        shifted == Bytes(LAMBDA i : at((i - 1) % 4, (i - 1) \div 4))
        mix == Bytes(LAMBDA i :
                   LET m == Matrix[((i - 1) % 4) + 1]
                       c == Column(i)
                   IN  Xor(Xor(Product[m[1], shifted[c + 1]], Product[m[2], shifted[c + 2]]),
                           Xor(Product[m[3], shifted[c + 3]], Product[m[4], shifted[c + 4]])))
    IN  XorSeq(IF mixed THEN mix ELSE shifted, k)
StandardCipher(s, w) ==
    FoldLeft(LAMBDA t, r : StandardRound(t, RoundKey(w, r + 1), r < 9),
             XorSeq(s, RoundKey(w, 0)), Upto(10))

-----------------------------------------------------------------------------
(* Blocks in a chain: each is the cipher text of the one before, under the  *)
(* same key or under that cipher text as the key.                           *)

(* aes_encrypt: the key is expanded into a global array, then used.         *)
aes_encrypt(text, key) ==
    /\ expandedKey' = expandKey(key)
    /\ cipher' = aes_encr(text, expandedKey')

(* The first block is the one in the example of the standard.               *)
AesInit ==
    /\ block = <<>> /\ cipher = Bytes(LAMBDA i : 17 * (i - 1))
    /\ aesKey = Bytes(LAMBDA i : i - 1) /\ expandedKey = <<>> /\ standardKey = <<>>
    /\ blocks = 0
Encrypt(key) ==
    /\ blocks < MaxBlocks /\ blocks' = blocks + 1
    /\ block' = cipher /\ aesKey' = key /\ standardKey' = StandardKey(key)
    /\ aes_encrypt(cipher, key)
AesNext == \E key \in {aesKey, cipher} : Encrypt(key)
AesSpec == AesInit /\ [][AesNext]_aesVars

(* aes_decrypt gives back what aes_encrypt was given, for the same key      *)
(* ("the order of substeps is the exact reverse", security.cpp:293).        *)
DecryptsWhatItEncrypted == blocks > 0 => aes_decrypt(cipher, aesKey) = block

(* aes_encrypt computes the cipher of the standard, and its tables, filled  *)
(* in by hand, are those of the standard.                                   *)
EncryptsAsStandard ==
    blocks > 0 => /\ cipher = StandardCipher(block, standardKey)
                  /\ blocks = 1 => \A b \in Byte : sbox(b) = SubByteOf[b]

(* The cipher is the standard's, both ways.                                 *)
CipherSound == DecryptsWhatItEncrypted /\ EncryptsAsStandard

=============================================================================
