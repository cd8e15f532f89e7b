------------------------------- MODULE Fips197 -------------------------------
(***************************************************************************)
(* The cipher of FIPS 197 on its byte matrix, from the document: no table  *)
(* of words, no logarithm, no transformed round key.  Module Aes must      *)
(* compute the same.                                                       *)
(***************************************************************************)
EXTENDS Octets

\* The product in GF(2^8).
FieldProduct[a \in Byte, b \in Byte] ==
    IF b = 0 THEN 0
    ELSE Xor(IF b % 2 = 1 THEN a ELSE 0,
             FieldProduct[IF a < 128 THEN 2 * a ELSE Xor(2 * a - 256, 27), b \div 2])

\* SubBytes of one byte: the inverse, then the affine map bit by bit.
FipsSub ==
    LET inverse(x) == IF x = 0 THEN 0 ELSE CHOOSE y \in Byte : FieldProduct[x, y] = 1
        bit(v, i) == (Bit(v, i) + Bit(v, (i + 4) % 8) + Bit(v, (i + 5) % 8)
                      + Bit(v, (i + 6) % 8) + Bit(v, (i + 7) % 8) + Bit(99, i)) % 2
        image(v) == bit(v, 0) + 2 * bit(v, 1) + 4 * bit(v, 2) + 8 * bit(v, 3)
                    + 16 * bit(v, 4) + 32 * bit(v, 5) + 64 * bit(v, 6) + 128 * bit(v, 7)
        sub(k) == image(inverse(k - 1))
    IN  Listed(256, sub)

FipsInvSub ==
    LET inv(k) == (CHOOSE j \in 1 .. 256 : FipsSub[j] = k - 1) - 1 IN Listed(256, inv)

\* Row and column of byte p of a block, and back.
Row(p) == (p - 1) % 4
Col(p) == (p - 1) \div 4
Place(row, col) == 1 + row + 4 * (col % 4)

FipsSubBytes(table, s) == LET sub(p) == table[s[p] + 1] IN Listed(16, sub)

\* Row r moves by r columns (to the left), or by 4 - r for the inverse.
FipsShiftRows(s) ==
    LET from(p) == s[Place(Row(p), Col(p) + Row(p))] IN Listed(16, from)

FipsInvShiftRows(s) ==
    LET from(p) == s[Place(Row(p), Col(p) + 4 - Row(p))] IN Listed(16, from)

\* m is the first row of the circulant matrix.
FipsMixColumns(m, s) ==
    LET term(p, k) == FieldProduct[s[Place(k, Col(p))], m[((k + 4 - Row(p)) % 4) + 1]]
        mix(p) == Xor(Xor(term(p, 0), term(p, 1)), Xor(term(p, 2), term(p, 3)))
    IN  Listed(16, mix)

FipsRounds(key) == (Len(key) \div 4) + 6

\* The expanded key as one sequence of bytes, 16 for every round key.
FipsKeyExpansion(key) ==
    LET nk == Len(key) \div 4
        sub(w) == <<FipsSub[w[1] + 1], FipsSub[w[2] + 1], FipsSub[w[3] + 1], FipsSub[w[4] + 1]>>
        rot(w) == Append(Tail(w), Head(w))
        rcon[i \in 1 .. 10] == IF i = 1 THEN 1 ELSE FieldProduct[rcon[i - 1], 2]
        loop[e \in Seq(Byte)] ==
            LET i == Len(e) \div 4
                temp == SubSeq(e, Len(e) - 3, Len(e))
                g == IF i % nk = 0 THEN BytesXor(sub(rot(temp)), <<rcon[i \div nk], 0, 0, 0>>)
                     ELSE IF nk > 6 /\ i % nk = 4 THEN sub(temp)
                     ELSE temp
            IN  IF i = 4 * (FipsRounds(key) + 1) THEN e
                ELSE loop[e \o BytesXor(SubSeq(e, 4 * (i - nk) + 1, 4 * (i - nk) + 4), g)]
    IN  loop[key]

FipsRoundKey(e, round) == SubSeq(e, 16 * round + 1, 16 * round + 16)

\* Cipher with the expanded key e.
FipsCipher(e, block) ==
    LET last == (Len(e) \div 16) - 1
        loop[s \in Seq(Byte), round \in 1 .. last] ==
            LET moved == FipsShiftRows(FipsSubBytes(FipsSub, s))
            IN  IF round = last THEN BytesXor(moved, FipsRoundKey(e, last))
                ELSE loop[BytesXor(FipsMixColumns(<<2, 3, 1, 1>>, moved),
                                   FipsRoundKey(e, round)), round + 1]
    IN  loop[BytesXor(block, FipsRoundKey(e, 0)), 1]

FipsInvCipher(e, block) ==
    LET last == (Len(e) \div 16) - 1
        loop[s \in Seq(Byte), round \in 0 .. last - 1] ==
            LET keyed == BytesXor(FipsSubBytes(FipsInvSub, FipsInvShiftRows(s)),
                                  FipsRoundKey(e, round))
            IN  IF round = 0 THEN keyed
                ELSE loop[FipsMixColumns(<<14, 11, 13, 9>>, keyed), round - 1]
    IN  loop[BytesXor(block, FipsRoundKey(e, last)), last - 1]
=============================================================================
