--------------------------------- MODULE Aes ---------------------------------
(***************************************************************************)
(* The block cipher, math/aes.c, byte for byte, in the build that          *)
(* generates its tables on the first key expansion.  The code folds        *)
(* SubBytes, ShiftRows and MixColumns into one table of words per          *)
(* direction and decrypts with transformed round keys; module Fips197      *)
(* holds the definition it must agree with.                                *)
(*                                                                         *)
(* A 32-bit word is the tuple of its bytes in memory order (AES_BYTE0      *)
(* first).  A table is a sequence, entry b at position b + 1.              *)
(***************************************************************************)
EXTENDS Octets

Word == Seq(Byte)

At(table, b) == table[b + 1]

WordXor(v, w) ==
    <<Xor(v[1], w[1]), Xor(v[2], w[2]), Xor(v[3], w[3]), Xor(v[4], w[4])>>

Rotl8(w)  == <<w[4], w[1], w[2], w[3]>>
Rotl16(w) == <<w[3], w[4], w[1], w[2]>>
Rotl24(w) == <<w[2], w[3], w[4], w[1]>>

\* AES_GET_LE32 over a whole buffer, and AES_PUT_LE32 over a block.
Words(octets) ==
    LET At4(i) == SubSeq(octets, 4 * i - 3, 4 * i) IN Listed(Len(octets) \div 4, At4)

Bytes(w) == w[1] \o w[2] \o w[3] \o w[4]

-----------------------------------------------------------------------------
(* aes_gen_tables *)

XTime(x) == IF x < 128 THEN 2 * x ELSE Xor(2 * x - 256, 27)

\* ctx->pow: the powers of 3.  The loop runs once more than the group has
\* elements and writes ctx->log[1] a second time: log[1] is 255.
PowersFrom[pow \in Seq(Byte), v \in Byte] ==
    IF Len(pow) = 256 THEN pow ELSE PowersFrom[Append(pow, v), Xor(v, XTime(v))]

Pow == PowersFrom[<<>>, 1]

Log ==
    LET LogOf(v) == IF v = 256 THEN 0 ELSE CHOOSE i \in 1 .. 255 : At(Pow, i) = v
    IN  Listed(255, LogOf)

Mul(x, y) == IF x = 0 \/ y = 0 THEN 0 ELSE At(Pow, (Log[x] + Log[y]) % 255)

Rcon ==
    LET from[rcon \in Seq(Byte), v \in Byte] ==
            IF Len(rcon) = 10 THEN rcon ELSE from[Append(rcon, v), XTime(v)]
    IN  from[<<>>, 1]

Rotl1(x) == ((2 * x) % 256) + (x \div 128)

Affine(x) ==
    LET r1 == Rotl1(x) r2 == Rotl1(r1) r3 == Rotl1(r2) r4 == Rotl1(r3)
    IN  Xor(Xor(Xor(Xor(Xor(x, r1), r2), r3), r4), 99)

ForwardSBox ==
    LET Sub(i) == IF i = 1 THEN 99 ELSE Affine(At(Pow, 255 - Log[i - 1]))
    IN  Listed(256, Sub)

ReverseSBox ==
    LET Inv(i) == (CHOOSE k \in 1 .. 256 : ForwardSBox[k] = i - 1) - 1
    IN  Listed(256, Inv)

ForwardTable ==
    LET Entry(i) == LET s == ForwardSBox[i] IN <<XTime(s), s, s, Xor(XTime(s), s)>>
    IN  Listed(256, Entry)

\* AES_INV_MIXCOL_WORD
InvMixColWord(x) == <<Mul(14, x), Mul(9, x), Mul(13, x), Mul(11, x)>>

ReverseTable ==
    LET Entry(i) == InvMixColWord(ReverseSBox[i]) IN Listed(256, Entry)

-----------------------------------------------------------------------------
(* Key schedules.  A context is [rounds, keys], keys the words of ctx->buf. *)

SubWord(w) ==
    <<At(ForwardSBox, w[1]), At(ForwardSBox, w[2]), At(ForwardSBox, w[3]), At(ForwardSBox, w[4])>>

\* AES_SUBWORD_ROT
SubWordRot(w) == SubWord(Rotl24(w))

\* Mutation: the middle word of a 256-bit key is not substituted.
ScheduleStepPlain(i, key_words, temp) ==
    IF i % key_words = 0
    THEN WordXor(SubWordRot(temp), <<Rcon[i \div key_words], 0, 0, 0>>)
    ELSE temp

ScheduleStep(i, key_words, temp) ==
    IF i % key_words = 0
    THEN WordXor(SubWordRot(temp), <<Rcon[i \div key_words], 0, 0, 0>>)
    ELSE IF key_words = 8 /\ i % key_words = 4 THEN SubWord(temp)
    ELSE temp

\* math_aes_setenckey.  key has 16, 24 or 32 bytes: every caller checks.
SetEncKey(key) ==
    LET key_words == Len(key) \div 4
        from[keys \in Seq(Word)] ==
            LET i == Len(keys)
            IN  IF i = 4 * (key_words + 7) THEN keys
                ELSE from[Append(keys, WordXor(keys[i - key_words + 1],
                                               ScheduleStep(i, key_words, keys[i])))]
    IN  [rounds |-> key_words + 6, keys |-> from[Words(key)]]

\* AES_INV_MIX_KEY
InvMixKey(w) ==
    LET s == SubWord(w)
    IN  WordXor(WordXor(At(ReverseTable, s[1]), Rotl8(At(ReverseTable, s[2]))),
                WordXor(Rotl16(At(ReverseTable, s[3])), Rotl24(At(ReverseTable, s[4]))))

\* One word of decryption round key number round.
DecKeyWord(enc, round, word) ==
    LET w == enc.keys[4 * (enc.rounds - round) + word]
    IN  IF round \in {0, enc.rounds} THEN w ELSE InvMixKey(w)

\* math_aes_setdeckey
SetDecKey(key) ==
    LET enc == SetEncKey(key)
        KeyWord(i) == DecKeyWord(enc, (i - 1) \div 4, ((i - 1) % 4) + 1)
    IN  [rounds |-> enc.rounds, keys |-> Listed(4 * (enc.rounds + 1), KeyWord)]

-----------------------------------------------------------------------------
(* Encryption and decryption *)

RoundKey(ctx, round) == SubSeq(ctx.keys, 4 * round + 1, 4 * round + 4)

\* The column k after (in decryption, with k of 4 - k: before) column c.
Column(s, c, k) == s[((c - 1 + k) % 4) + 1]

\* AES_FORWARD_ROUND_WORD and AES_REVERSE_ROUND_WORD: one byte of each of
\* four columns through the table and its rotations.
TableWord(table, rk, a, b, c, d) ==
    WordXor(rk, WordXor(WordXor(At(table, a[1]), Rotl8(At(table, b[2]))),
                        WordXor(Rotl16(At(table, c[3])), Rotl24(At(table, d[4])))))

\* AES_FORWARD_FINAL_WORD and AES_REVERSE_FINAL_WORD.
FinalWord(sbox, rk, a, b, c, d) ==
    WordXor(rk, <<At(sbox, a[1]), At(sbox, b[2]), At(sbox, c[3]), At(sbox, d[4])>>)

AddRoundKey(s, rk) ==
    <<WordXor(s[1], rk[1]), WordXor(s[2], rk[2]), WordXor(s[3], rk[3]), WordXor(s[4], rk[4])>>

\* math_aes_encrypt
AesEncrypt(ctx, input) ==
    LET from[s \in Seq(Word), round \in 1 .. ctx.rounds] ==
            LET rk == RoundKey(ctx, round)
                Round(c) == TableWord(ForwardTable, rk[c], s[c], Column(s, c, 1),
                                      Column(s, c, 2), Column(s, c, 3))
                Final(c) == FinalWord(ForwardSBox, rk[c], s[c], Column(s, c, 1),
                                      Column(s, c, 2), Column(s, c, 3))
            IN  IF round = ctx.rounds THEN Listed(4, Final)
                ELSE from[Listed(4, Round), round + 1]
    IN  Bytes(from[AddRoundKey(Words(input), RoundKey(ctx, 0)), 1])

\* math_aes_decrypt
AesDecrypt(ctx, input) ==
    LET from[s \in Seq(Word), round \in 1 .. ctx.rounds] ==
            LET rk == RoundKey(ctx, round)
                Round(c) == TableWord(ReverseTable, rk[c], s[c], Column(s, c, 3),
                                      Column(s, c, 2), Column(s, c, 1))
                Final(c) == FinalWord(ReverseSBox, rk[c], s[c], Column(s, c, 3),
                                      Column(s, c, 2), Column(s, c, 1))
            IN  IF round = ctx.rounds THEN Listed(4, Final)
                ELSE from[Listed(4, Round), round + 1]
    IN  Bytes(from[AddRoundKey(Words(input), RoundKey(ctx, 0)), 1])
=============================================================================
