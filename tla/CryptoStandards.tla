--------------------------- MODULE CryptoStandards ---------------------------
(***************************************************************************)
(* What the cryptography of the stack has to compute, written from the     *)
(* documents and not from the code: CMAC (RFC 4493), GCM by the product in *)
(* the field (NIST SP 800-38D), the shift-register form of the key wrap    *)
(* (RFC 3394, 2.2.1) and the key derivation of IEEE 802.1X, 6.2.1, all     *)
(* over the cipher of FIPS 197.                                            *)
(***************************************************************************)
EXTENDS Octets

CONSTANTS
    Expanded(_),        \* KeyExpansion of FIPS 197
    Cipher(_, _),       \* Cipher, of an expanded key and a block
    InvCipher(_, _)     \* InvCipher

-----------------------------------------------------------------------------
(* RFC 4493 *)

\* Byte k of the concatenation of x with zeros.
ByteOr0(x, k) == IF k \in 1 .. Len(x) THEN x[k] ELSE 0

BitsOf(x) == LET bit(i) == Bit(x[((i - 1) \div 8) + 1], 7 - ((i - 1) % 8)) IN Listed(128, bit)

BlockOf(bits) ==
    LET value[n \in 0 .. 8, i \in 0 .. 15] ==
            IF n = 0 THEN 0 ELSE 2 * value[n - 1, i] + bits[8 * i + n]
        byte(i) == value[8, i - 1]
    IN  Listed(16, byte)

\* The left shift of RFC 4493, 2.3.
Doubled(x) ==
    LET shifted(bits) == BytesXor(BlockOf(Append(Tail(bits), 0)),
                                  Append(Zeros(15), 135 * Head(bits)))
    IN  shifted(BitsOf(x))

Rfc4493(key, message) ==
    LET e == Expanded(key)
        n == IF message = <<>> THEN 1 ELSE (Len(message) + 15) \div 16
        k1 == Doubled(Cipher(e, Zeros(16)))
        part(i) == SubSeq(message, 16 * i - 15, IF 16 * i < Len(message) THEN 16 * i
                                                 ELSE Len(message))
        padded(x) == LET byte(k) == IF k = Len(x) + 1 THEN 128 ELSE ByteOr0(x, k)
                     IN  Listed(16, byte)
        last == IF Len(part(n)) = 16 THEN BytesXor(part(n), k1)
                ELSE BytesXor(padded(part(n)), Doubled(k1))
        chain[i \in 0 .. n] ==
            IF i = 0 THEN Zeros(16)
            ELSE Cipher(e, BytesXor(chain[i - 1], IF i = n THEN last ELSE part(i)))
    IN  chain[n]

-----------------------------------------------------------------------------
(* NIST SP 800-38D *)

\* The product of two blocks, 6.3.
BlockProduct(x, y) ==
    LET xs == BitsOf(x)
        half(bits) == BytesXor(BlockOf(<<0>> \o SubSeq(bits, 1, 127)),
                               <<225 * bits[128]>> \o Zeros(15))
        loop[z \in Seq(Byte), v \in Seq(Byte), i \in 1 .. 129] ==
            IF i = 129 THEN z
            ELSE loop[IF xs[i] = 1 THEN BytesXor(z, v) ELSE z, half(BitsOf(v)), i + 1]
    IN  loop[Zeros(16), y, 1]

\* x behind as many zeros as fill its last block.
Filled(x) == x \o Zeros((16 - (Len(x) % 16)) % 16)

\* GHASH of whole blocks.
Ghash(h, x) ==
    LET loop[y \in Seq(Byte), left \in Seq(Byte)] ==
            IF left = <<>> THEN y
            ELSE loop[BlockProduct(BytesXor(y, SubSeq(left, 1, 16)), h),
                      SubSeq(left, 17, Len(left))]
    IN  loop[Zeros(16), x]

\* Counter block number i of a message of fewer than 255 blocks.
CounterBlock(iv, i) == iv \o <<0, 0, 0, i>>

\* GCTR from counter block 2 on.
Gctr(e, iv, x) ==
    LET stream[i \in 0 .. (Len(x) + 15) \div 16] ==
            IF i = 0 THEN <<>> ELSE stream[i - 1] \o Cipher(e, CounterBlock(iv, i + 1))
    IN  BytesXor(x, stream[(Len(x) + 15) \div 16])

BitLength(x) == Zeros(6) \o <<Len(x) \div 32, (8 * Len(x)) % 256>>

\* The tag of ciphertext c with associated data add.
Sp80038dTag(e, iv, add, c) ==
    BytesXor(Cipher(e, CounterBlock(iv, 1)),
             Ghash(Cipher(e, Zeros(16)),
                   Filled(add) \o Filled(c) \o BitLength(add) \o BitLength(c)))

-----------------------------------------------------------------------------
(* RFC 3394 and IEEE 802.1X *)

\* The key wrap as a shift register, 2.2.1: the semi-block that enters the
\* cipher comes from the front and its result goes to the end.
Rfc3394(kek, plain) ==
    LET e == Expanded(kek)
        steps == 6 * (Len(plain) \div 8)
        loop[a \in Seq(Byte), r \in Seq(Byte), t \in 1 .. steps + 1] ==
            IF t > steps THEN a \o r
            ELSE LET b == Cipher(e, a \o SubSeq(r, 1, 8))
                 IN  loop[BytesXor(SubSeq(b, 1, 8), Append(Zeros(7), t)),
                          SubSeq(r, 9, Len(r)) \o SubSeq(b, 9, 16), t + 1]
    IN  loop[<<166, 166, 166, 166, 166, 166, 166, 166>>, plain, 1]

\* The key derivation with the label that ends in the three given letters.
Ieee8021xKey(cak, ckn, letters) ==
    LET label == <<73, 69, 69, 69, 56, 48, 50, 49, 32>> \o letters
        keyid(k) == ByteOr0(ckn, k)
        size == <<Len(cak) \div 32, (8 * Len(cak)) % 256>>
        part(i) == Rfc4493(cak, <<i>> \o label \o <<0>> \o Listed(16, keyid) \o size)
    IN  SubSeq(part(1) \o part(2), 1, Len(cak))

Ieee8021xIck(cak, ckn) == Ieee8021xKey(cak, ckn, <<73, 67, 75>>)
Ieee8021xKek(cak, ckn) == Ieee8021xKey(cak, ckn, <<75, 69, 75>>)
=============================================================================
