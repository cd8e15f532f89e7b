------------------------------- MODULE Octets -------------------------------
(***************************************************************************)
(* Bytes and buffers: a byte is a number, a buffer the sequence of its     *)
(* bytes.                                                                  *)
(***************************************************************************)
EXTENDS Naturals, Sequences

CONSTANT Xor(_, _)      \* the exclusive or of two bytes, the ^ of C

Byte == 0 .. 255

\* The sequence of F(1), ..., F(count).
Listed(count, F(_)) == SubSeq([i \in 1 .. count |-> F(i)], 1, count)

Bit(x, i) == (x \div 2 ^ i) % 2

BytesXor(v, w) ==
    LET XorAt(i) == Xor(v[i], w[i]) IN Listed(Len(v), XorAt)

Zeros(count) == LET Zero(i) == 0 IN Listed(count, Zero)
=============================================================================
