----------------------------- MODULE ExclusiveOr -----------------------------
(***************************************************************************)
(* The exclusive or of two bytes by a table of nibbles, which TLC computes *)
(* once.                                                                   *)
(***************************************************************************)
EXTENDS Octets

NibbleXor ==
    LET entry(k) == LET a == (k - 1) \div 16  b == (k - 1) % 16
                    IN    ((Bit(a, 0) + Bit(b, 0)) % 2) + 2 * ((Bit(a, 1) + Bit(b, 1)) % 2)
                      + 4 * ((Bit(a, 2) + Bit(b, 2)) % 2) + 8 * ((Bit(a, 3) + Bit(b, 3)) % 2)
    IN  Listed(256, entry)

ByteXor(a, b) ==
    16 * NibbleXor[16 * (a \div 16) + (b \div 16) + 1] + NibbleXor[16 * (a % 16) + (b % 16) + 1]
=============================================================================
