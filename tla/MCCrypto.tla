------------------------------- MODULE MCCrypto -------------------------------
(***************************************************************************)
(* The jobs and keys on which CryptoBench is checked.                      *)
(***************************************************************************)
EXTENDS ExclusiveOr, Aes, Fips197, CryptoBench

\* Bytes from a seed on, far from regular.
Pattern(count, seed) ==
    LET byte(i) == (seed * i * i + 37 * i + 101 * seed) % 256 IN Listed(count, byte)

Counted8(count) == LET byte(i) == i - 1 IN Listed(count, byte)

\* FIPS 197, Appendix C: the standard's own examples, by which the reference
\* definitions themselves are held.
AppendixC == LET byte(i) == 17 * (i - 1) IN Listed(16, byte)

ASSUME Fips197AppendixC ==
    /\ FipsCipher(FipsKeyExpansion(Counted8(16)), AppendixC)
         = <<105, 196, 224, 216, 106, 123, 4, 48, 216, 205, 183, 128, 112, 180, 197, 90>>
    /\ FipsCipher(FipsKeyExpansion(Counted8(24)), AppendixC)
         = <<221, 169, 124, 164, 134, 76, 223, 224, 110, 175, 112, 160, 236, 13, 113, 145>>
    /\ FipsCipher(FipsKeyExpansion(Counted8(32)), AppendixC)
         = <<142, 162, 183, 202, 81, 103, 69, 191, 234, 252, 73, 144, 75, 73, 96, 137>>

AesJobs ==
    {[kind |-> "aes", key |-> Pattern(size, seed), block |-> Pattern(16, seed + 1)] :
        size \in {16, 24, 32}, seed \in {3, 90}}

\* Lengths on both sides of a whole last block, the second call with the key
\* of the first and with another.
MacJobs ==
    {[kind |-> "mac", before |-> [key |-> Pattern(16, 5), message |-> Pattern(before, 8)],
      key |-> Pattern(size, 5), message |-> Pattern(length, 9)] :
        before \in {3, 32}, size \in {16, 32}, length \in {1, 15, 16, 17, 32, 33}}

Lengths == {0, 1, 16, 20, 33}

\* Places in a memory of 96 bytes: apart, equal, the output up to a block
\* and a byte before the input, and the output inside the input.
Places == {<<0, 50>>, <<50, 0>>, <<20, 20>>, <<20, 19>>, <<20, 4>>, <<20, 3>>,
           <<20, 21>>, <<20, 36>>, <<20, 39>>, <<20, 40>>}

SealJobs ==
    {[kind |-> "seal", key |-> Pattern(16, 7), iv |-> Pattern(12, 2), add |-> Pattern(28, 6),
      text |-> Pattern(length, 4), memory |-> Pattern(96, 1), in |-> p[1], out |-> p[2]] :
        length \in Lengths, p \in Places}

OpenJobs ==
    {[kind |-> "open", key |-> Pattern(32, 7), iv |-> Pattern(12, 2), add |-> Pattern(28, 6),
      text |-> Pattern(length, 4), memory |-> Pattern(96, 1), in |-> p[1], out |-> p[2],
      damaged |-> field] :
        length \in Lengths \ {0}, p \in {<<0, 50>>, <<20, 20>>, <<20, 4>>, <<20, 22>>},
        field \in {"none", "iv", "add", "text", "tag"}}

BenchJobs == AesJobs \cup MacJobs \cup SealJobs \cup OpenJobs

\* The second names the association of the first by a shorter CKN, which
\* zeros complete to the same KeyID; the third has a CAK of 32 bytes.
BenchPsks ==
    <<[cak |-> Pattern(16, 3), ckn |-> Pattern(4, 4) \o Zeros(13)],
      [cak |-> Pattern(16, 3), ckn |-> Pattern(4, 4)],
      [cak |-> Pattern(32, 9), ckn |-> Pattern(32, 4)]>>

Interchangeable == Permutations(Stations)

BenchPdus == <<Pattern(17, 5)>>
BenchSaks == <<Pattern(16, 11), Pattern(32, 12)>>
=============================================================================
