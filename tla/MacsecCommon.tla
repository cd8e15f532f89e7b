----------------------------- MODULE MacsecCommon -----------------------------
(* What every layer shares: key values and macsec_compare (macsec_common.c). *)
EXTENDS Integers

CONSTANTS Key,     \* the Secure Association Keys, a key's length included
          NoKey    \* a zeroized key field

ASSUME KeyAssumption == NoKey \notin Key

\* Zero for equal buffers, else the OR of the bytes' differences.
MacsecCompare(a, b) == IF a = b THEN 0 ELSE 1
=============================================================================
