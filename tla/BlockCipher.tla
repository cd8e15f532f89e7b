---------------------------- MODULE BlockCipher -----------------------------
(***************************************************************************)
(* What the modes of math/cmac.c, math/gcm.c and mka_crypto.c see of the   *)
(* block cipher: the interface of math/aes.h.  They hold its context and   *)
(* never look inside, so it is a parameter; module Aes gives it a value.   *)
(***************************************************************************)
EXTENDS Octets

CONSTANTS
    EncryptionKey(_),   \* math_aes_setenckey: the context a key leaves
    DecryptionKey(_),   \* math_aes_setdeckey
    Encrypt(_, _),      \* math_aes_encrypt of a block under a context
    Decrypt(_, _)       \* math_aes_decrypt

\* math_aes_init and math_aes_free leave no rounds and no keys.
ZeroAes == [rounds |-> 0, keys |-> <<>>]
=============================================================================
