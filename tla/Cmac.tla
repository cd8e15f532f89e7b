-------------------------------- MODULE Cmac --------------------------------
(***************************************************************************)
(* AES-CMAC, math/cmac.c.  The context outlives a message: the MKA layer   *)
(* holds one for every key and every PDU, so each operator takes the       *)
(* context it finds and returns the one it leaves.                         *)
(***************************************************************************)
EXTENDS BlockCipher

CMAC_BLOCK_SIZE == 16
CMAC_RB == 135

\* math_cmac_init and math_cmac_free leave the context all zero.
ZeroCmac == [state |-> Zeros(16), unprocessed_block |-> Zeros(16),
             unprocessed_len |-> 0, aes_ctx |-> ZeroAes]

\* cmac_left_shift_one_bit
LeftShiftOneBit(in) ==
    LET Shifted(i) == ((2 * in[i]) % 256) + (IF i < 16 THEN in[i + 1] \div 128 ELSE 0)
    IN  Listed(16, Shifted)

\* One half of cmac_generate_subkeys: k1 from l, and k2 from k1.
Subkey(l) ==
    LET shifted == LeftShiftOneBit(l)
    IN  IF l[1] >= 128 THEN [shifted EXCEPT ![16] = Xor(@, CMAC_RB)] ELSE shifted

\* Mutation: the chain of the previous message is not cut.
CmacStartsKept(ctx, key) ==
    [ctx EXCEPT !.unprocessed_block = Zeros(16), !.unprocessed_len = 0,
                !.aes_ctx = EncryptionKey(key)]

\* cmac_starts
CmacStarts(ctx, key) ==
    [ctx EXCEPT !.state = Zeros(16), !.unprocessed_block = Zeros(16),
                !.unprocessed_len = 0, !.aes_ctx = EncryptionKey(key)]

\* memcpy of in to the start of block: the bytes behind it stay.
CopiedTo(block, in) ==
    LET Copied(i) == IF i <= Len(in) THEN in[i] ELSE block[i] IN Listed(16, Copied)

\* Mutation: a last block that is complete is absorbed like the others.
AbsorbsAll(ilen) == ilen >= CMAC_BLOCK_SIZE

\* The loop leaves a complete last block to cmac_finish.
Absorbs(ilen) == ilen > CMAC_BLOCK_SIZE

\* cmac_update.  The one caller has just started the context: the branch
\* that completes an unprocessed block is never taken and left out.
CmacUpdate(ctx, input) ==
    LET kept(state, left) == [ctx EXCEPT !.state = state,
                                         !.unprocessed_block = CopiedTo(@, left),
                                         !.unprocessed_len = Len(left)]
        loop[state \in Seq(Byte), left \in Seq(Byte)] ==
            IF Absorbs(Len(left))
            THEN loop[Encrypt(ctx.aes_ctx, BytesXor(state, SubSeq(left, 1, 16))),
                      SubSeq(left, 17, Len(left))]
            ELSE kept(state, left)
    IN  loop[ctx.state, input]

\* The last block, complete or padded.
LastBlock(ctx, k1, k2) ==
    LET len == ctx.unprocessed_len
        tail == SubSeq(ctx.unprocessed_block, 1, len)
    IN  IF len = CMAC_BLOCK_SIZE THEN BytesXor(tail, k1)
        ELSE BytesXor(CopiedTo(Zeros(16), Append(tail, 128)), k2)

\* cmac_finish
CmacFinish(ctx) ==
    LET k1 == Subkey(Encrypt(ctx.aes_ctx, Zeros(16)))
        k2 == Subkey(k1)
    IN  Encrypt(ctx.aes_ctx, BytesXor(ctx.state, LastBlock(ctx, k1, k2)))

\* math_cmac_aes.  The key has 16 or 32 bytes: the MKA layer checks.
CmacAes(ctx, key, input) ==
    LET finished(fed) == [ctx |-> fed, mac |-> CmacFinish(fed)]
    IN  finished(CmacUpdate(CmacStarts(ctx, key), input))
=============================================================================
