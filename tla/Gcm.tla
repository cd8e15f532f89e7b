--------------------------------- MODULE Gcm ---------------------------------
(***************************************************************************)
(* AES-GCM, math/gcm.c: GHASH through tables of four bits, the payload     *)
(* loop that works on one buffer in place, and the two one-shot calls the  *)
(* frame layer makes.  The payload lies in a memory of bytes, the input    *)
(* and the output are places in it (in for the pointer input, out for      *)
(* output), and they may overlap.                                          *)
(*                                                                         *)
(* A context is [aes_ctx, H, mode, y, base_ectr, buf, len, add_len]; the   *)
(* 64-bit halves HH[i] and HL[i] of a table entry are the 16 bytes H[i+1]. *)
(***************************************************************************)
EXTENDS BlockCipher, TLC

GCM_BLOCK_SIZE == 16
GCM_STANDARD_IV_SIZE == 12

ZeroGcm == [aes_ctx |-> ZeroAes, H |-> <<>>, mode |-> "none", y |-> Zeros(16),
            base_ectr |-> Zeros(16), buf |-> Zeros(16), len |-> 0, add_len |-> 0]

-----------------------------------------------------------------------------
(* Multiplication by H *)

\* One bit to the right in the field's bit order, bit 127 reduced by 0xE1.
Halved(v) ==
    LET Byte1(i) == (v[i] \div 2) + 128 * (IF i > 1 THEN v[i - 1] % 2 ELSE 0)
        w == Listed(16, Byte1)
    IN  IF v[16] % 2 = 1 THEN [w EXCEPT ![1] = Xor(@, 225)] ELSE w

\* The tables of math_gcm_setkey from H: entry 8 is H, 4, 2 and 1 its
\* halves, every other the sum of its highest bit's and the rest's entries.
Entry(h, i) ==
    LET entry[k \in 0 .. 15] ==
            IF k = 0 THEN Zeros(16)
            ELSE IF k = 8 THEN h
            ELSE IF k \in {1, 2, 4} THEN Halved(entry[2 * k])
            ELSE LET top == CHOOSE p \in {2, 4, 8} : p < k /\ k < 2 * p
                 IN  BytesXor(entry[top], entry[k - top])
    IN  entry[i]

\* gcm_last4, the 16 bits that four bits shifted out leave behind.
Last4 ==
    <<<<0, 0>>, <<28, 32>>, <<56, 64>>, <<36, 96>>, <<112, 128>>, <<108, 160>>,
      <<72, 192>>, <<84, 224>>, <<225, 0>>, <<253, 32>>, <<217, 64>>, <<197, 96>>,
      <<145, 128>>, <<141, 160>>, <<169, 192>>, <<181, 224>>>>

\* GCM_SHIFT4
Shift4(z) ==
    LET rem == Last4[(z[16] % 16) + 1]
        Byte4(i) == LET moved == (z[i] \div 16) + 16 * (IF i > 1 THEN z[i - 1] % 16 ELSE 0)
                    IN  IF i <= 2 THEN Xor(moved, rem[i]) ELSE moved
    IN  Listed(16, Byte4)

\* gcm_mult: the nibbles of x from the last to the first.
GcmMult(H, x) ==
    LET Nibble(i) == IF i % 2 = 0 THEN x[16 - (i \div 2)] % 16 ELSE x[16 - (i \div 2)] \div 16
        loop[z \in Seq(Byte), i \in 0 .. 32] ==
            IF i = 32 THEN z
            ELSE loop[BytesXor(Shift4(z), H[Nibble(i) + 1]), i + 1]
    IN  loop[H[Nibble(0) + 1], 1]

-----------------------------------------------------------------------------
(* Key, start *)

\* math_gcm_setkey, with the math_gcm_init and math_gcm_free of the frame
\* layer around it.
GcmSetKey(key) ==
    LET aes == EncryptionKey(key)
        h == Encrypt(aes, Zeros(16))
        EntryAt(i) == Entry(h, i - 1)
    IN  [ZeroGcm EXCEPT !.aes_ctx = aes, !.H = Listed(16, EntryAt)]

\* gcm_increment_counter: the last four bytes, the carry stopping at the
\* first of them that does not become zero.
IncrementCounter(counter) ==
    LET Carried(i) == \A j \in i + 1 .. 16 : counter[j] = 255
        Count(i) == IF i > 12 /\ Carried(i) THEN (counter[i] + 1) % 256 ELSE counter[i]
    IN  Listed(16, Count)

\* The data of one block exclusive-ored into the front of buf.
Mixed(buf, data) ==
    LET Mix(i) == IF i <= Len(data) THEN Xor(buf[i], data[i]) ELSE buf[i]
    IN  Listed(16, Mix)

\* The associated data hashed into buf: whole blocks multiplied as they come, the
\* rest after the loop.
AddedData(H, start, add) ==
    LET loop[buf \in Seq(Byte), left \in Seq(Byte)] ==
            IF Len(left) >= GCM_BLOCK_SIZE
            THEN loop[GcmMult(H, Mixed(buf, SubSeq(left, 1, 16))), SubSeq(left, 17, Len(left))]
            ELSE IF left = <<>> THEN buf
            ELSE GcmMult(H, Mixed(buf, left))
    IN  loop[start, add]

\* gcm_starts, for the IV of GCM_STANDARD_IV_SIZE bytes every caller has.
GcmStarts(ctx, mode, iv, add) ==
    LET y == iv \o <<0, 0, 0, 1>>
    IN  [ctx EXCEPT !.mode = mode, !.len = 0, !.add_len = Len(add), !.y = y,
                    !.base_ectr = Encrypt(ctx.aes_ctx, y),
                    !.buf = AddedData(ctx.H, Zeros(16), add)]

-----------------------------------------------------------------------------
(* Payload and tag *)

\* Mutation: any two places are taken for disjoint.
OverlapUnchecked(length, in, out) == FALSE

\* The output may lie on or before the input, not inside it.
Overlaps(length, in, out) == length # 0 /\ out > in /\ out - in < length

\* One block of the payload, byte after byte: ectr is the key stream, byte i
\* of the block lies at in + i and goes to out + i.
PayloadBlock(mode, ectr, size, memory, buf, in, out) ==
    LET loop[m \in Seq(Byte), b \in Seq(Byte), i \in 1 .. 17] ==
            IF i > size THEN <<m, b>>
            ELSE LET p == m[in + i]
                     c == Xor(ectr[i], p)
                 IN  loop[[m EXCEPT ![out + i] = c],
                          [b EXCEPT ![i] = Xor(@, IF mode = "decrypt" THEN p ELSE c)],
                          i + 1]
    IN  loop[memory, buf, 1]

\* gcm_update.  The limit of 2^36 - 32 bytes on a message is left out: a
\* frame has at most MACSEC_FRAME_MAX_PLAIN_SIZE.
GcmUpdate(ctx, length, memory, in, out) ==
    LET loop[m \in Seq(Byte), y \in Seq(Byte), buf \in Seq(Byte), done \in 0 .. length] ==
            IF done = length
            THEN [ret |-> "ok", memory |-> m,
                  ctx |-> [ctx EXCEPT !.y = y, !.buf = buf, !.len = @ + length]]
            ELSE LET next == IncrementCounter(y)
                     size == IF length - done < GCM_BLOCK_SIZE THEN length - done
                             ELSE GCM_BLOCK_SIZE
                     after(block) ==
                         loop[block[1], next,
                              IF size = GCM_BLOCK_SIZE THEN GcmMult(ctx.H, block[2])
                              ELSE block[2],
                              done + size]
                 IN  after(PayloadBlock(ctx.mode, Encrypt(ctx.aes_ctx, next), size, m, buf,
                                        in + done, out + done))
    IN  IF Overlaps(length, in, out)
        THEN [ret |-> "bad_input", memory |-> memory, ctx |-> ctx]
        ELSE loop[memory, ctx.y, ctx.buf, 0]

\* GCM_PUT_BE64 of a number of bits below 2^16.
BitCount(bits) == Zeros(6) \o <<bits \div 256, bits % 256>>

\* The hash with a partial last block completed.
Hashed(ctx) == IF ctx.len % GCM_BLOCK_SIZE # 0 THEN GcmMult(ctx.H, ctx.buf) ELSE ctx.buf

\* gcm_finish with the frame layer's tag of 16 bytes.
GcmFinish(ctx) ==
    LET lengths == BitCount(8 * ctx.add_len) \o BitCount(8 * ctx.len)
        signed(hash) == [ctx |-> [ctx EXCEPT !.buf = hash],
                         tag |-> BytesXor(ctx.base_ectr, hash)]
    IN  signed(GcmMult(ctx.H, BytesXor(Hashed(ctx), lengths)))

\* math_gcm_crypt_and_tag
CryptAndTag(ctx, mode, length, iv, add, memory, in, out) ==
    LET finished(updated) ==
            IF updated.ret = "ok" THEN GcmFinish(updated.ctx)
            ELSE [ctx |-> updated.ctx, tag |-> <<>>]
        all(updated) == finished(updated) @@ [ret |-> updated.ret, memory |-> updated.memory]
    IN  all(GcmUpdate(GcmStarts(ctx, mode, iv, add), length, memory, in, out))

\* Mutation: the plaintext of a message that failed stays.
PlaintextKept(memory, length, out) == memory

\* math_zeroize of the output.
Wiped(memory, length, out) ==
    LET Wipe(i) == IF i \in out + 1 .. out + length THEN 0 ELSE memory[i]
    IN  Listed(Len(memory), Wipe)

\* math_gcm_auth_decrypt
AuthDecrypt(ctx, length, iv, add, tag, memory, in, out) ==
    LET compared(done) ==
            IF done.ret = "ok" /\ done.tag # tag
            THEN [done EXCEPT !.ret = "auth_failed", !.memory = Wiped(@, length, out)]
            ELSE done
    IN  compared(CryptAndTag(ctx, "decrypt", length, iv, add, memory, in, out))
=============================================================================
