------------------------------ MODULE MkaCrypto ------------------------------
(***************************************************************************)
(* The cryptography of MKA, mka_crypto.c: the pre-shared key, the key      *)
(* derivation of IEEE 802.1X, the ICV and the wrapped SAK (RFC 3394).      *)
(* One context serves every call: its cmac_ctx computes derivations and    *)
(* ICVs, its aes_ctx holds the encryption schedule after a wrap and the    *)
(* decryption schedule after an unwrap, and both keep what the last call   *)
(* left there.  An operator takes the context and returns [ret, ctx, ...]. *)
(***************************************************************************)
EXTENDS Cmac

MACSEC_MKA_CKN_MAX_LEN == 32
MACSEC_MKA_SAK_MAX_LEN == 32

NoPsk  == [cak |-> <<>>, ckn |-> <<>>, valid |-> FALSE]
NoKeys == [ick |-> <<>>, kek |-> <<>>, valid |-> FALSE]

\* macsec_mka_crypto_init and macsec_mka_crypto_clear: all zero.
ZeroCrypto == [psk |-> NoPsk, keys |-> NoKeys, cmac_ctx |-> ZeroCmac, aes_ctx |-> ZeroAes]

\* macsec_mka_key_len_valid
KeyLenValid(len) == len \in {16, 32}

IckReady(ctx) == ctx.keys.valid /\ KeyLenValid(Len(ctx.keys.ick))
KekReady(ctx) == ctx.keys.valid /\ KeyLenValid(Len(ctx.keys.kek))

-----------------------------------------------------------------------------
(* Keys *)

\* Mutation: the keys derived from the previous CAK survive.
SetPskKeepsKeys(ctx, cak, ckn) ==
    IF KeyLenValid(Len(cak)) /\ Len(ckn) \in 1 .. MACSEC_MKA_CKN_MAX_LEN
    THEN [ret |-> "ok", ctx |-> [ctx EXCEPT !.psk = [cak |-> cak, ckn |-> ckn, valid |-> TRUE]]]
    ELSE [ret |-> "param", ctx |-> ctx]

\* macsec_mka_crypto_set_psk
SetPsk(ctx, cak, ckn) ==
    IF KeyLenValid(Len(cak)) /\ Len(ckn) \in 1 .. MACSEC_MKA_CKN_MAX_LEN
    THEN [ret |-> "ok", ctx |-> [ctx EXCEPT !.psk = [cak |-> cak, ckn |-> ckn, valid |-> TRUE],
                                            !.keys = NoKeys]]
    ELSE [ret |-> "param", ctx |-> ctx]

\* macsec_mka_kdf for an output of 16 or 32 bytes: one CMAC for every 16,
\* numbered from 1.
Kdf(cmac_ctx, key, label, context, out_len) ==
    LET out_bits == 8 * out_len
        input(counter) == <<counter>> \o label \o <<0>> \o context
                          \o <<out_bits \div 256, out_bits % 256>>
        joined(first, second) == [ctx |-> second.ctx, key |-> first.mac \o second.mac]
        after(first) == IF out_len = 16 THEN [ctx |-> first.ctx, key |-> first.mac]
                        ELSE joined(first, CmacAes(first.ctx, key, input(2)))
    IN  after(CmacAes(cmac_ctx, key, input(1)))

\* "IEEE8021 ICK" and "IEEE8021 KEK"
IckLabel == <<73, 69, 69, 69, 56, 48, 50, 49, 32, 73, 67, 75>>
KekLabel == <<73, 69, 69, 69, 56, 48, 50, 49, 32, 75, 69, 75>>

\* The first 16 bytes of the CKN, zeros behind a shorter one.
KeyId(ckn) == CopiedTo(Zeros(16), SubSeq(ckn, 1, IF Len(ckn) < 16 THEN Len(ckn) ELSE 16))

\* macsec_mka_derive_one
DeriveOne(psk, cmac_ctx, label) == Kdf(cmac_ctx, psk.cak, label, KeyId(psk.ckn), Len(psk.cak))

\* macsec_mka_crypto_derive_ick_kek
DeriveIckKek(ctx) ==
    LET derived(ick, kek) ==
            [ret |-> "ok",
             ctx |-> [ctx EXCEPT !.cmac_ctx = kek.ctx,
                                 !.keys = [ick |-> ick.key, kek |-> kek.key, valid |-> TRUE]]]
        after(ick) == derived(ick, DeriveOne(ctx.psk, ick.ctx, KekLabel))
    IN  IF ctx.psk.valid THEN after(DeriveOne(ctx.psk, ctx.cmac_ctx, IckLabel))
        ELSE [ret |-> "state", ctx |-> ctx]

-----------------------------------------------------------------------------
(* Integrity check value *)

\* macsec_mka_crypto_calc_mic
CalcMic(ctx, pdu) ==
    LET done(cmac) == [ret |-> "ok", ctx |-> [ctx EXCEPT !.cmac_ctx = cmac.ctx],
                       mic |-> cmac.mac]
    IN  IF IckReady(ctx) THEN done(CmacAes(ctx.cmac_ctx, ctx.keys.ick, pdu))
        ELSE [ret |-> "state", ctx |-> ctx, mic |-> <<>>]

\* macsec_mka_crypto_verify_mic
VerifyMic(ctx, pdu, mic) ==
    LET compared(calc) ==
            [ret |-> IF calc.ret = "ok" /\ calc.mic # mic THEN "auth" ELSE calc.ret,
             ctx |-> calc.ctx]
    IN  compared(CalcMic(ctx, pdu))

-----------------------------------------------------------------------------
(* Key wrap.  The register a and the n semi-blocks r of 8 bytes each. *)

KwIv == <<166, 166, 166, 166, 166, 166, 166, 166>>

SemiBlock(r, i) == SubSeq(r, 8 * i - 7, 8 * i)

PutSemiBlock(r, i, s) == SubSeq(r, 1, 8 * i - 8) \o s \o SubSeq(r, 8 * i + 1, Len(r))

\* The step count t, below 256, exclusive-ored into the big-endian register.
Counted(a, t) == [a EXCEPT ![8] = Xor(@, t)]

\* The step count t of semi-block i in round j.
WrapCount(j, i, n) == j * n + i

\* macsec_mka_aes_kw_wrap
KwWrap(aes_ctx, plain) ==
    LET n == Len(plain) \div 8
        loop[a \in Seq(Byte), r \in Seq(Byte), j \in 0 .. 6, i \in 1 .. n + 1] ==
            IF j = 6 THEN a \o r
            ELSE IF i > n THEN loop[a, r, j + 1, 1]
            ELSE LET b == Encrypt(aes_ctx, a \o SemiBlock(r, i))
                 IN  loop[Counted(SubSeq(b, 1, 8), WrapCount(j, i, n)),
                          PutSemiBlock(r, i, SubSeq(b, 9, 16)), j, i + 1]
    IN  loop[KwIv, plain, 0, 1]

\* The register and the semi-blocks macsec_mka_aes_kw_unwrap ends with.
KwUnwrapped(aes_ctx, wrapped) ==
    LET n == (Len(wrapped) \div 8) - 1
        loop[a \in Seq(Byte), r \in Seq(Byte), j_rev \in 0 .. 6, i \in 0 .. n] ==
            IF j_rev = 0 THEN [a |-> a, r |-> r]
            ELSE IF i = 0 THEN loop[a, r, j_rev - 1, n]
            ELSE LET b == Decrypt(aes_ctx, Counted(a, WrapCount(j_rev - 1, i, n))
                                           \o SemiBlock(r, i))
                 IN  loop[SubSeq(b, 1, 8), PutSemiBlock(r, i, SubSeq(b, 9, 16)), j_rev, i - 1]
    IN  loop[SubSeq(wrapped, 1, 8), SubSeq(wrapped, 9, Len(wrapped)), 6, n]

\* Mutation: a context that has a schedule already is used as it is.
ScheduleKept(ctx) == IF ctx.aes_ctx = ZeroAes THEN EncryptionKey(ctx.keys.kek) ELSE ctx.aes_ctx

\* The AES context of a wrap and of an unwrap, whatever the last call left.
WrapSchedule(ctx)   == EncryptionKey(ctx.keys.kek)
UnwrapSchedule(ctx) == DecryptionKey(ctx.keys.kek)

\* macsec_mka_crypto_wrap_sak
WrapSak(ctx, sak) ==
    LET aes == WrapSchedule(ctx)
    IN  IF ~KekReady(ctx) THEN [ret |-> "state", ctx |-> ctx, wrapped |-> <<>>]
        ELSE IF ~KeyLenValid(Len(sak)) THEN [ret |-> "param", ctx |-> ctx, wrapped |-> <<>>]
        ELSE [ret |-> "ok", ctx |-> [ctx EXCEPT !.aes_ctx = aes], wrapped |-> KwWrap(aes, sak)]

\* Mutation: the register is not compared with the initial value.
UnwrapAccepted(a) == TRUE

UnwrapAccepts(a) == a = KwIv

\* macsec_mka_crypto_unwrap_sak into a buffer of MACSEC_MKA_SAK_MAX_LEN,
\* which macsec_mka_parse_distributed_sak has cleared.
UnwrapSak(ctx, wrapped) ==
    LET aes == UnwrapSchedule(ctx)
        done == KwUnwrapped(aes, wrapped)
        refused(ret, left) == [ret |-> ret, ctx |-> left, sak_len |-> 0,
                               sak |-> Zeros(MACSEC_MKA_SAK_MAX_LEN)]
    IN  IF ~KekReady(ctx) THEN refused("state", ctx)
        ELSE IF Len(wrapped) \notin {24, 40} THEN refused("param", ctx)
        ELSE IF ~UnwrapAccepts(done.a) THEN refused("auth", [ctx EXCEPT !.aes_ctx = aes])
        ELSE [ret |-> "ok", ctx |-> [ctx EXCEPT !.aes_ctx = aes], sak_len |-> Len(done.r),
              sak |-> done.r \o Zeros(MACSEC_MKA_SAK_MAX_LEN - Len(done.r))]
=============================================================================
