----------------------------- MODULE CryptoBench -----------------------------
(***************************************************************************)
(* The cryptography of the stack at work.  A behaviour is of one of two    *)
(* kinds.  In one, bench holds a single job for a primitive (encrypt a     *)
(* block, compute a CMAC on a used context, seal or open a payload in a    *)
(* memory where input and output may overlap) and outcome what the code    *)
(* and what the standard make of it.  In the other, two stations each own  *)
(* a macsec_mka_crypto_ctx_t and call the interface of mka_crypto.h in any *)
(* order: paper is the last ICV or wrapped SAK one of them produced, which *)
(* the wire may alter once, and verdict what the last check of it said.    *)
(***************************************************************************)
EXTENDS MkaCrypto, Gcm, CryptoStandards

CONSTANTS
    Stations,   \* the two participants
    Jobs,       \* the jobs, records with a field kind
    Psks,       \* sequence of pre-shared keys [cak, ckn]
    Pdus,       \* sequence of PDUs, each a sequence of bytes
    Saks,       \* sequence of keys to wrap
    MaxSetups,  \* bound on SetPsk, DeriveIckKek and Clear calls
    MaxCalls,   \* bound on all other calls
    MaxWork     \* bound on both together, a call counted as two set-ups

VARIABLES bench, outcome, ends, paper, verdict, setups, calls

vars == <<bench, outcome, ends, paper, verdict, setups, calls>>

Nothing == [op |-> "none"]

Init ==
    /\ bench \in Jobs \cup {[kind |-> "stations"]}
    /\ outcome = Nothing
    /\ ends = [e \in Stations |-> ZeroCrypto]
    /\ paper = Nothing
    /\ verdict = Nothing
    /\ setups = 0
    /\ calls = 0

-----------------------------------------------------------------------------
(* Jobs for the primitives *)

\* The memory with data at offset at.
Placed(memory, at, data) ==
    LET byte(k) == IF k \in at + 1 .. at + Len(data) THEN data[k - at] ELSE memory[k]
    IN  Listed(Len(memory), byte)

AesJob(job) ==
    LET e == Expanded(job.key)
    IN  [op |-> "aes",
         got |-> <<Encrypt(EncryptionKey(job.key), job.block),
                   Decrypt(DecryptionKey(job.key), job.block)>>,
         want |-> <<Cipher(e, job.block), InvCipher(e, job.block)>>]

\* The context has just computed the CMAC of another message.
MacJob(job) ==
    LET used == CmacAes(ZeroCmac, job.before.key, job.before.message)
    IN  [op |-> "mac", got |-> CmacAes(used.ctx, job.key, job.message).mac,
         want |-> Rfc4493(job.key, job.message)]

\* The context of macsec_frame_gcm_setkey: the key of the last frame is
\* still the right one, and its values are still there.
UsedGcm(job) ==
    CryptAndTag(GcmSetKey(job.key), "encrypt", 5, job.iv, <<7>>, Zeros(5), 0, 0).ctx

SealJob(job) ==
    LET memory == Placed(job.memory, job.in, job.text)
        e == Expanded(job.key)
        judged(done, c) ==
            [op |-> "seal", ret |-> done.ret, memory |-> done.memory, tag |-> done.tag,
             old |-> memory, want |-> Placed(memory, job.out, c),
             wanttag |-> Sp80038dTag(e, job.iv, job.add, c)]
    IN  judged(CryptAndTag(UsedGcm(job), "encrypt", Len(job.text), job.iv, job.add, memory,
                           job.in, job.out),
               Gctr(e, job.iv, job.text))

\* The lowest bit of the first byte of x.
Flipped(x) == [x EXCEPT ![1] = Xor(@, 1)]

\* The peer's frame arrives with one field damaged, or none.
OpenJob(job) ==
    LET e == Expanded(job.key)
        dmg(field, x) == IF job.damaged = field THEN Flipped(x) ELSE x
        judged(done, memory) ==
            [op |-> "open", ret |-> done.ret, memory |-> done.memory, old |-> memory,
             plain |-> Placed(memory, job.out, job.text),
             wiped |-> Placed(memory, job.out, Zeros(Len(job.text)))]
        opened(memory, tag) ==
            judged(AuthDecrypt(UsedGcm(job), Len(job.text), dmg("iv", job.iv),
                               dmg("add", job.add), dmg("tag", tag), memory, job.in, job.out),
                   memory)
        sent(c) == opened(Placed(job.memory, job.in, dmg("text", c)),
                          Sp80038dTag(e, job.iv, job.add, c))
    IN  sent(Gctr(e, job.iv, job.text))

Compute ==
    /\ bench.kind # "stations"
    /\ outcome = Nothing
    /\ outcome' = CASE bench.kind = "aes" -> AesJob(bench)
                    [] bench.kind = "mac" -> MacJob(bench)
                    [] bench.kind = "seal" -> SealJob(bench)
                    [] bench.kind = "open" -> OpenJob(bench)
    /\ UNCHANGED <<bench, ends, paper, verdict, setups, calls>>

-----------------------------------------------------------------------------
(* Two stations *)

SetUp(e, ctx) ==
    /\ bench.kind = "stations"
    /\ setups < MaxSetups /\ setups + 1 + 2 * calls <= MaxWork
    /\ setups' = setups + 1
    /\ ends' = [ends EXCEPT ![e] = ctx]
    /\ verdict' = Nothing
    /\ UNCHANGED <<bench, outcome, paper, calls>>

InstallPsk(e, i) == SetUp(e, SetPsk(ends[e], Psks[i].cak, Psks[i].ckn).ctx)

Derive(e) == SetUp(e, DeriveIckKek(ends[e]).ctx)

\* macsec_mka_crypto_clear and macsec_mka_crypto_init
Clear(e) == ends[e] # ZeroCrypto /\ SetUp(e, ZeroCrypto)

Call(e, ctx) ==
    /\ bench.kind = "stations"
    /\ calls < MaxCalls /\ setups + 2 * (calls + 1) <= MaxWork
    /\ calls' = calls + 1
    /\ ends' = [ends EXCEPT ![e] = ctx]
    /\ UNCHANGED <<bench, outcome, setups>>

Produce(e, done, kind, content, code) ==
    /\ Call(e, done.ctx)
    /\ verdict' = [op |-> kind, ret |-> done.ret]
    /\ paper' = IF done.ret # "ok" THEN paper
                ELSE [op |-> kind, by |-> ends[e].psk, content |-> content, code |-> code,
                      altered |-> FALSE]

Sign(e, i) == LET done == CalcMic(ends[e], Pdus[i])
              IN  Produce(e, done, "mic", Pdus[i], done.mic)

Wrap(e, i) == LET done == WrapSak(ends[e], Saks[i])
              IN  Produce(e, done, "sak", Saks[i], done.wrapped)

Check(e) ==
    LET done == VerifyMic(ends[e], paper.content, paper.code)
    IN  /\ paper.op = "mic"
        /\ Call(e, done.ctx)
        /\ verdict' = [op |-> "check", end |-> e, ret |-> done.ret]
        /\ UNCHANGED paper

Unwrap(e) ==
    LET done == UnwrapSak(ends[e], paper.code)
    IN  /\ paper.op = "sak"
        /\ Call(e, done.ctx)
        /\ verdict' = [op |-> "unwrap", end |-> e, ret |-> done.ret, sak |-> done.sak,
                       sak_len |-> done.sak_len]
        /\ UNCHANGED paper

\* The wire damages the PDU, or the ICV or wrapped key.
Alter ==
    /\ paper.op # "none"
    /\ ~paper.altered
    /\ \/ paper' = [paper EXCEPT !.altered = TRUE, !.code = Flipped(@)]
       \/ /\ paper.op = "mic"
          /\ paper' = [paper EXCEPT !.altered = TRUE, !.content = Flipped(@)]
    /\ verdict' = Nothing
    /\ UNCHANGED <<bench, outcome, ends, setups, calls>>

Next ==
    \/ Compute
    \/ Alter
    \/ \E e \in Stations :
        \/ \E i \in DOMAIN Psks : InstallPsk(e, i)
        \/ Derive(e)
        \/ Clear(e)
        \/ \E i \in DOMAIN Pdus : Sign(e, i)
        \/ \E i \in DOMAIN Saks : Wrap(e, i)
        \/ Check(e)
        \/ Unwrap(e)

Spec == Init /\ [][Next]_vars

-----------------------------------------------------------------------------
(* Properties *)

\* The table-driven cipher of math/aes.c and its inverse with transformed
\* round keys are the ones of FIPS 197, for all three key sizes: a slip in
\* one entry, one rotation or one word of a schedule shows for some keys.
AesIsFips197 ==
    outcome.op = "aes" => outcome.got = outcome.want

\* math_cmac_aes is RFC 4493 whatever message and key the context served
\* before, at every length around the boundary of the last block, which
\* cmac_update must leave to cmac_finish.
CmacIsRfc4493 ==
    outcome.op = "mac" => outcome.got = outcome.want

\* math_gcm_crypt_and_tag either encrypts as SP 800-38D says, at the place
\* asked for, also when output and input overlap and the context has served
\* another frame, or refuses because the output would destroy input that is
\* still to be read.
GcmIsSp80038d ==
    outcome.op = "seal" =>
        IF outcome.ret = "ok"
        THEN outcome.memory = outcome.want /\ outcome.tag = outcome.wanttag
        ELSE /\ outcome.memory = outcome.old
             /\ bench.in < bench.out /\ bench.out < bench.in + Len(bench.text)

\* math_gcm_auth_decrypt returns the plaintext of an undamaged frame and of
\* no other: when the IV, the associated data, the ciphertext or the tag is
\* damaged the place of the plaintext holds zeros.
GcmFailsClosed ==
    outcome.op = "open" =>
        CASE outcome.ret = "ok" -> bench.damaged = "none" /\ outcome.memory = outcome.plain
          [] outcome.ret = "auth_failed" -> /\ bench.damaged # "none"
                                            /\ outcome.memory = outcome.wiped
          [] outcome.ret = "bad_input" -> bench.in < bench.out /\ outcome.memory = outcome.old

\* The keys IEEE 802.1X derives from each pre-shared key, and each SAK as
\* RFC 3394 wraps it with them.
PskKeys ==
    LET keys(i) == [ick |-> Ieee8021xIck(Psks[i].cak, Psks[i].ckn),
                    kek |-> Ieee8021xKek(Psks[i].cak, Psks[i].ckn), valid |-> TRUE]
    IN  Listed(Len(Psks), keys)

WrappedSaks ==
    LET wrapped(i) == LET one(j) == Rfc3394(Ieee8021xKek(Psks[i].cak, Psks[i].ckn), Saks[j])
                      IN  Listed(Len(Saks), one)
    IN  Listed(Len(Psks), wrapped)

IndexOf(psk) == CHOOSE i \in DOMAIN Psks : Psks[i].cak = psk.cak /\ Psks[i].ckn = psk.ckn

\* In any order of the calls of mka_crypto.h a station never works with keys
\* of an earlier CAK: valid keys are derived from the pre-shared key the
\* context holds now, as IEEE 802.1X says.
KeysFollowPsk ==
    \A e \in Stations : ends[e].keys.valid =>
        /\ ends[e].psk.valid
        /\ ends[e].keys = PskKeys[IndexOf(ends[e].psk)]

\* Two pre-shared keys name one association: the same CAK, and CKNs that
\* agree in what goes into the KeyID.
SameAssociation(p, q) ==
    /\ p.cak = q.cak
    /\ \A k \in 1 .. 16 : ByteOr0(p.ckn, k) = ByteOr0(q.ckn, k)

\* The station e can check what is on paper.
Genuine(e) ==
    /\ ends[e].keys.valid
    /\ ~paper.altered
    /\ SameAssociation(paper.by, ends[e].psk)

\* macsec_mka_crypto_verify_mic accepts a PDU exactly when a station of the
\* same association signed it and nothing changed on the way, whatever the
\* two contexts computed before, in between and with which keys.
IcvBindsKeyAndPdu ==
    verdict.op = "check" => (verdict.ret = "ok" <=> Genuine(verdict.end))

\* macsec_mka_crypto_wrap_sak is RFC 3394 under the KEK derived last, for SAKs
\* of both sizes, and whatever schedule the context holds: none, that of an
\* earlier wrap or, from the third call on, that of an unwrap.
WrapIsRfc3394 ==
    (paper.op = "sak" /\ ~paper.altered) =>
        \E j \in DOMAIN Saks :
            paper.content = Saks[j] /\ paper.code = WrappedSaks[IndexOf(paper.by)][j]

\* macsec_mka_crypto_unwrap_sak yields the very SAK that was wrapped to a
\* station of the same association, and to every other, or after a change
\* on the way, nothing at all: length zero and a buffer of zeros.
SakReachesItsAssociation ==
    verdict.op = "unwrap" =>
        IF Genuine(verdict.end)
        THEN /\ verdict.ret = "ok"
             /\ verdict.sak_len = Len(paper.content)
             /\ SubSeq(verdict.sak, 1, verdict.sak_len) = paper.content
        ELSE /\ verdict.ret # "ok"
             /\ verdict.sak_len = 0
             /\ verdict.sak = Zeros(MACSEC_MKA_SAK_MAX_LEN)
=============================================================================
