----------------------------- MODULE FrameCrypto -----------------------------
(***************************************************************************)
(* One frame-crypto context and everything its callers may do with it, in  *)
(* any order: initialise, clear, install and remove transmit and receive   *)
(* Secure Associations, protect frames, and recover frames that the        *)
(* network loses, repeats, reorders or corrupts.                           *)
(*                                                                         *)
(* The caller's contract is explicit: SetTx installs a key that has        *)
(* protected nothing yet.  Whether macsec.c honours it is a question about *)
(* the composed model.                                                     *)
(***************************************************************************)
EXTENDS FrameSa

VARIABLES up,     \* the context is initialised
          fc,     \* macsec_frame_crypto_ctx_t
          used,   \* history: used[k], packet numbers protected with key k
          floor,  \* history: floor[an], the lowest number an was installed with
          got,    \* history: got[an], the <<key, pn>> an has delivered
          protected,  \* history: protected[k], how many frames key k protected
          delivered   \* history: delivered[an], how many frames an delivered

vars == <<up, fc, used, floor, got, protected, delivered>>

Init ==
    /\ up = FALSE
    /\ fc = ClearedCtx
    /\ used = [k \in Key |-> {}]
    /\ floor = [an \in AN |-> 1]
    /\ got = [an \in AN |-> {}]
    /\ protected = [k \in Key |-> 0]
    /\ delivered = [an \in AN |-> 0]

ForgetRx ==
    /\ floor' = [an \in AN |-> 1]
    /\ got' = [an \in AN |-> {}]
    /\ delivered' = [an \in AN |-> 0]

CryptoInit ==
    /\ ~up
    /\ up' = TRUE
    /\ fc' = ClearedCtx
    /\ ForgetRx
    /\ UNCHANGED <<used, protected>>

CryptoClear ==
    /\ up
    /\ up' = FALSE
    /\ fc' = ClearedCtx
    /\ ForgetRx
    /\ UNCHANGED <<used, protected>>

SetTx(key, an, next_pn) ==
    /\ up
    /\ used[key] = {}
    /\ fc' = SetTxSak(fc, key, an, next_pn)
    /\ UNCHANGED <<up, used, floor, got, protected, delivered>>

SetRx(an, key, lowest) ==
    /\ up
    /\ fc' = SetRxSak(fc, an, key, lowest)
    /\ floor' = [floor EXCEPT ![an] = IF lowest = 0 THEN 1 ELSE lowest]
    /\ got' = [got EXCEPT ![an] = {}]
    /\ delivered' = [delivered EXCEPT ![an] = 0]
    /\ UNCHANGED <<up, used, protected>>

RemoveTx ==
    /\ up
    /\ fc' = RemoveTxSak(fc)
    /\ UNCHANGED <<up, used, floor, got, protected, delivered>>

RemoveRx(an) ==
    /\ up
    /\ fc' = RemoveRxSak(fc, an)
    /\ floor' = [floor EXCEPT ![an] = 1]
    /\ got' = [got EXCEPT ![an] = {}]
    /\ delivered' = [delivered EXCEPT ![an] = 0]
    /\ UNCHANGED <<up, used, protected>>

\* The history records the key GCM really held, not the one in tx_sak.
Encrypt(wellformed, ok, crypt) ==
    LET r == FrameEncrypt(fc, wellformed, ok, crypt)
    IN  /\ up
        /\ fc' = r.fc
        /\ used' = IF r.ret = "OK"
                   THEN [used EXCEPT ![r.fc.gcm] = @ \cup {fc.tx_sak.next_pn}]
                   ELSE used
        /\ protected' = IF r.ret = "OK"
                        THEN [protected EXCEPT ![r.fc.gcm] = @ + 1] ELSE protected
        /\ UNCHANGED <<up, floor, got, delivered>>

Decrypt(f, ok) ==
    LET r == FrameDecrypt(fc, f, ok)
    IN  /\ up
        /\ fc' = r.fc
        /\ got' = IF r.ret = "OK"
                  THEN [got EXCEPT ![f.an] = @ \cup {<<f.key, f.pn>>}]
                  ELSE got
        /\ delivered' = IF r.ret = "OK"
                        THEN [delivered EXCEPT ![f.an] = @ + 1] ELSE delivered
        /\ UNCHANGED <<up, used, floor, protected>>

Next ==
    \/ CryptoInit
    \/ CryptoClear
    \/ \E key \in Key, an \in AN, next_pn \in PN0 : SetTx(key, an, next_pn)
    \/ \E an \in AN, key \in Key, lowest \in PN0 : SetRx(an, key, lowest)
    \/ RemoveTx
    \/ \E an \in AN : RemoveRx(an)
    \/ \E wellformed, ok, crypt \in BOOLEAN : Encrypt(wellformed, ok, crypt)
    \/ \E f \in Frame, ok \in BOOLEAN : Decrypt(f, ok)

Spec == Init /\ [][Next]_vars

-----------------------------------------------------------------------------
(* Properties *)

\* The context stays within macsec_frame_crypto_ctx_t: no packet number
\* leaves its range at either end, and what the history records was really
\* protected with a key (frame_crypto.h 38-84).
TypeOK ==
    /\ up \in BOOLEAN
    /\ fc \in FrameCtx
    /\ used \in [Key -> SUBSET PN]
    /\ floor \in [AN -> PN]
    /\ got \in [AN -> SUBSET (Key \X PN)]
    /\ protected \in [Key -> Nat]
    /\ delivered \in [AN -> Nat]

\* The service the frame layer implements.
Service == INSTANCE FrameService
           WITH tx <- fc.tx_sak.key,
                rx <- [an \in AN |-> fc.rx_sak[an].key]

\* The context implements the frame service: every frame delivered was
\* protected with the key of its association, has a packet number that was
\* not delivered before and lies inside the replay window, and no packet
\* number is used twice with one transmit key, although the code keeps only
\* two watermarks, a 64-bit map and one cached key (frame_crypto.c 28-209,
\* 341-597).
ImplementsService == Service!Spec

\* The replay state loses nothing: a receive association accepts exactly the
\* packet numbers that are new and inside its window, neither a repeated one
\* nor a late but new one refused, up to and including UINT32_MAX
\* (macsec_frame_replay_check and macsec_frame_replay_commit).
WindowExact ==
    \A an \in AN : fc.rx_sak[an].valid =>
        \A pn \in PN :
            ReadyRx(fc, an) /\ ReplayCheck(fc.rx_sak[an], pn)
                <=> Service!Acceptable(an, pn)

\* The packet number about to be used is above every one already used with
\* the installed transmit key, and 0 is reached only by using up the last
\* one, after which nothing is protected (macsec_frame_encrypt).
NextPnFresh ==
    fc.tx_sak.valid =>
        IF fc.tx_sak.next_pn = 0 THEN MaxPN \in used[fc.tx_sak.key]
        ELSE \A pn \in used[fc.tx_sak.key] : pn < fc.tx_sak.next_pn

\* The cached key label never names a key whose schedule is not loaded, so
\* skipping math_gcm_setkey is safe (macsec_frame_gcm_setkey and the removal
\* functions).
CacheSound ==
    fc.current_gcm_key # NoKey => fc.gcm = fc.current_gcm_key
=============================================================================
