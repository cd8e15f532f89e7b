------------------------------- MODULE FrameSa -------------------------------
(***************************************************************************)
(* The MACsec frame layer, frame_crypto.c, as operators on the value of    *)
(* macsec_frame_crypto_ctx_t.  FrameCrypto makes a state machine of them;  *)
(* Macsec calls them as macsec.c calls the C functions.                    *)
(*                                                                         *)
(* Abstractions.  A key is an opaque value (its length included) and NoKey *)
(* is a zeroized key field.  Packet numbers run over 1..MaxPN, MaxPN       *)
(* standing for UINT32_MAX.  The 64-bit replay bitmap is the set of the    *)
(* distances whose bit is set.  A frame is its SecTAG's AN and PN, the key *)
(* it was protected with (NoKey: it authenticates under no key) and        *)
(* whether it passes the size, EtherType, TCI and short-length checks, all *)
(* of which leave the context alone.                                       *)
(***************************************************************************)
EXTENDS MacsecCommon

CONSTANTS MaxPN,          \* UINT32_MAX
          MaxSA,          \* MACSEC_FRAME_MAX_SA
          ReplayProtect,  \* ctx->replay_protect
          Window          \* ctx->replay_window; 0 is strict ordering

ASSUME FrameAssumption ==
    /\ MaxPN \in Nat \ {0}
    /\ MaxSA \in Nat \ {0}
    /\ ReplayProtect \in BOOLEAN
    /\ Window \in 0 .. 64    \* MACSEC_FRAME_MAX_REPLAY_WINDOW

AN == 0 .. MaxSA - 1
PN == 1 .. MaxPN
PN0 == 0 .. MaxPN

\* macsec_frame_sak_t: the fields a transmit and a receive SA use.
TxSak == [valid: BOOLEAN, key: Key \cup {NoKey}, an: AN, next_pn: PN0]

RxSak == [valid: BOOLEAN, key: Key \cup {NoKey},
          lowest_acceptable_pn: PN0, highest_received_pn: PN0,
          replay_bitmap: SUBSET (0 .. MaxPN), replay_exhausted: BOOLEAN]

NoTxSak == [valid |-> FALSE, key |-> NoKey, an |-> 0, next_pn |-> 0]

NoRxSak == [valid |-> FALSE, key |-> NoKey,
            lowest_acceptable_pn |-> 0, highest_received_pn |-> 0,
            replay_bitmap |-> {}, replay_exhausted |-> FALSE]

\* macsec_frame_crypto_ctx_t.  gcm is the key whose schedule the GCM context
\* holds, current_gcm_key the label the cache believes it holds.
FrameCtx == [tx_sak: TxSak, rx_sak: [AN -> RxSak],
             current_gcm_key: Key \cup {NoKey}, gcm: Key \cup {NoKey}]

\* macsec_frame_crypto_init and macsec_frame_crypto_clear leave no SA behind.
ClearedCtx == [tx_sak |-> NoTxSak, rx_sak |-> [an \in AN |-> NoRxSak],
               current_gcm_key |-> NoKey, gcm |-> NoKey]

Frame == [an: AN, pn: PN0, key: Key \cup {NoKey}, wellformed: BOOLEAN]

-----------------------------------------------------------------------------
(* Replay protection *)

ReplayCheck(sak, pn) ==
    ReplayProtect =>
        /\ ~sak.replay_exhausted
        /\ pn >= sak.lowest_acceptable_pn
        /\ \/ Window = 0
           \/ sak.highest_received_pn = 0
           \/ pn > sak.highest_received_pn
           \/ /\ sak.highest_received_pn - pn < Window
              /\ sak.highest_received_pn - pn \notin sak.replay_bitmap

\* Mutation: the last packet number does not exhaust the association.
StrictCommitForever(sak, pn) ==
    [sak EXCEPT !.highest_received_pn = pn,
                !.replay_bitmap = {0},
                !.lowest_acceptable_pn = IF pn = MaxPN THEN MaxPN ELSE pn + 1]

\* macsec_frame_replay_commit with replay_window = 0.
StrictCommit(sak, pn) ==
    [sak EXCEPT !.highest_received_pn = pn,
                !.replay_bitmap = {0},
                !.lowest_acceptable_pn = IF pn = MaxPN THEN MaxPN ELSE pn + 1,
                !.replay_exhausted = (@ \/ pn = MaxPN)]

\* The bitmap after pn: the old bits move away from bit 0 when pn becomes the
\* highest number received, those pushed out of the window are masked off.
ReplayMask == {d \in 0 .. MaxPN : d < Window}

\* Mutation: the bitmap stays in place when the highest number moves.
UnshiftedBitmap(sak, pn) == {0} \cup (sak.replay_bitmap \cap ReplayMask)

ShiftedBitmap(sak, pn) ==
    LET shift == pn - sak.highest_received_pn
    IN  {0} \cup {d \in ReplayMask : d - shift \in sak.replay_bitmap}

CommittedBitmap(sak, pn) ==
    IF sak.highest_received_pn = 0 THEN {0}
    ELSE IF pn > sak.highest_received_pn
         THEN IF pn - sak.highest_received_pn >= Window THEN {0}
              ELSE ShiftedBitmap(sak, pn)
         ELSE (sak.replay_bitmap \cup {sak.highest_received_pn - pn}) \cap ReplayMask

CommittedHighest(sak, pn) ==
    IF pn > sak.highest_received_pn THEN pn ELSE sak.highest_received_pn

\* Mutation: the window is one number too short.
LowestOffByOne(highest) ==
    IF highest >= Window THEN highest - Window + 2 ELSE 1

LowestInWindow(highest) ==
    IF highest >= Window THEN highest - Window + 1 ELSE 1

WindowCommit(sak, pn) ==
    LET highest == CommittedHighest(sak, pn)
        lowest  == LowestInWindow(highest)
    IN  [sak EXCEPT !.highest_received_pn = highest,
                    !.replay_bitmap = CommittedBitmap(sak, pn),
                    !.lowest_acceptable_pn = IF lowest > @ THEN lowest ELSE @]

ReplayCommit(sak, pn) ==
    IF Window = 0 THEN StrictCommit(sak, pn) ELSE WindowCommit(sak, pn)

-----------------------------------------------------------------------------
(* Installing and removing Secure Associations *)

\* The SA macsec_frame_crypto_set_tx_sak stores: packet number 0 becomes 1.
NewTxSak(key, an, next_pn) ==
    [valid |-> TRUE, key |-> key, an |-> an,
     next_pn |-> IF next_pn = 0 THEN 1 ELSE next_pn]

\* The SA macsec_frame_crypto_set_rx_sak stores for an SA that has received
\* nothing: with a lowest number above 1 the window starts just below it.
NewRxSak(key, lowest) ==
    [valid |-> TRUE, key |-> key,
     lowest_acceptable_pn |-> IF lowest = 0 THEN 1 ELSE lowest,
     highest_received_pn |-> IF lowest > 1 THEN lowest - 1 ELSE 0,
     replay_bitmap |-> {}, replay_exhausted |-> FALSE]

SetTxSak(fc, key, an, next_pn) ==
    [fc EXCEPT !.tx_sak = NewTxSak(key, an, next_pn)]

SetRxSak(fc, an, key, lowest) ==
    [fc EXCEPT !.rx_sak[an] = NewRxSak(key, lowest)]

RemoveTxSak(fc) ==
    [fc EXCEPT !.tx_sak = NoTxSak, !.current_gcm_key = NoKey]

RemoveRxSak(fc, an) ==
    [fc EXCEPT !.rx_sak[an] = NoRxSak, !.current_gcm_key = NoKey]

ReadyTx(fc) == fc.tx_sak.valid /\ fc.tx_sak.next_pn # 0

ReadyRx(fc, an) == fc.rx_sak[an].valid /\ ~fc.rx_sak[an].replay_exhausted

-----------------------------------------------------------------------------
(* Protecting and recovering frames.  ok says whether the GCM backend       *)
(* accepts the key, crypt whether it completes the operation.               *)

\* Mutation: any cached key will do.
GcmSetkeyStale(fc, key, ok) ==
    IF fc.current_gcm_key # NoKey THEN fc
    ELSE LET loaded == IF ok THEN key ELSE NoKey
         IN  [fc EXCEPT !.current_gcm_key = loaded, !.gcm = loaded]

\* Mutation: a refused key is cached all the same.
GcmSetkeyEager(fc, key, ok) ==
    IF fc.current_gcm_key = key THEN fc
    ELSE [fc EXCEPT !.current_gcm_key = key, !.gcm = IF ok THEN key ELSE NoKey]

\* macsec_frame_gcm_setkey: keep the schedule when the cache has this key,
\* else load it; a refused key leaves an empty schedule and no cached key.
GcmSetkey(fc, key, ok) ==
    IF fc.current_gcm_key = key THEN fc
    ELSE LET loaded == IF ok THEN key ELSE NoKey
         IN  [fc EXCEPT !.current_gcm_key = loaded, !.gcm = loaded]

\* Mutations: no exhaustion after the last packet number.
NextPNStuck(pn) == IF pn = MaxPN THEN pn ELSE pn + 1
NextPNUnbounded(pn) == pn + 1

NextPN(pn) == IF pn = MaxPN THEN 0 ELSE pn + 1

AdvancePN(fc) == [fc EXCEPT !.tx_sak.next_pn = NextPN(@)]

\* macsec_frame_encrypt; wellformed stands for its buffer and length checks.
FrameEncrypt(fc, wellformed, ok, crypt) ==
    LET keyed == GcmSetkey(fc, fc.tx_sak.key, ok)
    IN  IF ~ReadyTx(fc) THEN [ret |-> "STATE", fc |-> fc]
        ELSE IF ~wellformed THEN [ret |-> "FORMAT", fc |-> fc]
        ELSE IF keyed.current_gcm_key = NoKey \/ ~crypt
             THEN [ret |-> "CRYPTO", fc |-> keyed]
        ELSE [ret |-> "OK", fc |-> AdvancePN(keyed)]

CommitReplay(fc, an, pn) ==
    IF ReplayProtect THEN [fc EXCEPT !.rx_sak[an] = ReplayCommit(@, pn)] ELSE fc

\* macsec_frame_decrypt: the replay state moves only after authentication.
FrameDecrypt(fc, f, ok) ==
    LET sak   == fc.rx_sak[f.an]
        keyed == GcmSetkey(fc, sak.key, ok)
    IN  IF ~ReadyRx(fc, f.an) THEN [ret |-> "STATE", fc |-> fc]
        ELSE IF f.pn = 0 \/ ~ReplayCheck(sak, f.pn) THEN [ret |-> "REPLAY", fc |-> fc]
        ELSE IF ~f.wellformed THEN [ret |-> "FORMAT", fc |-> fc]
        ELSE IF keyed.current_gcm_key = NoKey THEN [ret |-> "CRYPTO", fc |-> keyed]
        ELSE IF f.key = NoKey \/ f.key # keyed.gcm THEN [ret |-> "AUTH", fc |-> keyed]
        ELSE [ret |-> "OK", fc |-> CommitReplay(keyed, f.an, f.pn)]
=============================================================================
