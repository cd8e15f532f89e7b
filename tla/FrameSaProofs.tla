---------------------------- MODULE FrameSaProofs ----------------------------
(***************************************************************************)
(* What the operators of the frame layer return, for every number of keys  *)
(* and associations, every packet-number range and every replay window.    *)
(* FrameCryptoProofs and MacsecProofs cite these facts for the calls their *)
(* models make.                                                            *)
(***************************************************************************)
EXTENDS FrameSa, TLAPS

-----------------------------------------------------------------------------
(* Each operator by itself *)

\* What the assumptions on the constants give the provers.
LEMMA ConstantFacts ==
    /\ MaxPN \in Nat /\ MaxPN >= 1
    /\ MaxSA \in Nat /\ MaxSA >= 1
    /\ 0 \in AN /\ 1 \in PN /\ MaxPN \in PN /\ 0 \in PN0
    /\ PN \subseteq PN0 /\ PN \subseteq Nat /\ PN0 \subseteq Nat
    /\ Window \in Nat
    /\ NoKey \notin Key
BY FrameAssumption, KeyAssumption DEF AN, PN, PN0

\* An initialised or cleared context is well formed.
LEMMA ClearedType == ClearedCtx \in FrameCtx
<1>1. NoTxSak \in TxSak
  BY ConstantFacts DEF NoTxSak, TxSak
<1>2. NoRxSak \in RxSak
  BY ConstantFacts DEF NoRxSak, RxSak
<1> QED
  BY <1>1, <1>2 DEF ClearedCtx, FrameCtx

\* A new association starts with a usable packet number.
LEMMA NewSakType ==
    ASSUME NEW key \in Key, NEW an \in AN, NEW pn \in PN0
    PROVE  /\ NewTxSak(key, an, pn) \in TxSak
           /\ NewRxSak(key, pn) \in RxSak
<1>1. (IF pn = 0 THEN 1 ELSE pn) \in PN0
  BY ConstantFacts
<1>2. (IF pn > 1 THEN pn - 1 ELSE 0) \in PN0
  BY ConstantFacts DEF PN0
<1> QED
  BY <1>1, <1>2 DEF NewTxSak, NewRxSak, TxSak, RxSak

\* The key cache is a key of the context type and touches nothing else.
LEMMA GcmSetkeyType ==
    ASSUME NEW x \in FrameCtx, NEW key \in Key \cup {NoKey}, NEW ok \in BOOLEAN
    PROVE  /\ GcmSetkey(x, key, ok) \in FrameCtx
           /\ GcmSetkey(x, key, ok).tx_sak = x.tx_sak
           /\ GcmSetkey(x, key, ok).rx_sak = x.rx_sak
BY DEF GcmSetkey, FrameCtx

\* After a successful macsec_frame_gcm_setkey the GCM context holds exactly
\* the key that was asked for, provided the cache was sound before.
LEMMA GcmSetkeySound ==
    ASSUME NEW x \in FrameCtx, NEW key \in Key, NEW ok \in BOOLEAN,
           x.current_gcm_key # NoKey => x.gcm = x.current_gcm_key
    PROVE  LET y == GcmSetkey(x, key, ok)
           IN  y.current_gcm_key # NoKey => y.gcm = y.current_gcm_key /\ y.gcm = key
BY ConstantFacts DEF GcmSetkey, FrameCtx

\* Committing a packet number keeps the association well formed and leaves its
\* validity and key alone.
LEMMA ReplayCommitType ==
    ASSUME NEW s \in RxSak, NEW pn \in PN
    PROVE  /\ ReplayCommit(s, pn) \in RxSak
           /\ ReplayCommit(s, pn).valid = s.valid
           /\ ReplayCommit(s, pn).key = s.key
<1>1. CASE Window = 0
  <2>1. (IF pn = MaxPN THEN MaxPN ELSE pn + 1) \in PN0
    BY ConstantFacts DEF PN, PN0
  <2>2. pn \in PN0 /\ {0} \in SUBSET (0 .. MaxPN)
    BY ConstantFacts
  <2>3. ReplayCommit(s, pn) = StrictCommit(s, pn)
    BY <1>1 DEF ReplayCommit
  <2> QED
    BY <2>1, <2>2, <2>3 DEF StrictCommit, RxSak
<1>2. CASE Window # 0
  <2>1. CommittedHighest(s, pn) \in PN0
    BY ConstantFacts DEF CommittedHighest, RxSak
  <2>2. CommittedBitmap(s, pn) \in SUBSET (0 .. MaxPN)
    <3>1. 0 \in 0 .. MaxPN
      BY ConstantFacts
    <3>2. ReplayMask \subseteq 0 .. MaxPN
      BY DEF ReplayMask
    <3> QED
      BY <3>1, <3>2 DEF CommittedBitmap, ShiftedBitmap
  <2>3. LowestInWindow(CommittedHighest(s, pn)) \in PN0
    BY <2>1, <1>2, ConstantFacts DEF LowestInWindow, PN0
  <2>4. ReplayCommit(s, pn) = WindowCommit(s, pn)
    BY <1>2 DEF ReplayCommit
  <2> QED
    BY <2>1, <2>2, <2>3, <2>4 DEF WindowCommit, RxSak
<1> QED
  BY <1>1, <1>2

\* What a call of macsec_frame_encrypt may do to the context.
LEMMA EncryptCases ==
    ASSUME NEW x, NEW wf, NEW ok, NEW cr
    PROVE  LET r == FrameEncrypt(x, wf, ok, cr)
               y == GcmSetkey(x, x.tx_sak.key, ok)
           IN  \/ r.ret # "OK" /\ (r.fc = x \/ r.fc = y)
               \/ /\ r.ret = "OK" /\ ReadyTx(x) /\ y.current_gcm_key # NoKey
                  /\ r.fc = AdvancePN(y)
BY DEF FrameEncrypt

\* What a call of macsec_frame_decrypt may do to the context: the replay
\* state moves only for a frame that passed both checks.
LEMMA DecryptCases ==
    ASSUME NEW x, NEW f, NEW ok
    PROVE  LET r == FrameDecrypt(x, f, ok)
               y == GcmSetkey(x, x.rx_sak[f.an].key, ok)
           IN  \/ r.ret # "OK" /\ (r.fc = x \/ r.fc = y)
               \/ /\ r.ret = "OK" /\ ReadyRx(x, f.an)
                  /\ f.pn # 0 /\ ReplayCheck(x.rx_sak[f.an], f.pn)
                  /\ y.current_gcm_key # NoKey /\ f.key = y.gcm
                  /\ r.fc = CommitReplay(y, f.an, f.pn)
BY DEF FrameDecrypt

\* Advancing the packet number keeps the context well formed, at UINT32_MAX too.
LEMMA AdvancePNType ==
    ASSUME NEW y \in FrameCtx
    PROVE  LET z == AdvancePN(y)
           IN  /\ z \in FrameCtx /\ z.rx_sak = y.rx_sak
               /\ z.current_gcm_key = y.current_gcm_key /\ z.gcm = y.gcm
               /\ z.tx_sak = [y.tx_sak EXCEPT !.next_pn = NextPN(@)]
<1>1. y.tx_sak.next_pn \in PN0
  BY DEF FrameCtx, TxSak
<1>2. NextPN(y.tx_sak.next_pn) \in PN0
  BY <1>1, ConstantFacts DEF NextPN, PN0
<1> QED
  BY <1>2 DEF AdvancePN, FrameCtx, TxSak

\* Committing a received packet number keeps the context well formed.
LEMMA CommitReplayType ==
    ASSUME NEW y \in FrameCtx, NEW an \in AN, NEW pn \in PN
    PROVE  LET z == CommitReplay(y, an, pn)
           IN  /\ z \in FrameCtx /\ z.tx_sak = y.tx_sak
               /\ z.current_gcm_key = y.current_gcm_key /\ z.gcm = y.gcm
               /\ \A a \in AN : z.rx_sak[a] = IF a = an /\ ReplayProtect
                                             THEN ReplayCommit(y.rx_sak[an], pn)
                                             ELSE y.rx_sak[a]
<1>1. y.rx_sak[an] \in RxSak
  BY DEF FrameCtx
<1>2. ReplayCommit(y.rx_sak[an], pn) \in RxSak
  BY <1>1, ReplayCommitType
<1> QED
  BY <1>2 DEF CommitReplay, FrameCtx

\* Installing and removing associations keeps the context well formed.
LEMMA SetTxType ==
    ASSUME NEW x \in FrameCtx, NEW key \in Key, NEW an \in AN, NEW pn \in PN0
    PROVE  LET z == SetTxSak(x, key, an, pn)
           IN  /\ z \in FrameCtx /\ z.rx_sak = x.rx_sak /\ z.tx_sak = NewTxSak(key, an, pn)
               /\ z.current_gcm_key = x.current_gcm_key /\ z.gcm = x.gcm
BY NewSakType DEF SetTxSak, FrameCtx

\* Installing a receive association touches only its own slot.
LEMMA SetRxType ==
    ASSUME NEW x \in FrameCtx, NEW key \in Key, NEW an \in AN, NEW pn \in PN0
    PROVE  LET z == SetRxSak(x, an, key, pn)
           IN  /\ z \in FrameCtx /\ z.tx_sak = x.tx_sak
               /\ z.current_gcm_key = x.current_gcm_key /\ z.gcm = x.gcm
               /\ \A a \in AN : z.rx_sak[a] = IF a = an THEN NewRxSak(key, pn)
                                             ELSE x.rx_sak[a]
<1>1. NewRxSak(key, pn) \in RxSak
  BY NewSakType
<1> QED
  BY <1>1 DEF SetRxSak, FrameCtx

\* Removing the transmit association keeps the context well formed.
LEMMA RemoveTxType ==
    ASSUME NEW x \in FrameCtx
    PROVE  LET z == RemoveTxSak(x)
           IN  /\ z \in FrameCtx /\ z.rx_sak = x.rx_sak /\ z.tx_sak = NoTxSak
               /\ z.current_gcm_key = NoKey
<1>1. NoTxSak \in TxSak
  BY ConstantFacts DEF NoTxSak, TxSak
<1> QED
  BY <1>1 DEF RemoveTxSak, FrameCtx

\* Removing a receive association keeps the context well formed.
LEMMA RemoveRxType ==
    ASSUME NEW x \in FrameCtx, NEW an \in AN
    PROVE  LET z == RemoveRxSak(x, an)
           IN  /\ z \in FrameCtx /\ z.tx_sak = x.tx_sak /\ z.current_gcm_key = NoKey
               /\ \A a \in AN : z.rx_sak[a] = IF a = an THEN NoRxSak ELSE x.rx_sak[a]
<1>1. NoRxSak \in RxSak
  BY ConstantFacts DEF NoRxSak, RxSak
<1> QED
  BY <1>1 DEF RemoveRxSak, FrameCtx

-----------------------------------------------------------------------------
(* The context the stack keeps *)

\* An association that is valid has a key, and one that is not has none.
Keyed(x) ==
    /\ x.tx_sak.valid => x.tx_sak.key \in Key
    /\ ~x.tx_sak.valid => x.tx_sak.key = NoKey
    /\ \A an \in AN : /\ x.rx_sak[an].valid => x.rx_sak[an].key \in Key
                      /\ ~x.rx_sak[an].valid => x.rx_sak[an].key = NoKey

CacheNamesKey(x) == x.current_gcm_key # NoKey => x.gcm = x.current_gcm_key

FrameOK(x) == x \in FrameCtx /\ Keyed(x) /\ CacheNamesKey(x)

\* The same associations, up to what receiving and sending frames changes.
SameSaks(x, y) ==
    /\ y.tx_sak.valid = x.tx_sak.valid /\ y.tx_sak.key = x.tx_sak.key
    /\ y.tx_sak.an = x.tx_sak.an
    /\ \A an \in AN : /\ y.rx_sak[an].valid = x.rx_sak[an].valid
                      /\ y.rx_sak[an].key = x.rx_sak[an].key

LEMMA ClearedOK == FrameOK(ClearedCtx)
BY ClearedType DEF FrameOK, Keyed, CacheNamesKey, ClearedCtx, NoTxSak, NoRxSak

\* Loading a key leaves the cache telling the truth, also when the key is
\* refused or the association had none.
LEMMA GcmSetkeyOK ==
    ASSUME NEW x, FrameOK(x), NEW key \in Key \cup {NoKey}, NEW ok \in BOOLEAN,
           NEW y, y = GcmSetkey(x, key, ok)
    PROVE  /\ FrameOK(y) /\ y.tx_sak = x.tx_sak /\ y.rx_sak = x.rx_sak
           /\ y.current_gcm_key # NoKey => y.gcm = key
<1>1. y \in FrameCtx /\ y.tx_sak = x.tx_sak /\ y.rx_sak = x.rx_sak
  BY GcmSetkeyType DEF FrameOK
<1>2. CacheNamesKey(y) /\ (y.current_gcm_key # NoKey => y.gcm = key)
  BY DEF GcmSetkey, FrameOK, CacheNamesKey, FrameCtx
<1> QED
  BY <1>1, <1>2 DEF FrameOK, Keyed

\* macsec_frame_encrypt: "OK" means one packet number of the transmit key was
\* used, and nothing else ever changes in the associations.
LEMMA FrameEncryptOK ==
    ASSUME NEW x, FrameOK(x), NEW wf \in BOOLEAN, NEW ok \in BOOLEAN, NEW cr \in BOOLEAN,
           NEW r, r = FrameEncrypt(x, wf, ok, cr)
    PROVE  /\ FrameOK(r.fc) /\ SameSaks(x, r.fc)
           /\ \/ r.ret # "OK" /\ r.fc.tx_sak = x.tx_sak
              \/ /\ r.ret = "OK" /\ x.tx_sak.valid /\ x.tx_sak.next_pn \in PN
                 /\ r.fc.tx_sak = [x.tx_sak EXCEPT !.next_pn = NextPN(@)]
                 /\ r.fc.gcm = x.tx_sak.key
<1> DEFINE y == GcmSetkey(x, x.tx_sak.key, ok)
           z == AdvancePN(y)
<1>1. x \in FrameCtx /\ x.tx_sak \in TxSak /\ x.tx_sak.key \in Key \cup {NoKey}
  BY DEF FrameOK, FrameCtx, TxSak
<1>2. /\ FrameOK(y) /\ y.tx_sak = x.tx_sak /\ y.rx_sak = x.rx_sak
      /\ y.current_gcm_key # NoKey => y.gcm = x.tx_sak.key
  BY <1>1, GcmSetkeyOK
<1>3. \/ r.ret # "OK" /\ (r.fc = x \/ r.fc = y)
      \/ r.ret = "OK" /\ ReadyTx(x) /\ y.current_gcm_key # NoKey /\ r.fc = z
  BY EncryptCases
<1> HIDE DEF y
<1>4. y \in FrameCtx
  BY <1>2 DEF FrameOK
<1>5. /\ z \in FrameCtx /\ z.rx_sak = y.rx_sak /\ z.current_gcm_key = y.current_gcm_key
      /\ z.gcm = y.gcm /\ z.tx_sak = [y.tx_sak EXCEPT !.next_pn = NextPN(@)]
  BY <1>4, AdvancePNType
<1> HIDE DEF z
<1>6. SameSaks(x, x) /\ SameSaks(x, y)
  BY <1>2 DEF SameSaks
<1>7. SameSaks(x, z)
  BY <1>1, <1>2, <1>5 DEF SameSaks, TxSak
<1>8. FrameOK(z)
  BY <1>2, <1>5, <1>7 DEF FrameOK, Keyed, CacheNamesKey, SameSaks
<1>9. ReadyTx(x) => x.tx_sak.valid /\ x.tx_sak.next_pn \in PN
  BY <1>1, ConstantFacts DEF ReadyTx, TxSak, PN, PN0
<1> QED
  BY <1>2, <1>3, <1>5, <1>6, <1>7, <1>8, <1>9

\* macsec_frame_decrypt: no frame from the network changes an association
\* beyond its replay state.
LEMMA FrameDecryptOK ==
    ASSUME NEW x, FrameOK(x), NEW f \in Frame, NEW ok \in BOOLEAN,
           NEW r, r = FrameDecrypt(x, f, ok)
    PROVE  FrameOK(r.fc) /\ SameSaks(x, r.fc) /\ r.fc.tx_sak = x.tx_sak
<1> DEFINE key == x.rx_sak[f.an].key
           y == GcmSetkey(x, key, ok)
           z == CommitReplay(y, f.an, f.pn)
<1>1. x \in FrameCtx /\ f.an \in AN /\ f.pn \in PN0 /\ key \in Key \cup {NoKey}
  BY DEF FrameOK, FrameCtx, RxSak, Frame
<1>2. \/ r.fc = x \/ r.fc = y
      \/ f.pn # 0 /\ r.fc = z
  BY DecryptCases
<1> HIDE DEF key
<1>3. FrameOK(y) /\ y.tx_sak = x.tx_sak /\ y.rx_sak = x.rx_sak
  BY <1>1, GcmSetkeyOK
<1> HIDE DEF y
<1>4. SameSaks(x, x) /\ SameSaks(x, y)
  BY <1>3 DEF SameSaks
<1>5. CASE f.pn # 0 /\ r.fc = z
  <2>1. f.pn \in PN /\ y \in FrameCtx
    BY <1>1, <1>3, <1>5 DEF PN, PN0, FrameOK
  <2>2. /\ z \in FrameCtx /\ z.tx_sak = y.tx_sak
        /\ z.current_gcm_key = y.current_gcm_key /\ z.gcm = y.gcm
        /\ \A a \in AN : z.rx_sak[a] = IF a = f.an /\ ReplayProtect
                                       THEN ReplayCommit(y.rx_sak[f.an], f.pn)
                                       ELSE y.rx_sak[a]
    BY <1>1, <2>1, CommitReplayType
  <2> HIDE DEF z
  <2>3. y.rx_sak[f.an] \in RxSak
    BY <1>1, <2>1 DEF FrameCtx
  <2>4. ReplayCommit(y.rx_sak[f.an], f.pn).valid = y.rx_sak[f.an].valid
        /\ ReplayCommit(y.rx_sak[f.an], f.pn).key = y.rx_sak[f.an].key
    BY <2>1, <2>3, ReplayCommitType
  <2>5. SameSaks(x, z)
    BY <1>1, <1>3, <2>2, <2>4 DEF SameSaks
  <2>6. FrameOK(z)
    BY <1>3, <2>2, <2>5 DEF FrameOK, Keyed, CacheNamesKey, SameSaks
  <2> QED
    BY <1>3, <1>5, <2>2, <2>5, <2>6
<1> QED
  BY <1>3, <1>2, <1>4, <1>5
=============================================================================
