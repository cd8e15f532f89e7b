-------------------------- MODULE FrameCryptoProofs --------------------------
(***************************************************************************)
(* Proofs about FrameCrypto for every number of keys and associations,     *)
(* every packet-number range and every replay window.                      *)
(***************************************************************************)
EXTENDS FrameCrypto, FrameSaProofs

-----------------------------------------------------------------------------
(* Type correctness.  A key that protects a frame is a real one because a   *)
(* Secure Association that is valid has a key, and one that is not has none. *)

SakKeyed ==
    /\ fc.tx_sak.valid => fc.tx_sak.key \in Key
    /\ ~fc.tx_sak.valid => fc.tx_sak.key = NoKey
    /\ \A an \in AN : /\ fc.rx_sak[an].valid => fc.rx_sak[an].key \in Key
                      /\ ~fc.rx_sak[an].valid => fc.rx_sak[an].key = NoKey

BaseInv == TypeOK /\ SakKeyed /\ CacheSound

\* The base invariant holds at first.
LEMMA BaseInit == Init => BaseInv
<1> SUFFICES ASSUME Init PROVE BaseInv
  OBVIOUS
<1>1. TypeOK
  BY ClearedType, ConstantFacts DEF Init, TypeOK
<1>2. SakKeyed
  BY DEF Init, SakKeyed, ClearedCtx, NoTxSak, NoRxSak
<1>3. CacheSound
  BY DEF Init, CacheSound, ClearedCtx
<1> QED
  BY <1>1, <1>2, <1>3 DEF BaseInv

\* A protected frame: the key GCM holds is the transmit key, and the packet
\* number is the one that was next.
LEMMA EncryptStep ==
    ASSUME BaseInv, NEW wf \in BOOLEAN, NEW ok \in BOOLEAN, NEW cr \in BOOLEAN,
           Encrypt(wf, ok, cr)
    PROVE  /\ fc' \in FrameCtx /\ CacheSound' /\ fc'.rx_sak = fc.rx_sak
           /\ \/ fc'.tx_sak = fc.tx_sak /\ used' = used /\ protected' = protected
              \/ /\ fc.tx_sak.valid /\ fc.tx_sak.next_pn \in PN
                 /\ fc'.tx_sak = [fc.tx_sak EXCEPT !.next_pn = NextPN(@)]
                 /\ used' = [used EXCEPT ![fc.tx_sak.key] = @ \cup {fc.tx_sak.next_pn}]
                 /\ protected' = [protected EXCEPT ![fc.tx_sak.key] = @ + 1]
<1> DEFINE r == FrameEncrypt(fc, wf, ok, cr)
           y == GcmSetkey(fc, fc.tx_sak.key, ok)
<1>1. fc \in FrameCtx /\ fc.tx_sak \in TxSak /\ fc.tx_sak.key \in Key \cup {NoKey}
  BY DEF BaseInv, TypeOK, FrameCtx, TxSak
<1>2. y \in FrameCtx /\ y.tx_sak = fc.tx_sak /\ y.rx_sak = fc.rx_sak
  BY <1>1, GcmSetkeyType
<1>3. /\ fc' = r.fc
      /\ used' = IF r.ret = "OK"
                 THEN [used EXCEPT ![r.fc.gcm] = @ \cup {fc.tx_sak.next_pn}] ELSE used
      /\ protected' = IF r.ret = "OK"
                      THEN [protected EXCEPT ![r.fc.gcm] = @ + 1] ELSE protected
  BY DEF Encrypt
<1>4. y.current_gcm_key # NoKey => y.gcm = y.current_gcm_key /\ y.gcm = fc.tx_sak.key
  <2>1. CASE fc.tx_sak.key \in Key
    BY <1>1, <2>1, GcmSetkeySound DEF BaseInv, CacheSound
  <2>2. CASE fc.tx_sak.key = NoKey
    BY <1>1, <2>2 DEF GcmSetkey, FrameCtx, BaseInv, CacheSound
  <2> QED
    BY <1>1, <2>1, <2>2
<1>5. CASE r.ret # "OK"
  <2>1. r.fc = fc \/ r.fc = y
    BY <1>5, EncryptCases
  <2> HIDE DEF r, y
  <2> QED
    BY <1>1, <1>2, <1>3, <1>4, <1>5, <2>1 DEF BaseInv, CacheSound
<1>6. CASE r.ret = "OK"
  <2>1. ReadyTx(fc) /\ y.current_gcm_key # NoKey /\ r.fc = AdvancePN(y)
    BY <1>6, EncryptCases
  <2>2. fc.tx_sak.valid /\ fc.tx_sak.next_pn \in PN
    BY <1>1, <2>1, ConstantFacts DEF ReadyTx, TxSak, PN, PN0
  <2> HIDE DEF r, y
  <2> QED
    BY <1>1, <1>2, <1>3, <1>4, <1>6, <2>1, <2>2, AdvancePNType DEF CacheSound
<1> QED
  BY <1>5, <1>6

\* A recovered frame: it was protected with the key of its association and
\* passed the replay check of that association's state before the call.
LEMMA DecryptStep ==
    ASSUME BaseInv, NEW f \in Frame, NEW ok \in BOOLEAN, Decrypt(f, ok)
    PROVE  /\ fc' \in FrameCtx /\ CacheSound' /\ fc'.tx_sak = fc.tx_sak
           /\ \/ fc'.rx_sak = fc.rx_sak /\ got' = got /\ delivered' = delivered
              \/ /\ ReadyRx(fc, f.an) /\ f.pn \in PN
                 /\ ReplayCheck(fc.rx_sak[f.an], f.pn)
                 /\ f.key = fc.rx_sak[f.an].key
                 /\ got' = [got EXCEPT ![f.an] = @ \cup {<<f.key, f.pn>>}]
                 /\ delivered' = [delivered EXCEPT ![f.an] = @ + 1]
                 /\ \A a \in AN : fc'.rx_sak[a] = IF a = f.an /\ ReplayProtect
                                                THEN ReplayCommit(fc.rx_sak[f.an], f.pn)
                                                ELSE fc.rx_sak[a]
<1> DEFINE r == FrameDecrypt(fc, f, ok)
           key == fc.rx_sak[f.an].key
           y == GcmSetkey(fc, key, ok)
<1>1. fc \in FrameCtx /\ f.an \in AN /\ f.pn \in PN0 /\ key \in Key \cup {NoKey}
  BY DEF BaseInv, TypeOK, Frame, FrameCtx, RxSak
<1>2. y \in FrameCtx /\ y.tx_sak = fc.tx_sak /\ y.rx_sak = fc.rx_sak
  BY <1>1, GcmSetkeyType
<1>3. /\ fc' = r.fc
      /\ got' = IF r.ret = "OK"
                THEN [got EXCEPT ![f.an] = @ \cup {<<f.key, f.pn>>}] ELSE got
      /\ delivered' = IF r.ret = "OK"
                      THEN [delivered EXCEPT ![f.an] = @ + 1] ELSE delivered
  BY DEF Decrypt
<1>4. y.current_gcm_key # NoKey => y.gcm = y.current_gcm_key /\ y.gcm = key
  <2>1. CASE key \in Key
    BY <1>1, <2>1, GcmSetkeySound DEF BaseInv, CacheSound
  <2>2. CASE key = NoKey
    BY <1>1, <2>2 DEF GcmSetkey, FrameCtx, BaseInv, CacheSound
  <2> QED
    BY <1>1, <2>1, <2>2
<1>5. CASE r.ret # "OK"
  <2>1. r.fc = fc \/ r.fc = y
    BY <1>5, DecryptCases
  <2> HIDE DEF r, y
  <2> QED
    BY <1>1, <1>2, <1>3, <1>4, <1>5, <2>1 DEF BaseInv, CacheSound
<1>6. CASE r.ret = "OK"
  <2>1. /\ ReadyRx(fc, f.an) /\ f.pn # 0 /\ ReplayCheck(fc.rx_sak[f.an], f.pn)
        /\ y.current_gcm_key # NoKey /\ f.key = y.gcm
        /\ r.fc = CommitReplay(y, f.an, f.pn)
    BY <1>6, DecryptCases
  <2>2. f.pn \in PN
    BY <1>1, <2>1, ConstantFacts DEF PN, PN0
  <2> HIDE DEF r, y
  <2> QED
    BY <1>1, <1>2, <1>3, <1>4, <1>6, <2>1, <2>2, CommitReplayType DEF CacheSound
<1> QED
  BY <1>5, <1>6

\* Every call preserves the base invariant.
LEMMA BaseNext == BaseInv /\ [Next]_vars => BaseInv'
<1> SUFFICES ASSUME BaseInv, [Next]_vars PROVE BaseInv'
  OBVIOUS
<1> USE DEF BaseInv
<1>1. fc \in FrameCtx
  BY DEF TypeOK
<1>2. ASSUME fc' = ClearedCtx, up' \in BOOLEAN, ForgetRx, UNCHANGED <<used, protected>>
      PROVE  BaseInv'
  <2>1. TypeOK'
    BY <1>2, ClearedType, ConstantFacts DEF TypeOK, ForgetRx
  <2>2. SakKeyed' /\ CacheSound'
    BY <1>2 DEF SakKeyed, CacheSound, ClearedCtx, NoTxSak, NoRxSak
  <2> QED
    BY <2>1, <2>2
<1>3. CASE CryptoInit
  BY <1>3, <1>2 DEF CryptoInit
<1>4. CASE CryptoClear
  BY <1>4, <1>2 DEF CryptoClear
<1>5. ASSUME NEW key \in Key, NEW an \in AN, NEW pn \in PN0, SetTx(key, an, pn)
      PROVE  BaseInv'
  <2>1. TypeOK'
    BY <1>1, <1>5, SetTxType DEF SetTx, TypeOK
  <2>2. fc'.tx_sak.valid /\ fc'.tx_sak.key = key /\ fc'.rx_sak = fc.rx_sak
    <3>1. fc'.tx_sak = NewTxSak(key, an, pn) /\ fc'.rx_sak = fc.rx_sak
      BY <1>1, <1>5, SetTxType DEF SetTx
    <3> QED
      BY <3>1 DEF NewTxSak
  <2>3. SakKeyed'
    BY <2>2 DEF SakKeyed
  <2>4. CacheSound'
    BY <1>1, <1>5, SetTxType DEF SetTx, CacheSound
  <2> QED
    BY <2>1, <2>3, <2>4
<1>6. ASSUME NEW an \in AN, NEW key \in Key, NEW pn \in PN0, SetRx(an, key, pn)
      PROVE  BaseInv'
  <2>1. fc' \in FrameCtx /\ CacheSound' /\ fc'.tx_sak = fc.tx_sak
    BY <1>1, <1>6, SetRxType DEF SetRx, CacheSound
  <2>2. (IF pn = 0 THEN 1 ELSE pn) \in PN
    BY ConstantFacts DEF PN, PN0
  <2>3. TypeOK'
    BY <1>6, <2>1, <2>2 DEF SetRx, TypeOK
  <2>4. SakKeyed'
    <3>1. \A a \in AN : fc'.rx_sak[a] = IF a = an THEN NewRxSak(key, pn) ELSE fc.rx_sak[a]
      BY <1>1, <1>6, SetRxType DEF SetRx
    <3>2. NewRxSak(key, pn).valid /\ NewRxSak(key, pn).key = key
      BY DEF NewRxSak
    <3> QED
      BY <2>1, <3>1, <3>2 DEF SakKeyed
  <2> QED
    BY <2>1, <2>3, <2>4
<1>7. CASE RemoveTx
  <2>1. fc' \in FrameCtx /\ fc'.rx_sak = fc.rx_sak /\ fc'.tx_sak = NoTxSak
        /\ fc'.current_gcm_key = NoKey
    BY <1>1, <1>7, RemoveTxType DEF RemoveTx
  <2>2. TypeOK'
    BY <1>7, <2>1 DEF RemoveTx, TypeOK
  <2>3. SakKeyed' /\ CacheSound'
    BY <2>1 DEF SakKeyed, CacheSound, NoTxSak
  <2> QED
    BY <2>2, <2>3
<1>8. ASSUME NEW an \in AN, RemoveRx(an)
      PROVE  BaseInv'
  <2>1. fc' \in FrameCtx /\ fc'.tx_sak = fc.tx_sak /\ fc'.current_gcm_key = NoKey
        /\ \A a \in AN : fc'.rx_sak[a] = IF a = an THEN NoRxSak ELSE fc.rx_sak[a]
    BY <1>1, <1>8, RemoveRxType DEF RemoveRx
  <2>2. TypeOK'
    BY <1>8, <2>1, ConstantFacts DEF RemoveRx, TypeOK
  <2>3. SakKeyed' /\ CacheSound'
    BY <2>1 DEF SakKeyed, CacheSound, NoRxSak
  <2> QED
    BY <2>2, <2>3
<1>9. ASSUME NEW wf \in BOOLEAN, NEW ok \in BOOLEAN, NEW cr \in BOOLEAN, Encrypt(wf, ok, cr)
      PROVE  BaseInv'
  <2>1. /\ fc' \in FrameCtx /\ CacheSound' /\ fc'.rx_sak = fc.rx_sak
        /\ \/ fc'.tx_sak = fc.tx_sak /\ used' = used /\ protected' = protected
           \/ /\ fc.tx_sak.valid /\ fc.tx_sak.next_pn \in PN
              /\ fc'.tx_sak = [fc.tx_sak EXCEPT !.next_pn = NextPN(@)]
              /\ used' = [used EXCEPT ![fc.tx_sak.key] = @ \cup {fc.tx_sak.next_pn}]
              /\ protected' = [protected EXCEPT ![fc.tx_sak.key] = @ + 1]
    BY <1>9, EncryptStep
  <2>2. fc.tx_sak \in TxSak
    BY <1>1 DEF FrameCtx
  <2>3. fc'.tx_sak.valid = fc.tx_sak.valid /\ fc'.tx_sak.key = fc.tx_sak.key
    BY <2>1, <2>2 DEF TxSak
  <2>4. SakKeyed'
    BY <2>1, <2>3 DEF SakKeyed
  <2>5. used' \in [Key -> SUBSET PN] /\ protected' \in [Key -> Nat]
    BY <2>1 DEF TypeOK, SakKeyed
  <2>6. TypeOK'
    BY <1>9, <2>1, <2>5 DEF Encrypt, TypeOK
  <2> QED
    BY <2>1, <2>4, <2>6
<1>10. ASSUME NEW f \in Frame, NEW ok \in BOOLEAN, Decrypt(f, ok)
       PROVE  BaseInv'
  <2>1. /\ fc' \in FrameCtx /\ CacheSound' /\ fc'.tx_sak = fc.tx_sak
        /\ \/ fc'.rx_sak = fc.rx_sak /\ got' = got /\ delivered' = delivered
           \/ /\ ReadyRx(fc, f.an) /\ f.pn \in PN
              /\ f.key = fc.rx_sak[f.an].key
              /\ got' = [got EXCEPT ![f.an] = @ \cup {<<f.key, f.pn>>}]
              /\ delivered' = [delivered EXCEPT ![f.an] = @ + 1]
              /\ \A a \in AN : fc'.rx_sak[a] = IF a = f.an /\ ReplayProtect
                                             THEN ReplayCommit(fc.rx_sak[f.an], f.pn)
                                             ELSE fc.rx_sak[a]
    BY <1>10, DecryptStep
  <2>2. f.an \in AN /\ \A a \in AN : fc.rx_sak[a] \in RxSak
    BY <1>1 DEF FrameCtx, Frame
  <2>3. \A a \in AN : /\ fc'.rx_sak[a].valid = fc.rx_sak[a].valid
                     /\ fc'.rx_sak[a].key = fc.rx_sak[a].key
    BY <2>1, <2>2, ReplayCommitType
  <2>4. SakKeyed'
    BY <2>1, <2>3 DEF SakKeyed
  <2>5. got' \in [AN -> SUBSET (Key \X PN)]
    <3>1. CASE got' = got
      BY <3>1 DEF TypeOK
    <3>2. CASE got' # got
      <4>1. f.key \in Key
        BY <2>1, <2>2, <3>2 DEF SakKeyed, ReadyRx
      <4>2. got' = [got EXCEPT ![f.an] = @ \cup {<<f.key, f.pn>>}] /\ f.pn \in PN
        BY <2>1, <3>2
      <4> QED
        BY <2>2, <4>1, <4>2 DEF TypeOK
    <3> QED
      BY <3>1, <3>2
  <2>6. delivered' \in [AN -> Nat]
    BY <2>1, <2>2 DEF TypeOK
  <2>7. TypeOK'
    BY <1>10, <2>1, <2>5, <2>6 DEF Decrypt, TypeOK
  <2> QED
    BY <2>1, <2>4, <2>7
<1>11. CASE UNCHANGED vars
  BY <1>11 DEF vars, TypeOK, SakKeyed, CacheSound
<1> QED
  BY <1>3, <1>4, <1>5, <1>6, <1>7, <1>8, <1>9, <1>10, <1>11 DEF Next

\* The context is well formed after any sequence of calls: packet numbers
\* stay within their range at both ends and a key that protected or recovered
\* a frame is a real one (frame_crypto.c).
THEOREM TypeCorrect == Spec => []TypeOK
<1>1. BaseInv => TypeOK
  BY DEF BaseInv
<1> QED
  BY BaseInit, BaseNext, <1>1, PTL DEF Spec

\* The key cache is sound after any sequence of calls, failed key set-ups and
\* removals included (macsec_frame_gcm_setkey).
THEOREM CacheCorrect == Spec => []CacheSound
<1>1. BaseInv => CacheSound
  BY DEF BaseInv
<1> QED
  BY BaseInit, BaseNext, <1>1, PTL DEF Spec

-----------------------------------------------------------------------------
(* Packet numbers of the transmitter *)

TxInv == BaseInv /\ NextPnFresh

\* Every call keeps the next packet number unused.
LEMMA TxNext == TxInv /\ [Next]_vars => TxInv'
<1> SUFFICES ASSUME TxInv, [Next]_vars PROVE NextPnFresh'
  BY BaseNext DEF TxInv
<1> USE DEF TxInv
<1>1. fc \in FrameCtx /\ fc.tx_sak \in TxSak /\ used \in [Key -> SUBSET PN]
  BY DEF BaseInv, TypeOK, FrameCtx
<1>2. ASSUME ~fc'.tx_sak.valid
      PROVE  NextPnFresh'
  BY <1>2 DEF NextPnFresh
<1>3. ASSUME fc'.tx_sak = fc.tx_sak, used' = used
      PROVE  NextPnFresh'
  BY <1>3 DEF NextPnFresh
<1>4. CASE CryptoInit
  BY <1>4, <1>2 DEF CryptoInit, ClearedCtx, NoTxSak
<1>5. CASE CryptoClear
  BY <1>5, <1>2 DEF CryptoClear, ClearedCtx, NoTxSak
<1>6. ASSUME NEW key \in Key, NEW an \in AN, NEW pn \in PN0, SetTx(key, an, pn)
      PROVE  NextPnFresh'
  <2>1. fc'.tx_sak = NewTxSak(key, an, pn) /\ used' = used /\ used[key] = {}
    BY <1>1, <1>6, SetTxType DEF SetTx
  <2>2. fc'.tx_sak.key = key /\ fc'.tx_sak.next_pn # 0
    BY <2>1, ConstantFacts DEF NewTxSak
  <2> QED
    BY <2>1, <2>2 DEF NextPnFresh
<1>7. ASSUME NEW an \in AN, NEW key \in Key, NEW pn \in PN0, SetRx(an, key, pn)
      PROVE  NextPnFresh'
  BY <1>1, <1>3, <1>7, SetRxType DEF SetRx
<1>8. CASE RemoveTx
  <2>1. fc'.tx_sak = NoTxSak
    BY <1>1, <1>8, RemoveTxType DEF RemoveTx
  <2> QED
    BY <1>2, <2>1 DEF NoTxSak
<1>9. ASSUME NEW an \in AN, RemoveRx(an)
      PROVE  NextPnFresh'
  BY <1>1, <1>3, <1>9, RemoveRxType DEF RemoveRx
<1>10. ASSUME NEW wf \in BOOLEAN, NEW ok \in BOOLEAN, NEW cr \in BOOLEAN, Encrypt(wf, ok, cr)
       PROVE  NextPnFresh'
  <2> DEFINE key == fc.tx_sak.key
             pn  == fc.tx_sak.next_pn
  <2>1. CASE fc'.tx_sak = fc.tx_sak /\ used' = used /\ protected' = protected
    BY <1>3, <2>1
  <2>2. CASE /\ fc.tx_sak.valid /\ pn \in PN
             /\ fc'.tx_sak = [fc.tx_sak EXCEPT !.next_pn = NextPN(@)]
             /\ used' = [used EXCEPT ![key] = @ \cup {pn}]
    <3>1. key \in Key
      BY <2>2 DEF BaseInv, SakKeyed
    <3>2. /\ fc'.tx_sak.key = key /\ fc'.tx_sak.next_pn = NextPN(pn)
          /\ used'[key] = used[key] \cup {pn}
      BY <1>1, <2>2, <3>1 DEF TxSak
    <3>3. pn # 0 /\ \A q \in used[key] : q < pn
      BY <2>2, ConstantFacts DEF NextPnFresh, PN
    <3>4. CASE pn = MaxPN
      BY <3>2, <3>4 DEF NextPN, NextPnFresh
    <3>5. CASE pn # MaxPN
      <4>1. NextPN(pn) = pn + 1 /\ pn + 1 # 0
        BY <2>2, <3>5, ConstantFacts DEF NextPN
      <4>2. \A q \in used[key] \cup {pn} : q < pn + 1
        BY <1>1, <2>2, <3>1, <3>3, ConstantFacts
      <4> QED
        BY <3>2, <4>1, <4>2 DEF NextPnFresh
    <3> QED
      BY <3>4, <3>5
  <2> QED
    BY <1>10, <2>1, <2>2, EncryptStep
<1>11. ASSUME NEW f \in Frame, NEW ok \in BOOLEAN, Decrypt(f, ok)
       PROVE  NextPnFresh'
  BY <1>3, <1>11, DecryptStep DEF Decrypt
<1>12. CASE UNCHANGED vars
  BY <1>3, <1>12 DEF vars
<1> QED
  BY <1>4, <1>5, <1>6, <1>7, <1>8, <1>9, <1>10, <1>11, <1>12 DEF Next

\* Nothing is used at first.
LEMMA TxInit == Init => TxInv
BY BaseInit DEF TxInv, Init, NextPnFresh, ClearedCtx, NoTxSak

\* The next packet number is above all those used with the transmit key, and
\* 0 only after the last one, whatever UINT32_MAX is taken to be and however
\* often the caller changes or removes keys (macsec_frame_encrypt).
THEOREM NextPnCorrect == Spec => []NextPnFresh
<1>1. TxInv => NextPnFresh
  BY DEF TxInv
<1> QED
  BY TxInit, TxNext, <1>1, PTL DEF Spec

-----------------------------------------------------------------------------
(* The replay state of the receiver.  P is the set of packet numbers an     *)
(* association has delivered, low the number it was installed with.         *)

\* P as the strict mode remembers it: one watermark above all of P.
StrictExact(s, P, low) ==
    /\ s.replay_exhausted => MaxPN \in P
    /\ ~s.replay_exhausted => \A q \in P : q < s.lowest_acceptable_pn
    /\ s.lowest_acceptable_pn = low
          \/ s.replay_exhausted \/ s.lowest_acceptable_pn - 1 \in P

\* P as the window mode remembers it: bit d is set exactly if number
\* highest - d was delivered, for every d inside the window, and the lowest
\* number moves only when the highest one was delivered.
WindowedExact(s, P, low) ==
    /\ ~s.replay_exhausted
    /\ \A q \in P : /\ q <= s.highest_received_pn
                    /\ s.highest_received_pn - q < Window =>
                          s.highest_received_pn - q \in s.replay_bitmap
    /\ \A d \in s.replay_bitmap : s.highest_received_pn - d \in P
    /\ s.highest_received_pn = low - 1 \/ s.highest_received_pn \in P
    /\ \/ s.lowest_acceptable_pn = low
       \/ /\ s.highest_received_pn \in P
          /\ s.lowest_acceptable_pn + Window <= s.highest_received_pn + 1

ReplayExact(s, P, low) ==
    /\ s.lowest_acceptable_pn >= low
    /\ IF Window = 0 THEN StrictExact(s, P, low) ELSE WindowedExact(s, P, low)

\* pn is new and inside the window, in terms of P alone.
Fresh(P, low, pn) ==
    /\ pn >= low
    /\ \A q \in P : IF Window = 0 THEN pn > q ELSE pn # q /\ pn + Window > q

\* A new association has delivered nothing.
LEMMA NewSakExact ==
    ASSUME NEW key \in Key, NEW pn \in PN0
    PROVE  ReplayExact(NewRxSak(key, pn), {}, IF pn = 0 THEN 1 ELSE pn)
<1> DEFINE s   == NewRxSak(key, pn)
           low == IF pn = 0 THEN 1 ELSE pn
<1>1. /\ s.lowest_acceptable_pn = low /\ low \in Nat
      /\ s.highest_received_pn = low - 1
      /\ s.replay_bitmap = {} /\ ~s.replay_exhausted
  BY ConstantFacts DEF NewRxSak, PN0
<1> HIDE DEF s, low
<1>2. ReplayExact(s, {}, low)
  BY <1>1 DEF ReplayExact, StrictExact, WindowedExact
<1> QED
  BY <1>2 DEF s, low

\* The check accepts exactly the fresh numbers.
LEMMA CheckExact ==
    ASSUME NEW s \in RxSak, NEW P \in SUBSET PN, NEW low \in PN, NEW pn \in PN,
           ReplayExact(s, P, low), ReplayProtect
    PROVE  ~s.replay_exhausted /\ ReplayCheck(s, pn) <=> Fresh(P, low, pn)
<1>1. /\ s.lowest_acceptable_pn \in Nat /\ s.highest_received_pn \in Nat
      /\ s.replay_exhausted \in BOOLEAN
      /\ pn \in Nat /\ pn >= 1 /\ low \in Nat /\ low >= 1 /\ pn <= MaxPN
      /\ \A q \in P : q \in Nat /\ q >= 1 /\ q <= MaxPN
  BY ConstantFacts DEF RxSak, PN, PN0
<1>2. CASE Window = 0
  BY <1>1, <1>2, ConstantFacts DEF ReplayExact, StrictExact, ReplayCheck, Fresh
<1>3. CASE Window # 0
  <2>1. ASSUME ReplayCheck(s, pn) PROVE Fresh(P, low, pn)
    BY <1>1, <1>3, <2>1, ConstantFacts DEF ReplayExact, WindowedExact, ReplayCheck, Fresh
  <2>2. ASSUME Fresh(P, low, pn) PROVE ReplayCheck(s, pn)
    BY <1>1, <1>3, <2>2, ConstantFacts DEF ReplayExact, WindowedExact, ReplayCheck, Fresh
  <2>3. ~s.replay_exhausted
    BY <1>3 DEF ReplayExact, WindowedExact
  <2> QED
    BY <2>1, <2>2, <2>3
<1> QED
  BY <1>2, <1>3

\* Committing an accepted number adds it to what the state remembers.
LEMMA CommitExact ==
    ASSUME NEW s \in RxSak, NEW P \in SUBSET PN, NEW low \in PN, NEW pn \in PN,
           ReplayExact(s, P, low), ReplayProtect, ~s.replay_exhausted, ReplayCheck(s, pn)
    PROVE  ReplayExact(ReplayCommit(s, pn), P \cup {pn}, low)
<1> DEFINE t == ReplayCommit(s, pn)
           h == s.highest_received_pn
<1>1. /\ s.lowest_acceptable_pn \in Nat /\ h \in Nat /\ h <= MaxPN
      /\ s.replay_exhausted \in BOOLEAN /\ s.replay_bitmap \subseteq 0 .. MaxPN
      /\ pn \in Nat /\ pn >= 1 /\ low \in Nat /\ low >= 1 /\ pn <= MaxPN
      /\ \A q \in P : q \in Nat /\ q >= 1 /\ q <= MaxPN
  BY ConstantFacts DEF RxSak, PN, PN0
<1>2. pn >= s.lowest_acceptable_pn /\ s.lowest_acceptable_pn >= low
  BY DEF ReplayCheck, ReplayExact
<1>3. CASE Window = 0
  <2>1. /\ t.lowest_acceptable_pn = (IF pn = MaxPN THEN MaxPN ELSE pn + 1)
        /\ pn = MaxPN => t.replay_exhausted
        /\ pn # MaxPN => ~t.replay_exhausted
    BY <1>3 DEF ReplayCommit, StrictCommit, RxSak
  <2>4. \A q \in P : q < pn
    BY <1>1, <1>2, <1>3 DEF ReplayExact, StrictExact
  <2> HIDE DEF t
  <2>2. t.lowest_acceptable_pn >= low
    BY <1>1, <1>2, <2>1, ConstantFacts
  <2>3. StrictExact(t, P \cup {pn}, low)
    <3>1. CASE pn = MaxPN
      BY <2>1, <3>1 DEF StrictExact
    <3>2. CASE pn # MaxPN
      <4>1. \A q \in P \cup {pn} : q < pn + 1
        BY <1>1, <2>4
      <4>2. (pn + 1) - 1 = pn
        BY <1>1
      <4> QED
        BY <2>1, <3>2, <4>1, <4>2 DEF StrictExact
    <3> QED
      BY <3>1, <3>2
  <2> QED
    BY <1>3, <2>2, <2>3 DEF ReplayExact, t
<1>4. CASE Window # 0
  <2>1. WindowedExact(s, P, low)
    BY <1>4 DEF ReplayExact
  <2> DEFINE nh == CommittedHighest(s, pn)
             nb == CommittedBitmap(s, pn)
             nl == LowestInWindow(nh)
  <2>2. /\ t.highest_received_pn = nh
        /\ t.replay_bitmap = nb
        /\ t.lowest_acceptable_pn = (IF nl > s.lowest_acceptable_pn THEN nl
                                     ELSE s.lowest_acceptable_pn)
        /\ ~t.replay_exhausted
    BY <1>4 DEF ReplayCommit, WindowCommit, RxSak
  <2>3. nh \in Nat /\ nh \in P \cup {pn} /\ nh >= pn /\ nh <= MaxPN /\ nh >= h
    <3>1. CASE pn > h
      BY <1>1, <3>1, ConstantFacts DEF CommittedHighest
    <3>2. CASE pn <= h
      <4>1. h \in P
        BY <1>1, <1>2, <2>1, <3>2 DEF WindowedExact
      <4> QED
        BY <1>1, <3>2, <4>1 DEF CommittedHighest
    <3> QED
      BY <1>1, <3>1, <3>2
  <2>4. \A q \in P \cup {pn} : q <= nh /\ (nh - q < Window => nh - q \in nb)
    <3>1. CASE h = 0
      BY <1>1, <2>1, <3>1, <1>4, ConstantFacts
      DEF WindowedExact, CommittedHighest, CommittedBitmap
    <3>2. CASE h # 0 /\ pn > h /\ pn - h >= Window
      BY <1>1, <2>1, <3>2, <1>4, ConstantFacts
      DEF WindowedExact, CommittedHighest, CommittedBitmap
    <3>3. CASE h # 0 /\ pn > h /\ pn - h < Window
      <4>1. nh = pn /\ nb = ShiftedBitmap(s, pn)
        BY <1>1, <3>3, ConstantFacts DEF CommittedHighest, CommittedBitmap
      <4>2. ASSUME NEW q \in P, pn - q < Window
            PROVE  pn - q \in ShiftedBitmap(s, pn)
        <5>1. q <= h /\ h - q < Window /\ h - q \in s.replay_bitmap
          BY <1>1, <2>1, <3>3, <4>2, ConstantFacts DEF WindowedExact
        <5>2. (pn - q) - (pn - h) = h - q /\ pn - q \in 0 .. MaxPN
          BY <1>1, <3>3, <5>1, ConstantFacts
        <5> QED
          BY <4>2, <5>1, <5>2 DEF ShiftedBitmap, ReplayMask
      <4>3. \A q \in P : q <= pn
        BY <1>1, <2>1, <3>3 DEF WindowedExact
      <4>4. pn - pn \in ShiftedBitmap(s, pn)
        BY <1>1 DEF ShiftedBitmap
      <4>5. \A q \in P \cup {pn} : /\ q <= pn
                                   /\ pn - q < Window => pn - q \in ShiftedBitmap(s, pn)
        BY <1>1, <4>2, <4>3, <4>4
      <4> HIDE DEF nh, nb
      <4> QED
        BY <4>1, <4>5
    <3>4. CASE h # 0 /\ pn <= h
      <4>1. nh = h /\ nb = (s.replay_bitmap \cup {h - pn}) \cap ReplayMask
        BY <1>1, <3>4 DEF CommittedHighest, CommittedBitmap
      <4>2. \A q \in P : q <= h /\ (h - q < Window => h - q \in s.replay_bitmap)
        BY <2>1 DEF WindowedExact
      <4>3. \A q \in P \cup {pn} : h - q < Window /\ q <= h => h - q \in ReplayMask
        BY <1>1, <3>4, ConstantFacts DEF ReplayMask
      <4> HIDE DEF nh, nb
      <4> QED
        BY <1>1, <3>4, <4>1, <4>2, <4>3
    <3> QED
      BY <1>1, <3>1, <3>2, <3>3, <3>4, ConstantFacts
  <2>5. \A d \in nb : nh - d \in P \cup {pn}
    <3>1. CASE nb = {0}
      BY <2>3, <3>1
    <3>2. CASE h # 0 /\ pn > h /\ pn - h < Window
      <4>1. nh = pn /\ nb = ShiftedBitmap(s, pn)
        BY <1>1, <3>2, ConstantFacts DEF CommittedHighest, CommittedBitmap
      <4>2. ASSUME NEW d \in ShiftedBitmap(s, pn), d # 0
            PROVE  pn - d \in P
        <5>1. d \in 0 .. MaxPN /\ d - (pn - h) \in s.replay_bitmap
          BY <4>2 DEF ShiftedBitmap, ReplayMask
        <5>2. h - (d - (pn - h)) \in P
          BY <2>1, <5>1 DEF WindowedExact
        <5>3. h - (d - (pn - h)) = pn - d
          BY <1>1, <5>1, ConstantFacts
        <5> QED
          BY <5>2, <5>3
      <4>3. pn - 0 = pn
        BY <1>1
      <4> HIDE DEF nh, nb
      <4> QED
        BY <4>1, <4>2, <4>3
    <3>3. CASE h # 0 /\ pn <= h
      <4>1. nh = h /\ nb \subseteq s.replay_bitmap \cup {h - pn}
        BY <1>1, <3>3 DEF CommittedHighest, CommittedBitmap
      <4>2. \A d \in s.replay_bitmap : h - d \in P
        BY <2>1 DEF WindowedExact
      <4>3. h - (h - pn) = pn
        BY <1>1
      <4> HIDE DEF nh, nb
      <4> QED
        BY <4>1, <4>2, <4>3
    <3>4. nb = {0} \/ (h # 0 /\ pn > h /\ pn - h < Window) \/ (h # 0 /\ pn <= h)
      BY <1>1, ConstantFacts DEF CommittedBitmap
    <3> QED
      BY <3>1, <3>2, <3>3, <3>4
  <2>6. /\ nl \in Nat
        /\ nl > low => nl + Window <= nh + 1
    BY <1>1, <2>3, <1>4, ConstantFacts DEF LowestInWindow
  <2> HIDE DEF t, nh, nb, nl
  <2>7. \/ t.lowest_acceptable_pn = low
        \/ t.lowest_acceptable_pn + Window <= nh + 1
    BY <1>1, <1>2, <2>1, <2>2, <2>3, <2>6, ConstantFacts DEF WindowedExact
  <2>8. t.lowest_acceptable_pn >= low
    BY <1>1, <1>2, <2>2, <2>6
  <2> QED
    BY <1>4, <2>2, <2>3, <2>4, <2>5, <2>7, <2>8 DEF ReplayExact, WindowedExact, t
<1> QED
  BY <1>3, <1>4

Delivered(an) == {g[2] : g \in got[an]}

Exact(an) ==
    fc.rx_sak[an].valid => ReplayExact(fc.rx_sak[an], Delivered(an), floor[an])

RxInv == TxInv /\ \A an \in AN : Exact(an)

\* The types the replay argument needs of one association.
LEMMA RxTypes ==
    ASSUME TypeOK, NEW an \in AN
    PROVE  /\ fc.rx_sak[an] \in RxSak /\ Delivered(an) \in SUBSET PN /\ floor[an] \in PN
           /\ got[an] \subseteq Key \X PN
BY DEF TypeOK, FrameCtx, Delivered

\* An association that a step leaves alone stays exact.
LEMMA ExactUnchanged ==
    ASSUME NEW an \in AN, Exact(an),
           fc'.rx_sak[an] = fc.rx_sak[an], got'[an] = got[an], floor'[an] = floor[an]
    PROVE  Exact(an)'
BY DEF Exact, Delivered, ReplayExact, StrictExact, WindowedExact

\* No association is installed at first.
LEMMA RxInit == Init => RxInv
BY TxInit DEF RxInv, Init, Exact, ClearedCtx, NoRxSak

\* Every call keeps each association's replay state an exact summary of what
\* it delivered.
LEMMA RxNext ==
    ASSUME ReplayProtect, RxInv, [Next]_vars
    PROVE  RxInv'
<1> SUFFICES ASSUME NEW a \in AN PROVE Exact(a)'
  BY TxNext DEF RxInv
<1>1. /\ TypeOK /\ BaseInv /\ Exact(a) /\ fc \in FrameCtx
      /\ got \in [AN -> SUBSET (Key \X PN)] /\ floor \in [AN -> PN]
  BY DEF RxInv, TxInv, BaseInv, TypeOK
<1>2. ASSUME ~fc'.rx_sak[a].valid PROVE Exact(a)'
  BY <1>2 DEF Exact
<1>3. CASE CryptoInit
  BY <1>2, <1>3 DEF CryptoInit, ClearedCtx, NoRxSak
<1>4. CASE CryptoClear
  BY <1>2, <1>4 DEF CryptoClear, ClearedCtx, NoRxSak
<1>5. ASSUME NEW key \in Key, NEW an \in AN, NEW pn \in PN0, SetTx(key, an, pn)
      PROVE  Exact(a)'
  BY <1>1, <1>5, SetTxType, ExactUnchanged DEF SetTx
<1>6. ASSUME NEW an \in AN, NEW key \in Key, NEW pn \in PN0, SetRx(an, key, pn)
      PROVE  Exact(a)'
  <2>1. fc'.rx_sak[a] = IF a = an THEN NewRxSak(key, pn) ELSE fc.rx_sak[a]
    BY <1>1, <1>6, SetRxType DEF SetRx
  <2>2. CASE a = an
    <3>1. got'[a] = {} /\ floor'[a] = IF pn = 0 THEN 1 ELSE pn
      BY <1>1, <1>6, <2>2 DEF SetRx
    <3>2. Delivered(a)' = {}
      BY <3>1 DEF Delivered
    <3> QED
      BY <2>1, <2>2, <3>1, <3>2, NewSakExact DEF Exact
  <2>3. CASE a # an
    BY <1>1, <1>6, <2>1, <2>3, ExactUnchanged DEF SetRx
  <2> QED
    BY <2>2, <2>3
<1>7. CASE RemoveTx
  BY <1>1, <1>7, RemoveTxType, ExactUnchanged DEF RemoveTx
<1>8. ASSUME NEW an \in AN, RemoveRx(an)
      PROVE  Exact(a)'
  <2>1. fc'.rx_sak[a] = IF a = an THEN NoRxSak ELSE fc.rx_sak[a]
    BY <1>1, <1>8, RemoveRxType DEF RemoveRx
  <2>2. CASE a = an
    BY <1>2, <2>1, <2>2 DEF NoRxSak
  <2>3. CASE a # an
    BY <1>1, <1>8, <2>1, <2>3, ExactUnchanged DEF RemoveRx
  <2> QED
    BY <2>2, <2>3
<1>9. ASSUME NEW wf \in BOOLEAN, NEW ok \in BOOLEAN, NEW cr \in BOOLEAN, Encrypt(wf, ok, cr)
      PROVE  Exact(a)'
  BY <1>1, <1>9, EncryptStep, ExactUnchanged DEF Encrypt
<1>10. ASSUME NEW f \in Frame, NEW ok \in BOOLEAN, Decrypt(f, ok)
       PROVE  Exact(a)'
  <2> DEFINE s == fc.rx_sak[a]
  <2>1. CASE fc'.rx_sak = fc.rx_sak /\ got' = got /\ delivered' = delivered
    BY <1>1, <1>10, <2>1, ExactUnchanged DEF Decrypt
  <2>2. CASE /\ ReadyRx(fc, f.an) /\ f.pn \in PN /\ ReplayCheck(fc.rx_sak[f.an], f.pn)
             /\ got' = [got EXCEPT ![f.an] = @ \cup {<<f.key, f.pn>>}]
             /\ delivered' = [delivered EXCEPT ![f.an] = @ + 1]
             /\ \A b \in AN : fc'.rx_sak[b] = IF b = f.an /\ ReplayProtect
                                            THEN ReplayCommit(fc.rx_sak[f.an], f.pn)
                                            ELSE fc.rx_sak[b]
    <3>1. f.an \in AN /\ floor' = floor
      BY <1>10 DEF Frame, Decrypt
    <3>2. CASE a # f.an
      BY <1>1, <2>2, <3>1, <3>2, ExactUnchanged
    <3>3. CASE a = f.an
      <4>1. fc'.rx_sak[a] = ReplayCommit(s, f.pn)
        BY <2>2, <3>3
      <4>2. Delivered(a)' = Delivered(a) \cup {f.pn}
        <5>1. got'[a] = got[a] \cup {<<f.key, f.pn>>} /\ <<f.key, f.pn>>[2] = f.pn
          BY <1>1, <2>2, <3>3
        <5>2. {g[2] : g \in got[a] \cup {<<f.key, f.pn>>}} = {g[2] : g \in got[a]} \cup {f.pn}
          BY <5>1
        <5> QED
          BY <5>1, <5>2 DEF Delivered
      <4>3. s.valid /\ ~s.replay_exhausted /\ ReplayCheck(s, f.pn)
        BY <2>2, <3>3 DEF ReadyRx
      <4>4. ReplayExact(s, Delivered(a), floor[a])
        BY <1>1, <4>3 DEF Exact
      <4>5. s \in RxSak /\ Delivered(a) \in SUBSET PN /\ floor[a] \in PN
        BY <1>1, RxTypes
      <4>6. ReplayExact(ReplayCommit(s, f.pn), Delivered(a) \cup {f.pn}, floor[a])
        BY <2>2, <4>3, <4>4, <4>5, CommitExact
      <4> QED
        BY <3>1, <4>1, <4>2, <4>6 DEF Exact
    <3> QED
      BY <3>2, <3>3
  <2> QED
    BY <1>1, <1>10, <2>1, <2>2, DecryptStep
<1>11. CASE UNCHANGED vars
  BY <1>1, <1>11, ExactUnchanged DEF vars
<1> QED
  BY <1>3, <1>4, <1>5, <1>6, <1>7, <1>8, <1>9, <1>10, <1>11 DEF Next

\* The number-level notion of a fresh packet is the service's.
LEMMA FreshIsAcceptable ==
    ASSUME NEW an \in AN, NEW pn \in PN
    PROVE  Fresh(Delivered(an), floor[an], pn) <=> Service!Acceptable(an, pn)
BY DEF Fresh, Delivered, Service!Acceptable

\* An exact replay state gives an exact check.
LEMMA ExactImpliesWindowExact ==
    ASSUME ReplayProtect, RxInv
    PROVE  WindowExact
<1> SUFFICES ASSUME NEW an \in AN, fc.rx_sak[an].valid, NEW pn \in PN
             PROVE  ReadyRx(fc, an) /\ ReplayCheck(fc.rx_sak[an], pn)
                       <=> Service!Acceptable(an, pn)
  BY DEF WindowExact
<1>1. TypeOK /\ ReplayExact(fc.rx_sak[an], Delivered(an), floor[an])
  BY DEF RxInv, TxInv, BaseInv, Exact
<1>2. ~fc.rx_sak[an].replay_exhausted /\ ReplayCheck(fc.rx_sak[an], pn)
         <=> Fresh(Delivered(an), floor[an], pn)
  BY <1>1, RxTypes, CheckExact
<1> QED
  BY <1>2, FreshIsAcceptable DEF ReadyRx

\* With replay protection on, a receive association accepts exactly the
\* packet numbers that are new and inside its window, for every window size
\* and up to the last packet number (macsec_frame_replay_check, _commit).
THEOREM WindowCorrect ==
    ASSUME ReplayProtect
    PROVE  Spec => []WindowExact
<1>1. RxInv /\ [Next]_vars => RxInv'
  BY RxNext
<1>2. RxInv => WindowExact
  BY ExactImpliesWindowExact
<1> QED
  BY RxInit, <1>1, <1>2, PTL DEF Spec

-----------------------------------------------------------------------------
(* Refinement of FrameService *)

\* The initial states map to initial states of the service.
LEMMA ServiceInit == Init => Service!Init
BY DEF Init, Service!Init, ClearedCtx, NoTxSak, NoRxSak, AN, Service!SA

\* Every call maps to one step of the service, or to none.
LEMMA ServiceStep ==
    ASSUME ReplayProtect, RxInv, [Next]_vars
    PROVE  [Service!Next]_(Service!svars)
<1> DEFINE rx == [an \in AN |-> fc.rx_sak[an].key]
<1>1. /\ TypeOK /\ BaseInv /\ NextPnFresh /\ fc \in FrameCtx
      /\ used \in [Key -> SUBSET PN] /\ AN = Service!SA /\ PN = Service!Numbers
  BY DEF RxInv, TxInv, BaseInv, TypeOK, AN, PN, Service!SA, Service!Numbers
<1>2. ASSUME fc' = ClearedCtx, ForgetRx, UNCHANGED <<used, protected>>
      PROVE  Service!Next
  <2>1. fc'.tx_sak.key = NoKey /\ rx' = [an \in AN |-> NoKey]
    BY <1>2 DEF ClearedCtx, NoTxSak, NoRxSak
  <2>2. Service!Reset
    BY <1>1, <1>2, <2>1 DEF Service!Reset, ForgetRx
  <2> QED
    BY <2>2 DEF Service!Next
<1>3. CASE CryptoInit
  BY <1>2, <1>3 DEF CryptoInit
<1>4. CASE CryptoClear
  BY <1>2, <1>4 DEF CryptoClear
<1>5. ASSUME NEW key \in Key, NEW an \in AN, NEW pn \in PN0, SetTx(key, an, pn)
      PROVE  Service!Next
  <2>1. fc'.tx_sak = NewTxSak(key, an, pn) /\ fc'.rx_sak = fc.rx_sak
    BY <1>1, <1>5, SetTxType DEF SetTx
  <2>2. fc'.tx_sak.key = key /\ rx' = rx
    BY <2>1 DEF NewTxSak
  <2>3. Service!InstallTx(key)
    BY <1>5, <2>2 DEF Service!InstallTx, SetTx
  <2> QED
    BY <2>3 DEF Service!Next
<1>6. ASSUME NEW an \in AN, NEW key \in Key, NEW pn \in PN0, SetRx(an, key, pn)
      PROVE  Service!Next
  <2> DEFINE low == IF pn = 0 THEN 1 ELSE pn
  <2>1. fc'.tx_sak = fc.tx_sak
        /\ \A a \in AN : fc'.rx_sak[a] = IF a = an THEN NewRxSak(key, pn) ELSE fc.rx_sak[a]
    BY <1>1, <1>6, SetRxType DEF SetRx
  <2>2. NewRxSak(key, pn).key = key
    BY DEF NewRxSak
  <2>3. rx' = [rx EXCEPT ![an] = key]
    BY <2>1, <2>2
  <2>4. low \in PN
    BY ConstantFacts DEF PN, PN0
  <2>5. Service!InstallRx(an, key, low)
    BY <1>6, <2>1, <2>3 DEF Service!InstallRx, SetRx
  <2> QED
    BY <1>1, <2>4, <2>5 DEF Service!Next
<1>7. CASE RemoveTx
  <2>1. fc'.tx_sak = NoTxSak /\ fc'.rx_sak = fc.rx_sak
    BY <1>1, <1>7, RemoveTxType DEF RemoveTx
  <2>2. Service!RemoveTx
    BY <1>7, <2>1 DEF Service!RemoveTx, RemoveTx, NoTxSak
  <2> QED
    BY <2>2 DEF Service!Next
<1>8. ASSUME NEW an \in AN, RemoveRx(an)
      PROVE  Service!Next
  <2>1. fc'.tx_sak = fc.tx_sak
        /\ \A a \in AN : fc'.rx_sak[a] = IF a = an THEN NoRxSak ELSE fc.rx_sak[a]
    BY <1>1, <1>8, RemoveRxType DEF RemoveRx
  <2>2. rx' = [rx EXCEPT ![an] = NoKey]
    <3>1. NoRxSak.key = NoKey
      BY DEF NoRxSak
    <3> QED
      BY <2>1, <3>1
  <2>3. Service!RemoveRx(an)
    BY <1>8, <2>1, <2>2 DEF Service!RemoveRx, RemoveRx
  <2> QED
    BY <1>1, <2>3 DEF Service!Next
<1>9. ASSUME NEW wf \in BOOLEAN, NEW ok \in BOOLEAN, NEW cr \in BOOLEAN, Encrypt(wf, ok, cr)
      PROVE  [Service!Next]_(Service!svars)
  <2>1. fc'.rx_sak = fc.rx_sak /\ floor' = floor /\ got' = got /\ delivered' = delivered
    BY <1>1, <1>9, EncryptStep DEF Encrypt
  <2>2. CASE fc'.tx_sak = fc.tx_sak /\ used' = used /\ protected' = protected
    BY <2>1, <2>2 DEF Service!svars
  <2>3. CASE /\ fc.tx_sak.valid /\ fc.tx_sak.next_pn \in PN
             /\ fc'.tx_sak = [fc.tx_sak EXCEPT !.next_pn = NextPN(@)]
             /\ used' = [used EXCEPT ![fc.tx_sak.key] = @ \cup {fc.tx_sak.next_pn}]
             /\ protected' = [protected EXCEPT ![fc.tx_sak.key] = @ + 1]
    <3>1. fc.tx_sak \in TxSak /\ fc.tx_sak.key \in Key
      BY <1>1, <2>3 DEF FrameCtx, BaseInv, SakKeyed
    <3>2. fc'.tx_sak.key = fc.tx_sak.key /\ fc.tx_sak.key # NoKey
      BY <2>3, <3>1, ConstantFacts DEF TxSak
    <3>3. \A q \in used[fc.tx_sak.key] : fc.tx_sak.next_pn > q
      <4>1. fc.tx_sak.next_pn # 0
        BY <2>3, ConstantFacts DEF PN
      <4>2. \A q \in used[fc.tx_sak.key] : q < fc.tx_sak.next_pn
        BY <1>1, <2>3, <4>1 DEF NextPnFresh
      <4>3. \A q \in used[fc.tx_sak.key] : q \in Nat
        BY <1>1, <3>1, ConstantFacts
      <4> QED
        BY <2>3, <4>2, <4>3, ConstantFacts
    <3>4. Service!Protect(fc.tx_sak.next_pn)
      BY <2>1, <2>3, <3>2, <3>3 DEF Service!Protect
    <3> QED
      BY <1>1, <2>3, <3>4 DEF Service!Next
  <2> QED
    BY <1>1, <1>9, <2>2, <2>3, EncryptStep
<1>10. ASSUME NEW f \in Frame, NEW ok \in BOOLEAN, Decrypt(f, ok)
       PROVE  [Service!Next]_(Service!svars)
  <2>1. /\ fc'.tx_sak = fc.tx_sak /\ f.an \in AN
        /\ floor' = floor /\ used' = used /\ protected' = protected
    BY <1>1, <1>10, DecryptStep DEF Decrypt, Frame
  <2>2. CASE fc'.rx_sak = fc.rx_sak /\ got' = got /\ delivered' = delivered
    BY <2>1, <2>2 DEF Service!svars
  <2>3. CASE /\ ReadyRx(fc, f.an) /\ f.pn \in PN /\ ReplayCheck(fc.rx_sak[f.an], f.pn)
             /\ f.key = fc.rx_sak[f.an].key
             /\ got' = [got EXCEPT ![f.an] = @ \cup {<<f.key, f.pn>>}]
             /\ delivered' = [delivered EXCEPT ![f.an] = @ + 1]
             /\ \A a \in AN : fc'.rx_sak[a] = IF a = f.an /\ ReplayProtect
                                            THEN ReplayCommit(fc.rx_sak[f.an], f.pn)
                                            ELSE fc.rx_sak[a]
    <3>1. fc.rx_sak[f.an].valid /\ f.key \in Key /\ f.key # NoKey
      BY <1>1, <2>1, <2>3, ConstantFacts DEF ReadyRx, BaseInv, SakKeyed
    <3>2. Service!Acceptable(f.an, f.pn)
      BY <2>1, <2>3, <3>1, ExactImpliesWindowExact DEF WindowExact
    <3>3. \A a \in AN : fc'.rx_sak[a].key = fc.rx_sak[a].key
      <4>1. fc.rx_sak[f.an] \in RxSak
        BY <1>1, <2>1, RxTypes
      <4>2. ReplayCommit(fc.rx_sak[f.an], f.pn).key = fc.rx_sak[f.an].key
        BY <2>3, <4>1, ReplayCommitType
      <4> QED
        BY <2>1, <2>3, <4>2
    <3>4. rx' = rx /\ rx[f.an] = f.key
      BY <2>1, <2>3, <3>3
    <3>5. Service!Deliver(f.an, f.pn)
      BY <2>1, <2>3, <3>1, <3>2, <3>4 DEF Service!Deliver
    <3> QED
      BY <1>1, <2>1, <2>3, <3>5 DEF Service!Next
  <2> QED
    BY <1>1, <1>10, <2>2, <2>3, DecryptStep
<1>11. CASE UNCHANGED vars
  BY <1>11 DEF vars, Service!svars
<1> QED
  BY <1>3, <1>4, <1>5, <1>6, <1>7, <1>8, <1>9, <1>10, <1>11 DEF Next

\* The frame layer implements the frame service for every number of keys and
\* associations, every packet-number range and every window: what it delivers
\* is authentic, new and recent, and it never repeats a packet number under
\* one key (frame_crypto.c 28-209, 341-597).
THEOREM ServiceCorrect ==
    ASSUME ReplayProtect
    PROVE  Spec => ImplementsService
<1>1. RxInv /\ [Next]_vars => RxInv'
  BY RxNext
<1>2. RxInv /\ [Next]_vars => [Service!Next]_(Service!svars)
  BY ServiceStep
<1> QED
  BY RxInit, ServiceInit, <1>1, <1>2, PTL DEF Spec, ImplementsService, Service!Spec
=============================================================================
