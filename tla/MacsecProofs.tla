----------------------------- MODULE MacsecProofs -----------------------------
(***************************************************************************)
(* What one call of the stack does to its context: the participant, the    *)
(* frame layer and the stack's own state move together.  MacsecNodeProofs  *)
(* puts the calls in a sequence.                                           *)
(***************************************************************************)
EXTENDS Macsec, MkaProofs, FrameSaProofs

-----------------------------------------------------------------------------
(* Types *)

MetaRec == [valid: BOOLEAN, mn: 0 .. MnMax, reasons: SUBSET TxReasons, dist: BOOLEAN,
            kn: 0 .. KnMax, an: MkaAN]

MacsecCtx == [mode: Modes, state: MacsecStates, mka: MkaCtx, fc: FrameCtx, meta: MetaRec]

LEMMA SameAN == AN = MkaAN
BY MacsecAssumption DEF AN, MkaAN

LEMMA NoMetaType == NoMeta \in MetaRec
BY MkaAssumption DEF NoMeta, MetaRec, MkaAN, MkaMaxSA

-----------------------------------------------------------------------------
(* The SAK slots and the frame layer *)

\* The transmit association is the one key a slot says is sent with.
TxMatches(m, fc) ==
    /\ fc.tx_sak.valid => m.latest.tx_installed \/ m.old.tx_installed
    /\ m.latest.tx_installed =>
          /\ ~m.old.tx_installed
          /\ fc.tx_sak.valid /\ fc.tx_sak.key = m.latest.key /\ fc.tx_sak.an = m.latest.an
    /\ m.old.tx_installed =>
          fc.tx_sak.valid /\ fc.tx_sak.key = m.old.key /\ fc.tx_sak.an = m.old.an

InRxSlot(fc, sak) == fc.rx_sak[sak.an].valid /\ fc.rx_sak[sak.an].key = sak.key

\* No association receives with a key that is in neither slot.
RxMatches(m, fc) ==
    \A an \in AN : fc.rx_sak[an].valid =>
        \/ m.latest.rx_installed /\ m.latest.an = an /\ m.latest.key = fc.rx_sak[an].key
        \/ m.old.rx_installed /\ m.old.an = an /\ m.old.key = fc.rx_sak[an].key

Slots(m, fc) == TxMatches(m, fc) /\ RxMatches(m, fc)

\* The two slots hold associations of different numbers.
Apart(m) == m.latest.state # "NONE" /\ m.old.state # "NONE" => m.latest.an # m.old.an

\* Every key a slot says is received with really is.
RxExact(m, fc) ==
    /\ m.latest.rx_installed => InRxSlot(fc, m.latest)
    /\ m.old.rx_installed => InRxSlot(fc, m.old)

\* A received MKPDU moves the slots only so that they still match.
LEMMA SlotsStepMatches ==
    ASSUME NEW m, MkaBase(m), NEW n, MkaBase(n),
           NEW p \in MkpduRec, NEW k \in Key \cup {NoKey}, SlotsStep(m, n, p, k),
           NEW fc, Slots(m, fc)
    PROVE  Slots(n, fc) /\ (RxExact(m, fc) => RxExact(n, fc))
<1>1. m \in MkaCtx /\ m.next_kn # 0 /\ LatestOK(m.latest) /\ LatestOK(n.latest) /\ OldOK(m.old)
  BY DEF MkaBase
<1>2. CASE SameKey(m.latest, n.latest) /\ n.old = m.old
  BY <1>2 DEF SameKey, Slots, TxMatches, RxMatches, RxExact, InRxSlot
<1>3. CASE Replacement(m, p, k, n.latest) /\ OldAfter(m, n.old)
  <2>1. ~Held(n.latest)
    BY <1>1, <1>3, ReplacementOK
  <2>2. ~n.latest.rx_installed /\ ~n.latest.tx_installed
    BY <1>1, <2>1 DEF LatestOK
  <2>3. CASE n.old = m.old /\ ~Held(m.latest)
    <3>1. ~m.latest.rx_installed /\ ~m.latest.tx_installed
      BY <1>1, <2>3 DEF LatestOK
    <3> QED
      BY <2>2, <2>3, <3>1 DEF Slots, TxMatches, RxMatches, RxExact, InRxSlot
  <2>4. CASE /\ Held(m.latest) /\ m.old = NoSak
             /\ n.old.key = m.latest.key /\ n.old.an = m.latest.an
             /\ n.old.rx_installed /\ n.old.tx_installed
    <3>1. ~m.old.rx_installed /\ ~m.old.tx_installed /\ m.latest.rx_installed
          /\ m.latest.tx_installed
      BY <1>1, <2>4 DEF LatestOK, NoSak
    <3> QED
      BY <2>2, <2>4, <3>1 DEF Slots, TxMatches, RxMatches, RxExact, InRxSlot
  <2> QED
    BY <1>3, <2>3, <2>4 DEF OldAfter
<1> QED
  BY <1>2, <1>3 DEF SlotsStep

-----------------------------------------------------------------------------
(* Moving keys *)

\* Everything of the context but the frame layer.
SameButFrame(x, y) ==
    y.mode = x.mode /\ y.state = x.state /\ y.mka = x.mka /\ y.meta = x.meta

\* macsec_install_rx_sak: afterwards the association receives with the key;
\* one that did already keeps its replay state (macsec.c 41-85).
LEMMA InstallRxSakStep ==
    ASSUME NEW x \in MacsecCtx, FrameOK(x.fc), NEW key \in Key, NEW an \in AN,
           NEW y, y = InstallRxSak(x, key, an)
    PROVE  /\ y \in MacsecCtx /\ SameButFrame(x, y) /\ FrameOK(y.fc)
           /\ y.fc.tx_sak = x.fc.tx_sak
           /\ y.fc.rx_sak[an].valid /\ y.fc.rx_sak[an].key = key
           /\ \A a \in AN \ {an} : y.fc.rx_sak[a] = x.fc.rx_sak[a]
<1>1. CASE SakEqual(x.fc.rx_sak[an], key)
  BY <1>1 DEF InstallRxSak, SakEqual, SameButFrame
<1>2. CASE ~SakEqual(x.fc.rx_sak[an], key)
  <2> DEFINE fc == x.fc
             z == SetRxSak(fc, an, key, 1)
  <2>1. y = [x EXCEPT !.fc = z]
    BY <1>2 DEF InstallRxSak, MacsecCtx
  <2>2. 1 \in PN0 /\ fc \in FrameCtx
    BY ConstantFacts DEF FrameOK
  <2>3. /\ z \in FrameCtx /\ z.tx_sak = fc.tx_sak
        /\ z.current_gcm_key = fc.current_gcm_key /\ z.gcm = fc.gcm
        /\ \A a \in AN : z.rx_sak[a] = IF a = an THEN NewRxSak(key, 1) ELSE fc.rx_sak[a]
    <3> HIDE DEF fc
    <3> QED
      BY <2>2, SetRxType
  <2>4. NewRxSak(key, 1).valid /\ NewRxSak(key, 1).key = key
    BY DEF NewRxSak
  <2> HIDE DEF z
  <2>5. FrameOK(z)
    BY <2>3, <2>4 DEF FrameOK, Keyed, CacheNamesKey
  <2>6. y \in MacsecCtx /\ SameButFrame(x, y) /\ y.fc = z
    BY <2>1, <2>3 DEF MacsecCtx, SameButFrame
  <2> QED
    BY <2>3, <2>4, <2>5, <2>6
<1> QED
  BY <1>1, <1>2

\* macsec_install_tx_sak: a key that is installed already goes on counting
\* its packets, any other starts at packet number 1 (macsec.c 87-127).
LEMMA InstallTxSakStep ==
    ASSUME NEW x \in MacsecCtx, FrameOK(x.fc), NEW key \in Key, NEW an \in AN,
           NEW y, y = InstallTxSak(x, key, an)
    PROVE  /\ y \in MacsecCtx /\ SameButFrame(x, y) /\ FrameOK(y.fc)
           /\ y.fc.rx_sak = x.fc.rx_sak
           /\ y.fc.tx_sak.valid /\ y.fc.tx_sak.key = key /\ y.fc.tx_sak.an = an
           /\ y.fc.tx_sak = x.fc.tx_sak \/ y.fc.tx_sak = NewTxSak(key, an, 1)
<1>1. CASE SakEqual(x.fc.tx_sak, key) /\ x.fc.tx_sak.an = an
  BY <1>1 DEF InstallTxSak, SakEqual, SameButFrame
<1>2. CASE ~(SakEqual(x.fc.tx_sak, key) /\ x.fc.tx_sak.an = an)
  <2> DEFINE fc == x.fc
             z == SetTxSak(fc, key, an, 1)
  <2>1. y = [x EXCEPT !.fc = z]
    BY <1>2 DEF InstallTxSak, MacsecCtx
  <2>2. 1 \in PN0 /\ fc \in FrameCtx
    BY ConstantFacts DEF FrameOK
  <2>3. /\ z \in FrameCtx /\ z.rx_sak = fc.rx_sak /\ z.tx_sak = NewTxSak(key, an, 1)
        /\ z.current_gcm_key = fc.current_gcm_key /\ z.gcm = fc.gcm
    <3> HIDE DEF fc
    <3> QED
      BY <2>2, SetTxType
  <2>4. NewTxSak(key, an, 1).valid /\ NewTxSak(key, an, 1).key = key
        /\ NewTxSak(key, an, 1).an = an
    BY DEF NewTxSak
  <2> HIDE DEF z
  <2>5. FrameOK(z)
    BY <2>3, <2>4 DEF FrameOK, Keyed, CacheNamesKey
  <2>6. y \in MacsecCtx /\ SameButFrame(x, y) /\ y.fc = z
    BY <2>1, <2>3 DEF MacsecCtx, SameButFrame
  <2> QED
    BY <2>3, <2>4, <2>5, <2>6
<1> QED
  BY <1>1, <1>2

-----------------------------------------------------------------------------
(* Serving the participant *)

\* What serving the participant never changes of it.
SameButService(m, n) ==
    /\ n.keyed = m.keyed /\ n.sci = m.sci /\ n.mi = m.mi /\ n.prio = m.prio
    /\ n.local_key_server = m.local_key_server /\ n.peer = m.peer
    /\ n.local_mn = m.local_mn /\ n.next_kn = m.next_kn /\ n.next_an = m.next_an
    /\ n.since_tx = m.since_tx /\ m.tx_reasons \subseteq n.tx_reasons

\* A context whose participant is sound and whose slots match the frame layer.
Sound(x) ==
    /\ x \in MacsecCtx /\ FrameOK(x.fc) /\ MkaOK(x.mka) /\ Slots(x.mka, x.fc)

\* The old SAK was removed, the latest one staying as it was.
Retired(x, y) ==
    /\ x.mka.latest.state = "CONFIRMED" /\ x.mka.old.state = "RETIRING"
    /\ y.mka.latest = x.mka.latest /\ y.mka.old = NoSak
    /\ y.fc.tx_sak = x.fc.tx_sak
    /\ \A an \in AN \ {x.mka.old.an} : y.fc.rx_sak[an] = x.fc.rx_sak[an]

\* macsec_remove_mka_old_sak for an old SAK that is to go (macsec.c 129-210).
LEMMA RemoveMkaOldSakStep ==
    ASSUME NEW x, Sound(x), x.mka.old.state = "RETIRING", x.mka.latest.state = "CONFIRMED",
           NEW r, r = RemoveMkaOldSak(x)
    PROVE  /\ r.ret = "OK" /\ Sound(r.c) /\ Retired(x, r.c)
           /\ r.c.mode = x.mode /\ r.c.state = x.state /\ r.c.meta = x.meta
           /\ r.c.mka.events = x.mka.events /\ SameButService(x.mka, r.c.mka)
<1> DEFINE m == x.mka
           old == m.old
           t == NotifySakRetired(m, old.kn, old.an)
           z == RemoveRxSak(x.fc, old.an)
           dropped == [x EXCEPT !.fc = z]
           y == [dropped EXCEPT !.mka = t.m]
<1>1. /\ x \in MacsecCtx /\ m \in MkaCtx /\ MkaOK(m) /\ OldOK(old) /\ LatestOK(m.latest)
      /\ old.an \in AN /\ Slots(m, x.fc) /\ FrameOK(x.fc) /\ x.fc \in FrameCtx
  BY SameAN DEF Sound, MacsecCtx, MkaOK, MkaBase, MkaCtx, SakRec, FrameOK
<1>2. old.rx_installed /\ ~old.tx_installed
  BY <1>1 DEF OldOK, LatestOK, Held, Slots, TxMatches
<1>3. r = Told(RemoveOldTx(RemoveOldRx(x, old), old), t)
  BY DEF RemoveMkaOldSak
<1>4. RemoveOldTx(RemoveOldRx(x, old), old) = dropped
  <2>1. RemoveOldRx(x, old) = dropped
    BY <1>1, <1>2 DEF RemoveOldRx, MacsecCtx
  <2> QED
    BY <1>2, <2>1 DEF RemoveOldTx
<1>5. /\ t.ret = "OK" /\ MkaOK(t.m) /\ t.m.old = NoSak /\ t.m.latest = m.latest
      /\ SameButSlots(m, t.m) /\ t.m.tx_reasons = m.tx_reasons
  BY <1>1, NotifySakRetiredStep
<1>6. /\ z \in FrameCtx /\ z.tx_sak = x.fc.tx_sak /\ z.current_gcm_key = NoKey
      /\ \A a \in AN : z.rx_sak[a] = IF a = old.an THEN NoRxSak ELSE x.fc.rx_sak[a]
  BY <1>1, RemoveRxType
<1>7. r = C(t.ret, y)
  BY <1>3, <1>4 DEF Told
<1> HIDE DEF t, z
<1>8. dropped \in MacsecCtx /\ dropped.mode = x.mode /\ dropped.state = x.state
      /\ dropped.meta = x.meta /\ dropped.fc = z
  BY <1>1, <1>6 DEF MacsecCtx
<1> HIDE DEF dropped
<1>9. t.m \in MkaCtx
  BY <1>5 DEF MkaOK, MkaBase
<1>10. y \in MacsecCtx /\ y.mode = x.mode /\ y.state = x.state /\ y.meta = x.meta
       /\ y.fc = z /\ y.mka = t.m
  BY <1>8, <1>9 DEF MacsecCtx
<1> HIDE DEF y
<1>11. r.ret = "OK" /\ r.c = y
  BY <1>5, <1>7 DEF C
<1>12. FrameOK(z)
  BY <1>1, <1>6 DEF FrameOK, Keyed, CacheNamesKey, NoRxSak
<1>13. Slots(t.m, z)
  BY <1>1, <1>2, <1>5, <1>6 DEF Slots, TxMatches, RxMatches, NoRxSak, NoSak
<1>14. SameButService(m, t.m) /\ t.m.events = m.events
  BY <1>5 DEF SameButSlots, SameButService
<1> QED
  BY <1>5, <1>6, <1>10, <1>11, <1>12, <1>13, <1>14 DEF Sound, Retired

\* The latest SAK was put into use, in both directions and with the peer told.
Installed(x, y) ==
    /\ Installable(x.mka.latest)
    /\ y.mka.latest = InUse(x.mka.latest) /\ y.mka.old = Silenced(x.mka.old)
    /\ "SAK_USE" \in y.mka.tx_reasons
    /\ LET key == x.mka.latest.key
           an  == x.mka.latest.an
       IN  /\ y.fc.tx_sak.valid /\ y.fc.tx_sak.key = key /\ y.fc.tx_sak.an = an
           /\ y.fc.tx_sak = x.fc.tx_sak \/ y.fc.tx_sak = NewTxSak(key, an, 1)
           /\ y.fc.rx_sak[an].valid /\ y.fc.rx_sak[an].key = key
           /\ \A a \in AN \ {an} : y.fc.rx_sak[a] = x.fc.rx_sak[a]

\* An installation keeps the slots and the frame layer together.
LEMMA InstalledMatches ==
    ASSUME NEW x, Sound(x), NEW y, Installed(x, y)
    PROVE  /\ Slots(y.mka, y.fc)
           /\ RxExact(x.mka, x.fc) /\ Apart(y.mka) => RxExact(y.mka, y.fc)
<1> DEFINE l == x.mka.latest
           o == x.mka.old
           l2 == y.mka.latest
           o2 == y.mka.old
<1>1. /\ l \in SakRec /\ LatestOK(l) /\ Installable(l) /\ o \in SakRec /\ OldOK(o)
      /\ l.an \in AN /\ o.an \in AN /\ Slots(x.mka, x.fc) /\ l2 = InUse(l) /\ o2 = Silenced(o)
  BY SameAN DEF Sound, MkaOK, MkaBase, MkaCtx, SakRec, Installed
<1>2. /\ l2.key = l.key /\ l2.an = l.an /\ l2.rx_installed /\ l2.tx_installed
      /\ l2.state = "ACTIVE"
  BY <1>1, InUseFields
<1>3. /\ ~o2.tx_installed /\ o2.key = o.key /\ o2.an = o.an /\ o2.rx_installed = o.rx_installed
      /\ o2.state = o.state
  BY <1>1, SilencedFields
<1>4. ~l.rx_installed
  BY <1>1, InstallableFields
<1>5. o.rx_installed => o.state # "NONE"
  BY <1>1 DEF OldOK, NoSak
<1>6. TxMatches(y.mka, y.fc)
  BY <1>2, <1>3 DEF TxMatches, Installed
<1>7. RxMatches(y.mka, y.fc)
  BY <1>1, <1>2, <1>3, <1>4 DEF Slots, RxMatches, Installed
<1>8. ASSUME RxExact(x.mka, x.fc), Apart(y.mka) PROVE RxExact(y.mka, y.fc)
  BY <1>1, <1>2, <1>3, <1>5, <1>8 DEF RxExact, InRxSlot, Apart, Installed
<1> QED
  BY <1>6, <1>7, <1>8 DEF Slots

\* macsec_process_mka_sak_install never fails half-way: a key that is taken
\* is received with, sent with and reported, in this order (macsec.c 241-334).
LEMMA ProcessMkaSakInstallStep ==
    ASSUME NEW x, Sound(x), x.mka.events = {}, NEW r, r = ProcessMkaSakInstall(x)
    PROVE  \/ r.ret = "OK" /\ r.c = x /\ ~Installable(x.mka.latest)
           \/ /\ r.ret = "OK" /\ Sound(r.c) /\ Installed(x, r.c)
              /\ r.c.mode = x.mode /\ r.c.state = x.state /\ r.c.meta = x.meta
              /\ r.c.mka.events = {"SAK_ACTIVE"} /\ SameButService(x.mka, r.c.mka)
<1> DEFINE m == x.mka
           l == m.latest
           taken == TakeSakForInstall(m)
           start == [x EXCEPT !.mka = taken.m]
           sak == taken.m.latest
<1>1. /\ x \in MacsecCtx /\ m \in MkaCtx /\ MkaBase(m) /\ l \in SakRec /\ LatestOK(l)
      /\ l.an \in AN /\ FrameOK(x.fc)
  BY SameAN DEF Sound, MacsecCtx, MkaOK, MkaBase, MkaCtx, SakRec
<1>2. CASE ~Installable(l)
  <2>1. taken.ret = "NOT_READY"
    BY <1>1, <1>2, TakeNothing
  <2>2. r = C("OK", x)
    BY <2>1 DEF ProcessMkaSakInstall, InstallTaken
  <2> QED
    BY <1>2, <2>2 DEF C
<1>3. CASE Installable(l)
  <2>1. taken.ret = "OK" /\ HasLatest(m, taken.m, Taken(l))
    BY <1>1, <1>3, TakeSakStep
  <2>2. /\ taken.m \in MkaCtx /\ sak = Taken(l)
    BY <2>1 DEF HasLatest
  <2>3. /\ sak.state = "INSTALL_PENDING" /\ sak.key = l.key /\ sak.kn = l.kn /\ sak.an = l.an
        /\ ~sak.rx_installed /\ ~sak.tx_installed
    BY <1>1, <1>3, <2>2, TakenFields
  <2>4. l.key \in Key
    BY <1>1, <1>3, InstallableFields
  <2>5. r = InstallTx(InstallRx(start, sak), sak)
    BY <2>1, <2>3 DEF ProcessMkaSakInstall, InstallTaken
  <2> HIDE DEF taken
  <2>6. start \in MacsecCtx /\ start.mka = taken.m /\ start.fc = x.fc /\ start.mode = x.mode
        /\ start.state = x.state /\ start.meta = x.meta
    BY <1>1, <2>2 DEF MacsecCtx
  <2> HIDE DEF start
  <2> DEFINE y1 == InstallRxSak(start, l.key, l.an)
             r1 == NotifySakInstalled(taken.m, l.kn, l.an, "RX")
             c1 == [y1 EXCEPT !.mka = r1.m]
             y2 == InstallTxSak(c1, l.key, l.an)
             r2 == NotifySakInstalled(r1.m, l.kn, l.an, "TX")
             c2 == [y2 EXCEPT !.mka = r2.m]
  <2>7. r1.ret = "OK" /\ HasLatest(m, r1.m, Receiving(l))
    BY <1>1, <1>3, <2>1, RxInstalledStep
  <2>8. InstallRx(start, sak) = C(r1.ret, c1)
    BY <2>3, <2>6 DEF InstallRx, Told
  <2>9. /\ r2.ret = "OK" /\ MkaOK(r2.m) /\ SameButInstall(m, r2.m)
        /\ r2.m.latest = InUse(l) /\ r2.m.old = Silenced(m.old)
        /\ r2.m.events = m.events \cup {"SAK_ACTIVE"}
        /\ r2.m.tx_reasons = m.tx_reasons \cup {"SAK_USE"}
    <3> HIDE DEF r1
    <3> QED
      BY <1>1, <1>3, <2>7, TxInstalledStep
  <2>10. /\ y1 \in MacsecCtx /\ SameButFrame(start, y1) /\ FrameOK(y1.fc)
         /\ y1.fc.tx_sak = start.fc.tx_sak
         /\ y1.fc.rx_sak[l.an].valid /\ y1.fc.rx_sak[l.an].key = l.key
         /\ \A a \in AN \ {l.an} : y1.fc.rx_sak[a] = start.fc.rx_sak[a]
    BY <1>1, <2>4, <2>6, InstallRxSakStep
  <2> HIDE DEF y1
  <2>11. /\ c1 \in MacsecCtx /\ c1.mka = r1.m /\ c1.fc = y1.fc /\ c1.mode = x.mode
         /\ c1.state = x.state /\ c1.meta = x.meta
    <3>1. r1.m \in MkaCtx
      BY <2>7 DEF HasLatest
    <3> HIDE DEF r1
    <3> QED
      BY <2>6, <2>10, <3>1 DEF MacsecCtx, SameButFrame
  <2>12. r = C(r2.ret, c2)
    <3>1. C(r1.ret, c1).ret = "OK" /\ C(r1.ret, c1).c = c1
      BY <2>7 DEF C
    <3> HIDE DEF r1, c1
    <3> QED
      BY <2>3, <2>5, <2>8, <2>11, <3>1 DEF InstallTx, Told
  <2> HIDE DEF r1, c1
  <2>13. /\ y2 \in MacsecCtx /\ SameButFrame(c1, y2) /\ FrameOK(y2.fc)
         /\ y2.fc.rx_sak = c1.fc.rx_sak
         /\ y2.fc.tx_sak.valid /\ y2.fc.tx_sak.key = l.key /\ y2.fc.tx_sak.an = l.an
         /\ y2.fc.tx_sak = c1.fc.tx_sak \/ y2.fc.tx_sak = NewTxSak(l.key, l.an, 1)
    BY <1>1, <2>4, <2>10, <2>11, InstallTxSakStep
  <2> HIDE DEF y2, r2
  <2>14. /\ c2 \in MacsecCtx /\ c2.mka = r2.m /\ c2.fc = y2.fc /\ c2.mode = x.mode
         /\ c2.state = x.state /\ c2.meta = x.meta
    <3>1. r2.m \in MkaCtx
      BY <2>9 DEF MkaOK, MkaBase
    <3> QED
      BY <2>11, <2>13, <3>1 DEF MacsecCtx, SameButFrame
  <2> HIDE DEF c2
  <2>15. r.ret = "OK" /\ r.c = c2
    BY <2>9, <2>12 DEF C
  <2>16. Installed(x, c2)
    BY <1>3, <2>6, <2>9, <2>10, <2>11, <2>13, <2>14 DEF Installed
  <2>17. Sound(c2)
    BY <2>9, <2>13, <2>14, <2>16, InstalledMatches DEF Sound
  <2>18. SameButService(m, c2.mka) /\ c2.mka.events = {"SAK_ACTIVE"}
    BY <2>9, <2>14 DEF SameButService, SameButInstall
  <2> QED
    BY <2>14, <2>15, <2>16, <2>17, <2>18
<1> QED
  BY <1>2, <1>3

-----------------------------------------------------------------------------
(* The participant's requests *)

\* The stack's own state moved, the participant's events were taken from it.
Settled(x, y) ==
    /\ y.mode = x.mode /\ y.fc = x.fc /\ y.meta = x.meta
    /\ y.mka.events = {} /\ y.mka.state = x.mka.state
    /\ y.mka.latest = x.mka.latest /\ y.mka.old = x.mka.old
    /\ SameButService(x.mka, y.mka)

LEMMA EventsTaken ==
    ASSUME NEW x, Sound(x), NEW s \in MacsecStates,
           NEW y, y = [[x EXCEPT !.mka.events = {}] EXCEPT !.state = s]
    PROVE  Sound(y) /\ Settled(x, y) /\ y.state = s
<1> DEFINE m == x.mka
           n == [m EXCEPT !.events = {}]
<1>1. x \in MacsecCtx /\ m \in MkaCtx /\ FrameOK(x.fc) /\ MkaOK(m) /\ Slots(m, x.fc)
  BY DEF Sound, MacsecCtx
<1>2. /\ n \in MkaCtx /\ SameButService(m, n) /\ n.events = {} /\ n.state = m.state
      /\ n.latest = m.latest /\ n.old = m.old
  BY <1>1 DEF MkaCtx, SameButService
<1>3. y = [[x EXCEPT !.mka = n] EXCEPT !.state = s]
  BY <1>1 DEF MacsecCtx
<1> HIDE DEF n
<1>4. /\ y \in MacsecCtx /\ y.mka = n /\ y.fc = x.fc /\ y.mode = x.mode /\ y.meta = x.meta
      /\ y.state = s
  BY <1>1, <1>2, <1>3 DEF MacsecCtx
<1>5. MkaOK(n)
  BY <1>1, <1>2 DEF MkaOK, MkaBase, OperationalHasKey, PeerMatches, Elected,
                    LocalWinsKeyServer, SameButService
<1>6. Slots(n, x.fc)
  BY <1>1, <1>2 DEF Slots, TxMatches, RxMatches
<1> QED
  BY <1>1, <1>2, <1>4, <1>5, <1>6 DEF Sound, Settled

\* macsec_process_mka_events without a request to remove the old SAK
\* (macsec.c 336-398).
LEMMA EventsWithoutRetirement ==
    ASSUME NEW x, Sound(x), "ERROR" \notin x.mka.events,
           "SAK_RETIRE_REQUIRED" \notin x.mka.events,
           NEW r, r = ProcessMkaEvents(x)
    PROVE  /\ r.ret = "OK" /\ Sound(r.c) /\ Settled(x, r.c)
           /\ r.c.state = StateAfterEvents(x.state, x.mka.events)
<1> DEFINE s == StateAfterEvents(x.state, x.mka.events)
           y == [[x EXCEPT !.mka.events = {}] EXCEPT !.state = s]
<1>1. s \in MacsecStates
  BY DEF StateAfterEvents, MacsecStates, Sound, MacsecCtx
<1>2. x \in MacsecCtx
  BY DEF Sound
<1>3. r = C("OK", y)
  BY <1>2 DEF ProcessMkaEvents, MacsecCtx
<1> HIDE DEF y
<1>4. r.ret = "OK" /\ r.c = y
  BY <1>3 DEF C
<1> HIDE DEF s
<1>5. Sound(y) /\ Settled(x, y) /\ y.state = s
  BY <1>1, EventsTaken DEF y
<1> QED
  BY <1>4, <1>5 DEF s

\* The same with the request.
LEMMA EventsWithRetirement ==
    ASSUME NEW x, Sound(x), "ERROR" \notin x.mka.events,
           "SAK_RETIRE_REQUIRED" \in x.mka.events, RetireJustified(x.mka),
           NEW r, r = ProcessMkaEvents(x)
    PROVE  /\ r.ret = "OK" /\ Sound(r.c) /\ Retired(x, r.c)
           /\ r.c.mode = x.mode /\ r.c.meta = x.meta
           /\ r.c.mka.events = {} /\ SameButService(x.mka, r.c.mka)
           /\ r.c.state = StateAfterEvents(x.state, x.mka.events)
<1> DEFINE s == StateAfterEvents(x.state, x.mka.events)
           y == [[x EXCEPT !.mka.events = {}] EXCEPT !.state = s]
<1>1. s \in MacsecStates
  BY DEF StateAfterEvents, MacsecStates, Sound, MacsecCtx
<1>2. x \in MacsecCtx
  BY DEF Sound
<1>3. r = RemoveMkaOldSak(y)
  BY <1>2 DEF ProcessMkaEvents, MacsecCtx
<1> HIDE DEF s
<1>4. Sound(y) /\ Settled(x, y) /\ y.state = s
  BY <1>1, EventsTaken
<1> HIDE DEF y
<1>5. y.mka.old.state = "RETIRING" /\ y.mka.latest.state = "CONFIRMED"
  BY <1>4 DEF RetireJustified, Settled
<1>6. /\ r.ret = "OK" /\ Sound(r.c) /\ Retired(y, r.c)
      /\ r.c.mode = y.mode /\ r.c.state = y.state /\ r.c.meta = y.meta
      /\ r.c.mka.events = y.mka.events /\ SameButService(y.mka, r.c.mka)
  BY <1>3, <1>4, <1>5, RemoveMkaOldSakStep
<1>7. Retired(x, r.c)
  BY <1>4, <1>6 DEF Retired, Settled
<1>8. SameButService(x.mka, r.c.mka)
  BY <1>4, <1>6 DEF SameButService, Settled
<1> QED
  BY <1>4, <1>6, <1>7, <1>8 DEF Settled, s

\* Serving changed neither the SAK slots nor the frame layer.
Untouched(x, y) ==
    /\ ~Installable(x.mka.latest)
    /\ y.mka.latest = x.mka.latest /\ y.mka.old = x.mka.old /\ y.fc = x.fc

\* The context y that serving the participant makes of x: at most one SAK is
\* removed, when that was asked for, or put into use, and no installable key
\* is left waiting.
Served(x, y) ==
    /\ Sound(y) /\ y.mode = x.mode /\ y.meta = x.meta
    /\ y.mka.events = {} /\ SameButService(x.mka, y.mka)
    /\ ~Installable(y.mka.latest)
    /\ \/ /\ Retired(x, y) /\ y.state \in {x.state, "WAIT_MKA"}
          /\ "SAK_RETIRE_REQUIRED" \in x.mka.events
       \/ Untouched(x, y) /\ y.state \in {x.state, "WAIT_MKA"}
       \/ Installed(x, y) /\ y.state = "SECURED"

LEMMA NoEventsLeft ==
    ASSUME NEW x, Sound(x), x.mka.events \subseteq {"SAK_ACTIVE"}, NEW r, r = ProcessMkaEvents(x)
    PROVE  /\ r.ret = "OK" /\ Sound(r.c) /\ Settled(x, r.c)
           /\ r.c.state = IF "SAK_ACTIVE" \in x.mka.events THEN "SECURED" ELSE x.state
<1>1. "ERROR" \notin x.mka.events /\ "SAK_RETIRE_REQUIRED" \notin x.mka.events
      /\ "PEER_LOST" \notin x.mka.events
  OBVIOUS
<1> QED
  BY <1>1, EventsWithoutRetirement DEF StateAfterEvents

\* macsec_service_mka never fails on what an MKPDU, the clock or a report
\* asked for (macsec.c 400-430).
LEMMA ServiceMkaStep ==
    ASSUME NEW x, Sound(x), x.mka.events \subseteq {"PEER_LOST", "SAK_RETIRE_REQUIRED"},
           RetireJustified(x.mka), NEW r, r = ServiceMka(x)
    PROVE  r.ret = "OK" /\ Served(x, r.c)
<1> DEFINE e == ProcessMkaEvents(x)
           i == ProcessMkaSakInstall(e.c)
           f == ProcessMkaEvents(i.c)
           state == StateAfterEvents(x.state, x.mka.events)
<1>1. "ERROR" \notin x.mka.events /\ state \in {x.state, "WAIT_MKA"}
  BY DEF StateAfterEvents
<1>2. CASE "SAK_RETIRE_REQUIRED" \in x.mka.events
  <2>1. /\ e.ret = "OK" /\ Sound(e.c) /\ Retired(x, e.c)
        /\ e.c.mode = x.mode /\ e.c.meta = x.meta
        /\ e.c.mka.events = {} /\ SameButService(x.mka, e.c.mka) /\ e.c.state = state
    BY <1>1, <1>2, EventsWithRetirement
  <2>2. ~Installable(e.c.mka.latest)
    BY <2>1 DEF Retired, Installable
  <2> HIDE DEF e, state
  <2>3. i.ret = "OK" /\ i.c = e.c
    BY <2>1, <2>2, ProcessMkaSakInstallStep DEF Installed
  <2>4. /\ f.ret = "OK" /\ Sound(f.c) /\ Settled(e.c, f.c) /\ f.c.state = e.c.state
    BY <2>1, <2>3, NoEventsLeft
  <2>5. r = f
    BY <2>1, <2>3 DEF ServiceMka, InstallIfOK, EventsIfOK, e
  <2> HIDE DEF i, f
  <2>6. Retired(x, f.c)
    BY <2>1, <2>4 DEF Retired, Settled
  <2>7. SameButService(x.mka, f.c.mka)
    BY <2>1, <2>4 DEF SameButService, Settled
  <2> QED
    BY <1>1, <1>2, <2>1, <2>2, <2>4, <2>5, <2>6, <2>7 DEF Served, Settled, state
<1>3. CASE "SAK_RETIRE_REQUIRED" \notin x.mka.events
  <2>1. /\ e.ret = "OK" /\ Sound(e.c) /\ Settled(x, e.c) /\ e.c.state = state
    BY <1>1, <1>3, EventsWithoutRetirement
  <2>2. e.c.mka.events = {}
    BY <2>1 DEF Settled
  <2> HIDE DEF e, state
  <2>3. CASE i.ret = "OK" /\ i.c = e.c /\ ~Installable(e.c.mka.latest)
    <3>1. /\ f.ret = "OK" /\ Sound(f.c) /\ Settled(e.c, f.c) /\ f.c.state = e.c.state
      BY <2>1, <2>2, <2>3, NoEventsLeft
    <3>2. r = f
      BY <2>1, <2>3 DEF ServiceMka, InstallIfOK, EventsIfOK, e
    <3> HIDE DEF i, f
    <3>3. Untouched(x, f.c)
      BY <2>1, <2>3, <3>1 DEF Untouched, Settled
    <3>4. SameButService(x.mka, f.c.mka)
      BY <2>1, <3>1 DEF SameButService, Settled
    <3> QED
      BY <1>1, <2>1, <2>3, <3>1, <3>2, <3>3, <3>4 DEF Served, Settled, state
  <2>4. CASE /\ i.ret = "OK" /\ Sound(i.c) /\ Installed(e.c, i.c)
             /\ i.c.mode = e.c.mode /\ i.c.state = e.c.state /\ i.c.meta = e.c.meta
             /\ i.c.mka.events = {"SAK_ACTIVE"} /\ SameButService(e.c.mka, i.c.mka)
    <3>1. /\ f.ret = "OK" /\ Sound(f.c) /\ Settled(i.c, f.c) /\ f.c.state = "SECURED"
      BY <2>4, NoEventsLeft
    <3>2. r = f
      BY <2>1, <2>4 DEF ServiceMka, InstallIfOK, EventsIfOK, e
    <3> HIDE DEF i, f
    <3>3. Installed(x, f.c)
      <4>1. /\ e.c.mka.latest = x.mka.latest /\ e.c.mka.old = x.mka.old /\ e.c.fc = x.fc
            /\ f.c.mka.latest = i.c.mka.latest /\ f.c.mka.old = i.c.mka.old
            /\ f.c.fc = i.c.fc
        BY <2>1, <3>1 DEF Settled
      <4>2. "SAK_USE" \in f.c.mka.tx_reasons
        BY <2>4, <3>1 DEF Installed, Settled, SameButService
      <4> QED
        BY <2>4, <4>1, <4>2 DEF Installed
    <3>4. SameButService(x.mka, f.c.mka)
      BY <2>1, <2>4, <3>1 DEF SameButService, Settled
    <3>5. ~Installable(f.c.mka.latest)
      <4>1. e.c.mka.latest \in SakRec /\ LatestOK(e.c.mka.latest) /\ Installable(e.c.mka.latest)
        BY <2>1, <2>4 DEF Sound, MkaOK, MkaBase, MkaCtx, Installed
      <4>2. f.c.mka.latest = InUse(e.c.mka.latest)
        BY <2>4, <3>1 DEF Installed, Settled
      <4>3. f.c.mka.latest.state = "ACTIVE"
        BY <4>1, <4>2, InUseFields
      <4> QED
        BY <4>3 DEF Installable
    <3> QED
      BY <2>1, <2>4, <3>1, <3>2, <3>3, <3>4, <3>5 DEF Served, Settled
  <2> QED
    BY <2>1, <2>2, <2>3, <2>4, ProcessMkaSakInstallStep
<1> QED
  BY <1>2, <1>3

-----------------------------------------------------------------------------
(* The context between two calls, in MKA_PSK mode *)

\* A secured station has a key it sends with.
SecuredHasKey(x) ==
    x.state = "SECURED" =>
        Held(x.mka.latest) \/ (x.mka.old.state = "RETIRING" /\ x.mka.old.tx_installed)

\* A received key waits for installation only after a call that failed.
Rested(x) ==
    /\ Sound(x) /\ x.mode = "MKA_PSK" /\ x.mka.events = {}
    /\ x.mka.latest.state # "DISTRIBUTED"
    /\ x.mka.latest.state = "CANDIDATE" => x.state = "ERROR"
    /\ SecuredHasKey(x)

\* The context z in which the participant has done its part of a call on x,
\* and is yet to be served.
Prepared(x, z) ==
    /\ Sound(z) /\ z.fc = x.fc /\ z.mode = x.mode /\ z.state = x.state /\ SecuredHasKey(z)
    /\ RxExact(x.mka, x.fc) => RxExact(z.mka, z.fc)
    /\ x.mka.old.state = "RETIRING" => z.mka.old.state = "RETIRING"
    /\ z.mka.latest.state = "CONFIRMED" /\ z.mka.old.state = "RETIRING" /\ Apart(x.mka) =>
          Apart(z.mka)

\* The call failed before the participant was served.
Stopped(z, y) ==
    /\ y \in MacsecCtx /\ y.state = "ERROR" /\ y.mka = z.mka /\ y.fc = z.fc
    /\ y.mode = z.mode /\ y.meta = z.meta
    /\ z.mka.events = {} /\ z.mka.latest.state # "DISTRIBUTED"

\* What every call guarantees: an old SAK goes only while the latest one is
\* confirmed, and the receive associations stay those of the slots as long
\* as the slots' association numbers differ.
Called(x, y) ==
    /\ Rested(y)
    /\ x.mka.old.state = "RETIRING" /\ y.mka.old.state = "NONE" =>
          y.mka.latest.state = "CONFIRMED"
    /\ RxExact(x.mka, x.fc) /\ Apart(x.mka) /\ Apart(y.mka) => RxExact(y.mka, y.fc)

LEMMA ServedCalled ==
    ASSUME NEW x, x.mode = "MKA_PSK", NEW z, Prepared(x, z), NEW y, Served(z, y)
    PROVE  Called(x, y)
<1> DEFINE l == z.mka.latest
           o == z.mka.old
<1>1. /\ l \in SakRec /\ LatestOK(l) /\ o \in SakRec /\ OldOK(o) /\ l.an \in AN /\ o.an \in AN
  BY SameAN DEF Prepared, Sound, MkaOK, MkaBase, MkaCtx, SakRec
<1>2. /\ Sound(y) /\ y.mode = "MKA_PSK" /\ y.mka.events = {}
      /\ y.mka.latest.state \notin {"CANDIDATE", "DISTRIBUTED"}
  BY DEF Served, Prepared, Installable
<1>3. CASE Retired(z, y) /\ y.state \in {z.state, "WAIT_MKA"}
  <2>1. y.mka.latest = l /\ l.state = "CONFIRMED" /\ o.state = "RETIRING" /\ y.mka.old = NoSak
    BY <1>3 DEF Retired
  <2>2. Held(l)
    BY <2>1 DEF Held
  <2>3. ASSUME RxExact(z.mka, z.fc), Apart(z.mka) PROVE RxExact(y.mka, y.fc)
    <3>1. l.an # o.an /\ InRxSlot(z.fc, l)
      BY <1>1, <2>1, <2>2, <2>3 DEF Apart, RxExact, LatestOK
    <3>2. y.fc.rx_sak[l.an] = z.fc.rx_sak[l.an]
      BY <1>1, <1>3, <3>1 DEF Retired
    <3> QED
      BY <2>1, <3>1, <3>2 DEF RxExact, InRxSlot, NoSak
  <2> QED
    BY <1>2, <2>1, <2>2, <2>3 DEF Called, Rested, SecuredHasKey, Prepared
<1>4. CASE Untouched(z, y) /\ y.state \in {z.state, "WAIT_MKA"}
  BY <1>2, <1>4 DEF Untouched, Called, Rested, SecuredHasKey, Prepared, RxExact, InRxSlot
<1>5. CASE Installed(z, y) /\ y.state = "SECURED"
  <2>1. y.mka.latest = InUse(l) /\ y.mka.old = Silenced(o) /\ Installable(l)
    BY <1>5 DEF Installed
  <2>2. y.mka.latest.state = "ACTIVE" /\ y.mka.old.state = o.state
    BY <1>1, <2>1, InUseFields, SilencedFields
  <2>3. RxExact(z.mka, z.fc) /\ Apart(y.mka) => RxExact(y.mka, y.fc)
    BY <1>5, InstalledMatches DEF Prepared
  <2> QED
    BY <1>2, <2>2, <2>3 DEF Called, Rested, SecuredHasKey, Held, Prepared
<1> QED
  BY <1>3, <1>4, <1>5 DEF Served

LEMMA StoppedCalled ==
    ASSUME NEW x, x.mode = "MKA_PSK", NEW z, Prepared(x, z), NEW y, Stopped(z, y)
    PROVE  Called(x, y)
<1>1. Sound(y)
  BY DEF Prepared, Stopped, Sound
<1> QED
  BY <1>1 DEF Prepared, Stopped, Called, Rested, SecuredHasKey

LEMMA ServedOrErrorStep ==
    ASSUME NEW x, Sound(x), x.mka.events \subseteq {"PEER_LOST", "SAK_RETIRE_REQUIRED"},
           RetireJustified(x.mka), NEW r, r = ServedOrError(x)
    PROVE  r.ret = "OK" /\ Served(x, r.c)
<1> DEFINE s == ServiceMka(x)
<1>1. s.ret = "OK" /\ Served(x, s.c)
  BY ServiceMkaStep
<1>2. r = OrError(s)
  BY DEF ServedOrError
<1> HIDE DEF s
<1> QED
  BY <1>1, <1>2 DEF OrError

-----------------------------------------------------------------------------
(* The calls *)

\* macsec_input on an EAPOL-MKA frame: the participant takes the MKPDU and is
\* served, or refuses it and the stack stops (macsec.c 582-644).
LEMMA InputMkpduStep ==
    ASSUME NEW x, Rested(x), NEW p \in MkpduRec, NEW k \in Key \cup {NoKey},
           NEW z, z = [x EXCEPT !.mka = MkaInput(x.mka, p, k).m],
           NEW r, r = InputMkpdu(x, p, k)
    PROVE  /\ Prepared(x, z) /\ InputStep(x.mka, z.mka, p, k)
           /\ z.mka.peer = x.mka.peer \/ SentBy(z.mka, p)
           /\ z.meta = x.meta
           /\ InputMoves(x.mka, z.mka, p, k)
           /\ "SAK_RETIRE_REQUIRED" \in z.mka.events =>
                 /\ Claims(p) /\ p.use.an = z.mka.latest.an
                 /\ Confirmation(x.mka, MkaInput(x.mka, p, k), p)
           /\ \/ Served(z, r.c)
              \/ Stopped(z, r.c) /\ (p.use.has # "bad" => SlotsKept(x.mka, z.mka))
<1> DEFINE i == MkaInput(x.mka, p, k)
           y == [z EXCEPT !.state = "ERROR"]
<1>1. /\ x \in MacsecCtx /\ FrameOK(x.fc) /\ MkaOK(x.mka) /\ Slots(x.mka, x.fc)
      /\ x.mka.events = {} /\ x.mka.latest.state # "DISTRIBUTED" /\ x.mode = "MKA_PSK"
      /\ MkaBase(x.mka)
  BY DEF Rested, Sound, MkaOK
<1>2. /\ InputStep(x.mka, i.m, p, k) /\ RetireJustified(i.m)
      /\ i.m.events \subseteq {"PEER_LOST", "SAK_RETIRE_REQUIRED"}
      /\ i.ret # "OK" => i.m.events = {}
      /\ i.m.peer = x.mka.peer \/ SentBy(i.m, p)
  BY <1>1, MkaInputStep, MkaInputPeer
<1>10. /\ InputMoves(x.mka, i.m, p, k)
       /\ p.use.has # "bad" /\ i.ret # "OK" => SlotsKept(x.mka, i.m)
       /\ "SAK_RETIRE_REQUIRED" \in i.m.events =>
             Claims(p) /\ p.use.an = i.m.latest.an /\ Confirmation(x.mka, i, p)
  BY <1>1, MkaInputMoves DEF Confirmation
<1>3. r = ServeInput(x, i)
  BY <1>1 DEF InputMkpdu
<1> HIDE DEF i
<1>4. i.m \in MkaCtx /\ MkaBase(i.m) /\ MkaOK(i.m) /\ SlotsStep(x.mka, i.m, p, k)
      /\ i.m.latest.state # "DISTRIBUTED"
  BY <1>2 DEF InputStep, MkaOK, MkaBase
<1>5. z \in MacsecCtx /\ z.mka = i.m /\ z.fc = x.fc /\ z.mode = x.mode /\ z.state = x.state
      /\ z.meta = x.meta
  BY <1>1, <1>4 DEF MacsecCtx, i
<1>6. Slots(i.m, x.fc) /\ (RxExact(x.mka, x.fc) => RxExact(i.m, x.fc))
  BY <1>1, <1>4, SlotsStepMatches
<1>7. Prepared(x, z)
  <2>1. CASE SameKey(x.mka.latest, i.m.latest) /\ i.m.old = x.mka.old
    <3>1. SecuredHasKey(z) /\ (Apart(x.mka) => Apart(i.m))
      BY <1>5, <2>1 DEF Rested, SecuredHasKey, SameKey, Apart, Held
    <3> QED
      BY <1>1, <1>4, <1>5, <1>6, <2>1, <3>1 DEF Prepared, Sound
  <2>2. CASE Replacement(x.mka, p, k, i.m.latest) /\ OldAfter(x.mka, i.m.old)
    <3>1. ~Held(i.m.latest)
      <4>1. x.mka \in MkaCtx /\ x.mka.next_kn # 0
        BY <1>1 DEF MkaBase
      <4> QED
        BY <2>2, <4>1, ReplacementOK
    <3>2. SecuredHasKey(z)
      BY <1>5, <2>2 DEF Rested, SecuredHasKey, OldAfter
    <3>3. x.mka.old.state = "RETIRING" => i.m.old.state = "RETIRING"
      BY <2>2 DEF OldAfter
    <3> QED
      BY <1>1, <1>4, <1>5, <1>6, <3>1, <3>2, <3>3 DEF Prepared, Sound, Held
  <2> QED
    BY <1>4, <2>1, <2>2 DEF SlotsStep
<1>11. /\ InputMoves(x.mka, z.mka, p, k)
       /\ "SAK_RETIRE_REQUIRED" \in z.mka.events =>
             /\ Claims(p) /\ p.use.an = z.mka.latest.an
             /\ Confirmation(x.mka, MkaInput(x.mka, p, k), p)
  BY <1>5, <1>10 DEF i
<1>8. CASE i.ret = "OK"
  <2>1. r = ServedOrError(z)
    BY <1>3, <1>8 DEF ServeInput, i
  <2>2. Served(z, r.c)
    BY <1>2, <1>5, <1>7, <2>1, ServedOrErrorStep DEF Prepared
  <2> QED
    BY <1>2, <1>5, <1>7, <1>11, <2>2
<1>9. CASE i.ret # "OK"
  <2>1. r.c = y
    BY <1>1, <1>3, <1>5, <1>9 DEF ServeInput, C, MacsecCtx, i
  <2>2. Stopped(z, y)
    BY <1>2, <1>4, <1>5, <1>9 DEF Stopped, MacsecCtx, MacsecStates
  <2> QED
    BY <1>2, <1>5, <1>7, <1>9, <1>10, <1>11, <2>1, <2>2
<1> QED
  BY <1>8, <1>9

\* macsec_tick (macsec.c 743-776).
LEMMA TickStep ==
    ASSUME NEW x, Rested(x), NEW d \in Nat, NEW z, z = [x EXCEPT !.mka = MkaTick(@, d)],
           NEW r, r = Tick(x, d)
    PROVE  /\ Prepared(x, z) /\ SameButClock(x.mka, z.mka) /\ Served(z, r.c)
           /\ z.mka.tx_reasons \in SUBSET TxReasons /\ r.ret = "OK" /\ z.meta = x.meta
           /\ PeerKept(x.mka, z.mka) /\ z.mka.events \subseteq {"PEER_LOST"}
<1> DEFINE n == MkaTick(x.mka, d)
<1>1. /\ x \in MacsecCtx /\ FrameOK(x.fc) /\ MkaOK(x.mka) /\ Slots(x.mka, x.fc)
      /\ x.mka.events = {} /\ x.mode = "MKA_PSK"
  BY DEF Rested, Sound
<1>2. MkaOK(n) /\ SameButClock(x.mka, n) /\ n.events \subseteq {"PEER_LOST"}
      /\ PeerKept(x.mka, n)
  BY <1>1, MkaTickStep
<1>3. z = [x EXCEPT !.mka = n]
  BY <1>1 DEF MacsecCtx
<1>4. r = ServedOrError(z)
  BY <1>1 DEF Tick
<1> HIDE DEF n
<1>5. n \in MkaCtx
  BY <1>2 DEF MkaOK, MkaBase
<1>6. /\ z \in MacsecCtx /\ z.mka = n /\ z.fc = x.fc /\ z.mode = x.mode
      /\ z.state = x.state /\ z.meta = x.meta
  BY <1>1, <1>3, <1>5 DEF MacsecCtx
<1>7. Slots(n, x.fc) /\ (RxExact(x.mka, x.fc) => RxExact(n, x.fc))
      /\ (Apart(x.mka) => Apart(n))
  BY <1>1, <1>2 DEF SameButClock, Slots, TxMatches, RxMatches, RxExact, InRxSlot, Apart
<1>8. SecuredHasKey(z)
  BY <1>2, <1>6 DEF Rested, SecuredHasKey, SameButClock
<1>9. Prepared(x, z)
  BY <1>1, <1>2, <1>6, <1>7, <1>8 DEF Prepared, Sound, SameButClock
<1>10. Served(z, r.c) /\ r.ret = "OK"
  BY <1>2, <1>4, <1>6, <1>9, ServedOrErrorStep DEF Prepared, RetireJustified
<1> QED
  BY <1>2, <1>5, <1>6, <1>9, <1>10 DEF MkaCtx

\* macsec_build_control_frame: at most a new key enters an empty latest slot,
\* and the MKPDU that awaits its report describes the participant as it is
\* (macsec.c 778-823).
LEMMA BuildControlFrameStep ==
    ASSUME NEW x, Rested(x), ~x.meta.valid, NEW k \in Key \cup {NoKey},
           NEW r, r = BuildControlFrame(x, k)
    PROVE  /\ Called(x, r.c) /\ r.c.fc = x.fc /\ r.c.state = x.state
           /\ r.c.meta = NoMeta \/ r.c.meta = MetaOf(r.c.mka)
           /\ \/ r.c.mka = x.mka
              \/ /\ x.mka.latest.state = "NONE" /\ SameButSlots(x.mka, r.c.mka)
                 /\ r.c.mka.latest = Generated(x.mka, k) /\ r.c.mka.old = x.mka.old
                 /\ x.mka.local_key_server /\ x.mka.peer.valid
           /\ r.ret \in {"OK", "STATE", "NOT_READY"}
           /\ r.ret = "OK" => r.c.meta = MetaOf(r.c.mka) /\ r.c.mka.tx_reasons # {}
           /\ r.ret # "OK" => r.c.meta = NoMeta
           /\ r.ret = "STATE" => /\ x.mka.local_key_server /\ x.mka.peer.valid
                                 /\ x.mka.latest.origin = "REMOTE"
<1> DEFINE b == BuildTxFrame(x.mka, k)
           meta == IF b.ret = "OK" THEN MetaOf(b.m) ELSE NoMeta
           y == [x EXCEPT !.mka = b.m, !.meta = meta]
<1>1. /\ x \in MacsecCtx /\ FrameOK(x.fc) /\ MkaOK(x.mka) /\ Slots(x.mka, x.fc)
      /\ x.mka.events = {} /\ x.mode = "MKA_PSK" /\ x.mka \in MkaCtx /\ x.mka.next_kn # 0
      /\ LatestOK(x.mka.latest) /\ x.mka.latest.state \notin {"DISTRIBUTED"}
  BY DEF Rested, Sound, MkaOK, MkaBase
<1>2. /\ b.ret \in {"OK", "STATE", "NOT_READY"} /\ MkaOK(b.m)
      /\ b.ret = "OK" => b.m.tx_reasons # {}
      /\ b.ret = "STATE" => /\ x.mka.local_key_server /\ x.mka.peer.valid
                            /\ x.mka.latest.origin = "REMOTE"
      /\ \/ b.m = x.mka
         \/ /\ b.ret = "OK" /\ x.mka.latest.state = "NONE"
            /\ SameButSlots(x.mka, b.m) /\ b.m.latest = Generated(x.mka, k)
            /\ b.m.old = x.mka.old
  BY <1>1, BuildTxFrameCases, BuildTxFrameFails
<1>10. b.m # x.mka => x.mka.local_key_server /\ x.mka.peer.valid
  BY <1>1, BuildTxFrameServer
<1>3. r = C(b.ret, y)
  BY <1>1 DEF BuildControlFrame
<1> HIDE DEF b
<1>4. b.m \in MkaCtx
  BY <1>2 DEF MkaOK, MkaBase
<1>5. MetaOf(b.m) \in MetaRec
  <2>1. 0 \in 0 .. KnMax /\ 0 \in MkaAN
    BY MkaAssumption DEF MkaAN, MkaMaxSA
  <2>2. IncludesDistributedSak(b.m) \in BOOLEAN
    BY DEF IncludesDistributedSak
  <2>3. b.m.latest.kn \in 0 .. KnMax /\ b.m.latest.an \in MkaAN /\ b.m.local_mn \in 0 .. MnMax
        /\ b.m.tx_reasons \in SUBSET TxReasons
    BY <1>4 DEF MkaCtx, SakRec
  <2> QED
    BY <2>1, <2>2, <2>3 DEF MetaOf, MetaRec
<1>6. /\ meta \in MetaRec /\ (meta = NoMeta \/ meta = MetaOf(b.m))
      /\ b.ret = "OK" => meta = MetaOf(b.m)
      /\ b.ret # "OK" => meta = NoMeta
  BY <1>5, NoMetaType
<1> HIDE DEF meta
<1>7. y \in MacsecCtx /\ y.mka = b.m /\ y.fc = x.fc /\ y.mode = x.mode
      /\ y.state = x.state /\ y.meta = meta
  BY <1>1, <1>4, <1>6 DEF MacsecCtx
<1> HIDE DEF y
<1>8. r.c = y /\ r.ret = b.ret
  BY <1>3 DEF C
<1>9. Called(x, y)
  <2>1. CASE b.m = x.mka
    BY <1>1, <1>7, <2>1 DEF Called, Rested, Sound, SecuredHasKey
  <2>2. CASE /\ x.mka.latest.state = "NONE"
             /\ SameButSlots(x.mka, b.m) /\ b.m.latest = Generated(x.mka, k)
             /\ b.m.old = x.mka.old
    <3>1. LatestOK(b.m.latest) /\ b.m.latest.state = "DISTRIBUTION_PENDING"
      BY <1>1, <2>2, GeneratedOK
    <3>2. ~b.m.latest.rx_installed /\ ~b.m.latest.tx_installed
      BY <3>1 DEF LatestOK, Held
    <3>3. ~x.mka.latest.rx_installed /\ ~x.mka.latest.tx_installed
      BY <1>1, <2>2 DEF LatestOK, Held
    <3>4. Slots(b.m, x.fc) /\ (RxExact(x.mka, x.fc) => RxExact(b.m, x.fc))
      BY <1>1, <2>2, <3>2, <3>3 DEF Slots, TxMatches, RxMatches, RxExact, InRxSlot
    <3>5. SecuredHasKey(y)
      BY <1>7, <2>2, <3>1 DEF Rested, SecuredHasKey, Held
    <3>6. b.m.events = {}
      BY <1>1, <2>2 DEF SameButSlots
    <3> QED
      BY <1>1, <1>2, <1>7, <2>2, <3>1, <3>4, <3>5, <3>6 DEF Called, Rested, Sound
  <2> QED
    BY <1>2, <2>1, <2>2
<1> QED
  BY <1>2, <1>6, <1>7, <1>8, <1>9, <1>10

\* The report made latest_sak, when the MKPDU carried it for the first time,
\* a distributed key; nothing else of the slots changed.
Reported(x, z) ==
    /\ z.mka.old = x.mka.old /\ z.mka.mi = x.mka.mi /\ z.mka.sci = x.mka.sci
    /\ z.mka.prio = x.mka.prio /\ z.mka.peer = x.mka.peer
    /\ \/ /\ z.mka.latest = x.mka.latest /\ z.mka.next_an = x.mka.next_an
          /\ z.mka.next_kn = x.mka.next_kn
       \/ x.meta.dist /\ Committed(x.mka, z.mka)

\* An MKPDU that carried a key for the first time made it a distributed one.
NewIsCommitted(x, z) ==
    x.meta.dist /\ x.mka.latest.state = "DISTRIBUTION_PENDING" => Committed(x.mka, z.mka)

\* macsec_notify_control_tx_success (macsec.c 825-870).
LEMMA NotifyControlTxSuccessStep ==
    ASSUME NEW x, Rested(x), x.meta.valid, x.mka.latest.state # "NONE" => x.mka.latest.key \in Key,
           NEW r, r = NotifyControlTxSuccess(x)
    PROVE  \E z : /\ Prepared(x, z) /\ Reported(x, z)
                  /\ \/ /\ Served(z, r.c) /\ z.meta = NoMeta /\ r.ret = "OK"
                        /\ z.mka.events = {} /\ NewIsCommitted(x, z)
                     \/ /\ Stopped(z, r.c) /\ z = x
                        /\ NotifyTxSuccess(x.mka, x.meta).ret # "OK"
<1> DEFINE t == NotifyTxSuccess(x.mka, x.meta)
           z == [x EXCEPT !.mka = t.m, !.meta = NoMeta]
           y == [x EXCEPT !.mka = t.m, !.state = "ERROR"]
<1>1. /\ x \in MacsecCtx /\ FrameOK(x.fc) /\ MkaOK(x.mka) /\ Slots(x.mka, x.fc)
      /\ x.mka.events = {} /\ x.mode = "MKA_PSK" /\ x.mka \in MkaCtx /\ x.mka.latest \in SakRec
      /\ LatestOK(x.mka.latest) /\ x.meta.dist \in BOOLEAN
      /\ x.mka.latest.state # "DISTRIBUTED"
  BY DEF Rested, Sound, MkaOK, MkaBase, MkaCtx, MacsecCtx, MetaRec
<1>2. \/ t.ret \in {"STATE", "PARAM"} /\ t.m = x.mka
      \/ /\ t.ret = "OK" /\ MkaOK(t.m) /\ SameButReport(x.mka, t.m)
         /\ \/ t.m.latest = x.mka.latest /\ t.m.next_kn = x.mka.next_kn
               /\ t.m.next_an = x.mka.next_an
            \/ x.meta.dist /\ Committed(x.mka, t.m)
         /\ x.meta.dist /\ x.mka.latest.state = "DISTRIBUTION_PENDING" => Committed(x.mka, t.m)
  BY <1>1, NotifyTxSuccessCases
<1>3. r = ServeReport(x, t)
  BY <1>1 DEF NotifyControlTxSuccess
<1> HIDE DEF t
<1>4. CASE t.ret \in {"STATE", "PARAM"} /\ t.m = x.mka
  <2>1. r.c = y /\ NotifyTxSuccess(x.mka, x.meta).ret # "OK"
    BY <1>3, <1>4 DEF ServeReport, C, t
  <2>2. Stopped(x, y)
    BY <1>1, <1>4 DEF Stopped, MacsecCtx, MacsecStates
  <2>3. Prepared(x, x) /\ Reported(x, x)
    BY DEF Rested, Prepared, Reported
  <2> QED
    BY <2>1, <2>2, <2>3
<1>5. CASE /\ t.ret = "OK" /\ MkaOK(t.m) /\ SameButReport(x.mka, t.m)
           /\ \/ t.m.latest = x.mka.latest /\ t.m.next_kn = x.mka.next_kn
                 /\ t.m.next_an = x.mka.next_an
              \/ x.meta.dist /\ Committed(x.mka, t.m)
           /\ x.meta.dist /\ x.mka.latest.state = "DISTRIBUTION_PENDING" => Committed(x.mka, t.m)
  <2>1. /\ t.m \in MkaCtx /\ t.m.old = x.mka.old /\ t.m.events = {} /\ t.m.mi = x.mka.mi
        /\ t.m.sci = x.mka.sci /\ t.m.prio = x.mka.prio /\ t.m.peer = x.mka.peer
    BY <1>1, <1>5 DEF MkaOK, MkaBase, SameButReport
  <2>2. z \in MacsecCtx /\ z.mka = t.m /\ z.fc = x.fc /\ z.mode = x.mode
        /\ z.state = x.state /\ z.meta = NoMeta
    BY <1>1, <2>1, NoMetaType DEF MacsecCtx
  <2>3. r = ServedOrError(z)
    BY <1>3, <1>5 DEF ServeReport
  <2> HIDE DEF z
  <2>4. Reported(x, z)
    BY <1>5, <2>1, <2>2 DEF Reported
  <2>5. Prepared(x, z)
    <3>1. CASE t.m.latest = x.mka.latest
      <4>1. Slots(t.m, x.fc) /\ (RxExact(x.mka, x.fc) => RxExact(t.m, x.fc))
            /\ (Apart(x.mka) => Apart(t.m))
        BY <1>1, <2>1, <3>1 DEF Slots, TxMatches, RxMatches, RxExact, InRxSlot, Apart
      <4>2. SecuredHasKey(z)
        BY <2>1, <2>2, <3>1 DEF Rested, SecuredHasKey
      <4> QED
        BY <1>1, <1>5, <2>1, <2>2, <4>1, <4>2 DEF Prepared, Sound
    <3>2. CASE Committed(x.mka, t.m)
      <4>1. x.mka.latest.state = "DISTRIBUTION_PENDING" /\ t.m.latest.state = "DISTRIBUTED"
            /\ t.m.latest.rx_installed = x.mka.latest.rx_installed
            /\ t.m.latest.tx_installed = x.mka.latest.tx_installed
        BY <1>1, <3>2 DEF Committed, SakRec
      <4>2. ~x.mka.latest.rx_installed /\ ~x.mka.latest.tx_installed
        BY <1>1, <4>1 DEF LatestOK, Held
      <4>3. Slots(t.m, x.fc) /\ (RxExact(x.mka, x.fc) => RxExact(t.m, x.fc))
        BY <1>1, <2>1, <4>1, <4>2 DEF Slots, TxMatches, RxMatches, RxExact, InRxSlot
      <4>4. SecuredHasKey(z)
        BY <2>1, <2>2, <4>1 DEF Rested, SecuredHasKey, Held
      <4> QED
        BY <1>1, <1>5, <2>1, <2>2, <4>1, <4>3, <4>4 DEF Prepared, Sound
    <3> QED
      BY <1>5, <3>1, <3>2
  <2>6. Served(z, r.c) /\ r.ret = "OK"
    BY <2>1, <2>2, <2>3, <2>5, ServedOrErrorStep DEF Prepared, RetireJustified
  <2>7. NewIsCommitted(x, z)
    BY <1>5, <2>2 DEF NewIsCommitted
  <2> QED
    BY <2>1, <2>2, <2>4, <2>5, <2>6, <2>7
<1> QED
  BY <1>2, <1>4, <1>5

\* macsec_notify_control_tx_failure: the reasons are scheduled again, and the
\* next MKPDU may be built (macsec.c 872-895).
LEMMA NotifyControlTxFailureStep ==
    ASSUME NEW x, Rested(x), x.meta.valid, NEW r, r = NotifyControlTxFailure(x)
    PROVE  /\ Called(x, r.c) /\ r.c.fc = x.fc /\ r.c.state = x.state /\ r.c.meta = NoMeta
           /\ SameButSlots(x.mka, r.c.mka) /\ r.ret = "OK"
           /\ r.c.mka.latest = x.mka.latest /\ r.c.mka.old = x.mka.old
<1> DEFINE n == NotifyTxFailure(x.mka, x.meta)
           y == [x EXCEPT !.mka = n, !.meta = NoMeta]
<1>1. /\ x \in MacsecCtx /\ FrameOK(x.fc) /\ MkaOK(x.mka) /\ Slots(x.mka, x.fc)
      /\ MkaBase(x.mka) /\ x.mka.events = {} /\ x.mode = "MKA_PSK"
      /\ x.meta.reasons \in SUBSET TxReasons
  BY DEF Rested, Sound, MkaOK, MacsecCtx, MetaRec
<1>2. r = C("OK", y)
  BY <1>1 DEF NotifyControlTxFailure, MacsecCtx
<1>3. MkaBase(n) /\ SameButSlots(x.mka, n) /\ n.latest = x.mka.latest /\ n.old = x.mka.old
  BY <1>1, TxScheduled DEF NotifyTxFailure
<1> HIDE DEF n
<1>4. n \in MkaCtx /\ MkaOK(n) /\ n.events = {}
  BY <1>1, <1>3 DEF MkaOK, MkaBase, OperationalHasKey, SameButSlots
<1>5. y \in MacsecCtx /\ y.mka = n /\ y.fc = x.fc /\ y.mode = x.mode
      /\ y.state = x.state /\ y.meta = NoMeta
  BY <1>1, <1>4, NoMetaType DEF MacsecCtx
<1> HIDE DEF y
<1>6. Slots(n, x.fc) /\ (RxExact(x.mka, x.fc) => RxExact(n, x.fc))
  BY <1>1, <1>3 DEF Slots, TxMatches, RxMatches, RxExact, InRxSlot
<1>7. Called(x, y)
  BY <1>1, <1>3, <1>4, <1>5, <1>6 DEF Called, Rested, Sound, SecuredHasKey
<1> QED
  BY <1>2, <1>3, <1>5, <1>7 DEF C

\* Protecting or recovering a frame moves packet numbers and nothing else.
FrameOnly(x, y) ==
    /\ y \in MacsecCtx /\ FrameOK(y.fc) /\ SameSaks(x.fc, y.fc)
    /\ y.mka = x.mka /\ y.mode = x.mode /\ y.state = x.state /\ y.meta = x.meta

LEMMA FrameOnlyCalled ==
    ASSUME NEW x, Rested(x), NEW y, FrameOnly(x, y)
    PROVE  Called(x, y)
<1>1. x.mka.latest.an \in AN /\ x.mka.old.an \in AN
  BY SameAN DEF Rested, Sound, MacsecCtx, MkaCtx, SakRec
<1>2. Slots(x.mka, y.fc) /\ (RxExact(x.mka, x.fc) => RxExact(x.mka, y.fc))
  BY <1>1 DEF FrameOnly, Rested, Sound, SameSaks, Slots, TxMatches, RxMatches, RxExact, InRxSlot
<1> QED
  BY <1>2 DEF FrameOnly, Called, Rested, Sound, SecuredHasKey

LEMMA FramePassed ==
    ASSUME NEW x \in MacsecCtx, NEW fc, FrameOK(fc), SameSaks(x.fc, fc),
           NEW y, y = [x EXCEPT !.fc = fc]
    PROVE  FrameOnly(x, y) /\ y.fc = fc
BY DEF FrameOnly, FrameOK, MacsecCtx

\* macsec_output: a frame is protected only by a secured station, with the
\* key of its transmit association and that association's next number
\* (macsec.c 688-741).
LEMMA OutputStep ==
    ASSUME NEW x \in MacsecCtx, FrameOK(x.fc), NEW r, r = Output(x)
    PROVE  /\ FrameOnly(x, r.c)
           /\ \/ /\ r.c.fc.tx_sak = x.fc.tx_sak
                 /\ r.ret # "OK" \/ x.mode = "DISABLED"
              \/ /\ r.ret = "OK" /\ x.state = "SECURED" /\ x.fc.tx_sak.valid
                 /\ x.fc.tx_sak.next_pn \in PN
                 /\ r.c.fc.tx_sak = [x.fc.tx_sak EXCEPT !.next_pn = NextPN(@)]
                 /\ r.c.fc.gcm = x.fc.tx_sak.key
<1> DEFINE e == FrameEncrypt(x.fc, TRUE, TRUE, TRUE)
           y == [x EXCEPT !.fc = e.fc]
<1>1. FrameOnly(x, x)
  BY DEF FrameOnly, SameSaks
<1>2. /\ FrameOK(e.fc) /\ SameSaks(x.fc, e.fc)
      /\ \/ e.ret # "OK" /\ e.fc.tx_sak = x.fc.tx_sak
         \/ /\ e.ret = "OK" /\ x.fc.tx_sak.valid /\ x.fc.tx_sak.next_pn \in PN
            /\ e.fc.tx_sak = [x.fc.tx_sak EXCEPT !.next_pn = NextPN(@)]
            /\ e.fc.gcm = x.fc.tx_sak.key
  <2> DEFINE yes == TRUE
  <2>1. yes \in BOOLEAN
    OBVIOUS
  <2>2. e = FrameEncrypt(x.fc, yes, yes, yes)
    OBVIOUS
  <2> HIDE DEF yes, e
  <2> QED
    BY <2>1, <2>2, FrameEncryptOK
<1>3. \/ r = C("OK", x) /\ x.mode = "DISABLED"
      \/ r = C("NOT_READY", x)
      \/ r = C(e.ret, y) /\ x.state = "SECURED"
  BY DEF Output
<1> HIDE DEF e
<1>4. FrameOnly(x, y) /\ y.fc = e.fc
  BY <1>2, FramePassed
<1> HIDE DEF y
<1> QED
  BY <1>1, <1>2, <1>3, <1>4 DEF C

\* macsec_input on a MACsec frame (macsec.c 646-686).
LEMMA InputProtectedStep ==
    ASSUME NEW x \in MacsecCtx, FrameOK(x.fc), NEW f \in Frame, NEW r, r = InputProtected(x, f)
    PROVE  FrameOnly(x, r.c) /\ r.c.fc.tx_sak = x.fc.tx_sak
<1> DEFINE d == FrameDecrypt(x.fc, f, TRUE)
           y == [x EXCEPT !.fc = d.fc]
<1>1. FrameOnly(x, x)
  BY DEF FrameOnly, SameSaks
<1>2. FrameOK(d.fc) /\ SameSaks(x.fc, d.fc) /\ d.fc.tx_sak = x.fc.tx_sak
  <2> DEFINE yes == TRUE
  <2>1. yes \in BOOLEAN
    OBVIOUS
  <2>2. d = FrameDecrypt(x.fc, f, yes)
    OBVIOUS
  <2> HIDE DEF yes, d
  <2> QED
    BY <2>1, <2>2, FrameDecryptOK
<1>3. r = C("OK", x) \/ r = C("NOT_READY", x) \/ r = C(d.ret, y)
  BY DEF InputProtected
<1> HIDE DEF d
<1>4. FrameOnly(x, y) /\ y.fc = d.fc
  BY <1>2, FramePassed
<1> HIDE DEF y
<1> QED
  BY <1>1, <1>2, <1>3, <1>4 DEF C

-----------------------------------------------------------------------------
(* The other two modes *)

\* DISABLED: no call but macsec_init ever changes the context.
Disabled(x) ==
    /\ x \in MacsecCtx /\ x.mode = "DISABLED" /\ x.state = "SECURED" /\ x.meta = NoMeta
    /\ x.mka = ZeroMka /\ x.fc = ClearedCtx

\* The association of the configured key, in both directions.
HasStaticSak(fc) ==
    /\ fc.tx_sak.valid /\ fc.tx_sak.key = StaticKey /\ fc.tx_sak.an = StaticAn
    /\ fc.rx_sak[StaticAn].valid /\ fc.rx_sak[StaticAn].key = StaticKey

\* STATIC_SAK: the participant is never keyed, the associations stay.
Static(x) ==
    /\ x \in MacsecCtx /\ x.mode = "STATIC_SAK" /\ x.meta = NoMeta
    /\ FrameOK(x.fc) /\ HasStaticSak(x.fc) /\ Unkeyed(x.mka)

\* macsec_init in each mode (macsec.c 432-554).
LEMMA ZeroMacsecType ==
    ASSUME NEW mode \in Modes, NEW x, x = ZeroMacsec(mode)
    PROVE  /\ x \in MacsecCtx /\ x.mode = mode /\ x.mka = ZeroMka /\ x.fc = ClearedCtx
           /\ x.meta = NoMeta
<1>1. ZeroMka \in MkaCtx /\ ClearedCtx \in FrameCtx /\ NoMeta \in MetaRec
  BY ZeroMkaType, ClearedType, NoMetaType
<1> QED
  BY <1>1 DEF ZeroMacsec, MacsecCtx, MacsecStates

LEMMA InitDisabled ==
    ASSUME NEW sci, NEW mi, NEW prio, NEW x, x = MacsecInit("DISABLED", sci, mi, prio)
    PROVE  x \in MacsecCtx /\ Disabled(x)
<1> DEFINE z == ZeroMacsec("DISABLED")
<1>1. "DISABLED" \in Modes
  BY DEF Modes
<1>2. x = [z EXCEPT !.state = "SECURED"]
  BY DEF MacsecInit
<1>3. /\ z \in MacsecCtx /\ z.mode = "DISABLED" /\ z.mka = ZeroMka /\ z.fc = ClearedCtx
      /\ z.meta = NoMeta
  BY <1>1, ZeroMacsecType
<1> HIDE DEF z
<1> QED
  BY <1>2, <1>3 DEF Disabled, MacsecCtx, MacsecStates

LEMMA InitStatic ==
    ASSUME NEW sci, NEW mi, NEW prio, NEW x, x = MacsecInit("STATIC_SAK", sci, mi, prio)
    PROVE  Static(x)
<1> DEFINE z == ZeroMacsec("STATIC_SAK")
           y == InstallRxSak(z, StaticKey, StaticAn)
           w == InstallTxSak(y, StaticKey, StaticAn)
<1>1. "STATIC_SAK" \in Modes
  BY DEF Modes
<1>2. x = [w EXCEPT !.state = "SECURED"]
  BY DEF MacsecInit, InstallStaticSak
<1>3. /\ z \in MacsecCtx /\ z.mode = "STATIC_SAK" /\ z.mka = ZeroMka /\ z.fc = ClearedCtx
      /\ z.meta = NoMeta
  BY <1>1, ZeroMacsecType
<1> HIDE DEF z
<1>4. StaticKey \in Key /\ StaticAn \in AN
  BY MacsecAssumption
<1>5. FrameOK(z.fc)
  BY <1>3, ClearedOK
<1>6. /\ y \in MacsecCtx /\ SameButFrame(z, y) /\ FrameOK(y.fc)
      /\ y.fc.rx_sak[StaticAn].valid /\ y.fc.rx_sak[StaticAn].key = StaticKey
  BY <1>3, <1>4, <1>5, InstallRxSakStep
<1> HIDE DEF y
<1>7. /\ w \in MacsecCtx /\ SameButFrame(y, w) /\ FrameOK(w.fc) /\ w.fc.rx_sak = y.fc.rx_sak
      /\ w.fc.tx_sak.valid /\ w.fc.tx_sak.key = StaticKey /\ w.fc.tx_sak.an = StaticAn
  BY <1>4, <1>6, InstallTxSakStep
<1> HIDE DEF w
<1>8. /\ x \in MacsecCtx /\ x.mode = "STATIC_SAK" /\ x.meta = NoMeta /\ x.fc = w.fc
      /\ x.mka = ZeroMka
  BY <1>2, <1>3, <1>6, <1>7 DEF MacsecCtx, MacsecStates, SameButFrame
<1>9. Unkeyed(ZeroMka)
  BY ZeroMkaType DEF Unkeyed, ZeroMka
<1> QED
  BY <1>6, <1>7, <1>8, <1>9 DEF Static, HasStaticSak

LEMMA InitMkaPsk ==
    ASSUME NEW sci \in Nat, NEW mi \in Nat, NEW prio \in Nat,
           NEW x, x = MacsecInit("MKA_PSK", sci, mi, prio)
    PROVE  /\ Rested(x) /\ RxExact(x.mka, x.fc) /\ x.fc = ClearedCtx /\ x.meta = NoMeta
           /\ x.mka.latest = NoSak /\ x.mka.old = NoSak /\ x.mka.next_an = 0
           /\ x.mka.mi = mi /\ x.mka.sci = sci /\ x.mka.prio = prio /\ x.state = "WAIT_MKA"
           /\ ~x.mka.peer.valid
<1> DEFINE z == ZeroMacsec("MKA_PSK")
           n == MkaInit(sci, mi, prio)
<1>1. "MKA_PSK" \in Modes
  BY DEF Modes
<1>2. x = [z EXCEPT !.mka = n, !.state = "WAIT_MKA"]
  BY DEF MacsecInit
<1>3. /\ z \in MacsecCtx /\ z.mode = "MKA_PSK" /\ z.fc = ClearedCtx /\ z.meta = NoMeta
  BY <1>1, ZeroMacsecType
<1> HIDE DEF z
<1>4. /\ MkaOK(n) /\ n.latest = NoSak /\ n.old = NoSak /\ n.events = {}
      /\ n.sci = sci /\ n.mi = mi /\ n.prio = prio /\ n.next_an = 0 /\ ~n.peer.valid
  BY MkaInitOK
<1> HIDE DEF n
<1>5. n \in MkaCtx
  BY <1>4 DEF MkaOK, MkaBase
<1>6. /\ x \in MacsecCtx /\ x.mode = "MKA_PSK" /\ x.fc = ClearedCtx /\ x.meta = NoMeta
      /\ x.mka = n /\ x.state = "WAIT_MKA"
  BY <1>2, <1>3, <1>5 DEF MacsecCtx, MacsecStates
<1>7. Slots(n, ClearedCtx) /\ RxExact(n, ClearedCtx)
  BY <1>4 DEF Slots, TxMatches, RxMatches, RxExact, ClearedCtx, NoSak, NoTxSak, NoRxSak
<1> QED
  BY <1>4, <1>6, <1>7, ClearedOK, NoSakOK DEF Rested, Sound, SecuredHasKey, NoSak

\* Serving a participant that was never keyed leaves the frame layer alone.
LEMMA StaticServed ==
    ASSUME NEW x, Static(x), NEW r, r = ServedOrError(x)
    PROVE  Static(r.c) /\ r.c.fc = x.fc
<1> DEFINE m == x.mka
           n == [m EXCEPT !.events = {}]
           s == StateAfterEvents(x.state, m.events)
           taken == [x EXCEPT !.mka.events = {}]
           stopped == [taken EXCEPT !.state = "ERROR"]
           moved == [taken EXCEPT !.state = s]
           e == ProcessMkaEvents(x)
           Good(y) == Static(y) /\ y.fc = x.fc
<1>1. x \in MacsecCtx /\ Unkeyed(m) /\ m \in MkaCtx /\ "SAK_ACTIVE" \notin m.events
      /\ "SAK_RETIRE_REQUIRED" \notin m.events
  BY DEF Static, Unkeyed
<1>2. Unkeyed(n) /\ n.events = {}
  BY <1>1 DEF Unkeyed, MkaCtx
<1>3. n \in MkaCtx /\ s \in MacsecStates
  BY <1>1, <1>2 DEF Unkeyed, StateAfterEvents, MacsecCtx, MacsecStates
<1>4. taken = [x EXCEPT !.mka = n]
  BY <1>1 DEF MacsecCtx
<1> HIDE DEF n, s
<1>5. Good(taken) /\ taken.mka = n
  BY <1>1, <1>2, <1>3, <1>4 DEF Static, MacsecCtx
<1>6. moved = [taken EXCEPT !.state = StateAfterEvents(@, m.events)]
  BY <1>1, <1>4, <1>5 DEF MacsecCtx, s
<1>7. e = C("STATE", stopped) \/ e = C("OK", moved)
  BY <1>1, <1>6 DEF ProcessMkaEvents
<1> HIDE DEF taken
<1>8. Good(stopped) /\ Good(moved) /\ moved.mka = n
  BY <1>3, <1>5 DEF Static, MacsecCtx, MacsecStates
<1> HIDE DEF stopped, moved
<1>9. CASE e = C("STATE", stopped)
  <2> DEFINE y == [stopped EXCEPT !.state = "ERROR"]
  <2>1. e.ret # "OK" /\ e.c = stopped
    BY <1>9 DEF C
  <2>2. ServiceMka(x) = e
    BY <2>1 DEF ServiceMka, InstallIfOK, EventsIfOK
  <2> HIDE DEF e
  <2>3. r.c = y
    BY <2>1, <2>2 DEF ServedOrError, OrError, C
  <2>4. Good(y)
    BY <1>8 DEF Static, MacsecCtx, MacsecStates
  <2> QED
    BY <2>3, <2>4
<1>10. CASE e = C("OK", moved)
  <2> DEFINE i == ProcessMkaSakInstall(moved)
             f == ProcessMkaEvents(moved)
             moved2 == [[moved EXCEPT !.mka.events = {}] EXCEPT
                            !.state = StateAfterEvents(@, moved.mka.events)]
  <2>1. e.ret = "OK" /\ e.c = moved
    BY <1>10 DEF C
  <2>2. moved \in MacsecCtx /\ moved.mka.events = {} /\ moved.mka.latest.state = "NONE"
    BY <1>2, <1>8 DEF Static, Unkeyed, NoSak
  <2>3. TakeSakForInstall(moved.mka) = R("NOT_READY", moved.mka)
    BY <2>2 DEF TakeSakForInstall
  <2>4. i.ret = "OK" /\ i.c = moved
    BY <2>3 DEF ProcessMkaSakInstall, InstallTaken, R, C
  <2>5. ServiceMka(x) = f
    BY <2>1, <2>4 DEF ServiceMka, InstallIfOK, EventsIfOK
  <2>6. f = C("OK", moved2)
    BY <2>2 DEF ProcessMkaEvents
  <2>7. moved2 = moved
    BY <2>2 DEF MacsecCtx, MkaCtx, StateAfterEvents
  <2>8. f.ret = "OK" /\ f.c = moved
    BY <2>6, <2>7 DEF C
  <2> HIDE DEF f
  <2>9. r = f
    BY <2>5, <2>8 DEF ServedOrError, OrError
  <2> QED
    BY <1>8, <2>8, <2>9
<1> QED
  BY <1>7, <1>9, <1>10

LEMMA StaticInput ==
    ASSUME NEW x, Static(x), NEW p \in MkpduRec, NEW k, NEW r, r = InputMkpdu(x, p, k)
    PROVE  Static(r.c) /\ r.c.fc = x.fc
<1> DEFINE i == MkaInput(x.mka, p, k)
           z == [x EXCEPT !.mka = i.m]
           y == [x EXCEPT !.mka = i.m, !.state = "ERROR"]
<1>1. x \in MacsecCtx /\ Unkeyed(x.mka) /\ x.mode = "STATIC_SAK"
  BY DEF Static
<1>2. Unkeyed(i.m)
  BY <1>1, UnkeyedInputStep
<1>3. r = ServeInput(x, i)
  BY <1>1 DEF InputMkpdu
<1> HIDE DEF i
<1>4. i.m \in MkaCtx
  BY <1>2 DEF Unkeyed
<1>5. Static(z) /\ z.fc = x.fc
  BY <1>1, <1>2, <1>4 DEF Static, MacsecCtx
<1>6. Static(y) /\ y.fc = x.fc
  BY <1>1, <1>2, <1>4 DEF Static, MacsecCtx, MacsecStates
<1>7. r = C(i.ret, y) \/ r = ServedOrError(z)
  BY <1>3 DEF ServeInput
<1> HIDE DEF y, z
<1> QED
  BY <1>5, <1>6, <1>7, StaticServed DEF C

-----------------------------------------------------------------------------
(* The same of the calls of the stack, which also leave the MKPDU that awaits *)
(* its report alone.                                                          *)

CtxFields == {"mode", "state", "mka", "fc", "meta"}

\* A value of macsec_ctx_t.
Whole(x) == x = [f \in CtxFields |-> x[f]] /\ Shaped(x.mka)

\* x with more reasons to transmit.
More(x, t) == [x EXCEPT !.mka = ScheduleTx(@, t)]

\* Call r on a context is q on the same context with more reasons t.
AlikeWith(x, r, q, t) == Whole(r.c) /\ r.c.meta = x.meta /\ q = C(r.ret, More(r.c, t))

\* Reasons are all that More changes.
LEMMA MoreWhole ==
    ASSUME NEW x, Whole(x), NEW t
    PROVE  /\ Whole(More(x, t))
           /\ More(x, t).mka = ScheduleTx(x.mka, t)
           /\ More(x, t).mode = x.mode /\ More(x, t).state = x.state
           /\ More(x, t).fc = x.fc /\ More(x, t).meta = x.meta
BY ReasonsAdded DEF Whole, CtxFields, More

\* x with another frame layer, and in another state.
Framed(x, fc) == [x EXCEPT !.fc = fc]
Entered(x, state) == [x EXCEPT !.state = state]

\* Another frame layer, state or participant commutes with More.
LEMMA FrameAlike ==
    ASSUME NEW x, Whole(x), NEW t, NEW v
    PROVE  /\ Whole(Framed(x, v)) /\ Framed(x, v).meta = x.meta
           /\ Framed(More(x, t), v) = More(Framed(x, v), t)
BY MoreWhole DEF Whole, CtxFields, More, Framed

LEMMA StateAlike ==
    ASSUME NEW x, Whole(x), NEW t, NEW v
    PROVE  /\ Whole(Entered(x, v)) /\ Entered(x, v).meta = x.meta
           /\ Entered(More(x, t), v) = More(Entered(x, v), t)
BY MoreWhole DEF Whole, CtxFields, More, Entered

LEMMA MkaAlike ==
    ASSUME NEW x, Whole(x), NEW t, NEW n, Shaped(n)
    PROVE  /\ Whole([x EXCEPT !.mka = n]) /\ [x EXCEPT !.mka = n].meta = x.meta
           /\ [x EXCEPT !.mka = n].mka = n
           /\ [More(x, t) EXCEPT !.mka = ScheduleTx(n, t)] = More([x EXCEPT !.mka = n], t)
BY MoreWhole DEF Whole, CtxFields, More

\* The three stages of an installation and of a removal (macsec.c 129-334).
LEMMA ToldAlike ==
    ASSUME NEW x, Whole(x), NEW t, NEW r, Shaped(r.m)
    PROVE  AlikeWith(x, Told(x, r), Told(More(x, t), Also(r, t)), t)
<1> DEFINE y == [x EXCEPT !.mka = r.m]
<1>1. Whole(y) /\ y.meta = x.meta /\ [More(x, t) EXCEPT !.mka = ScheduleTx(r.m, t)] = More(y, t)
  BY MkaAlike
<1>2. Told(x, r) = C(r.ret, y)
  BY DEF Told
<1>3. Told(More(x, t), Also(r, t)) = C(r.ret, More(y, t))
  BY <1>1 DEF Told, Also, R
<1> HIDE DEF y
<1> QED
  BY <1>1, <1>2, <1>3 DEF AlikeWith, C

LEMMA OldRemovedAlike ==
    ASSUME NEW x, Whole(x), NEW t, NEW old
    PROVE  LET y == RemoveOldTx(RemoveOldRx(x, old), old)
           IN  /\ Whole(y) /\ y.meta = x.meta
               /\ RemoveOldTx(RemoveOldRx(More(x, t), old), old) = More(y, t)
<1> DEFINE rx == RemoveOldRx(x, old)
<1>1. \A z : /\ RemoveOldRx(z, old) =
                   IF old.rx_installed THEN Framed(z, RemoveRxSak(z.fc, old.an)) ELSE z
             /\ RemoveOldTx(z, old) =
                   IF old.tx_installed /\ SakEqual(z.fc.tx_sak, old.key) /\ z.fc.tx_sak.an = old.an
                   THEN Framed(z, RemoveTxSak(z.fc)) ELSE z
  BY DEF RemoveOldRx, RemoveOldTx, Framed
<1>2. Whole(rx) /\ rx.meta = x.meta /\ RemoveOldRx(More(x, t), old) = More(rx, t)
  BY <1>1, MoreWhole, FrameAlike
<1> HIDE DEF rx
<1>3. LET y == RemoveOldTx(rx, old)
      IN  Whole(y) /\ y.meta = rx.meta /\ RemoveOldTx(More(rx, t), old) = More(y, t)
  BY <1>1, <1>2, MoreWhole, FrameAlike
<1> QED
  BY <1>2, <1>3 DEF rx

LEMMA WholeMka ==
    ASSUME NEW x, Whole(x), NEW t
    PROVE  /\ Shaped(x.mka) /\ More(x, t).mka = ScheduleTx(x.mka, t)
           /\ More(x, t).mka.latest = x.mka.latest /\ More(x, t).mka.old = x.mka.old
           /\ More(x, t).mka.events = x.mka.events
<1>1. Shaped(x.mka)
  BY DEF Whole
<1>2. More(x, t).mka = ScheduleTx(x.mka, t)
  BY MoreWhole
<1> QED
  BY <1>1, <1>2 DEF Shaped, MkaFields, ScheduleTx

LEMMA RemoveMkaOldSakAlike ==
    ASSUME NEW x, Whole(x), NEW t
    PROVE  AlikeWith(x, RemoveMkaOldSak(x), RemoveMkaOldSak(More(x, t)), t)
<1> DEFINE more == More(x, t)
           old == x.mka.old
           y == RemoveOldTx(RemoveOldRx(x, old), old)
           n == NotifySakRetired(x.mka, old.kn, old.an)
<1>1. Shaped(x.mka) /\ more.mka = ScheduleTx(x.mka, t) /\ more.mka.old = old
  BY WholeMka
<1>2. Whole(y) /\ y.meta = x.meta /\ RemoveOldTx(RemoveOldRx(more, old), old) = More(y, t)
  BY OldRemovedAlike
<1>3. Shaped(n.m) /\ NotifySakRetired(more.mka, old.kn, old.an) = Also(n, t)
  BY <1>1, NotifySakRetiredAlso
<1>4. RemoveMkaOldSak(x) = IF old.state = "NONE" THEN C("OK", x)
                           ELSE IF old.state # "RETIRING" THEN C("STATE", x) ELSE Told(y, n)
  BY DEF RemoveMkaOldSak
<1>5. RemoveMkaOldSak(more) = IF old.state = "NONE" THEN C("OK", more)
                              ELSE IF old.state # "RETIRING" THEN C("STATE", more)
                              ELSE Told(More(y, t), Also(n, t))
  BY <1>1, <1>2, <1>3 DEF RemoveMkaOldSak
<1> HIDE DEF y, n, old
<1>6. AlikeWith(y, Told(y, n), Told(More(y, t), Also(n, t)), t)
  BY <1>2, <1>3, ToldAlike
<1> QED
  BY <1>2, <1>4, <1>5, <1>6 DEF AlikeWith, C

LEMMA InstallRxAlike ==
    ASSUME NEW x, Whole(x), NEW t, NEW sak
    PROVE  AlikeWith(x, InstallRx(x, sak), InstallRx(More(x, t), sak), t)
<1> DEFINE y == InstallRxSak(x, sak.key, sak.an)
           n == NotifySakInstalled(x.mka, sak.kn, sak.an, "RX")
<1>1. \A z : InstallRxSak(z, sak.key, sak.an) =
                IF SakEqual(z.fc.rx_sak[sak.an], sak.key) THEN z
                ELSE Framed(z, SetRxSak(z.fc, sak.an, sak.key, 1))
  BY DEF InstallRxSak, Framed
<1>2. Whole(y) /\ y.meta = x.meta /\ InstallRxSak(More(x, t), sak.key, sak.an) = More(y, t)
  <2> DEFINE fc == SetRxSak(x.fc, sak.an, sak.key, 1)
  <2>1. More(x, t).fc = x.fc
    BY MoreWhole
  <2>2. /\ Whole(Framed(x, fc)) /\ Framed(x, fc).meta = x.meta
        /\ Framed(More(x, t), fc) = More(Framed(x, fc), t)
    BY FrameAlike
  <2> QED
    BY <1>1, <2>1, <2>2
<1>3. Shaped(n.m) /\ NotifySakInstalled(More(x, t).mka, sak.kn, sak.an, "RX") = Also(n, t)
  BY WholeMka, NotifySakInstalledAlso
<1>4. InstallRx(x, sak) = IF sak.rx_installed THEN C("OK", x) ELSE Told(y, n)
  BY DEF InstallRx
<1>5. InstallRx(More(x, t), sak) =
         IF sak.rx_installed THEN C("OK", More(x, t)) ELSE Told(More(y, t), Also(n, t))
  BY <1>2, <1>3 DEF InstallRx
<1> HIDE DEF y, n
<1>6. AlikeWith(y, Told(y, n), Told(More(y, t), Also(n, t)), t)
  BY <1>2, <1>3, ToldAlike
<1> QED
  BY <1>2, <1>4, <1>5, <1>6 DEF AlikeWith, C

LEMMA InstallTxAlike ==
    ASSUME NEW x, NEW t, NEW r, NEW q, AlikeWith(x, r, q, t), NEW sak
    PROVE  AlikeWith(x, InstallTx(r, sak), InstallTx(q, sak), t)
<1> DEFINE z == r.c
           y == InstallTxSak(z, sak.key, sak.an)
           n == NotifySakInstalled(z.mka, sak.kn, sak.an, "TX")
<1>1. Whole(z) /\ z.meta = x.meta /\ q.ret = r.ret /\ q.c = More(z, t)
  BY DEF AlikeWith, C
<1> HIDE DEF z
<1>2. Whole(y) /\ y.meta = z.meta /\ InstallTxSak(More(z, t), sak.key, sak.an) = More(y, t)
  <2>1. \A o : InstallTxSak(o, sak.key, sak.an) =
                  IF SakEqual(o.fc.tx_sak, sak.key) /\ o.fc.tx_sak.an = sak.an THEN o
                  ELSE Framed(o, SetTxSak(o.fc, sak.key, sak.an, 1))
    BY DEF InstallTxSak, Framed
  <2> QED
    BY <1>1, <2>1, MoreWhole, FrameAlike
<1>3. Shaped(n.m) /\ NotifySakInstalled(More(z, t).mka, sak.kn, sak.an, "TX") = Also(n, t)
  BY <1>1, WholeMka, NotifySakInstalledAlso
<1>4. InstallTx(r, sak) = IF r.ret # "OK" \/ sak.tx_installed THEN r ELSE Told(y, n)
  BY DEF InstallTx, z
<1>5. InstallTx(q, sak) = IF r.ret # "OK" \/ sak.tx_installed THEN q ELSE Told(More(y, t), Also(n, t))
  BY <1>1, <1>2, <1>3 DEF InstallTx
<1> HIDE DEF y, n
<1>6. AlikeWith(y, Told(y, n), Told(More(y, t), Also(n, t)), t)
  BY <1>2, <1>3, ToldAlike
<1> QED
  BY <1>1, <1>2, <1>4, <1>5, <1>6 DEF AlikeWith

\* macsec_process_mka_sak_install, whatever else is pending.
LEMMA InstallAlike ==
    ASSUME NEW x, Whole(x), NEW t
    PROVE  AlikeWith(x, ProcessMkaSakInstall(x), ProcessMkaSakInstall(More(x, t)), t)
<1> DEFINE taken == TakeSakForInstall(x.mka)
           sak == taken.m.latest
           start == [x EXCEPT !.mka = taken.m]
           first == InstallRx(start, sak)
           both == InstallTx(first, sak)
<1>1. Shaped(taken.m) /\ TakeSakForInstall(More(x, t).mka) = Also(taken, t)
  BY WholeMka, TakeSakAlso
<1> HIDE DEF taken
<1>2. /\ Whole(start) /\ start.meta = x.meta
      /\ [More(x, t) EXCEPT !.mka = ScheduleTx(taken.m, t)] = More(start, t)
  BY <1>1, MkaAlike
<1>3. ScheduleTx(taken.m, t).latest = sak
  BY <1>1 DEF Shaped, MkaFields, ScheduleTx
<1> HIDE DEF sak, start
<1>4. AlikeWith(start, first, InstallRx(More(start, t), sak), t)
  BY <1>2, InstallRxAlike
<1>5. AlikeWith(start, both, InstallTx(InstallRx(More(start, t), sak), sak), t)
  BY <1>4, InstallTxAlike
<1> HIDE DEF first, both
<1>6. ProcessMkaSakInstall(x) =
         IF taken.ret = "NOT_READY" THEN C("OK", x)
         ELSE IF taken.ret # "OK" THEN C(taken.ret, x)
         ELSE IF sak.state # "INSTALL_PENDING" THEN C("STATE", start)
         ELSE both
  BY DEF ProcessMkaSakInstall, InstallTaken, taken, sak, start, first, both
<1>7. ProcessMkaSakInstall(More(x, t)) =
         IF taken.ret = "NOT_READY" THEN C("OK", More(x, t))
         ELSE IF taken.ret # "OK" THEN C(taken.ret, More(x, t))
         ELSE IF sak.state # "INSTALL_PENDING" THEN C("STATE", More(start, t))
         ELSE InstallTx(InstallRx(More(start, t), sak), sak)
  BY <1>1, <1>2, <1>3 DEF ProcessMkaSakInstall, InstallTaken, Also, R
<1> QED
  BY <1>2, <1>5, <1>6, <1>7 DEF AlikeWith, C

\* macsec_process_mka_events.
LEMMA EventsAlike ==
    ASSUME NEW x, Whole(x), NEW t
    PROVE  AlikeWith(x, ProcessMkaEvents(x), ProcessMkaEvents(More(x, t)), t)
<1> DEFINE events == x.mka.events
           n == [x.mka EXCEPT !.events = {}]
           taken == [x EXCEPT !.mka = n]
           moved == Entered(taken, StateAfterEvents(taken.state, events))
           failed == Entered(taken, "ERROR")
           more == More(x, t)
<1>1. Shaped(n) /\ [more.mka EXCEPT !.events = {}] = ScheduleTx(n, t)
  <2>1. Shaped(x.mka) /\ more.mka = ScheduleTx(x.mka, t)
    BY WholeMka
  <2> QED
    BY <2>1 DEF Shaped, MkaFields, ScheduleTx
<1>2. more.mka.events = events
  BY WholeMka
<1> HIDE DEF n
<1>3. Whole(taken) /\ taken.meta = x.meta /\ [more EXCEPT !.mka = ScheduleTx(n, t)] = More(taken, t)
  BY <1>1, MkaAlike
<1> HIDE DEF taken, events
<1>4. More(taken, t).state = taken.state
  BY <1>3, MoreWhole
<1>5. /\ Whole(moved) /\ moved.meta = taken.meta
      /\ Entered(More(taken, t), StateAfterEvents(taken.state, events)) = More(moved, t)
  BY <1>3, StateAlike
<1>6. /\ Whole(failed) /\ failed.meta = taken.meta
      /\ Entered(More(taken, t), "ERROR") = More(failed, t)
  BY <1>3, StateAlike
<1>7. AlikeWith(moved, RemoveMkaOldSak(moved), RemoveMkaOldSak(More(moved, t)), t)
  BY <1>5, RemoveMkaOldSakAlike
<1>8. ProcessMkaEvents(x) = IF "ERROR" \in events THEN C("STATE", failed)
                            ELSE IF "SAK_RETIRE_REQUIRED" \in events THEN RemoveMkaOldSak(moved)
                            ELSE C("OK", moved)
  BY DEF ProcessMkaEvents, n, taken, events, Entered
<1>9. ProcessMkaEvents(more) =
         IF "ERROR" \in events THEN C("STATE", More(failed, t))
         ELSE IF "SAK_RETIRE_REQUIRED" \in events THEN RemoveMkaOldSak(More(moved, t))
         ELSE C("OK", More(moved, t))
  <2> DEFINE z == [more EXCEPT !.mka.events = {}]
             on == Entered(z, StateAfterEvents(z.state, more.mka.events))
  <2>1. z = More(taken, t)
    BY <1>1, <1>3
  <2>2. Entered(z, "ERROR") = More(failed, t)
    BY <1>6, <2>1
  <2>3. on = More(moved, t)
    BY <1>2, <1>4, <1>5, <2>1
  <2>4. ProcessMkaEvents(more) =
           IF "ERROR" \in more.mka.events THEN C("STATE", Entered(z, "ERROR"))
           ELSE IF "SAK_RETIRE_REQUIRED" \in more.mka.events THEN RemoveMkaOldSak(on)
           ELSE C("OK", on)
    BY DEF ProcessMkaEvents, Entered
  <2> HIDE DEF z, on, moved, failed, more
  <2> QED
    BY <1>2, <2>2, <2>3, <2>4
<1> HIDE DEF moved, failed, more
<1> QED
  BY <1>3, <1>5, <1>6, <1>7, <1>8, <1>9 DEF AlikeWith, C, more

\* macsec_service_mka.
LEMMA ServedAlike ==
    ASSUME NEW x, Whole(x), NEW t
    PROVE  AlikeWith(x, ServedOrError(x), ServedOrError(More(x, t)), t)
<1> DEFINE e == ProcessMkaEvents(x)
           i == InstallIfOK(e)
           s == EventsIfOK(i)
           f == OrError(s)
           e2 == ProcessMkaEvents(More(x, t))
           i2 == InstallIfOK(e2)
           s2 == EventsIfOK(i2)
           f2 == OrError(s2)
<1>1. AlikeWith(x, e, e2, t)
  BY EventsAlike
<1> HIDE DEF e, e2
<1>2. AlikeWith(x, i, i2, t)
  <2>1. Whole(e.c) /\ e.c.meta = x.meta /\ e2.ret = e.ret /\ e2.c = More(e.c, t)
    BY <1>1 DEF AlikeWith, C
  <2>2. AlikeWith(e.c, ProcessMkaSakInstall(e.c), ProcessMkaSakInstall(e2.c), t)
    BY <2>1, InstallAlike
  <2> QED
    BY <1>1, <2>1, <2>2 DEF AlikeWith, InstallIfOK
<1> HIDE DEF i, i2
<1>3. AlikeWith(x, s, s2, t)
  <2>1. Whole(i.c) /\ i.c.meta = x.meta /\ i2.ret = i.ret /\ i2.c = More(i.c, t)
    BY <1>2 DEF AlikeWith, C
  <2>2. AlikeWith(i.c, ProcessMkaEvents(i.c), ProcessMkaEvents(i2.c), t)
    BY <2>1, EventsAlike
  <2> QED
    BY <1>2, <2>1, <2>2 DEF AlikeWith, EventsIfOK
<1> HIDE DEF s, s2
<1>4. AlikeWith(x, f, f2, t)
  <2>1. Whole(s.c) /\ s.c.meta = x.meta /\ s2.ret = s.ret /\ s2.c = More(s.c, t)
    BY <1>3 DEF AlikeWith, C
  <2>2. /\ Whole(Entered(s.c, "ERROR")) /\ Entered(s.c, "ERROR").meta = s.c.meta
        /\ Entered(s2.c, "ERROR") = More(Entered(s.c, "ERROR"), t)
    BY <2>1, StateAlike
  <2>3. \A r : OrError(r) = IF r.ret = "OK" THEN r ELSE C(r.ret, Entered(r.c, "ERROR"))
    BY DEF OrError, Entered
  <2> QED
    BY <1>3, <2>1, <2>2, <2>3 DEF AlikeWith, C
<1> QED
  BY <1>4 DEF ServedOrError, ServiceMka, e, e2, i, i2, s, s2

\* macsec_input on an EAPOL-MKA frame (macsec.c 582-644).
LEMMA InputAlike ==
    ASSUME NEW x, Whole(x), NEW t, NEW p, NEW k
    PROVE  AlikeWith(x, InputMkpdu(x, p, k), InputMkpdu(More(x, t), p, k), t)
<1> DEFINE r == MkaInput(x.mka, p, k)
           taken == [x EXCEPT !.mka = r.m]
           failed == Entered(taken, "ERROR")
<1>1. Shaped(r.m) /\ MkaInput(More(x, t).mka, p, k) = Also(r, t)
  BY WholeMka, MkaInputAlso
<1> HIDE DEF r
<1>2. /\ Whole(taken) /\ taken.meta = x.meta
      /\ [More(x, t) EXCEPT !.mka = ScheduleTx(r.m, t)] = More(taken, t)
  BY <1>1, MkaAlike
<1>3. /\ InputMkpdu(x, p, k) = IF x.mode = "DISABLED" THEN C("OK", x)
                               ELSE IF r.ret # "OK" THEN C(r.ret, failed)
                               ELSE ServedOrError(taken)
      /\ InputMkpdu(More(x, t), p, k) =
            IF x.mode = "DISABLED" THEN C("OK", More(x, t))
            ELSE IF r.ret # "OK" THEN C(r.ret, Entered(More(taken, t), "ERROR"))
            ELSE ServedOrError(More(taken, t))
  <2>1. More(x, t).mode = x.mode
    BY MoreWhole
  <2>2. \A y, q : ServeInput(y, q) =
           IF q.ret # "OK" THEN C(q.ret, Entered([y EXCEPT !.mka = q.m], "ERROR"))
           ELSE ServedOrError([y EXCEPT !.mka = q.m])
    BY DEF ServeInput, Entered
  <2>3. Also(r, t).ret = r.ret /\ Also(r, t).m = ScheduleTx(r.m, t)
    BY DEF Also, R
  <2>4. ServeInput(More(x, t), Also(r, t)) =
           IF r.ret # "OK" THEN C(r.ret, Entered(More(taken, t), "ERROR"))
           ELSE ServedOrError(More(taken, t))
    BY <1>2, <2>2, <2>3
  <2> QED
    BY <1>1, <2>1, <2>2, <2>4 DEF InputMkpdu, r
<1> HIDE DEF taken
<1>4. Whole(failed) /\ failed.meta = x.meta /\ Entered(More(taken, t), "ERROR") = More(failed, t)
  BY <1>2, StateAlike
<1>5. AlikeWith(taken, ServedOrError(taken), ServedOrError(More(taken, t)), t)
  BY <1>2, ServedAlike
<1> HIDE DEF failed
<1> QED
  BY <1>2, <1>3, <1>4, <1>5 DEF AlikeWith, C

\* Serving the participant takes no reason away.
LEMMA ServedReasons ==
    ASSUME NEW x, Whole(x)
    PROVE  LET y == ServedOrError(x).c
           IN  y.meta = x.meta /\ x.mka.tx_reasons \subseteq y.mka.tx_reasons
<1> DEFINE t == x.mka.tx_reasons
           r == ServedOrError(x)
<1>1. More(x, t) = x
  BY DEF More, ScheduleTx, Whole, CtxFields, Shaped, MkaFields
<1>2. AlikeWith(x, r, r, t)
  BY <1>1, ServedAlike
<1> HIDE DEF r, t
<1>3. Whole(r.c) /\ r.c.meta = x.meta /\ r.c = More(r.c, t)
  BY <1>2 DEF AlikeWith, C
<1>4. r.c.mka = ScheduleTx(r.c.mka, t) /\ Shaped(r.c.mka)
  BY <1>3, MoreWhole DEF Whole
<1>5. t \subseteq r.c.mka.tx_reasons
  <2>1. ScheduleTx(r.c.mka, t).tx_reasons = r.c.mka.tx_reasons \cup t
    BY <1>4, ReasonsAdded
  <2> QED
    BY <1>4, <2>1
<1> QED
  BY <1>3, <1>5 DEF r, t
=============================================================================
