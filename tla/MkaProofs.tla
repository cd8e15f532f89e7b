------------------------------ MODULE MkaProofs ------------------------------
(***************************************************************************)
(* What the operations of the MKA participant return, preserve and promise *)
(* for every number of keys and every range of the counters.  Each lemma   *)
(* is about one function of mka.c and is cited where macsec.c calls it.    *)
(***************************************************************************)
EXTENDS Mka, TLAPS

-----------------------------------------------------------------------------
(* Types *)

MkaAN == 0 .. MkaMaxSA - 1

SakRec == [state: SakStates, key: Key \cup {NoKey}, kn: 0 .. KnMax, an: MkaAN,
           origin: Origins, rx_installed: BOOLEAN, tx_installed: BOOLEAN,
           peer_rx: BOOLEAN, peer_tx: BOOLEAN]

PeerRec == [valid: BOOLEAN, mi: Nat, sci: Nat, prio: Nat, live: BOOLEAN,
            idle: 0 .. PeerTimeout]

MkaCtx == [state: MkaStates, keyed: BOOLEAN, sci: Nat, mi: Nat, prio: Nat,
           local_key_server: BOOLEAN, peer: PeerRec, latest: SakRec, old: SakRec,
           local_mn: 0 .. MnMax, next_kn: 0 .. KnMax, next_an: MkaAN,
           since_tx: {Never, 0, 1}, events: SUBSET Events,
           tx_reasons: SUBSET TxReasons]

DistRec == [has: {"none", "bad", "dist"}, kn: 0 .. KnMax, an: MkaAN,
            key: Key \cup {NoKey}]

UseRec == [has: {"none", "bad", "use"}, mi: Nat, kn: Nat, an: Nat,
           tx: BOOLEAN, rx: BOOLEAN]

\* An MKPDU; one that carries a Distributed SAK carries a key.
MkpduRec == {p \in [wellformed: BOOLEAN, auth: BOOLEAN, sci: Nat, mi: Nat, prio: Nat,
                    listed: Nat, dist: DistRec, use: UseRec] :
                p.dist.has = "dist" => p.dist.key \in Key}

-----------------------------------------------------------------------------
(* The participant's invariant, in parts *)

Held(s) == s.state \in {"ACTIVE", "CONFIRMED"}

\* latest_sak between two operations: it is in the frame layer in both
\* directions exactly when it is ACTIVE or CONFIRMED, and only then has the
\* peer said anything about it.
LatestOK(s) ==
    /\ s.state \in {"NONE", "CANDIDATE", "DISTRIBUTION_PENDING", "DISTRIBUTED",
                    "ACTIVE", "CONFIRMED"}
    /\ s.state = "NONE" => s = NoSak
    /\ s.state # "NONE" => s.kn # 0 /\ s.origin # "NONE"
    /\ s.state \notin {"NONE", "DISTRIBUTION_PENDING"} => s.key \in Key
    /\ s.state = "CANDIDATE" => s.origin = "REMOTE"
    /\ s.state \in {"DISTRIBUTION_PENDING", "DISTRIBUTED"} => s.origin = "LOCAL"
    /\ Held(s) => s.rx_installed /\ s.tx_installed
    /\ ~Held(s) => ~s.rx_installed /\ ~s.tx_installed /\ ~s.peer_rx /\ ~s.peer_tx
    /\ s.state = "CONFIRMED" => s.peer_rx /\ s.peer_tx

\* old_sak: empty, or a key that was installed and waits for its removal.
OldOK(s) ==
    /\ s.state \in {"NONE", "RETIRING"}
    /\ s.state = "NONE" => s = NoSak
    /\ s.state = "RETIRING" => /\ s.key \in Key /\ s.kn # 0 /\ s.rx_installed
                              /\ s.origin # "NONE"

\* The participant's state says what is known of the peer.
PeerMatches(m) ==
    /\ m.state \in {"WAIT_PEER", "PEER_DISCOVERED", "PEER_LIVE", "OPERATIONAL"}
    /\ m.state = "WAIT_PEER" => ~m.peer.valid
    /\ m.state = "PEER_DISCOVERED" => m.peer.valid /\ ~m.peer.live
    /\ m.state \in {"PEER_LIVE", "OPERATIONAL"} => m.peer.valid /\ m.peer.live

\* While there is a peer, the Key Server is the winner of the election.
Elected(m) == m.peer.valid => m.local_key_server = LocalWinsKeyServer(m)

\* What holds inside a call too.
MkaBase(m) ==
    /\ m \in MkaCtx
    /\ m.keyed
    /\ PeerMatches(m)
    /\ Elected(m)
    /\ LatestOK(m.latest)
    /\ OldOK(m.old)
    /\ m.next_kn # 0 /\ m.local_mn # 0

\* A CANDIDATE is a key of the peer that is about to be installed.
OperationalHasKey(m) == m.state = "OPERATIONAL" => Held(m.latest) \/ m.latest.state = "CANDIDATE"

MkaOK(m) == MkaBase(m) /\ OperationalHasKey(m)

-----------------------------------------------------------------------------
(* Lifecycle *)

\* A transition of the participant that the table of mka.c 104-163 allows
\* changes the state and nothing else.
LEMMA SetStateLegal ==
    ASSUME NEW m, NEW new, new = m.state \/ new \in StateMoves[m.state]
    PROVE  SetState(m, new) = [m EXCEPT !.state = new]
BY DEF SetState

\* The same for the two SAK slots (mka.c 199-293).
LEMMA SetLatestLegal ==
    ASSUME NEW m, NEW new, new = m.latest.state \/ new \in SakMoves[m.latest.state]
    PROVE  SetSakState(m, "latest", new) = [m EXCEPT !.latest.state = new]
BY DEF SetSakState

LEMMA SetOldLegal ==
    ASSUME NEW m, NEW new, new = m.old.state \/ new \in SakMoves[m.old.state]
    PROVE  SetSakState(m, "old", new) = [m EXCEPT !.old.state = new]
BY DEF SetSakState

\* Whatever is not in the SAK slots and not a reason to transmit is the same.
SameButSlots(m, n) ==
    /\ n.state = m.state /\ n.keyed = m.keyed /\ n.sci = m.sci /\ n.mi = m.mi
    /\ n.prio = m.prio /\ n.local_key_server = m.local_key_server /\ n.peer = m.peer
    /\ n.local_mn = m.local_mn /\ n.next_kn = m.next_kn /\ n.next_an = m.next_an
    /\ n.since_tx = m.since_tx /\ n.events = m.events

\* The old slot after latest_sak made room: latest_sak itself when it was
\* installed, else what was there before.
OldAfter(m, o) ==
    \/ o = m.old /\ ~Held(m.latest)
    \/ /\ Held(m.latest) /\ m.old = NoSak
       /\ o.state = "RETIRING" /\ o.key = m.latest.key /\ o.an = m.latest.an
       /\ o.kn = m.latest.kn /\ o.origin = m.latest.origin
       /\ o.rx_installed /\ o.tx_installed

LEMMA NoSakOK == NoSak \in SakRec /\ LatestOK(NoSak) /\ OldOK(NoSak)
BY MkaAssumption DEF NoSak, SakRec, SakStates, Origins, MkaAN, MkaMaxSA, LatestOK, OldOK, Held

\* Replacing the SAK slots by sound ones, and more reasons to transmit, keep
\* the participant sound.
LEMMA SlotsReplaced ==
    ASSUME NEW m, MkaBase(m), NEW n \in MkaCtx, SameButSlots(m, n),
           LatestOK(n.latest), OldOK(n.old)
    PROVE  MkaBase(n)
BY DEF MkaBase, PeerMatches, Elected, LocalWinsKeyServer, SameButSlots

\* Freeing the latest slot either succeeds and touches only the two slots, or
\* finds the old slot taken and touches nothing (mka.c 304-351, 1488-1495).
LEMMA FreeLatestCases ==
    ASSUME NEW m, MkaBase(m), NEW r, r = FreeLatest(m)
    PROVE  \/ /\ r.ret = "OK" /\ MkaBase(r.m) /\ SameButSlots(m, r.m)
              /\ r.m.latest = NoSak /\ OldAfter(m, r.m.old)
              /\ r.m.tx_reasons = m.tx_reasons
           \/ r.ret = "BUSY" /\ r.m = m
<1> DEFINE o == [m.latest EXCEPT !.peer_rx = FALSE, !.peer_tx = FALSE]
           o2 == [o EXCEPT !.state = "RETIRING"]
           copied == [m EXCEPT !.old = o]
           moved == [copied EXCEPT !.old.state = "RETIRING"]
           freed == [moved EXCEPT !.latest = NoSak]
<1>1. m \in MkaCtx /\ m.latest \in SakRec /\ m.old \in SakRec
  BY DEF MkaBase, MkaCtx
<1>2. CASE m.latest.state = "NONE"
  <2>1. m.latest = NoSak /\ ~Held(m.latest)
    BY <1>2 DEF MkaBase, LatestOK, Held
  <2>2. r.ret = "OK" /\ r.m = m
    BY <1>2 DEF FreeLatest, R
  <2> QED
    BY <2>1, <2>2 DEF OldAfter, SameButSlots
<1>3. CASE m.latest.state # "NONE" /\ m.old.state # "NONE"
  BY <1>3 DEF FreeLatest, MoveLatestToOld, R
<1>4. CASE m.latest.state # "NONE" /\ m.old.state = "NONE" /\ ~Held(m.latest)
  <2> DEFINE n == [m EXCEPT !.latest = NoSak]
  <2>1. ~m.latest.rx_installed /\ ~m.latest.tx_installed /\ OldOK(m.old)
    BY <1>4 DEF MkaBase, LatestOK
  <2>2. r.ret = "OK" /\ r.m = n
    BY <1>4, <2>1 DEF FreeLatest, MoveLatestToOld, R
  <2>3. n \in MkaCtx /\ SameButSlots(m, n) /\ n.latest = NoSak /\ n.old = m.old
        /\ n.tx_reasons = m.tx_reasons
    BY <1>1, NoSakOK DEF MkaCtx, SameButSlots
  <2> HIDE DEF n
  <2>4. MkaBase(n)
    BY <2>1, <2>3, NoSakOK, SlotsReplaced
  <2> QED
    BY <1>4, <2>2, <2>3, <2>4 DEF OldAfter
<1>5. CASE m.latest.state # "NONE" /\ m.old.state = "NONE" /\ Held(m.latest)
  <2>1. m.latest.rx_installed /\ m.latest.tx_installed /\ m.old = NoSak
        /\ m.latest.key \in Key /\ m.latest.state \in {"ACTIVE", "CONFIRMED"}
        /\ m.latest.kn # 0 /\ m.latest.origin # "NONE"
    BY <1>5 DEF MkaBase, LatestOK, OldOK, Held
  <2>2. /\ o2 \in SakRec /\ o.state = m.latest.state
        /\ o2.state = "RETIRING" /\ o2.key = m.latest.key /\ o2.an = m.latest.an
        /\ o2.kn = m.latest.kn /\ o2.origin = m.latest.origin
        /\ o2.rx_installed /\ o2.tx_installed
    BY <1>1, <2>1 DEF SakRec, SakStates
  <2>3. copied.old.state = m.latest.state
    BY <1>1, <2>2 DEF MkaCtx
  <2>4. moved.old = o2 /\ freed.old = o2 /\ freed.latest = NoSak
        /\ freed.tx_reasons = m.tx_reasons /\ SameButSlots(m, freed)
    BY <1>1 DEF MkaCtx, SameButSlots
  <2>5. freed \in MkaCtx
    BY <1>1, <2>2, <2>4, NoSakOK DEF MkaCtx
  <2>6. FreeLatest(m) = LatestMoved(SetSakState(copied, "old", "RETIRING"))
    BY <1>5, <2>1 DEF FreeLatest, MoveLatestToOld
  <2>7. LatestMoved(moved) = R("OK", freed)
    BY <2>2, <2>4 DEF LatestMoved
  <2>8. \A x : x = moved => x = [copied EXCEPT !.old.state = "RETIRING"]
    OBVIOUS
  <2> HIDE DEF o, o2, copied
  <2>9. SetSakState(copied, "old", "RETIRING") = moved
    BY <2>1, <2>3, SetOldLegal DEF SakMoves
  <2> HIDE DEF moved, freed
  <2>10. r.ret = "OK" /\ r.m = freed
    BY <2>6, <2>7, <2>9 DEF R
  <2>11. OldAfter(m, o2) /\ OldOK(o2)
    BY <1>5, <2>1, <2>2 DEF OldAfter, OldOK
  <2>12. MkaBase(freed)
    BY <2>4, <2>5, <2>11, NoSakOK, SlotsReplaced
  <2> QED
    BY <2>4, <2>10, <2>11, <2>12
<1> QED
  BY <1>2, <1>3, <1>4, <1>5

\* Reasons to transmit may be added at any time.
LEMMA TxScheduled ==
    ASSUME NEW m, MkaBase(m), NEW t \in SUBSET TxReasons, NEW n, n = ScheduleTx(m, t)
    PROVE  /\ MkaBase(n) /\ SameButSlots(m, n) /\ n.tx_reasons = m.tx_reasons \cup t
           /\ n.latest = m.latest /\ n.old = m.old
<1>1. m \in MkaCtx /\ LatestOK(m.latest) /\ OldOK(m.old)
  BY DEF MkaBase
<1>2. /\ n \in MkaCtx /\ n.tx_reasons = m.tx_reasons \cup t
      /\ n.latest = m.latest /\ n.old = m.old /\ SameButSlots(m, n)
  BY <1>1 DEF MkaCtx, ScheduleTx, SameButSlots
<1> QED
  BY <1>1, <1>2, SlotsReplaced

-----------------------------------------------------------------------------
(* New keys *)

\* The key of a Distributed SAK, and one drawn here, as they enter latest_sak.
Received(p) == [ReceivedSak(p) EXCEPT !.state = "CANDIDATE"]
Generated(m, k) == [GeneratedSak(m, k) EXCEPT !.state = "DISTRIBUTION_PENDING"]

LEMMA ReceivedOK ==
    ASSUME NEW p \in MkpduRec, p.dist.has = "dist", p.dist.kn # 0
    PROVE  Received(p) \in SakRec /\ LatestOK(Received(p)) /\ Received(p).state = "CANDIDATE"
<1>1. p.dist \in DistRec /\ p.dist.key \in Key
  BY DEF MkpduRec
<1>2. /\ Received(p) \in SakRec /\ Received(p).state = "CANDIDATE"
      /\ Received(p).origin = "REMOTE" /\ Received(p).kn # 0 /\ Received(p).key \in Key
      /\ ~Received(p).rx_installed /\ ~Received(p).tx_installed
      /\ ~Received(p).peer_rx /\ ~Received(p).peer_tx
  BY <1>1 DEF Received, ReceivedSak, NoSak, SakRec, DistRec, SakStates, Origins
<1> QED
  BY <1>2 DEF LatestOK, Held

LEMMA GeneratedOK ==
    ASSUME NEW m \in MkaCtx, m.next_kn # 0, NEW k \in Key \cup {NoKey}
    PROVE  /\ Generated(m, k) \in SakRec /\ LatestOK(Generated(m, k))
           /\ Generated(m, k).state = "DISTRIBUTION_PENDING"
           /\ Generated(m, k).an = m.next_an /\ Generated(m, k).kn = m.next_kn
           /\ Generated(m, k).key = k /\ Generated(m, k).origin = "LOCAL"
<1>1. m.next_an % MkaMaxSA = m.next_an /\ m.next_an \in MkaAN /\ m.next_kn \in 0 .. KnMax
  BY DEF MkaCtx, MkaAN, MkaMaxSA
<1>2. /\ Generated(m, k) \in SakRec /\ Generated(m, k).state = "DISTRIBUTION_PENDING"
      /\ Generated(m, k).an = m.next_an /\ Generated(m, k).kn = m.next_kn
      /\ Generated(m, k).key = k /\ Generated(m, k).origin = "LOCAL"
      /\ ~Generated(m, k).rx_installed /\ ~Generated(m, k).tx_installed
      /\ ~Generated(m, k).peer_rx /\ ~Generated(m, k).peer_tx
  BY <1>1 DEF Generated, GeneratedSak, NoSak, SakRec, SakStates, Origins
<1> QED
  BY <1>2 DEF LatestOK, Held

\* A Key Server with a live peer and no key draws one, at the next key number
\* and AN; with a key of its own it has nothing to do (mka.c 2025-2097).
LEMMA EnsureSakCases ==
    ASSUME NEW m, MkaBase(m), NEW k \in Key \cup {NoKey}, NEW r, r = EnsureSak(m, k)
    PROVE  \/ /\ r.ret \in {"OK", "STATE", "NOT_READY"} /\ r.m = m
              /\ r.ret = "OK" => m.latest.origin = "LOCAL" /\ m.latest.state # "NONE"
              /\ r.ret = "STATE" =>
                    ~m.local_key_server \/ (m.latest.state # "NONE" /\ m.latest.origin # "LOCAL")
              /\ r.ret = "NOT_READY" => ~(m.peer.valid /\ m.peer.live)
           \/ /\ r.ret = "OK" /\ m.latest.state = "NONE" /\ m.local_key_server
              /\ m.peer.valid /\ m.peer.live
              /\ MkaBase(r.m) /\ SameButSlots(m, r.m)
              /\ r.m.latest = Generated(m, k) /\ r.m.old = m.old
              /\ r.m.tx_reasons = m.tx_reasons \cup {"DISTRIBUTE_SAK"}
<1> DEFINE g  == GeneratedSak(m, k)
           m1 == [m EXCEPT !.latest = g]
           m2 == [m1 EXCEPT !.latest.state = "CANDIDATE"]
           m3 == [m2 EXCEPT !.latest.state = "DISTRIBUTION_PENDING"]
<1>1. m \in MkaCtx /\ OldOK(m.old) /\ m.next_kn # 0
  BY DEF MkaBase
<1>2. CASE ~m.local_key_server \/ ~(m.peer.valid /\ m.peer.live) \/ m.latest.state # "NONE"
  <2>1. CASE ~m.local_key_server
    <3>1. r = R("STATE", m)
      BY <2>1 DEF EnsureSak
    <3> QED
      BY <2>1, <3>1 DEF R
  <2>2. CASE m.local_key_server /\ ~(m.peer.valid /\ m.peer.live)
    <3>1. r = R("NOT_READY", m)
      BY <2>2 DEF EnsureSak
    <3> QED
      BY <2>2, <3>1 DEF R
  <2>3. CASE m.local_key_server /\ m.peer.valid /\ m.peer.live /\ m.latest.state # "NONE"
    <3>1. r = R(IF m.latest.origin = "LOCAL" THEN "OK" ELSE "STATE", m)
      BY <2>3 DEF EnsureSak
    <3> QED
      BY <2>3, <3>1 DEF R
  <2> QED
    BY <1>2, <2>1, <2>2, <2>3
<1>3. CASE m.local_key_server /\ m.peer.valid /\ m.peer.live /\ m.latest.state = "NONE"
  <2>1. m1.latest.state = "NONE"
    BY <1>1 DEF MkaCtx, GeneratedSak, NoSak
  <2>2. m2.latest.state = "CANDIDATE"
    BY <1>1 DEF MkaCtx, GeneratedSak, NoSak
  <2>3. m3.latest = Generated(m, k) /\ m3.old = m.old /\ m3.tx_reasons = m.tx_reasons
        /\ SameButSlots(m, m3)
    BY <1>1 DEF MkaCtx, GeneratedSak, NoSak, Generated, SameButSlots
  <2>4. m3 \in MkaCtx
    <3>1. m3 = [m EXCEPT !.latest = Generated(m, k)]
      BY <1>1 DEF MkaCtx, GeneratedSak, NoSak, Generated
    <3> HIDE DEF m3
    <3> QED
      BY <1>1, <3>1, GeneratedOK DEF MkaCtx
  <2>5. EnsureSak(m, k) = R("OK", ScheduleTx(SetSakState(SetSakState(m1, "latest", "CANDIDATE"),
                                                         "latest", "DISTRIBUTION_PENDING"),
                                             {"DISTRIBUTE_SAK"}))
    BY <1>3 DEF EnsureSak
  <2> HIDE DEF m1
  <2>6. SetSakState(m1, "latest", "CANDIDATE") = m2
    BY <2>1, SetLatestLegal DEF SakMoves
  <2> HIDE DEF m2
  <2>7. SetSakState(m2, "latest", "DISTRIBUTION_PENDING") = m3
    BY <2>2, SetLatestLegal DEF SakMoves
  <2> HIDE DEF m3
  <2>8. r.ret = "OK" /\ r.m = ScheduleTx(m3, {"DISTRIBUTE_SAK"})
    BY <2>5, <2>6, <2>7 DEF R
  <2>9. MkaBase(m3)
    BY <1>1, <2>3, <2>4, GeneratedOK, SlotsReplaced
  <2>10. {"DISTRIBUTE_SAK"} \in SUBSET TxReasons
    BY DEF TxReasons
  <2>11. /\ MkaBase(r.m) /\ SameButSlots(m3, r.m) /\ r.m.latest = m3.latest /\ r.m.old = m3.old
         /\ r.m.tx_reasons = m3.tx_reasons \cup {"DISTRIBUTE_SAK"}
    BY <2>8, <2>9, <2>10, TxScheduled
  <2> QED
    BY <1>3, <2>3, <2>8, <2>11 DEF SameButSlots
<1> QED
  BY <1>2, <1>3

\* macsec_mka_parse_distributed_sak takes a key or leaves the participant
\* alone; the key it takes is not the one latest_sak holds (mka.c 1138-1284).
LEMMA ParseDistributedSakCases ==
    ASSUME NEW m, MkaBase(m), NEW p \in MkpduRec, NEW r, r = ParseDistributedSak(m, p)
    PROVE  \/ r.ret \in {"NOT_READY", "BUFFER", "BUSY"} /\ r.m = m
           \/ /\ r.ret = "OK" /\ p.dist.has = "dist" /\ p.dist.kn # 0 /\ ~SameSak(m, p)
              /\ MkaBase(r.m) /\ SameButSlots(m, r.m)
              /\ r.m.latest = Received(p) /\ OldAfter(m, r.m.old)
              /\ r.m.tx_reasons = m.tx_reasons
<1> DEFINE f == FreeLatest(m)
<1>1. CASE ~Scanned(p) \/ p.dist.has = "none" \/ p.dist.has = "bad" \/ p.dist.kn = 0
           \/ SameSak(m, p)
  BY <1>1 DEF ParseDistributedSak, R, MkaBase
<1>2. CASE ~(~Scanned(p) \/ p.dist.has = "none" \/ p.dist.has = "bad" \/ p.dist.kn = 0
             \/ SameSak(m, p))
  <2>1. p.dist.has = "dist" /\ p.dist.kn # 0 /\ ~SameSak(m, p)
    BY <1>2 DEF MkpduRec, DistRec
  <2>2. r = TakeReceivedSak(f, p)
    BY <1>2 DEF ParseDistributedSak, MkaBase
  <2>3. CASE f.ret = "BUSY" /\ f.m = m
    BY <2>2, <2>3 DEF TakeReceivedSak
  <2>4. CASE f.ret = "OK"
    <3> DEFINE fm == f.m
               n == [fm EXCEPT !.latest = ReceivedSak(p)]
               t == [n EXCEPT !.latest.state = "CANDIDATE"]
    <3>1. MkaBase(fm) /\ SameButSlots(m, fm) /\ OldAfter(m, fm.old) /\ fm.tx_reasons = m.tx_reasons
      BY <2>4, FreeLatestCases
    <3>2. r = R("OK", SetSakState(n, "latest", "CANDIDATE"))
      BY <2>2, <2>4 DEF TakeReceivedSak
    <3> HIDE DEF fm
    <3>3. fm \in MkaCtx /\ OldOK(fm.old)
      BY <3>1 DEF MkaBase
    <3>4. n.latest.state = "NONE"
      BY <3>3 DEF MkaCtx, ReceivedSak, NoSak
    <3>5. t.latest = Received(p) /\ t.old = fm.old /\ t.tx_reasons = fm.tx_reasons
          /\ SameButSlots(fm, t)
      BY <3>3 DEF MkaCtx, ReceivedSak, NoSak, Received, SameButSlots
    <3>6. t \in MkaCtx
      BY <3>3, <3>5, <2>1, ReceivedOK DEF MkaCtx
    <3> HIDE DEF n
    <3>7. SetSakState(n, "latest", "CANDIDATE") = t
      BY <3>4, SetLatestLegal DEF SakMoves
    <3> HIDE DEF t
    <3>8. r.ret = "OK" /\ r.m = t
      BY <3>2, <3>7 DEF R
    <3>9. MkaBase(t)
      BY <2>1, <3>1, <3>3, <3>5, <3>6, ReceivedOK, SlotsReplaced
    <3> QED
      BY <2>1, <3>1, <3>5, <3>8, <3>9 DEF SameButSlots
  <2> QED
    BY <2>3, <2>4, FreeLatestCases
<1> QED
  BY <1>1, <1>2

\* The new contents of latest_sak after a rekey: a key drawn here, or nothing
\* while the peer is not live.
Rekeyed(m, k, l) ==
    l = NoSak \/ (l = Generated(m, k) /\ m.peer.valid /\ m.peer.live)

\* macsec_mka_start_rekey: refused and without effect, or latest_sak made room
\* for a fresh key (mka.c 1472-1528).
LEMMA StartRekeyCases ==
    ASSUME NEW m, MkaBase(m), NEW k \in Key \cup {NoKey}, NEW r, r = StartRekey(m, k)
    PROVE  \/ r.ret \in {"STATE", "BUSY"} /\ r.m = m
              /\ (r.ret = "STATE" => ~m.local_key_server)
           \/ /\ r.ret = "OK" /\ MkaBase(r.m) /\ SameButSlots(m, r.m)
              /\ OldAfter(m, r.m.old) /\ Rekeyed(m, k, r.m.latest)
              /\ m.tx_reasons \subseteq r.m.tx_reasons
<1> DEFINE f == FreeLatest(m)
           n == f.m
           g == GenerateIfLive(f, k)
           all == {"REKEY", "PEER_CHANGE"} \cup
                  (IF g.m.latest.state # "NONE" THEN {"DISTRIBUTE_SAK"} ELSE {})
<1>1. CASE ~m.local_key_server \/ m.old.state # "NONE"
  BY <1>1 DEF StartRekey, R
<1>2. CASE ~(~m.local_key_server \/ m.old.state # "NONE")
  <2>1. r = ScheduleRekey(g)
    BY <1>2 DEF StartRekey
  <2>2. CASE f.ret = "BUSY" /\ f.m = m
    BY <2>1, <2>2 DEF GenerateIfLive, ScheduleRekey
  <2>3. CASE f.ret = "OK"
    <3>1. MkaBase(n) /\ SameButSlots(m, n) /\ n.latest = NoSak /\ OldAfter(m, n.old)
          /\ n.tx_reasons = m.tx_reasons
      BY <2>3, FreeLatestCases
    <3>2. all \in SUBSET TxReasons
      BY DEF TxReasons
    <3>3. Generated(n, k) = Generated(m, k)
      BY <3>1 DEF Generated, GeneratedSak, SameButSlots
    <3>4. g.ret = "OK" /\ MkaBase(g.m) /\ SameButSlots(m, g.m) /\ OldAfter(m, g.m.old)
          /\ Rekeyed(m, k, g.m.latest) /\ m.tx_reasons \subseteq g.m.tx_reasons
      <4>1. CASE ~(n.peer.valid /\ n.peer.live)
        BY <2>3, <3>1, <4>1 DEF GenerateIfLive, Rekeyed
      <4>2. CASE n.peer.valid /\ n.peer.live
        <5>1. g = EnsureSak(n, k)
          BY <2>3, <4>2 DEF GenerateIfLive
        <5>2. n.local_key_server /\ n.latest.state = "NONE"
          BY <1>2, <3>1 DEF SameButSlots, NoSak
        <5> HIDE DEF g, n
        <5>3. /\ g.ret = "OK" /\ MkaBase(g.m) /\ SameButSlots(n, g.m)
              /\ g.m.latest = Generated(n, k) /\ g.m.old = n.old
              /\ g.m.tx_reasons = n.tx_reasons \cup {"DISTRIBUTE_SAK"}
          BY <3>1, <4>2, <5>1, <5>2, EnsureSakCases DEF NoSak
        <5> QED
          BY <3>1, <3>3, <4>2, <5>3 DEF Rekeyed, SameButSlots
      <4> QED
        BY <4>1, <4>2
    <3>5. r.ret = "OK" /\ r.m = ScheduleTx(g.m, all)
      BY <2>1, <3>4 DEF ScheduleRekey, R
    <3> HIDE DEF all, g, f, n
    <3>6. /\ MkaBase(r.m) /\ SameButSlots(g.m, r.m) /\ r.m.latest = g.m.latest
          /\ r.m.old = g.m.old /\ r.m.tx_reasons = g.m.tx_reasons \cup all
      BY <3>2, <3>4, <3>5, TxScheduled
    <3> QED
      BY <3>4, <3>5, <3>6 DEF SameButSlots
  <2> QED
    BY <2>1, <2>2, <2>3, FreeLatestCases
<1> QED
  BY <1>1, <1>2

-----------------------------------------------------------------------------
(* The peer and the election *)

\* Whatever an update of the peer leaves alone.
SameButPeer(m, n) ==
    /\ n.keyed = m.keyed /\ n.sci = m.sci /\ n.mi = m.mi /\ n.prio = m.prio
    /\ n.latest = m.latest /\ n.old = m.old /\ n.local_mn = m.local_mn
    /\ n.next_kn = m.next_kn /\ n.next_an = m.next_an /\ n.since_tx = m.since_tx
    /\ n.events = m.events /\ n.tx_reasons = m.tx_reasons

\* The participant with its peer and its state replaced.
LEMMA StateSet ==
    ASSUME NEW m \in MkaCtx, NEW new \in MkaStates, m.state \in MkaStates \ {"ERROR"},
           new = m.state \/ new \in StateMoves[m.state],
           NEW n, n = SetState(m, new)
    PROVE  /\ n \in MkaCtx /\ n.state = new /\ SameButPeer(m, n)
           /\ n.peer = m.peer /\ n.local_key_server = m.local_key_server
<1>1. n = [m EXCEPT !.state = new]
  BY SetStateLegal
<1> QED
  BY <1>1 DEF MkaCtx, SameButPeer

LEMMA PeerReplaced ==
    ASSUME NEW m, MkaBase(m), NEW n \in MkaCtx, SameButPeer(m, n), PeerMatches(n), Elected(n)
    PROVE  MkaBase(n)
BY DEF MkaBase, SameButPeer

\* The sender of an MKPDU becomes the peer, is live when it lists this
\* participant, and takes part in the election; the participant is
\* OPERATIONAL afterwards only with the peer it was OPERATIONAL with
\* (mka.c 1620-1757).  m is the participant before the MKPDU, r with its key.
LEMMA PeerNoted ==
    ASSUME NEW m, MkaBase(m), NEW r, MkaBase(r), SameButSlots(m, r),
           NEW p \in MkpduRec,
           NEW n, n = Elect(UpdateLiveness(m, UpdatePeer(r, p), p))
    PROVE  /\ MkaBase(n) /\ SameButPeer(r, n)
           /\ n.peer.valid /\ n.peer.mi = p.mi /\ n.peer.sci = p.sci /\ n.peer.prio = p.prio
           /\ n.state = "OPERATIONAL" => m.state = "OPERATIONAL" /\ ~PeerIdentityChanged(m, p)
<1> DEFINE u == UpdatePeer(r, p)
           up == [u EXCEPT !.peer.live = TRUE]
           down == [u EXCEPT !.peer.live = FALSE]
           l == UpdateLiveness(m, u, p)
           mine == Scanned(p) /\ p.listed = m.mi /\ p.listed # NoMI
           fresh == PeerIdentityChanged(m, p) \/ ~m.peer.live
           Noted(x) == /\ x \in MkaCtx /\ SameButPeer(r, x)
                       /\ x.peer.valid /\ x.peer.mi = p.mi /\ x.peer.sci = p.sci
                       /\ x.peer.prio = p.prio
           Fits(x) == /\ PeerMatches(x)
                      /\ x.state = "OPERATIONAL" =>
                            m.state = "OPERATIONAL" /\ ~PeerIdentityChanged(m, p)
<1>1. r \in MkaCtx /\ r.peer \in PeerRec /\ r.state = m.state /\ r.peer = m.peer
      /\ r.state \in {"WAIT_PEER", "PEER_DISCOVERED", "PEER_LIVE", "OPERATIONAL"}
  BY DEF MkaBase, MkaCtx, PeerMatches, SameButSlots
<1>6. n = [l EXCEPT !.local_key_server = LocalWinsKeyServer(l)]
  BY DEF Elect
<1>2. Noted(u) /\ u.state = r.state /\ u.peer.live = r.peer.live /\ u.peer \in PeerRec
  <2> DEFINE peer == [valid |-> TRUE, mi |-> p.mi, sci |-> p.sci, prio |-> p.prio,
                      live |-> r.peer.live, idle |-> 0]
  <2>1. u = [r EXCEPT !.peer = peer]
    BY DEF UpdatePeer
  <2>2. peer \in PeerRec
    BY <1>1 DEF PeerRec, PeerTimeout, MkpduRec
  <2> HIDE DEF u
  <2> QED
    BY <1>1, <2>1, <2>2 DEF MkaCtx, SameButPeer
<1> HIDE DEF u
<1>3. Noted(up) /\ up.state = r.state /\ up.peer.live
  BY <1>2 DEF MkaCtx, PeerRec, SameButPeer
<1>4. Noted(down) /\ down.state = r.state /\ ~down.peer.live
  BY <1>2 DEF MkaCtx, PeerRec, SameButPeer
<1>5. Noted(l) /\ Fits(l)
  <2>1. CASE mine
    <3>1. l = SetState(up, "PEER_LIVE")
      BY <2>1 DEF UpdateLiveness
    <3>2. "PEER_LIVE" = up.state \/ "PEER_LIVE" \in StateMoves[up.state]
      BY <1>1, <1>3 DEF StateMoves
    <3> HIDE DEF up, l
    <3>3. /\ l \in MkaCtx /\ l.state = "PEER_LIVE" /\ SameButPeer(up, l) /\ l.peer = up.peer
      BY <1>1, <1>3, <3>1, <3>2, StateSet DEF MkaStates
    <3> QED
      BY <1>3, <3>3 DEF PeerMatches, SameButPeer
  <2>2. CASE ~mine /\ fresh
    <3>1. l = SetState(down, "PEER_DISCOVERED")
      BY <2>2 DEF UpdateLiveness
    <3>2. "PEER_DISCOVERED" = down.state \/ "PEER_DISCOVERED" \in StateMoves[down.state]
      BY <1>1, <1>4 DEF StateMoves
    <3> HIDE DEF down, l
    <3>3. /\ l \in MkaCtx /\ l.state = "PEER_DISCOVERED" /\ SameButPeer(down, l)
          /\ l.peer = down.peer
      BY <1>1, <1>4, <3>1, <3>2, StateSet DEF MkaStates
    <3> QED
      BY <1>4, <3>3 DEF PeerMatches, SameButPeer
  <2>3. CASE ~mine /\ ~fresh
    <3>1. l = u
      BY <2>3 DEF UpdateLiveness
    <3>2. r.state \in {"PEER_LIVE", "OPERATIONAL"}
      BY <1>1, <2>3 DEF MkaBase, PeerMatches, PeerIdentityChanged
    <3> QED
      BY <1>1, <1>2, <2>3, <3>1, <3>2 DEF PeerMatches
  <2> QED
    BY <2>1, <2>2, <2>3
<1> HIDE DEF l
<1>7. LocalWinsKeyServer(l) \in BOOLEAN
  BY DEF LocalWinsKeyServer
<1>8. Noted(n) /\ Fits(n) /\ n.local_key_server = LocalWinsKeyServer(l)
      /\ n.peer = l.peer /\ n.prio = l.prio /\ n.sci = l.sci
  BY <1>5, <1>6, <1>7 DEF MkaCtx, SameButPeer, PeerMatches
<1>9. Elected(n)
  BY <1>8 DEF Elected, LocalWinsKeyServer
<1> QED
  BY <1>8, <1>9, PeerReplaced

\* A Key Server that meets a new peer with a key of its own rekeys, unless the
\* old SAK is still there (mka.c 1764-1778).
LEMMA RekeyForNewPeerCases ==
    ASSUME NEW m, NEW n, MkaBase(n), NEW p \in MkpduRec, NEW k \in Key \cup {NoKey},
           NEW r, r = RekeyForNewPeer(m, n, p, k)
    PROVE  \/ r.ret \in {"OK", "BUSY"} /\ r.m = n
           \/ /\ r.ret = "OK" /\ PeerIdentityChanged(m, p)
              /\ MkaBase(r.m) /\ SameButSlots(n, r.m)
              /\ OldAfter(n, r.m.old) /\ Rekeyed(n, k, r.m.latest)
              /\ n.tx_reasons \subseteq r.m.tx_reasons
<1>1. CASE PeerIdentityChanged(m, p) /\ n.local_key_server /\ n.latest.state # "NONE"
  <2>1. r = StartRekey(n, k)
    BY <1>1 DEF RekeyForNewPeer
  <2> QED
    BY <1>1, <2>1, StartRekeyCases
<1>2. CASE ~(PeerIdentityChanged(m, p) /\ n.local_key_server /\ n.latest.state # "NONE")
  BY <1>2 DEF RekeyForNewPeer, R
<1> QED
  BY <1>1, <1>2

-----------------------------------------------------------------------------
(* SAK Use *)

\* What the peer's SAK Use cannot change of latest_sak.
SameKey(s, t) ==
    /\ t.key = s.key /\ t.kn = s.kn /\ t.an = s.an /\ t.origin = s.origin
    /\ t.rx_installed = s.rx_installed /\ t.tx_installed = s.tx_installed
    /\ t.state = s.state \/ (Held(s) /\ Held(t))

\* Whatever a step on the SAK slots and the events leaves alone.
SameButSakUse(m, n) ==
    /\ n.state = m.state /\ n.keyed = m.keyed /\ n.sci = m.sci /\ n.mi = m.mi
    /\ n.prio = m.prio /\ n.local_key_server = m.local_key_server /\ n.peer = m.peer
    /\ n.local_mn = m.local_mn /\ n.next_kn = m.next_kn /\ n.next_an = m.next_an
    /\ n.since_tx = m.since_tx /\ n.tx_reasons = m.tx_reasons /\ n.old = m.old

\* Retirement is asked for when latest_sak is confirmed and an old SAK waits.
RetireJustified(n) ==
    "SAK_RETIRE_REQUIRED" \in n.events =>
        n.latest.state = "CONFIRMED" /\ n.old.state = "RETIRING"

LEMMA LatestReplaced ==
    ASSUME NEW m, MkaBase(m), NEW n \in MkaCtx, SameButSakUse(m, n), LatestOK(n.latest)
    PROVE  MkaBase(n)
BY DEF MkaBase, PeerMatches, Elected, LocalWinsKeyServer, SameButSakUse

\* macsec_mka_parse_sak_use: it may confirm a key that is in use or withdraw
\* the confirmation, and it asks for retirement only on confirming
\* (mka.c 1324-1470).
LEMMA ParseSakUseCases ==
    ASSUME NEW m, MkaBase(m), m.latest.state # "DISTRIBUTED", m.events = {},
           NEW p \in MkpduRec, NEW r, r = ParseSakUse(m, p)
    PROVE  \/ r.ret \in {"NOT_READY", "BUFFER"} /\ r.m = m
           \/ /\ r.ret = "OK" /\ MkaBase(r.m) /\ SameButSakUse(m, r.m)
              /\ Held(m.latest) /\ SameKey(m.latest, r.m.latest)
              /\ r.m.events \subseteq {"SAK_RETIRE_REQUIRED"} /\ RetireJustified(r.m)
<1> DEFINE l == [m.latest EXCEPT !.peer_tx = p.use.tx, !.peer_rx = p.use.rx]
           noted == [m EXCEPT !.latest = l]
           conf == [noted EXCEPT !.latest.state = "CONFIRMED"]
           act == [noted EXCEPT !.latest.state = "ACTIVE"]
           raised == [conf EXCEPT !.events = @ \cup {"SAK_RETIRE_REQUIRED"}]
           Good(n) == /\ n \in MkaCtx /\ SameButSakUse(m, n) /\ LatestOK(n.latest)
                      /\ SameKey(m.latest, n.latest)
                      /\ n.events \subseteq {"SAK_RETIRE_REQUIRED"} /\ RetireJustified(n)
<1>1. m \in MkaCtx /\ m.latest \in SakRec /\ LatestOK(m.latest) /\ OldOK(m.old)
      /\ p.use.tx \in BOOLEAN /\ p.use.rx \in BOOLEAN
  BY DEF MkaBase, MkaCtx, MkpduRec, UseRec
<1>2. CASE ~Scanned(p) \/ p.use.has = "none" \/ p.use.has = "bad" \/ ~UseNamesLatest(m, p.use)
  BY <1>2 DEF ParseSakUse, R
<1>3. CASE /\ Scanned(p) /\ p.use.has # "none" /\ p.use.has # "bad"
           /\ UseNamesLatest(m, p.use)
  <2>1. Held(m.latest) \/ m.latest.state = "INSTALL_PENDING"
    BY <1>3 DEF UseNamesLatest, Held
  <2>2. Held(m.latest) /\ m.latest.rx_installed /\ m.latest.tx_installed
        /\ m.latest.key \in Key /\ m.latest.kn # 0 /\ m.latest.origin # "NONE"
    BY <1>1, <2>1 DEF LatestOK, Held
  <2>3. /\ l \in SakRec /\ l.state = m.latest.state /\ l.key = m.latest.key
        /\ l.kn = m.latest.kn /\ l.an = m.latest.an /\ l.origin = m.latest.origin
        /\ l.rx_installed /\ l.tx_installed
        /\ l.peer_tx = p.use.tx /\ l.peer_rx = p.use.rx
    BY <1>1, <2>2 DEF SakRec
  <2> HIDE DEF l
  <2>4. noted \in MkaCtx /\ SameButSakUse(m, noted) /\ noted.latest = l /\ noted.events = {}
    BY <1>1, <2>3 DEF MkaCtx, SameButSakUse
  <2>5. conf \in MkaCtx /\ SameButSakUse(m, conf) /\ conf.events = {}
        /\ conf.latest = [l EXCEPT !.state = "CONFIRMED"]
    BY <1>1, <2>3 DEF MkaCtx, SameButSakUse, SakRec, SakStates
  <2>6. act \in MkaCtx /\ SameButSakUse(m, act) /\ act.events = {}
        /\ act.latest = [l EXCEPT !.state = "ACTIVE"]
    BY <1>1, <2>3 DEF MkaCtx, SameButSakUse, SakRec, SakStates
  <2>7. raised \in MkaCtx /\ SameButSakUse(m, raised) /\ raised.latest = conf.latest
        /\ raised.events = {"SAK_RETIRE_REQUIRED"}
    BY <2>5 DEF MkaCtx, SameButSakUse, Events
  <2>8. noted = [m EXCEPT !.latest.peer_tx = p.use.tx, !.latest.peer_rx = p.use.rx]
    BY <1>1 DEF MkaCtx, l
  <2> DEFINE c2 == SetSakState(noted, "latest", "CONFIRMED")
             a2 == SetSakState(noted, "latest", "ACTIVE")
  <2>9. r = IF p.use.rx /\ p.use.tx
            THEN IF m.latest.state = "ACTIVE" THEN R("OK", RequestRetirement(c2))
                 ELSE R("OK", noted)
            ELSE IF m.latest.state = "CONFIRMED" THEN R("OK", a2)
            ELSE R("OK", noted)
    BY <1>3, <2>8 DEF ParseSakUse
  <2> HIDE DEF noted
  <2>10. CASE p.use.rx /\ p.use.tx /\ m.latest.state = "ACTIVE"
    <3>1. c2 = conf
      BY <2>3, <2>4, <2>10, SetLatestLegal DEF SakMoves
    <3> HIDE DEF conf
    <3>2. conf.latest.state = "CONFIRMED" /\ LatestOK(conf.latest) /\ SameKey(m.latest, conf.latest)
      <4> DEFINE x == conf.latest
      <4>1. /\ x.state = "CONFIRMED" /\ x.key = l.key /\ x.kn = l.kn /\ x.an = l.an
            /\ x.origin = l.origin /\ x.rx_installed = l.rx_installed
            /\ x.tx_installed = l.tx_installed /\ x.peer_rx = l.peer_rx
            /\ x.peer_tx = l.peer_tx
        BY <2>3, <2>5 DEF SakRec
      <4> HIDE DEF x
      <4>2. LatestOK(x)
        BY <2>2, <2>3, <2>10, <4>1 DEF LatestOK, Held
      <4>3. SameKey(m.latest, x)
        BY <2>2, <2>3, <4>1 DEF SameKey, Held
      <4> QED
        BY <4>1, <4>2, <4>3 DEF x
    <3>3. RequestRetirement(conf) \in {conf, raised}
          /\ (RequestRetirement(conf) = raised => conf.old.state = "RETIRING")
          /\ conf # raised
      BY <2>5, <2>7 DEF RequestRetirement, Raise, raised
    <3> HIDE DEF raised, c2
    <3>4. Good(conf)
      BY <2>5, <3>2 DEF RetireJustified
    <3>5. conf.old.state = "RETIRING" => Good(raised)
      BY <2>5, <2>7, <3>2 DEF RetireJustified, SameButSakUse
    <3>6. r.ret = "OK" /\ r.m = RequestRetirement(conf)
      BY <2>9, <2>10, <3>1 DEF R
    <3> QED
      BY <2>2, <3>3, <3>4, <3>5, <3>6, LatestReplaced
  <2>11. CASE p.use.rx /\ p.use.tx /\ m.latest.state # "ACTIVE"
    <3>1. r.ret = "OK" /\ r.m = noted
      BY <2>9, <2>11 DEF R
    <3>2. Good(noted)
      BY <1>1, <2>2, <2>3, <2>4, <2>11 DEF LatestOK, Held, SameKey, RetireJustified
    <3> QED
      BY <2>2, <3>1, <3>2, LatestReplaced
  <2>12. CASE ~(p.use.rx /\ p.use.tx) /\ m.latest.state = "CONFIRMED"
    <3>1. a2 = act
      BY <2>3, <2>4, <2>12, SetLatestLegal DEF SakMoves
    <3> HIDE DEF act
    <3>2. act.latest.state = "ACTIVE" /\ LatestOK(act.latest) /\ SameKey(m.latest, act.latest)
      <4> DEFINE x == act.latest
      <4>1. /\ x.state = "ACTIVE" /\ x.key = l.key /\ x.kn = l.kn /\ x.an = l.an
            /\ x.origin = l.origin /\ x.rx_installed = l.rx_installed
            /\ x.tx_installed = l.tx_installed /\ x.peer_rx = l.peer_rx
            /\ x.peer_tx = l.peer_tx
        BY <2>3, <2>6 DEF SakRec
      <4> HIDE DEF x
      <4>2. LatestOK(x)
        BY <2>2, <2>3, <2>12, <4>1 DEF LatestOK, Held
      <4>3. SameKey(m.latest, x)
        BY <2>2, <2>3, <4>1 DEF SameKey, Held
      <4> QED
        BY <4>1, <4>2, <4>3 DEF x
    <3>3. r.ret = "OK" /\ r.m = act
      BY <2>9, <2>12, <3>1 DEF R
    <3>4. Good(act)
      BY <2>6, <3>2 DEF RetireJustified
    <3> QED
      BY <2>2, <3>3, <3>4, LatestReplaced
  <2>13. CASE ~(p.use.rx /\ p.use.tx) /\ m.latest.state # "CONFIRMED"
    <3>1. r.ret = "OK" /\ r.m = noted
      BY <2>9, <2>13 DEF R
    <3>2. Good(noted)
      BY <1>1, <2>2, <2>3, <2>4, <2>13 DEF LatestOK, Held, SameKey, RetireJustified
    <3> QED
      BY <2>2, <3>1, <3>2, LatestReplaced
  <2> QED
    BY <2>10, <2>11, <2>12, <2>13
<1> QED
  BY <1>2, <1>3

-----------------------------------------------------------------------------
(* A whole MKPDU *)

\* What no received MKPDU changes.
SameIdentity(m, n) ==
    /\ n.sci = m.sci /\ n.mi = m.mi /\ n.prio = m.prio /\ n.local_mn = m.local_mn
    /\ n.next_kn = m.next_kn /\ n.next_an = m.next_an /\ n.since_tx = m.since_tx
    /\ m.tx_reasons \subseteq n.tx_reasons

\* What may stand in latest_sak instead of the key that was there.
Replacement(m, p, k, l) ==
    \/ l = NoSak
    \/ l = Received(p) /\ p.dist.has = "dist" /\ p.dist.kn # 0
    \/ l = Generated(m, k)

SlotsStep(m, n, p, k) ==
    \/ SameKey(m.latest, n.latest) /\ n.old = m.old
    \/ Replacement(m, p, k, n.latest) /\ OldAfter(m, n.old)

\* The participant n that an MKPDU made of m, up to the events it raised.
InputStep(m, n, p, k) ==
    /\ MkaOK(n) /\ SameIdentity(m, n) /\ SlotsStep(m, n, p, k)
    /\ n.latest.state # "DISTRIBUTED"

LEMMA ReplacementOK ==
    ASSUME NEW m \in MkaCtx, m.next_kn # 0, NEW p \in MkpduRec, NEW k \in Key \cup {NoKey},
           NEW l, Replacement(m, p, k, l)
    PROVE  ~Held(l) /\ l.state # "DISTRIBUTED" /\ l \in SakRec /\ LatestOK(l)
<1>1. CASE l = NoSak
  BY <1>1, NoSakOK DEF Held, NoSak
<1>2. CASE l = Received(p) /\ p.dist.has = "dist" /\ p.dist.kn # 0
  BY <1>2, ReceivedOK DEF Held
<1>3. CASE l = Generated(m, k)
  BY <1>3, GeneratedOK DEF Held
<1> QED
  BY <1>1, <1>2, <1>3 DEF Replacement

\* latest_sak may make room twice: for the received key and for the one the
\* new Key Server draws instead.
LEMMA RekeyAfterStep ==
    ASSUME NEW m \in MkaCtx, m.next_kn # 0, NEW p \in MkpduRec, NEW k \in Key \cup {NoKey},
           NEW e, SlotsStep(m, e, p, k), e.next_kn = m.next_kn, e.next_an = m.next_an,
           NEW n, OldAfter(e, n.old), Rekeyed(e, k, n.latest)
    PROVE  SlotsStep(m, n, p, k) /\ n.latest.state # "DISTRIBUTED" /\ ~Held(n.latest)
<1>1. Generated(e, k) = Generated(m, k)
  BY DEF Generated, GeneratedSak
<1>2. Replacement(m, p, k, n.latest)
  BY <1>1 DEF Rekeyed, Replacement
<1>3. OldAfter(m, n.old)
  <2>1. CASE SameKey(m.latest, e.latest) /\ e.old = m.old
    BY <2>1 DEF OldAfter, SameKey, Held
  <2>2. CASE Replacement(m, p, k, e.latest) /\ OldAfter(m, e.old)
    BY <2>2, ReplacementOK DEF OldAfter
  <2> QED
    BY <2>1, <2>2 DEF SlotsStep
<1> QED
  BY <1>2, <1>3, ReplacementOK DEF SlotsStep

LEMMA DistributionStep ==
    ASSUME NEW m, MkaOK(m), m.latest.state # "DISTRIBUTED",
           NEW p \in MkpduRec, NEW k \in Key \cup {NoKey},
           NEW r, r = ParseDistributedSak(m, p)
    PROVE  /\ InputStep(m, r.m, p, k) /\ SameButSlots(m, r.m)
           /\ r.ret \in {"OK", "NOT_READY", "BUFFER", "BUSY"}
           /\ r.m.latest = m.latest \/ r.m.latest.state = "CANDIDATE"
<1>1. MkaBase(m)
  BY DEF MkaOK
<1>2. CASE r.ret \in {"NOT_READY", "BUFFER", "BUSY"} /\ r.m = m
  BY <1>2 DEF InputStep, SameButSlots, SameIdentity, SlotsStep, SameKey
<1>3. CASE /\ r.ret = "OK" /\ p.dist.has = "dist" /\ p.dist.kn # 0
           /\ MkaBase(r.m) /\ SameButSlots(m, r.m)
           /\ r.m.latest = Received(p) /\ OldAfter(m, r.m.old)
           /\ r.m.tx_reasons = m.tx_reasons
  <2>1. r.m.latest.state = "CANDIDATE"
    BY <1>3, ReceivedOK
  <2>2. MkaOK(r.m) /\ SlotsStep(m, r.m, p, k) /\ SameIdentity(m, r.m)
    BY <1>3, <2>1 DEF MkaOK, OperationalHasKey, SlotsStep, Replacement, SameIdentity, SameButSlots
  <2> QED
    BY <1>3, <2>1, <2>2 DEF InputStep
<1> QED
  BY <1>1, <1>2, <1>3, ParseDistributedSakCases

LEMMA PeerStep ==
    ASSUME NEW m, MkaOK(m), NEW p \in MkpduRec, NEW k \in Key \cup {NoKey},
           NEW d, InputStep(m, d, p, k), SameButSlots(m, d),
           d.latest = m.latest \/ d.latest.state = "CANDIDATE",
           NEW n, n = Elect(UpdateLiveness(m, UpdatePeer(d, p), p))
    PROVE  /\ InputStep(m, n, p, k) /\ n.events = m.events
           /\ n.state = "OPERATIONAL" => ~PeerIdentityChanged(m, p)
<1>1. /\ MkaBase(n) /\ SameButPeer(d, n)
      /\ n.state = "OPERATIONAL" => m.state = "OPERATIONAL" /\ ~PeerIdentityChanged(m, p)
  BY PeerNoted DEF MkaOK, InputStep
<1>2. OperationalHasKey(n)
  BY <1>1 DEF MkaOK, OperationalHasKey, SameButPeer, Held
<1>3. SameIdentity(m, n) /\ SlotsStep(m, n, p, k) /\ n.events = m.events
      /\ n.latest.state # "DISTRIBUTED"
  BY <1>1 DEF InputStep, SameIdentity, SlotsStep, SameButPeer, SameButSlots
<1> QED
  BY <1>1, <1>2, <1>3 DEF InputStep, MkaOK

LEMMA RekeyStep ==
    ASSUME NEW m, MkaOK(m), NEW p \in MkpduRec, NEW k \in Key \cup {NoKey},
           NEW e, InputStep(m, e, p, k), e.state = "OPERATIONAL" => ~PeerIdentityChanged(m, p),
           NEW r, r = RekeyForNewPeer(m, e, p, k)
    PROVE  InputStep(m, r.m, p, k) /\ r.m.events = e.events /\ r.ret \in {"OK", "BUSY"}
<1>1. MkaBase(e) /\ m \in MkaCtx /\ m.next_kn # 0
  BY DEF InputStep, MkaOK, MkaBase
<1>2. CASE r.ret \in {"OK", "BUSY"} /\ r.m = e
  BY <1>2
<1>3. CASE /\ r.ret = "OK" /\ PeerIdentityChanged(m, p)
           /\ MkaBase(r.m) /\ SameButSlots(e, r.m)
           /\ OldAfter(e, r.m.old) /\ Rekeyed(e, k, r.m.latest)
           /\ e.tx_reasons \subseteq r.m.tx_reasons
  <2>1. SlotsStep(m, r.m, p, k) /\ r.m.latest.state # "DISTRIBUTED"
    BY <1>1, <1>3, RekeyAfterStep DEF InputStep, SameIdentity
  <2>2. MkaOK(r.m) /\ SameIdentity(m, r.m) /\ r.m.events = e.events
    BY <1>3 DEF MkaOK, OperationalHasKey, InputStep, SameIdentity, SameButSlots
  <2> QED
    BY <1>3, <2>1, <2>2 DEF InputStep
<1> QED
  BY <1>1, <1>2, <1>3, RekeyForNewPeerCases

LEMMA SakUseStep ==
    ASSUME NEW m, MkaOK(m), NEW p \in MkpduRec, NEW k \in Key \cup {NoKey},
           NEW e, InputStep(m, e, p, k), e.events = {},
           NEW r, r = ParseSakUse(e, p)
    PROVE  /\ InputStep(m, r.m, p, k) /\ r.ret \in {"OK", "NOT_READY", "BUFFER"}
           /\ r.ret = "BUFFER" => r.m.events = {}
           /\ r.m.events \subseteq {"SAK_RETIRE_REQUIRED"} /\ RetireJustified(r.m)
<1>1. MkaBase(e) /\ m \in MkaCtx /\ m.next_kn # 0 /\ e.latest.state # "DISTRIBUTED"
  BY DEF InputStep, MkaOK, MkaBase
<1>2. CASE r.ret \in {"NOT_READY", "BUFFER"} /\ r.m = e
  BY <1>2 DEF RetireJustified
<1>3. CASE /\ r.ret = "OK" /\ MkaBase(r.m) /\ SameButSakUse(e, r.m)
           /\ Held(e.latest) /\ SameKey(e.latest, r.m.latest)
           /\ r.m.events \subseteq {"SAK_RETIRE_REQUIRED"} /\ RetireJustified(r.m)
  <2>1. SameKey(m.latest, e.latest) /\ e.old = m.old
    BY <1>1, <1>3, ReplacementOK DEF InputStep, SlotsStep
  <2>2. Held(r.m.latest) /\ r.m.latest.state # "DISTRIBUTED"
    BY <1>3 DEF SameKey, Held
  <2>3. SlotsStep(m, r.m, p, k)
    BY <1>3, <2>1, <2>2 DEF SlotsStep, SameKey, Held, SameButSakUse
  <2>4. MkaOK(r.m) /\ SameIdentity(m, r.m)
    BY <1>3, <2>2 DEF MkaOK, OperationalHasKey, InputStep, SameIdentity, SameButSakUse
  <2> QED
    BY <1>3, <2>2, <2>3, <2>4 DEF InputStep
<1> QED
  BY <1>1, <1>2, <1>3, ParseSakUseCases

LEMMA RepliesStep ==
    ASSUME NEW m, NEW p \in MkpduRec, NEW k \in Key \cup {NoKey},
           NEW e, InputStep(m, e, p, k), RetireJustified(e),
           e.events \subseteq {"SAK_RETIRE_REQUIRED"},
           NEW n, n = ScheduleReplies(m, e, p)
    PROVE  /\ InputStep(m, n, p, k) /\ RetireJustified(n)
           /\ n.events \subseteq {"PEER_LOST", "SAK_RETIRE_REQUIRED"}
<1> DEFINE reasons == (IF PeerIdentityChanged(m, p) \/ m.peer.live # e.peer.live
                       THEN {"PEER_CHANGE"} ELSE {}) \cup
                      (IF m.local_key_server # e.local_key_server
                       THEN {"KEY_SERVER_CHANGE"} ELSE {})
           events == IF ~PeerIdentityChanged(m, p) /\ m.peer.live /\ ~e.peer.live
                     THEN {"PEER_LOST"} ELSE {}
           t == ScheduleTx(e, reasons)
<1>1. n = Raise(t, events)
  BY DEF ScheduleReplies
<1>2. reasons \in SUBSET TxReasons /\ events \subseteq {"PEER_LOST"}
  BY DEF TxReasons
<1> HIDE DEF reasons, events
<1>3. /\ MkaBase(t) /\ SameButSlots(e, t) /\ t.tx_reasons = e.tx_reasons \cup reasons
      /\ t.latest = e.latest /\ t.old = e.old
  BY <1>2, TxScheduled DEF InputStep, MkaOK
<1> HIDE DEF t
<1>4. /\ n \in MkaCtx /\ SameButSakUse(t, n) /\ n.latest = t.latest
      /\ n.events = t.events \cup events
  BY <1>1, <1>2, <1>3 DEF Raise, SameButSakUse, MkaBase, MkaCtx, Events
<1>5. MkaBase(n)
  BY <1>3, <1>4, LatestReplaced DEF MkaBase
<1>6. MkaOK(n) /\ SameIdentity(m, n) /\ SlotsStep(m, n, p, k)
      /\ n.latest.state # "DISTRIBUTED"
  BY <1>3, <1>4, <1>5 DEF InputStep, MkaOK, OperationalHasKey, SameIdentity, SlotsStep,
                          SameButSlots, SameButSakUse
<1>7. RetireJustified(n) /\ n.events \subseteq {"PEER_LOST", "SAK_RETIRE_REQUIRED"}
  BY <1>2, <1>3, <1>4 DEF RetireJustified, SameButSlots, SameButSakUse
<1> QED
  BY <1>6, <1>7 DEF InputStep

\* macsec_mka_input between two calls: whatever the MKPDU, the participant
\* stays sound, no illegal transition is attempted, and a call that fails
\* raises no event (mka.c 1530-1835).
LEMMA MkaInputStep ==
    ASSUME NEW m, MkaOK(m), m.events = {}, m.latest.state # "DISTRIBUTED",
           NEW p \in MkpduRec, NEW k \in Key \cup {NoKey},
           NEW r, r = MkaInput(m, p, k)
    PROVE  /\ InputStep(m, r.m, p, k) /\ RetireJustified(r.m)
           /\ r.m.events \subseteq {"PEER_LOST", "SAK_RETIRE_REQUIRED"}
           /\ r.ret # "OK" => r.m.events = {}
           /\ r.ret \in {"OK", "BUFFER", "AUTH", "BUSY"}
<1> DEFINE d == ParseDistributedSak(m, p)
           e == Elect(UpdateLiveness(m, UpdatePeer(d.m, p), p))
           f == RekeyForNewPeer(m, e, p, k)
           u == ParseSakUse(f.m, p)
           n == ScheduleReplies(m, u.m, p)
           Good == /\ InputStep(m, r.m, p, k) /\ RetireJustified(r.m)
                   /\ r.m.events \subseteq {"PEER_LOST", "SAK_RETIRE_REQUIRED"}
                   /\ r.ret # "OK" => r.m.events = {}
                   /\ r.ret \in {"OK", "BUFFER", "AUTH", "BUSY"}
<1>1. InputStep(m, m, p, k) /\ RetireJustified(m)
  BY DEF InputStep, SameIdentity, SlotsStep, SameKey, RetireJustified
<1>2. CASE ~p.wellformed \/ OwnFrame(m, p) \/ (m.keyed /\ ~p.auth)
  <2>1. r.m = m /\ r.ret \in {"OK", "BUFFER", "AUTH"}
    BY <1>2 DEF MkaInput, R
  <2> QED
    BY <1>1, <2>1
<1>3. CASE p.wellformed /\ ~OwnFrame(m, p) /\ ~(m.keyed /\ ~p.auth)
  <2>1. r = IF d.ret \notin {"OK", "NOT_READY"} THEN d
            ELSE IF f.ret \notin {"OK", "BUSY"} THEN f
            ELSE IF u.ret \notin {"OK", "NOT_READY"} THEN u
            ELSE R("OK", n)
    BY <1>3 DEF MkaInput, AcceptMkpdu, NotePeer, NoteSakUse, FinishInput
  <2>2. /\ InputStep(m, d.m, p, k) /\ SameButSlots(m, d.m)
        /\ d.ret \in {"OK", "NOT_READY", "BUFFER", "BUSY"}
        /\ d.m.latest = m.latest \/ d.m.latest.state = "CANDIDATE"
    BY DistributionStep
  <2> HIDE DEF d
  <2>3. InputStep(m, e, p, k) /\ e.events = {}
        /\ (e.state = "OPERATIONAL" => ~PeerIdentityChanged(m, p))
    BY <2>2, PeerStep
  <2> HIDE DEF e
  <2>4. InputStep(m, f.m, p, k) /\ f.m.events = {} /\ f.ret \in {"OK", "BUSY"}
    BY <2>3, RekeyStep
  <2> HIDE DEF f
  <2>5. /\ InputStep(m, u.m, p, k) /\ u.ret \in {"OK", "NOT_READY", "BUFFER"}
        /\ u.ret = "BUFFER" => u.m.events = {}
        /\ u.m.events \subseteq {"SAK_RETIRE_REQUIRED"} /\ RetireJustified(u.m)
    BY <2>4, SakUseStep
  <2> HIDE DEF u
  <2>6. InputStep(m, n, p, k) /\ RetireJustified(n)
        /\ n.events \subseteq {"PEER_LOST", "SAK_RETIRE_REQUIRED"}
    BY <2>5, RepliesStep
  <2> HIDE DEF n
  <2>7. CASE r = d /\ d.ret \in {"BUFFER", "BUSY"}
    BY <2>2, <2>7 DEF SameButSlots, RetireJustified
  <2>8. CASE r = u /\ u.ret = "BUFFER"
    BY <2>5, <2>8
  <2>9. CASE r = R("OK", n)
    BY <2>6, <2>9 DEF R
  <2> QED
    BY <2>1, <2>2, <2>4, <2>5, <2>7, <2>8, <2>9
<1> QED
  BY <1>2, <1>3

\* An MKPDU that is accepted names the peer, one that is not changes nothing
\* about it (mka.c 1598-1663).
SamePeer(m, n) == n.peer.mi = m.peer.mi /\ n.peer.sci = m.peer.sci /\ n.peer.prio = m.peer.prio

PeerKept(m, n) == n.peer.valid => m.peer.valid /\ SamePeer(m, n)

SentBy(m, p) == m.peer.valid /\ m.peer.mi = p.mi /\ m.peer.sci = p.sci /\ m.peer.prio = p.prio

LEMMA MkaInputPeer ==
    ASSUME NEW m, MkaOK(m), m.events = {}, m.latest.state # "DISTRIBUTED",
           NEW p \in MkpduRec, NEW k \in Key \cup {NoKey},
           NEW r, r = MkaInput(m, p, k)
    PROVE  r.m.peer = m.peer \/ SentBy(r.m, p)
<1> DEFINE d == ParseDistributedSak(m, p)
           e == Elect(UpdateLiveness(m, UpdatePeer(d.m, p), p))
           f == RekeyForNewPeer(m, e, p, k)
           u == ParseSakUse(f.m, p)
           n == ScheduleReplies(m, u.m, p)
<1>1. CASE ~p.wellformed \/ OwnFrame(m, p) \/ (m.keyed /\ ~p.auth)
  BY <1>1 DEF MkaInput, R
<1>2. CASE p.wellformed /\ ~OwnFrame(m, p) /\ ~(m.keyed /\ ~p.auth)
  <2>1. r = IF d.ret \notin {"OK", "NOT_READY"} THEN d
            ELSE IF f.ret \notin {"OK", "BUSY"} THEN f
            ELSE IF u.ret \notin {"OK", "NOT_READY"} THEN u
            ELSE R("OK", n)
    BY <1>2 DEF MkaInput, AcceptMkpdu, NotePeer, NoteSakUse, FinishInput
  <2>2. /\ InputStep(m, d.m, p, k) /\ SameButSlots(m, d.m)
        /\ d.m.latest = m.latest \/ d.m.latest.state = "CANDIDATE"
    BY DistributionStep
  <2> HIDE DEF d
  <2>3. InputStep(m, e, p, k) /\ e.events = {} /\ SentBy(e, p)
        /\ (e.state = "OPERATIONAL" => ~PeerIdentityChanged(m, p))
    BY <2>2, PeerStep, PeerNoted DEF InputStep, MkaOK, SentBy
  <2> HIDE DEF e
  <2>4. InputStep(m, f.m, p, k) /\ f.m.events = {} /\ f.ret \in {"OK", "BUSY"}
    BY <2>3, RekeyStep
  <2>5. SentBy(f.m, p)
    BY <2>3, RekeyForNewPeerCases DEF InputStep, MkaOK, SameButSlots, SentBy
  <2> HIDE DEF f
  <2>6. u.m \in MkaCtx /\ SentBy(u.m, p)
    <3>1. InputStep(m, u.m, p, k)
      BY <2>4, SakUseStep
    <3>2. u.m = f.m \/ SameButSakUse(f.m, u.m)
      BY <2>4, ParseSakUseCases DEF InputStep, MkaOK
    <3> QED
      BY <2>5, <3>1, <3>2 DEF InputStep, MkaOK, MkaBase, SameButSakUse, SentBy
  <2> HIDE DEF u
  <2>7. n.peer = u.m.peer
    BY <2>6 DEF ScheduleReplies, ScheduleTx, Raise, MkaCtx
  <2> HIDE DEF n
  <2> QED
    BY <2>1, <2>2, <2>4, <2>5, <2>6, <2>7 DEF SameButSlots, SentBy, R
<1> QED
  BY <1>1, <1>2

\* What the SAK Use of an MKPDU says when its sender uses a key in both directions.
Claims(p) == p.use.has = "use" /\ p.use.tx /\ p.use.rx

\* Retirement is asked for on one word only: that the peer receives and sends
\* with latest_sak's association (mka.c 1421-1444).
LEMMA ParseSakUseClaims ==
    ASSUME NEW m, MkaBase(m), m.events = {}, NEW p \in MkpduRec,
           NEW r, r = ParseSakUse(m, p), "SAK_RETIRE_REQUIRED" \in r.m.events
    PROVE  Claims(p) /\ p.use.an = m.latest.an /\ Scanned(p) /\ UseNamesLatest(m, p.use)
<1> DEFINE noted == [m EXCEPT !.latest.peer_tx = p.use.tx, !.latest.peer_rx = p.use.rx]
           act == SetSakState(noted, "latest", "ACTIVE")
<1>1. m \in MkaCtx /\ p.use.has \in {"none", "bad", "use"}
  BY DEF MkaBase, MkpduRec, UseRec
<1>2. noted.events = {} /\ noted \in [DOMAIN m -> {noted[f] : f \in DOMAIN m}]
      /\ "latest" \in DOMAIN noted /\ "events" \in DOMAIN noted /\ "state" \in DOMAIN noted
  BY <1>1 DEF MkaCtx
<1>3. r.m # m
  OBVIOUS
<1>4. /\ Scanned(p) /\ p.use.has = "use" /\ UseNamesLatest(m, p.use)
      /\ \/ p.use.rx /\ p.use.tx
         \/ r = R("OK", act)
         \/ r = R("OK", noted)
  BY <1>1, <1>3 DEF ParseSakUse, R
<1> HIDE DEF noted
<1>5. act.events = {}
  BY <1>2 DEF SetSakState, SetState
<1> HIDE DEF act
<1> QED
  BY <1>2, <1>4, <1>5 DEF Claims, UseNamesLatest, R

\* The MKPDU p that made r of m was accepted as its sender's word that it uses
\* latest_sak in both directions.
Confirmation(m, r, p) ==
    /\ r.ret = "OK" /\ ~OwnFrame(m, p) /\ Claims(p) /\ Scanned(p)
    /\ UseNamesLatest(r.m, p.use) /\ SentBy(r.m, p)

\* What an MKPDU did to the SAK slots, with the reason for it: a new key comes
\* from a Distributed SAK, a rekey is the Key Server's.
InputMoves(m, n, p, k) ==
    \/ SameKey(m.latest, n.latest) /\ n.old = m.old
    \/ /\ n.latest = Received(p) /\ p.dist.has = "dist" /\ p.dist.kn # 0 /\ ~SameSak(m, p)
       /\ OldAfter(m, n.old)
    \/ /\ n.latest \in {NoSak, Generated(m, k)} /\ OldAfter(m, n.old)
       /\ n.local_key_server /\ n.peer.valid

SlotsKept(m, n) == n.latest = m.latest /\ n.old = m.old

LEMMA RekeyMoves ==
    ASSUME NEW m, NEW e, MkaBase(e), e.peer.valid, NEW p \in MkpduRec, NEW k \in Key \cup {NoKey},
           MkaBase(m), InputMoves(m, e, p, k), e.next_kn = m.next_kn, e.next_an = m.next_an,
           NEW r, r = RekeyForNewPeer(m, e, p, k)
    PROVE  InputMoves(m, r.m, p, k)
<1>1. m \in MkaCtx /\ m.next_kn # 0
  BY DEF MkaBase
<1>2. CASE r.m = e
  BY <1>2
<1>3. CASE r.m # e
  <2>1. e.local_key_server
    BY <1>3 DEF RekeyForNewPeer, R
  <2>2. SameButSlots(e, r.m) /\ OldAfter(e, r.m.old) /\ Rekeyed(e, k, r.m.latest)
    BY <1>3, RekeyForNewPeerCases
  <2>3. Generated(e, k) = Generated(m, k)
    BY DEF Generated, GeneratedSak
  <2>4. r.m.latest \in {NoSak, Generated(m, k)}
    BY <2>2, <2>3 DEF Rekeyed
  <2>5. OldAfter(m, r.m.old)
    <3>1. CASE SameKey(m.latest, e.latest) /\ e.old = m.old
      BY <2>2, <3>1 DEF OldAfter, SameKey, Held
    <3>2. CASE Replacement(m, p, k, e.latest) /\ OldAfter(m, e.old)
      BY <1>1, <2>2, <3>2, ReplacementOK DEF OldAfter
    <3> QED
      BY <3>1, <3>2 DEF InputMoves, Replacement
  <2> QED
    BY <2>1, <2>2, <2>4, <2>5 DEF InputMoves, SameButSlots
<1> QED
  BY <1>2, <1>3

\* macsec_mka_input once more: where the slots' new contents come from, that a
\* call that fails leaves them alone unless it fails on the SAK Use itself,
\* and on whose word the old SAK is to go (mka.c 1530-1835).
LEMMA MkaInputMoves ==
    ASSUME NEW m, MkaOK(m), m.events = {}, m.latest.state # "DISTRIBUTED",
           NEW p \in MkpduRec, NEW k \in Key \cup {NoKey},
           NEW r, r = MkaInput(m, p, k)
    PROVE  /\ InputMoves(m, r.m, p, k)
           /\ p.use.has # "bad" /\ r.ret # "OK" => SlotsKept(m, r.m)
           /\ "SAK_RETIRE_REQUIRED" \in r.m.events =>
                 p.use.an = r.m.latest.an /\ Confirmation(m, r, p)
<1> DEFINE d == ParseDistributedSak(m, p)
           e == Elect(UpdateLiveness(m, UpdatePeer(d.m, p), p))
           f == RekeyForNewPeer(m, e, p, k)
           u == ParseSakUse(f.m, p)
           n == ScheduleReplies(m, u.m, p)
<1>1. CASE ~p.wellformed \/ OwnFrame(m, p) \/ (m.keyed /\ ~p.auth)
  <2>1. r.m = m
    BY <1>1 DEF MkaInput, R
  <2> QED
    BY <2>1 DEF InputMoves, SameKey, SlotsKept
<1>2. CASE p.wellformed /\ ~OwnFrame(m, p) /\ ~(m.keyed /\ ~p.auth)
  <2>1. r = IF d.ret \notin {"OK", "NOT_READY"} THEN d
            ELSE IF f.ret \notin {"OK", "BUSY"} THEN f
            ELSE IF u.ret \notin {"OK", "NOT_READY"} THEN u
            ELSE R("OK", n)
    BY <1>2 DEF MkaInput, AcceptMkpdu, NotePeer, NoteSakUse, FinishInput
  <2>2. /\ InputStep(m, d.m, p, k) /\ SameButSlots(m, d.m)
        /\ d.m.latest = m.latest \/ d.m.latest.state = "CANDIDATE"
        /\ d.ret \in {"OK", "NOT_READY", "BUFFER", "BUSY"}
    BY DistributionStep
  <2>3. \/ d.m = m
        \/ /\ d.ret = "OK" /\ p.dist.has = "dist" /\ p.dist.kn # 0 /\ ~SameSak(m, p)
           /\ d.m.latest = Received(p) /\ OldAfter(m, d.m.old)
    BY ParseDistributedSakCases DEF MkaOK
  <2> HIDE DEF d
  <2>4. InputStep(m, e, p, k) /\ e.events = {} /\ SentBy(e, p) /\ SameButPeer(d.m, e)
        /\ (e.state = "OPERATIONAL" => ~PeerIdentityChanged(m, p))
    BY <2>2, PeerStep, PeerNoted DEF InputStep, MkaOK, SentBy
  <2> HIDE DEF e
  <2>5. InputMoves(m, e, p, k) /\ e.peer.valid
    BY <2>3, <2>4 DEF InputMoves, SameKey, SameButPeer, SentBy
  <2>6. InputStep(m, f.m, p, k) /\ f.m.events = {} /\ f.ret \in {"OK", "BUSY"}
    BY <2>4, RekeyStep
  <2>7. InputMoves(m, f.m, p, k)
    BY <2>4, <2>5, RekeyMoves DEF InputStep, MkaOK, SameIdentity
  <2>17. SentBy(f.m, p)
    <3>1. MkaBase(e)
      BY <2>4 DEF InputStep, MkaOK
    <3>2. f.m = e \/ SameButSlots(e, f.m)
      BY <3>1, RekeyForNewPeerCases
    <3> QED
      BY <2>4, <3>2 DEF SameButSlots, SentBy
  <2> HIDE DEF f
  <2>8. /\ InputStep(m, u.m, p, k) /\ u.ret \in {"OK", "NOT_READY", "BUFFER"}
        /\ u.ret = "BUFFER" => u.m.events = {}
        /\ u.m.events \subseteq {"SAK_RETIRE_REQUIRED"}
    BY <2>6, SakUseStep
  <2>9. \/ u.m = f.m
        \/ /\ SameButSakUse(f.m, u.m) /\ Held(f.m.latest) /\ SameKey(f.m.latest, u.m.latest)
    BY <2>6, ParseSakUseCases DEF InputStep, MkaOK
  <2>10. InputMoves(m, u.m, p, k)
    <3>1. CASE u.m = f.m
      BY <2>7, <3>1
    <3>2. CASE SameButSakUse(f.m, u.m) /\ Held(f.m.latest) /\ SameKey(f.m.latest, u.m.latest)
      <4>1. SameKey(m.latest, f.m.latest) /\ f.m.old = m.old
        BY <2>6, <3>2, ReplacementOK DEF InputStep, SlotsStep, MkaOK, MkaBase
      <4>2. SameKey(m.latest, u.m.latest) /\ u.m.old = m.old
        BY <3>2, <4>1 DEF SameKey, SameButSakUse, Held
      <4> QED
        BY <4>2 DEF InputMoves
    <3> QED
      BY <2>9, <3>1, <3>2
  <2>11. "SAK_RETIRE_REQUIRED" \in u.m.events =>
            /\ Claims(p) /\ p.use.an = u.m.latest.an /\ Scanned(p)
            /\ UseNamesLatest(u.m, p.use) /\ SentBy(u.m, p)
    <3> SUFFICES ASSUME "SAK_RETIRE_REQUIRED" \in u.m.events
                 PROVE  /\ Claims(p) /\ p.use.an = u.m.latest.an /\ Scanned(p)
                        /\ UseNamesLatest(u.m, p.use) /\ SentBy(u.m, p)
      OBVIOUS
    <3>1. Claims(p) /\ p.use.an = f.m.latest.an /\ Scanned(p) /\ UseNamesLatest(f.m, p.use)
      BY <2>6, ParseSakUseClaims DEF InputStep, MkaOK
    <3>2. /\ SameButSakUse(f.m, u.m) /\ Held(f.m.latest) /\ SameKey(f.m.latest, u.m.latest)
      BY <2>6, <2>9
    <3>3. UseNamesLatest(u.m, p.use) /\ p.use.an = u.m.latest.an
      BY <3>1, <3>2 DEF UseNamesLatest, SameButSakUse, SameKey, Held
    <3>4. SentBy(u.m, p)
      BY <2>17, <3>2 DEF SentBy, SameButSakUse
    <3> QED
      BY <3>1, <3>3, <3>4
  <2>12. u.ret = "BUFFER" => p.use.has = "bad"
    BY DEF ParseSakUse, R
  <2> HIDE DEF u
  <2>13. /\ n.latest = u.m.latest /\ n.old = u.m.old /\ n.peer = u.m.peer /\ n.mi = u.m.mi
         /\ n.local_key_server = u.m.local_key_server
         /\ "SAK_RETIRE_REQUIRED" \in n.events => "SAK_RETIRE_REQUIRED" \in u.m.events
    BY <2>8 DEF ScheduleReplies, ScheduleTx, Raise, InputStep, MkaOK, MkaBase, MkaCtx
  <2> HIDE DEF n
  <2>14. CASE r = d /\ d.ret \in {"BUFFER", "BUSY"}
    BY <2>2, <2>3, <2>14 DEF SlotsKept, InputMoves, SameKey, SameButSlots
  <2>15. CASE r = u /\ u.ret = "BUFFER"
    BY <2>8, <2>10, <2>12, <2>15
  <2>16. CASE r = R("OK", n)
    <3>1. r.ret = "OK" /\ r.m = n
      BY <2>16 DEF R
    <3>2. InputMoves(m, n, p, k)
      BY <2>10, <2>13 DEF InputMoves
    <3>3. ASSUME "SAK_RETIRE_REQUIRED" \in n.events
          PROVE  p.use.an = r.m.latest.an /\ Confirmation(m, r, p)
      <4>1. /\ Claims(p) /\ p.use.an = u.m.latest.an /\ Scanned(p)
            /\ UseNamesLatest(u.m, p.use) /\ SentBy(u.m, p)
        BY <2>11, <2>13, <3>3
      <4>2. UseNamesLatest(n, p.use) /\ SentBy(n, p)
        BY <2>13, <4>1 DEF UseNamesLatest, SentBy
      <4> QED
        BY <1>2, <2>13, <3>1, <4>1, <4>2 DEF Confirmation
    <3> QED
      BY <3>1, <3>2, <3>3
  <2> QED
    BY <2>1, <2>2, <2>6, <2>8, <2>14, <2>15, <2>16
<1> QED
  BY <1>1, <1>2

\* A key is drawn only by the Key Server, for a peer (mka.c 2157-2215).
LEMMA BuildTxFrameServer ==
    ASSUME NEW m, MkaOK(m), NEW k \in Key \cup {NoKey}, NEW r, r = BuildTxFrame(m, k),
           r.m # m
    PROVE  m.local_key_server /\ m.peer.valid
BY DEF BuildTxFrame, R, MkaOK, MkaBase

-----------------------------------------------------------------------------
(* The clock, and reports of transmission *)

LEMMA MkaInitOK ==
    ASSUME NEW sci \in Nat, NEW mi \in Nat, NEW prio \in Nat,
           NEW n, n = MkaInit(sci, mi, prio)
    PROVE  /\ MkaOK(n) /\ n.latest = NoSak /\ n.old = NoSak /\ n.events = {}
           /\ n.sci = sci /\ n.mi = mi /\ n.prio = prio /\ n.next_an = 0
           /\ n.tx_reasons = {"INITIAL"} /\ ~n.peer.valid
<1> DEFINE x1 == [ZeroMka EXCEPT !.keyed = TRUE, !.sci = sci, !.mi = mi]
           x2 == [x1 EXCEPT !.prio = prio, !.local_key_server = TRUE]
           m0 == [x2 EXCEPT !.local_mn = 1, !.next_kn = 1]
           m1 == SetState(m0, "WAIT_PEER")
           Fresh(x) == /\ x \in MkaCtx /\ x.state = "INIT" /\ x.peer = NoPeer
                       /\ x.latest = NoSak /\ x.old = NoSak /\ x.next_an = 0
                       /\ x.events = {} /\ x.tx_reasons = {}
<1>1. n = ScheduleTx(m1, {"INITIAL"})
  BY DEF MkaInit
<1>2. Fresh(m0) /\ m0.keyed /\ m0.sci = sci /\ m0.mi = mi /\ m0.prio = prio
      /\ m0.next_kn = 1 /\ m0.local_mn = 1
  <2>1. Fresh(ZeroMka)
    BY NoSakOK, MkaAssumption
       DEF ZeroMka, MkaCtx, MkaStates, NoPeer, PeerRec, NoMI, PeerTimeout, MkaAN, MkaMaxSA
  <2>2. Fresh(x1) /\ x1.keyed /\ x1.sci = sci /\ x1.mi = mi
    <3> HIDE DEF ZeroMka
    <3> QED
      BY <2>1 DEF MkaCtx
  <2> HIDE DEF x1
  <2>3. Fresh(x2) /\ x2.keyed /\ x2.sci = sci /\ x2.mi = mi /\ x2.prio = prio
    BY <2>2 DEF MkaCtx
  <2> HIDE DEF x2
  <2>4. 1 \in 0 .. MnMax /\ 1 \in 0 .. KnMax
    BY MkaAssumption
  <2> QED
    BY <2>3, <2>4 DEF MkaCtx
<1> HIDE DEF m0, m1
<1>4. /\ m1 \in MkaCtx /\ m1.state = "WAIT_PEER" /\ SameButPeer(m0, m1) /\ m1.peer = NoPeer
  BY <1>2, StateSet DEF StateMoves, MkaStates, m1
<1>5. MkaBase(m1)
  BY <1>2, <1>4, NoSakOK DEF MkaBase, PeerMatches, Elected, NoPeer, SameButPeer
<1>6. /\ MkaBase(n) /\ SameButSlots(m1, n) /\ n.tx_reasons = m1.tx_reasons \cup {"INITIAL"}
      /\ n.latest = m1.latest /\ n.old = m1.old
  BY <1>1, <1>5, TxScheduled DEF TxReasons
<1> QED
  BY <1>2, <1>4, <1>6 DEF MkaOK, OperationalHasKey, SameButPeer, SameButSlots, NoPeer

\* What the clock leaves alone.
SameButClock(m, n) ==
    /\ n.keyed = m.keyed /\ n.sci = m.sci /\ n.mi = m.mi /\ n.prio = m.prio
    /\ n.local_key_server = m.local_key_server
    /\ n.latest = m.latest /\ n.old = m.old /\ n.local_mn = m.local_mn
    /\ n.next_kn = m.next_kn /\ n.next_an = m.next_an

\* macsec_mka_tick: a peer that was silent too long is forgotten, and with it
\* the state that named it (mka.c 1837-1919).
LEMMA MkaTickStep ==
    ASSUME NEW m, MkaOK(m), NEW d \in Nat, NEW n, n = MkaTick(m, d)
    PROVE  /\ MkaOK(n) /\ SameButClock(m, n) /\ m.tx_reasons \subseteq n.tx_reasons
           /\ n.events \subseteq m.events \cup {"PEER_LOST"}
           /\ PeerKept(m, n)
<1> DEFINE a == Age(m, d)
           gone == [a EXCEPT !.peer.valid = FALSE, !.peer.live = FALSE]
           w == SetState(gone, "WAIT_PEER")
           raised == Raise(w, {"PEER_LOST"})
           lost == ScheduleTx(raised, {"PEER_CHANGE"})
           e == ExpirePeer(a)
           idle == Older(m.peer.idle, d, PeerTimeout)
           since == Older(m.since_tx, d, 1)
           Good(x) == /\ MkaOK(x) /\ SameButClock(m, x) /\ m.tx_reasons \subseteq x.tx_reasons
                      /\ x.events \subseteq m.events \cup {"PEER_LOST"}
                      /\ PeerKept(m, x)
<1>1. m \in MkaCtx /\ m.peer \in PeerRec /\ LatestOK(m.latest) /\ OldOK(m.old)
      /\ m.next_kn # 0 /\ m.keyed
  BY DEF MkaOK, MkaBase, MkaCtx
<1>2. idle \in 0 .. PeerTimeout /\ since \in {Never, 0, 1}
  <2>1. m.peer.idle \in 0 .. 3 /\ m.since_tx \in {-1, 0, 1}
    BY <1>1 DEF PeerRec, MkaCtx, PeerTimeout, Never
  <2> QED
    BY <2>1 DEF Older, Never, PeerTimeout
<1>3. /\ a \in MkaCtx /\ SameButClock(m, a) /\ a.state = m.state /\ a.tx_reasons = m.tx_reasons
      /\ a.events = m.events /\ a.peer.valid = m.peer.valid /\ a.peer.live = m.peer.live
      /\ a.peer.prio = m.peer.prio /\ a.peer.sci = m.peer.sci /\ a.peer.mi = m.peer.mi
  <2>1. a = [m EXCEPT !.peer.idle = idle, !.since_tx = since]
    BY <1>1 DEF Age, MkaCtx, PeerRec
  <2> HIDE DEF a, idle, since
  <2> QED
    BY <1>1, <1>2, <2>1 DEF MkaCtx, PeerRec, SameButClock
<1>4. Good(a)
  BY <1>1, <1>3 DEF MkaOK, MkaBase, PeerMatches, Elected, LocalWinsKeyServer,
                    OperationalHasKey, SameButClock, SamePeer, PeerKept
<1>5. n = SchedulePeriodic(e)
  BY DEF MkaTick
<1> HIDE DEF a
<1>6. Good(e)
  <2>1. CASE ~(a.peer.valid /\ a.peer.idle >= PeerTimeout)
    <3>1. e = a
      BY <2>1 DEF ExpirePeer
    <3> QED
      BY <1>4, <3>1
  <2>2. CASE a.peer.valid /\ a.peer.idle >= PeerTimeout
    <3>1. e = lost
      BY <2>2 DEF ExpirePeer
    <3>2. /\ gone \in MkaCtx /\ SameButPeer(a, gone) /\ gone.state = a.state
          /\ ~gone.peer.valid /\ ~gone.peer.live
          /\ gone.local_key_server = a.local_key_server
      BY <1>3 DEF MkaCtx, PeerRec, SameButPeer
    <3>3. gone.state \in {"PEER_DISCOVERED", "PEER_LIVE", "OPERATIONAL"}
      BY <1>4, <2>2, <3>2 DEF MkaOK, MkaBase, PeerMatches
    <3> HIDE DEF gone, e
    <3>4. /\ w \in MkaCtx /\ w.state = "WAIT_PEER" /\ SameButPeer(gone, w) /\ w.peer = gone.peer
          /\ w.local_key_server = gone.local_key_server
      BY <3>2, <3>3, StateSet DEF StateMoves, MkaStates
    <3>5. MkaBase(w)
      BY <1>3, <1>4, <3>2, <3>4 DEF MkaOK, MkaBase, PeerMatches, Elected, SameButPeer
    <3> HIDE DEF w
    <3>6. /\ raised \in MkaCtx /\ SameButSakUse(w, raised) /\ raised.latest = w.latest
          /\ raised.events = w.events \cup {"PEER_LOST"}
      BY <3>4 DEF MkaCtx, Raise, SameButSakUse, Events
    <3>7. MkaBase(raised)
      BY <3>5, <3>6, LatestReplaced DEF MkaBase
    <3> HIDE DEF raised
    <3>8. /\ MkaBase(e) /\ SameButSlots(raised, e) /\ e.latest = raised.latest
          /\ e.old = raised.old /\ e.tx_reasons = raised.tx_reasons \cup {"PEER_CHANGE"}
      BY <3>1, <3>7, TxScheduled DEF TxReasons
    <3> QED
      BY <1>3, <3>2, <3>4, <3>6, <3>8 DEF MkaOK, OperationalHasKey, SameButClock, SameButPeer,
                                          SameButSlots, SameButSakUse, PeerKept
  <2> QED
    BY <2>1, <2>2
<1> HIDE DEF e
<1>7. CASE n = e
  BY <1>6, <1>7
<1>8. ASSUME NEW t \in {{"INITIAL"}, {"PERIODIC"}}, n = ScheduleTx(e, t)
      PROVE  Good(n)
  <2>1. MkaBase(n) /\ SameButSlots(e, n) /\ n.latest = e.latest /\ n.old = e.old
        /\ n.tx_reasons = e.tx_reasons \cup t
    BY <1>6, <1>8, TxScheduled DEF MkaOK, TxReasons
  <2> QED
    BY <1>6, <2>1 DEF MkaOK, OperationalHasKey, SameButClock, SameButSlots, SamePeer,
                           PeerKept
<1> QED
  BY <1>5, <1>7, <1>8 DEF SchedulePeriodic

\* macsec_mka_build_tx_frame draws a key where there is none and changes
\* nothing else (mka.c 2157-2215).
LEMMA BuildTxFrameCases ==
    ASSUME NEW m, MkaOK(m), NEW k \in Key \cup {NoKey}, NEW r, r = BuildTxFrame(m, k)
    PROVE  /\ r.ret \in {"OK", "STATE", "NOT_READY"} /\ MkaOK(r.m)
           /\ r.ret = "OK" => r.m.tx_reasons # {}
           /\ \/ r.m = m
              \/ /\ r.ret = "OK" /\ m.latest.state = "NONE"
                 /\ SameButSlots(m, r.m) /\ r.m.latest = Generated(m, k) /\ r.m.old = m.old
                 /\ r.m.tx_reasons = m.tx_reasons \cup {"DISTRIBUTE_SAK"}
<1>1. CASE m.tx_reasons = {} \/ ~(m.local_key_server /\ m.peer.valid /\ m.peer.live)
  BY <1>1 DEF BuildTxFrame, R, MkaOK, MkaBase
<1>2. CASE ~(m.tx_reasons = {} \/ ~(m.local_key_server /\ m.peer.valid /\ m.peer.live))
  <2>1. r = EnsureSak(m, k)
    BY <1>2 DEF BuildTxFrame, MkaOK, MkaBase
  <2>2. CASE r.ret \in {"OK", "STATE", "NOT_READY"} /\ r.m = m
    BY <1>2, <2>2
  <2>3. CASE /\ r.ret = "OK" /\ m.latest.state = "NONE" /\ MkaBase(r.m)
             /\ SameButSlots(m, r.m) /\ r.m.latest = Generated(m, k) /\ r.m.old = m.old
             /\ r.m.tx_reasons = m.tx_reasons \cup {"DISTRIBUTE_SAK"}
    BY <2>3 DEF MkaOK, OperationalHasKey, SameButSlots, Held
  <2> QED
    BY <2>1, <2>2, <2>3, EnsureSakCases DEF MkaOK
<1> QED
  BY <1>1, <1>2

\* macsec_mka_build_tx_frame fails for one reason only: the Key Server has a
\* latest key that is not its own (mka.c 2019-2062).
LEMMA BuildTxFrameFails ==
    ASSUME NEW m, MkaOK(m), NEW k \in Key \cup {NoKey}, NEW r, r = BuildTxFrame(m, k),
           r.ret = "STATE"
    PROVE  m.local_key_server /\ m.peer.valid /\ m.latest.origin = "REMOTE"
<1>1. m.tx_reasons # {} /\ m.local_key_server /\ m.peer.valid /\ m.peer.live
  BY DEF BuildTxFrame, R, MkaOK, MkaBase
<1>2. r = EnsureSak(m, k)
  BY <1>1 DEF BuildTxFrame, MkaOK, MkaBase
<1>3. m.latest.state # "NONE" /\ m.latest.origin # "LOCAL"
  BY <1>1, <1>2, EnsureSakCases DEF MkaOK
<1>4. m.latest \in SakRec /\ LatestOK(m.latest)
  BY DEF MkaOK, MkaBase, MkaCtx
<1> QED
  BY <1>1, <1>3, <1>4 DEF LatestOK, SakRec, Origins

\* What a report of transmission leaves alone.
SameButReport(m, n) ==
    /\ n.keyed = m.keyed /\ n.sci = m.sci /\ n.mi = m.mi /\ n.prio = m.prio
    /\ n.local_key_server = m.local_key_server /\ n.peer = m.peer /\ n.state = m.state
    /\ n.old = m.old /\ n.events = m.events

\* The latest SAK once its first transmission is reported.
Committed(m, n) ==
    /\ m.latest.state = "DISTRIBUTION_PENDING"
    /\ n.latest = [m.latest EXCEPT !.state = "DISTRIBUTED"]
    /\ n.next_kn = NextKN(m.next_kn) /\ n.next_an = (m.next_an + 1) % MkaMaxSA

\* macsec_mka_notify_tx_success: the message number moves, the reasons the
\* MKPDU stood for are done, and a key it carried for the first time is
\* distributed (mka.c 2414-2546).
LEMMA NotifyTxSuccessCases ==
    ASSUME NEW m, MkaOK(m), m.latest.state # "NONE" => m.latest.key \in Key,
           NEW meta, meta.dist \in BOOLEAN,
           NEW r, r = NotifyTxSuccess(m, meta)
    PROVE  \/ r.ret \in {"STATE", "PARAM"} /\ r.m = m
           \/ /\ r.ret = "OK" /\ MkaOK(r.m) /\ SameButReport(m, r.m)
              /\ r.m.tx_reasons = m.tx_reasons \ meta.reasons
              /\ r.m.local_mn = NextMN(m.local_mn)
              /\ \/ r.m.latest = m.latest /\ r.m.next_kn = m.next_kn
                    /\ r.m.next_an = m.next_an
                    /\ (meta.dist => m.latest.state # "DISTRIBUTION_PENDING")
                 \/ meta.dist /\ Committed(m, r.m) /\ r.m.latest.key \in Key
                    /\ DistMatchesLatest(m, meta)
<1> DEFINE l == [m.latest EXCEPT !.state = "DISTRIBUTED"]
           d == [m EXCEPT !.latest.state = "DISTRIBUTED"]
           committed == [d EXCEPT !.next_kn = NextKN(@), !.next_an = (@ + 1) % MkaMaxSA]
           sent == IF meta.dist THEN CommitDistribution(m) ELSE m
           n == [sent EXCEPT !.local_mn = NextMN(@), !.since_tx = 0,
                             !.tx_reasons = @ \ meta.reasons]
           Same(x) == /\ x \in MkaCtx /\ SameButReport(m, x) /\ x.next_kn # 0
                      /\ LatestOK(x.latest) /\ x.tx_reasons = m.tx_reasons
                      /\ x.local_mn = m.local_mn
<1>1. /\ m \in MkaCtx /\ LatestOK(m.latest) /\ OldOK(m.old) /\ m.next_kn # 0 /\ m.keyed
      /\ m.latest \in SakRec /\ m.next_kn \in 0 .. KnMax /\ m.next_an \in MkaAN
      /\ m.local_mn \in 0 .. MnMax
  BY DEF MkaOK, MkaBase, MkaCtx
<1>2. /\ NextKN(m.next_kn) \in 0 .. KnMax /\ NextKN(m.next_kn) # 0
      /\ (m.next_an + 1) % MkaMaxSA \in MkaAN /\ NextMN(m.local_mn) \in 0 .. MnMax
      /\ NextMN(m.local_mn) # 0
  <2>1. m.next_an \in 0 .. 3 /\ (m.next_an + 1) % 4 \in 0 .. 3
    BY <1>1 DEF MkaAN, MkaMaxSA
  <2> QED
    BY <1>1, <2>1, MkaAssumption DEF NextKN, NextMN, MkaMaxSA, MkaAN
<1>3. CASE r.ret \in {"STATE", "PARAM"} /\ r.m = m
  BY <1>3
<1>4. CASE r = R("OK", n) /\ (meta.dist => DistMatchesLatest(m, meta))
  <2>1. CASE meta.dist /\ m.latest.state = "DISTRIBUTION_PENDING"
    <3>1. sent = [SetSakState(m, "latest", "DISTRIBUTED") EXCEPT
                      !.next_kn = NextKN(@), !.next_an = (@ + 1) % MkaMaxSA]
      BY <2>1 DEF CommitDistribution
    <3>2. SetSakState(m, "latest", "DISTRIBUTED") = d
      BY <2>1, SetLatestLegal DEF SakMoves
    <3>3. sent = committed
      BY <3>1, <3>2
    <3> HIDE DEF sent
    <3>4. l \in SakRec /\ LatestOK(l) /\ l.state = "DISTRIBUTED"
      BY <1>1, <2>1 DEF SakRec, SakStates, LatestOK, Held
    <3>5. d.latest = l /\ d \in MkaCtx /\ SameButReport(m, d) /\ d.next_kn = m.next_kn
          /\ d.next_an = m.next_an /\ d.tx_reasons = m.tx_reasons /\ d.local_mn = m.local_mn
      BY <1>1, <3>4 DEF MkaCtx, SameButReport
    <3> HIDE DEF d
    <3>6. Same(sent) /\ sent.latest = l /\ sent.next_kn = NextKN(m.next_kn)
          /\ sent.next_an = (m.next_an + 1) % MkaMaxSA
      BY <1>1, <1>2, <3>3, <3>4, <3>5 DEF MkaCtx, SameButReport
    <3>7. /\ n \in MkaCtx /\ SameButReport(m, n) /\ n.next_kn = sent.next_kn
          /\ n.next_an = sent.next_an
          /\ n.latest = l /\ n.tx_reasons = m.tx_reasons \ meta.reasons
          /\ n.local_mn = NextMN(m.local_mn)
      BY <1>2, <3>6 DEF MkaCtx, SameButReport, Never
    <3> HIDE DEF n
    <3>8. MkaBase(n) /\ OperationalHasKey(n)
      BY <1>1, <1>2, <2>1, <3>4, <3>6, <3>7
         DEF MkaOK, MkaBase, PeerMatches, Elected, LocalWinsKeyServer, OperationalHasKey,
             SameButReport, Held
    <3>9. r.ret = "OK" /\ r.m = n
      BY <1>4 DEF R
    <3>10. l.key \in Key
      BY <1>1, <2>1 DEF SakRec
    <3> QED
      BY <1>4, <2>1, <3>6, <3>7, <3>8, <3>9, <3>10 DEF MkaOK, Committed
  <2>2. CASE ~(meta.dist /\ m.latest.state = "DISTRIBUTION_PENDING")
    <3>1. sent = m
      BY <2>2 DEF CommitDistribution
    <3> HIDE DEF sent
    <3>2. /\ n \in MkaCtx /\ SameButReport(m, n) /\ n.next_kn = m.next_kn
          /\ n.next_an = m.next_an
          /\ n.latest = m.latest /\ n.tx_reasons = m.tx_reasons \ meta.reasons
          /\ n.local_mn = NextMN(m.local_mn)
      BY <1>1, <1>2, <3>1 DEF MkaCtx, SameButReport, Never
    <3> HIDE DEF n
    <3>3. MkaBase(n) /\ OperationalHasKey(n)
      BY <1>1, <1>2, <3>2 DEF MkaOK, MkaBase, PeerMatches, Elected, LocalWinsKeyServer,
                              OperationalHasKey, SameButReport
    <3>4. r.ret = "OK" /\ r.m = n
      BY <1>4 DEF R
    <3> QED
      BY <2>2, <3>2, <3>3, <3>4 DEF MkaOK
  <2> QED
    BY <2>1, <2>2
<1>5. \/ r = R("STATE", m) \/ r = R("PARAM", m)
      \/ r = R("OK", n) /\ (meta.dist => DistMatchesLatest(m, meta))
  BY DEF NotifyTxSuccess
<1> HIDE DEF n
<1> QED
  BY <1>3, <1>4, <1>5 DEF R

\* The report of the MKPDU that was built last is always accepted.
LEMMA NotifyTxSuccessOfBuilt ==
    ASSUME NEW m, m.tx_reasons # {}, NEW r, r = NotifyTxSuccess(m, MetaOf(m))
    PROVE  r.ret = "OK"
<1> DEFINE meta == MetaOf(m)
<1>1. /\ meta.mn = m.local_mn /\ meta.reasons = m.tx_reasons
      /\ meta.dist = IncludesDistributedSak(m)
      /\ meta.dist => meta.kn = m.latest.kn /\ meta.an = m.latest.an
  BY DEF MetaOf
<1>2. meta.dist => DistMatchesLatest(m, meta)
  BY <1>1 DEF DistMatchesLatest, IncludesDistributedSak
<1> QED
  BY <1>1, <1>2 DEF NotifyTxSuccess, R

-----------------------------------------------------------------------------
(* Hand-over to the frame layer *)

\* A key that came from the peer, or was distributed to it, is taken for
\* installation; nothing else is (mka.c 722-789).
Installable(s) == s.state \in {"CANDIDATE", "DISTRIBUTED"}

LEMMA TakeNothing ==
    ASSUME NEW m, MkaBase(m), ~Installable(m.latest), NEW r, r = TakeSakForInstall(m)
    PROVE  r.ret = "NOT_READY"
<1>1. CASE m.latest.state = "NONE"
  BY <1>1 DEF TakeSakForInstall, R
<1>2. CASE m.latest.state # "NONE"
  <2>1. m.latest.kn # 0 /\ m.latest.state \in {"DISTRIBUTION_PENDING", "ACTIVE", "CONFIRMED"}
    BY <1>2 DEF MkaBase, LatestOK, Installable
  <2> QED
    BY <1>2, <2>1 DEF TakeSakForInstall, R
<1> QED
  BY <1>1, <1>2

\* The key of s on its way into the frame layer: taken, received with, and
\* in use in both directions.
Taken(s) == [s EXCEPT !.state = "INSTALL_PENDING"]
Receiving(s) == [s EXCEPT !.state = "INSTALL_PENDING", !.rx_installed = TRUE]
InUse(s) == [s EXCEPT !.state = "ACTIVE", !.rx_installed = TRUE, !.tx_installed = TRUE]

\* m with this latest SAK, and nothing else changed.
HasLatest(m, n, l) ==
    /\ n \in MkaCtx /\ n.latest = l /\ n.events = m.events /\ SameButSakUse(m, n)

LEMMA InstallableFields ==
    ASSUME NEW s \in SakRec, LatestOK(s), Installable(s)
    PROVE  /\ s.key \in Key /\ s.kn # 0 /\ s.origin # "NONE"
           /\ ~s.rx_installed /\ ~s.tx_installed /\ ~s.peer_rx /\ ~s.peer_tx
           /\ s.state = "CANDIDATE" => s.origin = "REMOTE"
           /\ s.state = "DISTRIBUTED" => s.origin = "LOCAL"
BY DEF SakRec, LatestOK, Installable, Held

LEMMA TakenFields ==
    ASSUME NEW s \in SakRec, LatestOK(s), Installable(s), NEW t, t = Taken(s)
    PROVE  /\ t \in SakRec /\ t.state = "INSTALL_PENDING" /\ t.key = s.key /\ t.kn = s.kn
           /\ t.an = s.an /\ ~t.rx_installed /\ ~t.tx_installed
BY InstallableFields DEF Taken, SakRec, SakStates

LEMMA ReceivingFields ==
    ASSUME NEW s \in SakRec, LatestOK(s), Installable(s), NEW t, t = Receiving(s)
    PROVE  /\ t \in SakRec /\ t.state = "INSTALL_PENDING" /\ t.key = s.key /\ t.kn = s.kn
           /\ t.an = s.an /\ t.rx_installed /\ ~t.tx_installed
BY InstallableFields DEF Receiving, SakRec, SakStates

LEMMA InUseFields ==
    ASSUME NEW s \in SakRec, LatestOK(s), Installable(s), NEW t, t = InUse(s)
    PROVE  /\ t \in SakRec /\ LatestOK(t) /\ t.state = "ACTIVE" /\ t.key = s.key /\ t.kn = s.kn
           /\ t.an = s.an /\ t.origin = s.origin /\ t.rx_installed /\ t.tx_installed
           /\ ~t.peer_rx /\ ~t.peer_tx
BY InstallableFields DEF InUse, SakRec, SakStates, LatestOK, Held

LEMMA UseAfterReceiving ==
    ASSUME NEW s \in SakRec
    PROVE  InUse(s) = [[Receiving(s) EXCEPT !.tx_installed = TRUE] EXCEPT !.state = "ACTIVE"]
BY DEF InUse, Receiving, SakRec

\* First step: the key is taken.
LEMMA TakeSakStep ==
    ASSUME NEW m, MkaBase(m), Installable(m.latest), NEW r, r = TakeSakForInstall(m)
    PROVE  r.ret = "OK" /\ HasLatest(m, r.m, Taken(m.latest))
<1> DEFINE n == [m EXCEPT !.latest.state = "INSTALL_PENDING"]
<1>1. m \in MkaCtx /\ m.latest \in SakRec /\ LatestOK(m.latest)
  BY DEF MkaBase, MkaCtx
<1>2. m.latest.kn # 0 /\ ~m.latest.rx_installed
      /\ (m.latest.state = "CANDIDATE" => m.latest.origin = "REMOTE")
      /\ (m.latest.state = "DISTRIBUTED" => m.latest.origin = "LOCAL")
  BY <1>1, InstallableFields
<1>3. r = R("OK", SetSakState(m, "latest", "INSTALL_PENDING"))
  BY <1>2 DEF TakeSakForInstall, Installable
<1>4. SetSakState(m, "latest", "INSTALL_PENDING") = n
  BY SetLatestLegal DEF SakMoves, Installable
<1>5. n.latest = Taken(m.latest) /\ n.latest \in SakRec
  BY <1>1, TakenFields DEF Taken, MkaCtx
<1>6. n \in MkaCtx /\ n.events = m.events /\ SameButSakUse(m, n)
  BY <1>1, <1>5 DEF MkaCtx, SameButSakUse
<1> HIDE DEF n
<1>7. r.ret = "OK" /\ r.m = n
  BY <1>3, <1>4 DEF R
<1> QED
  BY <1>5, <1>6, <1>7 DEF HasLatest

\* Second step: reception is in place.
LEMMA RxInstalledStep ==
    ASSUME NEW m, MkaBase(m), Installable(m.latest), NEW t, HasLatest(m, t, Taken(m.latest)),
           NEW r, r = NotifySakInstalled(t, m.latest.kn, m.latest.an, "RX")
    PROVE  r.ret = "OK" /\ HasLatest(m, r.m, Receiving(m.latest))
<1> DEFINE n == [t EXCEPT !.latest.rx_installed = TRUE]
<1>1. m \in MkaCtx /\ m.latest \in SakRec /\ LatestOK(m.latest) /\ t \in MkaCtx
      /\ t.latest = Taken(m.latest) /\ t.events = m.events /\ SameButSakUse(m, t)
  BY DEF MkaBase, MkaCtx, HasLatest
<1>2. t.latest.state = "INSTALL_PENDING" /\ t.latest.kn = m.latest.kn
      /\ t.latest.an = m.latest.an
  BY <1>1, TakenFields
<1>3. n.latest = Receiving(m.latest)
  BY <1>1 DEF Taken, Receiving, MkaCtx, SakRec
<1>4. Receiving(m.latest) \in SakRec /\ ~Receiving(m.latest).tx_installed
  BY <1>1, ReceivingFields
<1>5. n \in MkaCtx /\ n.events = m.events /\ SameButSakUse(m, n)
  BY <1>1, <1>3, <1>4 DEF MkaCtx, SameButSakUse
<1>6. r = IF n.latest.rx_installed /\ n.latest.tx_installed THEN ActivateSak(n) ELSE R("OK", n)
  BY <1>2 DEF NotifySakInstalled
<1> HIDE DEF n
<1>7. r.ret = "OK" /\ r.m = n
  BY <1>3, <1>4, <1>6 DEF R
<1> QED
  BY <1>3, <1>5, <1>7 DEF HasLatest

\* What putting a key into use leaves alone.
SameButInstall(m, n) ==
    /\ n.keyed = m.keyed /\ n.sci = m.sci /\ n.mi = m.mi /\ n.prio = m.prio
    /\ n.local_key_server = m.local_key_server /\ n.peer = m.peer
    /\ n.local_mn = m.local_mn /\ n.next_kn = m.next_kn /\ n.next_an = m.next_an
    /\ n.since_tx = m.since_tx

\* An old SAK the station no longer sends with.
Silenced(o) == [o EXCEPT !.tx_installed = @ /\ o.state # "RETIRING"]

LEMMA SilencedFields ==
    ASSUME NEW o \in SakRec, OldOK(o), NEW q, q = Silenced(o)
    PROVE  /\ q \in SakRec /\ OldOK(q) /\ ~q.tx_installed /\ q.state = o.state
           /\ q.key = o.key /\ q.an = o.an /\ q.kn = o.kn /\ q.origin = o.origin
           /\ q.rx_installed = o.rx_installed
<1>1. /\ q \in SakRec /\ ~q.tx_installed /\ q.state = o.state
      /\ q.key = o.key /\ q.an = o.an /\ q.kn = o.kn /\ q.origin = o.origin
      /\ q.rx_installed = o.rx_installed
  BY NoSakOK DEF Silenced, SakRec, OldOK, NoSak
<1>2. o.state = "NONE" => q = o
  BY DEF Silenced, SakRec, OldOK, NoSak
<1> QED
  BY <1>1, <1>2 DEF OldOK

\* Last step: with transmission in place too the key is ACTIVE, the old SAK
\* is no longer sent with and a live peer makes the participant OPERATIONAL
\* (mka.c 791-906).
LEMMA TxInstalledStep ==
    ASSUME NEW m, MkaBase(m), Installable(m.latest), NEW t, HasLatest(m, t, Receiving(m.latest)),
           NEW r, r = NotifySakInstalled(t, m.latest.kn, m.latest.an, "TX")
    PROVE  /\ r.ret = "OK" /\ MkaOK(r.m) /\ SameButInstall(m, r.m)
           /\ r.m.latest = InUse(m.latest) /\ r.m.old = Silenced(m.old)
           /\ r.m.events = m.events \cup {"SAK_ACTIVE"}
           /\ r.m.tx_reasons = m.tx_reasons \cup {"SAK_USE"}
<1> DEFINE s == [t EXCEPT !.latest.tx_installed = TRUE]
           n == [s EXCEPT !.old.tx_installed = @ /\ t.old.state # "RETIRING"]
           a == [n EXCEPT !.latest.state = "ACTIVE"]
           b == Raise(a, {"SAK_ACTIVE"})
           c == ScheduleTx(b, {"SAK_USE"})
           Done(x) == /\ x \in MkaCtx /\ SameButInstall(m, x) /\ x.old = Silenced(m.old)
                      /\ x.latest = InUse(m.latest)
<1>1. /\ m \in MkaCtx /\ m.latest \in SakRec /\ m.old \in SakRec /\ LatestOK(m.latest)
      /\ OldOK(m.old) /\ t \in MkaCtx /\ t.latest = Receiving(m.latest)
      /\ t.events = m.events /\ SameButSakUse(m, t) /\ t.latest \in SakRec
  BY DEF MkaBase, MkaCtx, HasLatest
<1>2. /\ t.latest.state = "INSTALL_PENDING" /\ t.latest.kn = m.latest.kn
      /\ t.latest.an = m.latest.an /\ t.latest.rx_installed
      /\ ~t.latest.peer_rx /\ ~t.latest.peer_tx
  BY <1>1, ReceivingFields, InstallableFields DEF Receiving, SakRec
<1>3. Silenced(m.old) \in SakRec /\ InUse(m.latest) \in SakRec
      /\ ~InUse(m.latest).peer_rx /\ OldOK(Silenced(m.old)) /\ LatestOK(InUse(m.latest))
      /\ InUse(m.latest).state = "ACTIVE"
  BY <1>1, SilencedFields, InUseFields
<1>4. /\ s \in MkaCtx /\ SameButSakUse(m, s) /\ s.events = m.events
      /\ s.latest = [t.latest EXCEPT !.tx_installed = TRUE]
  BY <1>1 DEF MkaCtx, SameButSakUse, SakRec
<1>5. n = [t EXCEPT !.latest.tx_installed = TRUE,
                    !.old.tx_installed = @ /\ t.old.state # "RETIRING"]
  OBVIOUS
<1>6. s.latest.state = "INSTALL_PENDING" /\ s.latest.rx_installed /\ s.latest.tx_installed
      /\ ~s.latest.peer_rx
      /\ [s.latest EXCEPT !.state = "ACTIVE"] = InUse(m.latest)
  <2> DEFINE u == [t.latest EXCEPT !.tx_installed = TRUE]
  <2>1. u.state = "INSTALL_PENDING" /\ u.rx_installed /\ u.tx_installed /\ ~u.peer_rx
    BY <1>1, <1>2 DEF SakRec
  <2>2. [u EXCEPT !.state = "ACTIVE"] = InUse(m.latest)
    BY <1>1, UseAfterReceiving
  <2> HIDE DEF u
  <2>3. s.latest = u
    BY <1>4 DEF u
  <2> HIDE DEF s
  <2> QED
    BY <2>1, <2>2, <2>3
<1>7. t.old = m.old /\ s.old = m.old
  BY <1>1, <1>4 DEF SameButSakUse
<1> HIDE DEF s
<1>8. /\ n.latest = s.latest /\ n.old = Silenced(m.old) /\ SameButInstall(m, n)
      /\ n.state = m.state /\ n.events = m.events /\ n.tx_reasons = m.tx_reasons
  BY <1>4, <1>7 DEF MkaCtx, SameButSakUse, SameButInstall, Silenced
<1>9. n \in MkaCtx
  BY <1>3, <1>4, <1>8 DEF MkaCtx
<1>10. r = ActivateSak(n)
  BY <1>2, <1>5, <1>6, <1>8 DEF NotifySakInstalled
<1> HIDE DEF n
<1>11. SetSakState(n, "latest", "ACTIVE") = a
  BY <1>6, <1>8, SetLatestLegal DEF SakMoves
<1>12. Done(a) /\ a.state = m.state /\ a.events = m.events /\ a.tx_reasons = m.tx_reasons
  BY <1>3, <1>6, <1>8, <1>9 DEF MkaCtx, SameButInstall
<1> HIDE DEF a
<1>13. Done(b) /\ b.state = m.state /\ b.events = m.events \cup {"SAK_ACTIVE"}
       /\ b.tx_reasons = m.tx_reasons
  BY <1>12 DEF Raise, MkaCtx, SameButInstall, Events
<1>14. ConfirmIfPeerDid(b) = b
  BY <1>3, <1>13 DEF ConfirmIfPeerDid
<1>15. r = OperationalOrError(BecomeOperational(c))
  BY <1>10, <1>11, <1>14 DEF ActivateSak
<1> HIDE DEF b
<1>16. /\ c \in MkaCtx /\ SameButInstall(m, c) /\ c.old = Silenced(m.old)
       /\ c.latest = InUse(m.latest) /\ c.state = m.state
       /\ c.events = m.events \cup {"SAK_ACTIVE"} /\ c.tx_reasons = m.tx_reasons \cup {"SAK_USE"}
  BY <1>13 DEF ScheduleTx, MkaCtx, SameButInstall, TxReasons
<1> HIDE DEF c
<1> DEFINE z == BecomeOperational(c)
<1>17. /\ z \in MkaCtx /\ SameButInstall(m, z) /\ z.old = Silenced(m.old)
       /\ z.latest = InUse(m.latest)
       /\ z.events = m.events \cup {"SAK_ACTIVE"} /\ z.tx_reasons = m.tx_reasons \cup {"SAK_USE"}
       /\ IF m.peer.valid /\ m.peer.live THEN z.state = "OPERATIONAL" ELSE z.state = m.state
  <2>1. CASE m.peer.valid /\ m.peer.live
    <3>1. z = SetState(c, "OPERATIONAL")
      BY <1>16, <2>1 DEF BecomeOperational, SameButInstall
    <3>2. c.state \in {"PEER_LIVE", "OPERATIONAL"}
      BY <1>16, <2>1 DEF MkaBase, PeerMatches
    <3> HIDE DEF z
    <3>3. /\ z \in MkaCtx /\ z.state = "OPERATIONAL" /\ SameButPeer(c, z)
          /\ z.peer = c.peer /\ z.local_key_server = c.local_key_server
      BY <1>16, <3>1, <3>2, StateSet DEF StateMoves, MkaStates
    <3> QED
      BY <1>16, <2>1, <3>3 DEF SameButInstall, SameButPeer
  <2>2. CASE ~(m.peer.valid /\ m.peer.live)
    <3>1. z = c
      BY <1>16, <2>2 DEF BecomeOperational, SameButInstall
    <3> QED
      BY <1>16, <2>2, <3>1
  <2> QED
    BY <2>1, <2>2
<1> HIDE DEF z
<1>18. MkaOK(z)
  <2>1. OperationalHasKey(z)
    BY <1>3, <1>17 DEF OperationalHasKey, Held
  <2>2. PeerMatches(z) /\ Elected(z) /\ z.keyed /\ z.next_kn # 0 /\ z.local_mn # 0
    BY <1>17 DEF MkaBase, PeerMatches, Elected, LocalWinsKeyServer, SameButInstall
  <2> QED
    BY <1>3, <1>17, <2>1, <2>2 DEF MkaOK, MkaBase
<1>19. r.ret = "OK" /\ r.m = z
  BY <1>15, <1>17 DEF OperationalOrError, R, z, SameButInstall
<1> QED
  BY <1>17, <1>18, <1>19

\* The old SAK is gone once the frame layer dropped it (mka.c 908-951).
LEMMA NotifySakRetiredStep ==
    ASSUME NEW m, MkaOK(m), m.old.state = "RETIRING",
           NEW r, r = NotifySakRetired(m, m.old.kn, m.old.an)
    PROVE  /\ r.ret = "OK" /\ MkaOK(r.m) /\ r.m.old = NoSak /\ r.m.latest = m.latest
           /\ SameButSlots(m, r.m) /\ r.m.tx_reasons = m.tx_reasons
<1> DEFINE n == [m EXCEPT !.old = NoSak]
<1>1. r.ret = "OK" /\ r.m = n
  BY DEF NotifySakRetired, R
<1>2. m \in MkaCtx /\ MkaBase(m)
  BY DEF MkaOK, MkaBase
<1>3. /\ n \in MkaCtx /\ SameButSlots(m, n) /\ n.old = NoSak /\ n.latest = m.latest
      /\ n.tx_reasons = m.tx_reasons
  BY <1>2, NoSakOK DEF MkaCtx, SameButSlots
<1> HIDE DEF n
<1>4. MkaBase(n)
  BY <1>2, <1>3, NoSakOK, SlotsReplaced DEF MkaBase
<1> QED
  BY <1>1, <1>3, <1>4 DEF MkaOK, OperationalHasKey, SameButSlots

-----------------------------------------------------------------------------
(* A participant that was never keyed, as STATIC_SAK mode leaves it *)

LEMMA ZeroMkaType == ZeroMka \in MkaCtx
<1>1. 0 \in 0 .. MnMax /\ 0 \in 0 .. KnMax /\ 0 \in MkaAN /\ 0 \in 0 .. PeerTimeout
  BY MkaAssumption DEF MkaAN, MkaMaxSA, PeerTimeout
<1> QED
  BY <1>1, NoSakOK DEF ZeroMka, MkaCtx, NoPeer, PeerRec, MkaStates, NoMI, Never

\* It has no keys, and nothing it asks for touches the frame layer.
Unkeyed(m) ==
    /\ m \in MkaCtx /\ ~m.keyed /\ m.latest = NoSak /\ m.old = NoSak
    /\ m.events \subseteq {"ERROR", "PEER_LOST"}

\* A transition out of place only stops the participant.
LEMMA UnkeyedState ==
    ASSUME NEW m, Unkeyed(m), NEW new \in MkaStates, NEW n, n = SetState(m, new)
    PROVE  Unkeyed(n)
<1> DEFINE y == [m EXCEPT !.state = new]
           raised == Raise(m, {"ERROR"})
           z == [raised EXCEPT !.state = "ERROR"]
<1>1. m \in MkaCtx /\ m.events \in SUBSET Events
  BY DEF Unkeyed, MkaCtx
<1>2. raised \in MkaCtx /\ raised.events = m.events \cup {"ERROR"} /\ raised.keyed = m.keyed
      /\ raised.latest = m.latest /\ raised.old = m.old
  BY <1>1 DEF Raise, MkaCtx, Events
<1>3. n = y \/ n = z
  BY DEF SetState
<1> HIDE DEF raised
<1>4. Unkeyed(y)
  BY <1>1 DEF Unkeyed, MkaCtx
<1>5. Unkeyed(z)
  BY <1>1, <1>2 DEF Unkeyed, MkaCtx, MkaStates
<1> QED
  BY <1>3, <1>4, <1>5

\* Without a CAK an MKPDU only makes its sender known (mka.c 1530-1835).
LEMMA UnkeyedInputStep ==
    ASSUME NEW m, Unkeyed(m), NEW p \in MkpduRec, NEW k, NEW r, r = MkaInput(m, p, k)
    PROVE  Unkeyed(r.m)
<1> DEFINE d == ParseDistributedSak(m, p)
           u == UpdatePeer(m, p)
           up == [u EXCEPT !.peer.live = TRUE]
           down == [u EXCEPT !.peer.live = FALSE]
           l == UpdateLiveness(m, u, p)
           e == Elect(l)
           n == ScheduleReplies(m, e, p)
<1>1. /\ m \in MkaCtx /\ ~m.keyed /\ m.latest = NoSak /\ m.old = NoSak /\ m.peer \in PeerRec
      /\ m.events \subseteq {"ERROR", "PEER_LOST"}
      /\ p.mi \in Nat /\ p.sci \in Nat /\ p.prio \in Nat
  BY DEF Unkeyed, MkpduRec, MkaCtx
<1>2. d.m = m
  BY <1>1 DEF ParseDistributedSak, R
<1>3. Unkeyed(u) /\ Unkeyed(up) /\ Unkeyed(down)
  <2> DEFINE peer == [valid |-> TRUE, mi |-> p.mi, sci |-> p.sci, prio |-> p.prio,
                      live |-> m.peer.live, idle |-> 0]
  <2>1. u = [m EXCEPT !.peer = peer] /\ peer \in PeerRec
    BY <1>1 DEF UpdatePeer, PeerRec, PeerTimeout
  <2> HIDE DEF peer
  <2>2. Unkeyed(u) /\ u.peer = peer
    BY <1>1, <2>1 DEF Unkeyed, MkaCtx
  <2> HIDE DEF u
  <2>3. Unkeyed(up)
    BY <2>1, <2>2 DEF Unkeyed, MkaCtx, PeerRec
  <2>4. Unkeyed(down)
    BY <2>1, <2>2 DEF Unkeyed, MkaCtx, PeerRec
  <2> QED
    BY <2>2, <2>3, <2>4
<1> HIDE DEF u, up, down
<1>4. Unkeyed(l)
  <2>1. l \in {SetState(up, "PEER_LIVE"), SetState(down, "PEER_DISCOVERED"), u}
    BY DEF UpdateLiveness, up, down
  <2>2. "PEER_LIVE" \in MkaStates /\ "PEER_DISCOVERED" \in MkaStates
    BY DEF MkaStates
  <2> QED
    BY <1>3, <2>1, <2>2, UnkeyedState
<1> HIDE DEF l
<1>5. Unkeyed(e)
  <2>1. LocalWinsKeyServer(l) \in BOOLEAN
    BY DEF LocalWinsKeyServer
  <2> QED
    BY <1>4, <2>1 DEF Elect, Unkeyed, MkaCtx
<1> HIDE DEF e
<1>6. Unkeyed(n)
  <2> DEFINE reasons == (IF PeerIdentityChanged(m, p) \/ m.peer.live # e.peer.live
                         THEN {"PEER_CHANGE"} ELSE {}) \cup
                        (IF m.local_key_server # e.local_key_server
                         THEN {"KEY_SERVER_CHANGE"} ELSE {})
             events == IF ~PeerIdentityChanged(m, p) /\ m.peer.live /\ ~e.peer.live
                       THEN {"PEER_LOST"} ELSE {}
             t == ScheduleTx(e, reasons)
  <2>1. n = Raise(t, events)
    BY DEF ScheduleReplies
  <2>2. reasons \in SUBSET TxReasons /\ events \in SUBSET {"PEER_LOST"}
    BY DEF TxReasons
  <2> HIDE DEF reasons, events
  <2>3. Unkeyed(t)
    BY <1>5, <2>2 DEF ScheduleTx, Unkeyed, MkaCtx
  <2> HIDE DEF t
  <2> QED
    BY <2>1, <2>2, <2>3 DEF Raise, Unkeyed, MkaCtx, Events
<1> HIDE DEF n
<1>7. e.latest.state = "NONE"
  BY <1>5 DEF Unkeyed, NoSak
<1>8. ParseSakUse(e, p).m = e
  BY <1>7 DEF ParseSakUse, UseNamesLatest, R
<1>9. RekeyForNewPeer(m, e, p, k) = R("OK", e)
  BY <1>7 DEF RekeyForNewPeer
<1>10. NoteSakUse(m, R("OK", e), p).m \in {e, n}
  BY <1>8 DEF NoteSakUse, FinishInput, R, n
<1>11. r.m \in {m, e, n}
  <2>1. NotePeer(m, d, p, k).m \in {m, e, n}
    BY <1>2, <1>9, <1>10 DEF NotePeer, e, l, u
  <2> HIDE DEF d
  <2> QED
    BY <2>1 DEF MkaInput, AcceptMkpdu, R, d
<1> QED
  BY <1>5, <1>6, <1>11

-----------------------------------------------------------------------------
(* Reasons to transmit.  What is pending already decides nothing but a call *)
(* to build or to send: every other operation does the same with more        *)
(* reasons t pending, and leaves them pending.                               *)

MkaFields == {"state", "keyed", "sci", "mi", "prio", "local_key_server", "peer", "latest",
              "old", "local_mn", "next_kn", "next_an", "since_tx", "events", "tx_reasons"}

\* A value of macsec_mka_ctx_t, whatever its fields hold.
Shaped(m) == m = [f \in MkaFields |-> m[f]]

\* A context of the right type is one.
LEMMA ShapedOfType ==
    ASSUME NEW m \in MkaCtx
    PROVE  Shaped(m)
BY DEF MkaCtx, Shaped, MkaFields

\* Scheduling adds, in any order.
LEMMA ReasonsAdded ==
    ASSUME NEW m, Shaped(m), NEW t, NEW u
    PROVE  /\ Shaped(ScheduleTx(m, t))
           /\ ScheduleTx(m, t).tx_reasons = m.tx_reasons \cup t
           /\ ScheduleTx(ScheduleTx(m, u), t) = ScheduleTx(ScheduleTx(m, t), u)
BY DEF Shaped, MkaFields, ScheduleTx

\* Events (mka.c, the pending flags).
LEMMA RaiseAlso ==
    ASSUME NEW m, Shaped(m), NEW t, NEW e
    PROVE  /\ Shaped(Raise(m, e))
           /\ Raise(ScheduleTx(m, t), e) = ScheduleTx(Raise(m, e), t)
BY DEF Shaped, MkaFields, ScheduleTx, Raise

\* The participant's state and those of the two slots (mka.c 104-293).
LEMMA SetStateAlso ==
    ASSUME NEW m, Shaped(m), NEW t, NEW new
    PROVE  /\ Shaped(SetState(m, new))
           /\ SetState(ScheduleTx(m, t), new) = ScheduleTx(SetState(m, new), t)
BY DEF Shaped, MkaFields, ScheduleTx, SetState, Raise

LEMMA SetLatestAlso ==
    ASSUME NEW m, Shaped(m), NEW t, NEW new
    PROVE  /\ Shaped(SetSakState(m, "latest", new))
           /\ SetSakState(ScheduleTx(m, t), "latest", new) = ScheduleTx(SetSakState(m, "latest", new), t)
<1> DEFINE n == SetState(m, "ERROR")
<1>1. Shaped(n) /\ SetState(ScheduleTx(m, t), "ERROR") = ScheduleTx(n, t)
  BY SetStateAlso
<1> QED
  BY <1>1 DEF Shaped, MkaFields, ScheduleTx, SetSakState

LEMMA SetOldAlso ==
    ASSUME NEW m, Shaped(m), NEW t, NEW new
    PROVE  /\ Shaped(SetSakState(m, "old", new))
           /\ SetSakState(ScheduleTx(m, t), "old", new) = ScheduleTx(SetSakState(m, "old", new), t)
<1>1. Shaped(SetState(m, "ERROR"))
      /\ SetState(ScheduleTx(m, t), "ERROR") = ScheduleTx(SetState(m, "ERROR"), t)
  BY SetStateAlso
<1> QED
  BY <1>1 DEF Shaped, MkaFields, ScheduleTx, SetSakState

Also(r, t) == R(r.ret, ScheduleTx(r.m, t))

\* The latest slot is freed alike (mka.c 304-351).
LEMMA FreeLatestAlso ==
    ASSUME NEW m, Shaped(m), NEW t
    PROVE  /\ Shaped(FreeLatest(m).m)
           /\ FreeLatest(ScheduleTx(m, t)) = Also(FreeLatest(m), t)
<1> DEFINE copied == [m EXCEPT !.old = [m.latest EXCEPT !.peer_rx = FALSE, !.peer_tx = FALSE]]
           moved == SetSakState(copied, "old", "RETIRING")
           more == ScheduleTx(m, t)
<1>1. Shaped(copied) /\ ScheduleTx(copied, t) =
         [more EXCEPT !.old = [more.latest EXCEPT !.peer_rx = FALSE, !.peer_tx = FALSE]]
  BY DEF Shaped, MkaFields, ScheduleTx
<1>2. Shaped(moved) /\ SetSakState(ScheduleTx(copied, t), "old", "RETIRING") = ScheduleTx(moved, t)
  BY <1>1, SetOldAlso
<1>3. \A n : Shaped(n) => /\ Shaped(LatestMoved(n).m)
                           /\ LatestMoved(ScheduleTx(n, t)) = Also(LatestMoved(n), t)
  BY DEF LatestMoved, Also, R, Shaped, MkaFields, ScheduleTx
<1>4. /\ Shaped(LatestMoved(moved).m)
      /\ LatestMoved(ScheduleTx(moved, t)) = Also(LatestMoved(moved), t)
  BY <1>2, <1>3
<1>5. Shaped(MoveLatestToOld(m).m) /\ MoveLatestToOld(more) = Also(MoveLatestToOld(m), t)
  <2>1. more.latest = m.latest /\ more.old = m.old
    BY DEF Shaped, MkaFields, ScheduleTx
  <2>2. /\ Shaped([m EXCEPT !.latest = NoSak])
        /\ [more EXCEPT !.latest = NoSak] = ScheduleTx([m EXCEPT !.latest = NoSak], t)
    BY DEF Shaped, MkaFields, ScheduleTx
  <2> QED
    BY <1>1, <1>2, <1>4, <2>1, <2>2 DEF MoveLatestToOld, Also, R
<1>6. more.latest = m.latest
  BY DEF Shaped, MkaFields, ScheduleTx
<1> QED
  BY <1>5, <1>6 DEF FreeLatest, Also, R

\* A key is generated alike.
LEMMA EnsureSakAlso ==
    ASSUME NEW m, Shaped(m), NEW t, NEW k
    PROVE  /\ Shaped(EnsureSak(m, k).m)
           /\ EnsureSak(ScheduleTx(m, t), k) = Also(EnsureSak(m, k), t)
<1> DEFINE more == ScheduleTx(m, t)
           fresh == [m EXCEPT !.latest = GeneratedSak(m, k)]
           first == SetSakState(fresh, "latest", "CANDIDATE")
           next == SetSakState(first, "latest", "DISTRIBUTION_PENDING")
           done == ScheduleTx(next, {"DISTRIBUTE_SAK"})
<1>1. /\ more.latest = m.latest /\ more.local_key_server = m.local_key_server
      /\ more.peer = m.peer /\ GeneratedSak(more, k) = GeneratedSak(m, k)
  BY DEF Shaped, MkaFields, ScheduleTx, GeneratedSak
<1>2. Shaped(fresh) /\ ScheduleTx(fresh, t) = [more EXCEPT !.latest = GeneratedSak(more, k)]
  BY <1>1 DEF Shaped, MkaFields, ScheduleTx
<1>3. Shaped(first) /\ ScheduleTx(first, t) = SetSakState(ScheduleTx(fresh, t), "latest", "CANDIDATE")
  BY <1>2, SetLatestAlso
<1>4. Shaped(next)
      /\ ScheduleTx(next, t) = SetSakState(ScheduleTx(first, t), "latest", "DISTRIBUTION_PENDING")
  BY <1>3, SetLatestAlso
<1>5. Shaped(done) /\ ScheduleTx(done, t) = ScheduleTx(ScheduleTx(next, t), {"DISTRIBUTE_SAK"})
  BY <1>4, ReasonsAdded
<1> QED
  BY <1>1, <1>2, <1>3, <1>4, <1>5 DEF EnsureSak, Also, R

\* And a rekey.
LEMMA StartRekeyAlso ==
    ASSUME NEW m, Shaped(m), NEW t, NEW k
    PROVE  /\ Shaped(StartRekey(m, k).m)
           /\ StartRekey(ScheduleTx(m, t), k) = Also(StartRekey(m, k), t)
<1> DEFINE more == ScheduleTx(m, t)
           r == FreeLatest(m)
           g == GenerateIfLive(r, k)
<1>1. more.old = m.old /\ more.local_key_server = m.local_key_server
  BY DEF Shaped, MkaFields, ScheduleTx
<1>2. Shaped(r.m) /\ FreeLatest(more) = Also(r, t)
  BY FreeLatestAlso
<1>3. Shaped(g.m) /\ GenerateIfLive(Also(r, t), k) = Also(g, t)
  <2>1. Shaped(EnsureSak(r.m, k).m) /\ EnsureSak(ScheduleTx(r.m, t), k) = Also(EnsureSak(r.m, k), t)
    BY <1>2, EnsureSakAlso
  <2>2. ScheduleTx(r.m, t).peer = r.m.peer
    BY <1>2 DEF Shaped, MkaFields, ScheduleTx
  <2> QED
    BY <1>2, <2>1, <2>2 DEF GenerateIfLive, Also, R
<1>4. Shaped(ScheduleRekey(g).m) /\ ScheduleRekey(Also(g, t)) = Also(ScheduleRekey(g), t)
  <2>1. ScheduleTx(g.m, t).latest = g.m.latest
    BY <1>3 DEF Shaped, MkaFields, ScheduleTx
  <2>2. \A u : /\ Shaped(ScheduleTx(g.m, u))
               /\ ScheduleTx(ScheduleTx(g.m, t), u) = ScheduleTx(ScheduleTx(g.m, u), t)
    BY <1>3, ReasonsAdded
  <2> QED
    BY <1>3, <2>1, <2>2 DEF ScheduleRekey, Also, R
<1> QED
  BY <1>1, <1>2, <1>3, <1>4 DEF StartRekey, Also, R

\* A Distributed SAK is taken alike.
LEMMA ParseDistributedSakAlso ==
    ASSUME NEW m, Shaped(m), NEW t, NEW p
    PROVE  /\ Shaped(ParseDistributedSak(m, p).m)
           /\ ParseDistributedSak(ScheduleTx(m, t), p) = Also(ParseDistributedSak(m, p), t)
<1> DEFINE more == ScheduleTx(m, t)
           r == FreeLatest(m)
           taken == [r.m EXCEPT !.latest = ReceivedSak(p)]
<1>1. more.latest = m.latest /\ more.keyed = m.keyed /\ (SameSak(more, p) <=> SameSak(m, p))
  BY DEF Shaped, MkaFields, ScheduleTx, SameSak
<1>2. Shaped(r.m) /\ FreeLatest(more) = Also(r, t)
  BY FreeLatestAlso
<1>3. Shaped(taken) /\ ScheduleTx(taken, t) = [ScheduleTx(r.m, t) EXCEPT !.latest = ReceivedSak(p)]
  BY <1>2 DEF Shaped, MkaFields, ScheduleTx
<1>4. /\ Shaped(SetSakState(taken, "latest", "CANDIDATE"))
      /\ SetSakState(ScheduleTx(taken, t), "latest", "CANDIDATE") =
             ScheduleTx(SetSakState(taken, "latest", "CANDIDATE"), t)
  BY <1>3, SetLatestAlso
<1>5. Shaped(TakeReceivedSak(r, p).m) /\ TakeReceivedSak(Also(r, t), p) = Also(TakeReceivedSak(r, p), t)
  BY <1>2, <1>3, <1>4 DEF TakeReceivedSak, Also, R
<1> QED
  BY <1>1, <1>2, <1>5 DEF ParseDistributedSak, Also, R

LEMMA RequestRetirementAlso ==
    ASSUME NEW m, Shaped(m), NEW t
    PROVE  /\ Shaped(RequestRetirement(m))
           /\ RequestRetirement(ScheduleTx(m, t)) = ScheduleTx(RequestRetirement(m), t)
BY DEF RequestRetirement, Raise, Shaped, MkaFields, ScheduleTx

\* A SAK Use is taken alike (mka.c 1324-1470).
LEMMA ParseSakUseAlso ==
    ASSUME NEW m, Shaped(m), NEW t, NEW p
    PROVE  /\ Shaped(ParseSakUse(m, p).m)
           /\ ParseSakUse(ScheduleTx(m, t), p) = Also(ParseSakUse(m, p), t)
<1> DEFINE more == ScheduleTx(m, t)
           noted == [m EXCEPT !.latest.peer_tx = p.use.tx, !.latest.peer_rx = p.use.rx]
           confirmed == SetSakState(noted, "latest", "CONFIRMED")
           active == SetSakState(noted, "latest", "ACTIVE")
<1>1. more.latest = m.latest /\ (UseNamesLatest(more, p.use) <=> UseNamesLatest(m, p.use))
  BY DEF Shaped, MkaFields, ScheduleTx, UseNamesLatest
<1>2. /\ Shaped(noted)
      /\ ScheduleTx(noted, t) =
             [more EXCEPT !.latest.peer_tx = p.use.tx, !.latest.peer_rx = p.use.rx]
  BY DEF Shaped, MkaFields, ScheduleTx
<1>3. Shaped(confirmed) /\ SetSakState(ScheduleTx(noted, t), "latest", "CONFIRMED") = ScheduleTx(confirmed, t)
  BY <1>2, SetLatestAlso
<1>4. Shaped(active) /\ SetSakState(ScheduleTx(noted, t), "latest", "ACTIVE") = ScheduleTx(active, t)
  BY <1>2, SetLatestAlso
<1>5. /\ Shaped(RequestRetirement(confirmed))
      /\ RequestRetirement(ScheduleTx(confirmed, t)) = ScheduleTx(RequestRetirement(confirmed), t)
  BY <1>3, RequestRetirementAlso
<1> QED
  BY <1>1, <1>2, <1>3, <1>4, <1>5 DEF ParseSakUse, Also, R

\* The peer and the election (mka.c 390-412, 1640-1738).
LEMMA PeerAlso ==
    ASSUME NEW m, Shaped(m), NEW n, Shaped(n), NEW t, NEW p
    PROVE  LET e == Elect(UpdateLiveness(m, UpdatePeer(n, p), p))
           IN  /\ Shaped(e)
               /\ Elect(UpdateLiveness(ScheduleTx(m, t), UpdatePeer(ScheduleTx(n, t), p), p)) =
                      ScheduleTx(e, t)
<1> DEFINE u == UpdatePeer(n, p)
           l == UpdateLiveness(m, u, p)
           live == [u EXCEPT !.peer.live = TRUE]
           dead == [u EXCEPT !.peer.live = FALSE]
<1>1. Shaped(u) /\ UpdatePeer(ScheduleTx(n, t), p) = ScheduleTx(u, t)
  BY DEF UpdatePeer, Shaped, MkaFields, ScheduleTx
<1>2. Shaped(live) /\ ScheduleTx(live, t) = [ScheduleTx(u, t) EXCEPT !.peer.live = TRUE]
  BY <1>1 DEF Shaped, MkaFields, ScheduleTx
<1>3. Shaped(dead) /\ ScheduleTx(dead, t) = [ScheduleTx(u, t) EXCEPT !.peer.live = FALSE]
  BY <1>1 DEF Shaped, MkaFields, ScheduleTx
<1>4. /\ ScheduleTx(m, t).peer = m.peer /\ ScheduleTx(m, t).mi = m.mi
      /\ PeerIdentityChanged(ScheduleTx(m, t), p) <=> PeerIdentityChanged(m, p)
  BY DEF Shaped, MkaFields, ScheduleTx, PeerIdentityChanged
<1>5. Shaped(l) /\ UpdateLiveness(ScheduleTx(m, t), ScheduleTx(u, t), p) = ScheduleTx(l, t)
  BY <1>1, <1>2, <1>3, <1>4, SetStateAlso DEF UpdateLiveness
<1>6. Shaped(Elect(l)) /\ Elect(ScheduleTx(l, t)) = ScheduleTx(Elect(l), t)
  <2>1. LocalWinsKeyServer(ScheduleTx(l, t)) = LocalWinsKeyServer(l)
    BY <1>5 DEF LocalWinsKeyServer, Shaped, MkaFields, ScheduleTx
  <2> QED
    BY <1>5, <2>1 DEF Elect, Shaped, MkaFields, ScheduleTx
<1> QED
  BY <1>1, <1>5, <1>6

\* The replies depend on the peer and the election only.
LEMMA FinishInputAlso ==
    ASSUME NEW m, Shaped(m), NEW r, Shaped(r.m), NEW t, NEW p
    PROVE  /\ Shaped(FinishInput(m, r, p).m)
           /\ FinishInput(ScheduleTx(m, t), Also(r, t), p) = Also(FinishInput(m, r, p), t)
<1> DEFINE n == r.m
<1>1. \A q : Shaped(q) => /\ ScheduleTx(q, t).peer = q.peer
                             /\ ScheduleTx(q, t).local_key_server = q.local_key_server
  BY DEF Shaped, MkaFields, ScheduleTx
<1>2. PeerIdentityChanged(ScheduleTx(m, t), p) <=> PeerIdentityChanged(m, p)
  BY <1>1, Shaped(m) DEF PeerIdentityChanged, Shaped, MkaFields, ScheduleTx
<1>3. \A u, e : /\ Shaped(Raise(ScheduleTx(n, u), e))
                /\ Raise(ScheduleTx(ScheduleTx(n, t), u), e) = ScheduleTx(Raise(ScheduleTx(n, u), e), t)
  <2> TAKE u, e
  <2>0. Shaped(n)
    OBVIOUS
  <2> HIDE DEF n
  <2>1. Shaped(ScheduleTx(n, u)) /\ ScheduleTx(ScheduleTx(n, t), u) = ScheduleTx(ScheduleTx(n, u), t)
    BY <2>0, ReasonsAdded
  <2> QED
    BY <2>1, RaiseAlso
<1>4. /\ Shaped(ScheduleReplies(m, n, p))
      /\ ScheduleReplies(ScheduleTx(m, t), ScheduleTx(n, t), p) = ScheduleTx(ScheduleReplies(m, n, p), t)
  <2> DEFINE changed == PeerIdentityChanged(m, p)
             lost == ~changed /\ m.peer.live /\ ~n.peer.live
             peer == changed \/ m.peer.live # n.peer.live
             server == m.local_key_server # n.local_key_server
             reasons == (IF peer THEN {"PEER_CHANGE"} ELSE {}) \cup
                        (IF server THEN {"KEY_SERVER_CHANGE"} ELSE {})
             news == IF lost THEN {"PEER_LOST"} ELSE {}
  <2>1. ScheduleReplies(m, n, p) = Raise(ScheduleTx(n, reasons), news)
    BY DEF ScheduleReplies
  <2>2. ScheduleReplies(ScheduleTx(m, t), ScheduleTx(n, t), p) =
           Raise(ScheduleTx(ScheduleTx(n, t), reasons), news)
    BY <1>1, <1>2 DEF ScheduleReplies
  <2> HIDE DEF reasons, news
  <2> QED
    BY <1>3, <2>1, <2>2
<1> QED
  BY <1>4 DEF FinishInput, Also, R

\* A received MKPDU is taken alike whatever is scheduled already, and what it
\* schedules is added to that (mka.c 1530-1825).
LEMMA MkaInputAlso ==
    ASSUME NEW m, Shaped(m), NEW t, NEW p, NEW k
    PROVE  /\ Shaped(MkaInput(m, p, k).m)
           /\ MkaInput(ScheduleTx(m, t), p, k) = Also(MkaInput(m, p, k), t)
<1> DEFINE more == ScheduleTx(m, t)
           d == ParseDistributedSak(m, p)
           e == Elect(UpdateLiveness(m, UpdatePeer(d.m, p), p))
           r == RekeyForNewPeer(m, e, p, k)
           u == ParseSakUse(r.m, p)
<1>1. Shaped(d.m) /\ ParseDistributedSak(more, p) = Also(d, t)
  BY ParseDistributedSakAlso
<1>2. /\ Shaped(e)
      /\ Elect(UpdateLiveness(more, UpdatePeer(ScheduleTx(d.m, t), p), p)) = ScheduleTx(e, t)
  BY <1>1, PeerAlso
<1>3. Shaped(r.m) /\ RekeyForNewPeer(more, ScheduleTx(e, t), p, k) = Also(r, t)
  <2>1. PeerIdentityChanged(more, p) <=> PeerIdentityChanged(m, p)
    BY DEF Shaped, MkaFields, ScheduleTx, PeerIdentityChanged
  <2>2. /\ ScheduleTx(e, t).latest = e.latest
        /\ ScheduleTx(e, t).local_key_server = e.local_key_server
    BY <1>2 DEF Shaped, MkaFields, ScheduleTx
  <2>3. Shaped(StartRekey(e, k).m) /\ StartRekey(ScheduleTx(e, t), k) = Also(StartRekey(e, k), t)
    BY <1>2, StartRekeyAlso
  <2> QED
    BY <1>2, <2>1, <2>2, <2>3 DEF RekeyForNewPeer, Also, R
<1>4. Shaped(u.m) /\ ParseSakUse(ScheduleTx(r.m, t), p) = Also(u, t)
  BY <1>3, ParseSakUseAlso
<1>5. Shaped(FinishInput(m, u, p).m) /\ FinishInput(more, Also(u, t), p) = Also(FinishInput(m, u, p), t)
  BY <1>4, FinishInputAlso
<1>6. Shaped(NoteSakUse(m, r, p).m) /\ NoteSakUse(more, Also(r, t), p) = Also(NoteSakUse(m, r, p), t)
  BY <1>3, <1>4, <1>5 DEF NoteSakUse, Also, R
<1>7. Shaped(NotePeer(m, d, p, k).m) /\ NotePeer(more, Also(d, t), p, k) = Also(NotePeer(m, d, p, k), t)
  BY <1>1, <1>2, <1>3, <1>6 DEF NotePeer, Also, R
<1>8. more.keyed = m.keyed /\ (OwnFrame(more, p) <=> OwnFrame(m, p))
  BY DEF Shaped, MkaFields, ScheduleTx, OwnFrame
<1> QED
  BY <1>1, <1>7, <1>8 DEF MkaInput, AcceptMkpdu, Also, R

\* What is handed to the frame layer, and its two reports.
LEMMA TakeSakAlso ==
    ASSUME NEW m, Shaped(m), NEW t
    PROVE  /\ Shaped(TakeSakForInstall(m).m)
           /\ TakeSakForInstall(ScheduleTx(m, t)) = Also(TakeSakForInstall(m), t)
<1>1. ScheduleTx(m, t).latest = m.latest
  BY DEF Shaped, MkaFields, ScheduleTx
<1> QED
  BY <1>1, SetLatestAlso DEF TakeSakForInstall, Also, R

LEMMA ActivateSakAlso ==
    ASSUME NEW m, Shaped(m), NEW t
    PROVE  /\ Shaped(ActivateSak(m).m)
           /\ ActivateSak(ScheduleTx(m, t)) = Also(ActivateSak(m), t)
<1> DEFINE latest == SetSakState(m, "latest", "ACTIVE")
           active == Raise(latest, {"SAK_ACTIVE"})
           sure == ConfirmIfPeerDid(active)
           told == ScheduleTx(sure, {"SAK_USE"})
           working == BecomeOperational(told)
<1>1. Shaped(latest) /\ SetSakState(ScheduleTx(m, t), "latest", "ACTIVE") = ScheduleTx(latest, t)
  BY SetLatestAlso
<1>2. Shaped(active) /\ Raise(ScheduleTx(latest, t), {"SAK_ACTIVE"}) = ScheduleTx(active, t)
  BY <1>1, RaiseAlso
<1>3. Shaped(sure) /\ ConfirmIfPeerDid(ScheduleTx(active, t)) = ScheduleTx(sure, t)
  <2> DEFINE confirmed == SetSakState(active, "latest", "CONFIRMED")
  <2>1. Shaped(confirmed) /\ SetSakState(ScheduleTx(active, t), "latest", "CONFIRMED") = ScheduleTx(confirmed, t)
    BY <1>2, SetLatestAlso
  <2>2. /\ Shaped(RequestRetirement(confirmed))
        /\ RequestRetirement(ScheduleTx(confirmed, t)) = ScheduleTx(RequestRetirement(confirmed), t)
    BY <2>1, RequestRetirementAlso
  <2>3. ScheduleTx(active, t).latest = active.latest
    BY <1>2 DEF Shaped, MkaFields, ScheduleTx
  <2> QED
    BY <1>2, <2>1, <2>2, <2>3 DEF ConfirmIfPeerDid
<1>4. Shaped(told) /\ ScheduleTx(ScheduleTx(sure, t), {"SAK_USE"}) = ScheduleTx(told, t)
  BY <1>3, ReasonsAdded
<1>5. Shaped(working) /\ BecomeOperational(ScheduleTx(told, t)) = ScheduleTx(working, t)
  <2>1. ScheduleTx(told, t).peer = told.peer
    BY <1>4 DEF Shaped, MkaFields, ScheduleTx
  <2> QED
    BY <1>4, <2>1, SetStateAlso DEF BecomeOperational
<1>6. /\ ScheduleTx(working, t).peer = working.peer
      /\ ScheduleTx(working, t).state = working.state
  BY <1>5 DEF Shaped, MkaFields, ScheduleTx
<1> QED
  BY <1>1, <1>2, <1>3, <1>4, <1>5, <1>6 DEF ActivateSak, OperationalOrError, Also, R

LEMMA NotifySakInstalledAlso ==
    ASSUME NEW m, Shaped(m), NEW t, NEW kn, NEW an, NEW dir
    PROVE  /\ Shaped(NotifySakInstalled(m, kn, an, dir).m)
           /\ NotifySakInstalled(ScheduleTx(m, t), kn, an, dir) =
                  Also(NotifySakInstalled(m, kn, an, dir), t)
<1> DEFINE more == ScheduleTx(m, t)
           Noted(q) == IF dir = "RX" THEN [q EXCEPT !.latest.rx_installed = TRUE]
                       ELSE [q EXCEPT !.latest.tx_installed = TRUE,
                                      !.old.tx_installed = @ /\ q.old.state # "RETIRING"]
           noted == Noted(m)
<1>1. more.latest = m.latest /\ more.old = m.old
  BY DEF Shaped, MkaFields, ScheduleTx
<1>2. Shaped(noted) /\ Noted(more) = ScheduleTx(noted, t)
  <2>1. CASE dir = "RX"
    BY <2>1 DEF Shaped, MkaFields, ScheduleTx
  <2>2. CASE dir # "RX"
    BY <2>2, <1>1 DEF Shaped, MkaFields, ScheduleTx
  <2> QED
    BY <2>1, <2>2
<1>3. Shaped(ActivateSak(noted).m) /\ ActivateSak(ScheduleTx(noted, t)) = Also(ActivateSak(noted), t)
  BY <1>2, ActivateSakAlso
<1>4. ScheduleTx(noted, t).latest = noted.latest
  BY <1>2 DEF Shaped, MkaFields, ScheduleTx
<1>5. \A q : NotifySakInstalled(q, kn, an, dir) =
             IF q.latest.state = "NONE" THEN R("NOT_READY", q)
             ELSE IF q.latest.state # "INSTALL_PENDING" THEN R("STATE", q)
             ELSE IF q.latest.kn # kn \/ q.latest.an # an THEN R("PARAM", q)
             ELSE IF Noted(q).latest.rx_installed /\ Noted(q).latest.tx_installed
                  THEN ActivateSak(Noted(q))
             ELSE R("OK", Noted(q))
  BY DEF NotifySakInstalled
<1> HIDE DEF Noted
<1> QED
  BY <1>1, <1>2, <1>3, <1>4, <1>5 DEF Also, R

LEMMA NotifySakRetiredAlso ==
    ASSUME NEW m, Shaped(m), NEW t, NEW kn, NEW an
    PROVE  /\ Shaped(NotifySakRetired(m, kn, an).m)
           /\ NotifySakRetired(ScheduleTx(m, t), kn, an) = Also(NotifySakRetired(m, kn, an), t)
<1>1. ScheduleTx(m, t).old = m.old
  BY DEF Shaped, MkaFields, ScheduleTx
<1>2. /\ Shaped([m EXCEPT !.old = NoSak])
      /\ [ScheduleTx(m, t) EXCEPT !.old = NoSak] = ScheduleTx([m EXCEPT !.old = NoSak], t)
  BY DEF Shaped, MkaFields, ScheduleTx
<1> QED
  BY <1>1, <1>2 DEF NotifySakRetired, Also, R

\* The clock takes no reason away, and the loss of the peer adds one.
LEMMA MkaTickReasons ==
    ASSUME NEW m, Shaped(m), m.peer \in PeerRec, NEW d
    PROVE  /\ Shaped(MkaTick(m, d))
           /\ m.tx_reasons \subseteq MkaTick(m, d).tx_reasons
           /\ \/ MkaTick(m, d).peer.valid = m.peer.valid
              \/ "PEER_CHANGE" \in MkaTick(m, d).tx_reasons
<1> DEFINE a == Age(m, d)
           x == ExpirePeer(a)
           gone == [a EXCEPT !.peer.valid = FALSE, !.peer.live = FALSE]
           waits == SetState(gone, "WAIT_PEER")
<1>1. Shaped(a) /\ a.tx_reasons = m.tx_reasons /\ a.peer.valid = m.peer.valid
  BY DEF Age, Shaped, MkaFields, PeerRec
<1>2. Shaped(gone) /\ gone.tx_reasons = a.tx_reasons
  BY <1>1 DEF Shaped, MkaFields
<1>3. Shaped(waits) /\ waits.tx_reasons = a.tx_reasons
  BY <1>2 DEF SetState, Raise, Shaped, MkaFields
<1>4. Shaped(x) /\ a.tx_reasons \subseteq x.tx_reasons
      /\ (x.peer.valid = a.peer.valid \/ "PEER_CHANGE" \in x.tx_reasons)
  BY <1>1, <1>3 DEF ExpirePeer, ScheduleTx, Raise, Shaped, MkaFields
<1>5. LET y == SchedulePeriodic(x)
      IN  Shaped(y) /\ x.tx_reasons \subseteq y.tx_reasons /\ y.peer = x.peer
  BY <1>4 DEF SchedulePeriodic, ScheduleTx, Shaped, MkaFields
<1> QED
  BY <1>1, <1>4, <1>5 DEF MkaTick
=============================================================================
