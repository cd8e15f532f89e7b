--------------------------------- MODULE Mka ---------------------------------
(***************************************************************************)
(* The MACsec Key Agreement participant, mka.c, as operators on the value  *)
(* of macsec_mka_ctx_t.  An operator that can fail returns a record [ret,  *)
(* m]: the C function's return code and the context it leaves behind, also *)
(* when it fails half-way.                                                 *)
(*                                                                         *)
(* Abstractions.  A Member Identifier is a number and 0 is a zeroized one; *)
(* a participant's MAC and SCI are its node number.  Message numbers of    *)
(* the peer are only logged by the code and left out.  Time is kept as     *)
(* ages in units of tx_interval_ms: peer.idle since last_seen_ms, since_tx *)
(* since last_tx_ms.  Of the event flags only the four macsec.c acts on    *)
(* are kept.  lowest_pn is always 1 and left out.  A random key is a       *)
(* parameter k that the caller draws fresh.                                *)
(***************************************************************************)
EXTENDS MacsecCommon

CONSTANTS CknLen,   \* ckn_len, 1..32
          MnMax,    \* largest message number, UINT32_MAX in the code
          KnMax     \* largest key number, UINT32_MAX in the code

ASSUME MkaAssumption ==
    /\ CknLen \in 1 .. 32
    /\ MnMax \in Nat \ {0}
    /\ KnMax \in Nat \ {0}

NoMI == 0
MkaMaxSA == 4           \* MACSEC_FRAME_MAX_SA
PeerTimeout == 3        \* MACSEC_MKA_PEER_TIMEOUT_MULTIPLIER, in intervals
Never == -1             \* last_tx_ms = 0

MkaStates == {"INIT", "WAIT_PEER", "PEER_DISCOVERED", "PEER_LIVE",
              "OPERATIONAL", "ERROR"}
SakStates == {"NONE", "CANDIDATE", "DISTRIBUTION_PENDING", "DISTRIBUTED",
              "INSTALL_PENDING", "ACTIVE", "CONFIRMED", "RETIRING"}
Origins   == {"NONE", "LOCAL", "REMOTE"}
Events    == {"ERROR", "PEER_LOST", "SAK_ACTIVE", "SAK_RETIRE_REQUIRED"}
TxReasons == {"INITIAL", "PERIODIC", "PEER_CHANGE", "KEY_SERVER_CHANGE",
              "DISTRIBUTE_SAK", "SAK_USE", "REKEY"}

NoSak == [state |-> "NONE", key |-> NoKey, kn |-> 0, an |-> 0, origin |-> "NONE",
          rx_installed |-> FALSE, tx_installed |-> FALSE,
          peer_rx |-> FALSE, peer_tx |-> FALSE]

NoPeer == [valid |-> FALSE, mi |-> NoMI, sci |-> 0, prio |-> 0,
           live |-> FALSE, idle |-> 0]

\* Parameter sets of an MKPDU that are absent or that the parser refuses.
NoDist  == [has |-> "none", kn |-> 0, an |-> 0, key |-> NoKey]
BadDist == [has |-> "bad", kn |-> 0, an |-> 0, key |-> NoKey]
NoUse   == [has |-> "none", mi |-> NoMI, kn |-> 0, an |-> 0, tx |-> FALSE, rx |-> FALSE]
BadUse  == [has |-> "bad", mi |-> NoMI, kn |-> 0, an |-> 0, tx |-> FALSE, rx |-> FALSE]

R(ret, m) == [ret |-> ret, m |-> m]

-----------------------------------------------------------------------------
(* Lifecycle of the participant and of a SAK *)

StateMoves ==
    [INIT            |-> {"WAIT_PEER"},
     WAIT_PEER       |-> {"PEER_DISCOVERED", "PEER_LIVE"},
     PEER_DISCOVERED |-> {"WAIT_PEER", "PEER_LIVE"},
     PEER_LIVE       |-> {"WAIT_PEER", "PEER_DISCOVERED", "OPERATIONAL"},
     OPERATIONAL     |-> {"WAIT_PEER", "PEER_DISCOVERED", "PEER_LIVE"},
     ERROR           |-> {}]

SakMoves ==
    [NONE                 |-> {"CANDIDATE"},
     CANDIDATE            |-> {"DISTRIBUTION_PENDING", "INSTALL_PENDING", "NONE"},
     DISTRIBUTION_PENDING |-> {"DISTRIBUTED", "NONE"},
     DISTRIBUTED          |-> {"INSTALL_PENDING", "RETIRING"},
     INSTALL_PENDING      |-> {"ACTIVE", "RETIRING"},
     ACTIVE               |-> {"CONFIRMED", "RETIRING"},
     CONFIRMED            |-> {"ACTIVE", "RETIRING"},
     RETIRING             |-> {"NONE"}]

Raise(m, events) == [m EXCEPT !.events = @ \cup events]

ScheduleTx(m, reasons) == [m EXCEPT !.tx_reasons = @ \cup reasons]

SetState(m, new) ==
    IF new = m.state \/ new = "ERROR" \/ new \in StateMoves[m.state]
    THEN [m EXCEPT !.state = new]
    ELSE [Raise(m, {"ERROR"}) EXCEPT !.state = "ERROR"]

\* slot is "latest" or "old".
SetSakState(m, slot, new) ==
    IF new = m[slot].state \/ new \in SakMoves[m[slot].state]
    THEN [m EXCEPT ![slot].state = new]
    ELSE SetState(m, "ERROR")

\* Mutation: an old SAK still in use is overwritten.
MoveOverOld(m) ==
    LET moved == SetSakState([m EXCEPT !.old = m.latest], "old", "RETIRING")
    IN  IF m.latest.state = "NONE" THEN R("NOT_READY", m)
        ELSE R("OK", [moved EXCEPT !.latest = NoSak])

LatestMoved(m) ==
    IF m.old.state = "RETIRING" THEN R("OK", [m EXCEPT !.latest = NoSak]) ELSE R("STATE", m)

MoveLatestToOld(m) ==
    LET copied == [m EXCEPT !.old = [m.latest EXCEPT !.peer_rx = FALSE,
                                                     !.peer_tx = FALSE]]
    IN  IF m.latest.state = "NONE" THEN R("NOT_READY", m)
        ELSE IF m.old.state # "NONE" THEN R("BUSY", m)
        ELSE IF ~m.latest.rx_installed /\ ~m.latest.tx_installed
             THEN R("OK", [m EXCEPT !.latest = NoSak])
        ELSE LatestMoved(SetSakState(copied, "old", "RETIRING"))

\* Both ways to a new key free the latest slot first, when it is taken.
FreeLatest(m) ==
    IF m.latest.state = "NONE" THEN R("OK", m) ELSE MoveLatestToOld(m)

-----------------------------------------------------------------------------
(* Creation.  ZeroMka is a context nobody initialised: no keys, and so no   *)
(* ICV verification.                                                        *)

ZeroMka == [state |-> "INIT", keyed |-> FALSE, sci |-> 0, mi |-> NoMI, prio |-> 0,
            local_key_server |-> FALSE, peer |-> NoPeer,
            latest |-> NoSak, old |-> NoSak,
            local_mn |-> 0, next_kn |-> 0, next_an |-> 0, since_tx |-> Never,
            events |-> {}, tx_reasons |-> {}]

MkaInit(sci, mi, prio) ==
    LET m == [ZeroMka EXCEPT !.keyed = TRUE, !.sci = sci, !.mi = mi, !.prio = prio,
                             !.local_key_server = TRUE,
                             !.local_mn = 1, !.next_kn = 1]
    IN  ScheduleTx(SetState(m, "WAIT_PEER"), {"INITIAL"})

-----------------------------------------------------------------------------
(* Key Server election and key generation *)

LocalWinsKeyServer(m) ==
    \/ ~m.peer.valid
    \/ m.prio < m.peer.prio
    \/ m.prio = m.peer.prio /\ MacsecCompare(m.sci, m.peer.sci) < 0

GeneratedSak(m, k) ==
    [NoSak EXCEPT !.key = k, !.kn = m.next_kn, !.an = m.next_an % MkaMaxSA,
                  !.origin = "LOCAL"]

EnsureSak(m, k) ==
    LET fresh == [m EXCEPT !.latest = GeneratedSak(m, k)]
    IN  IF ~m.local_key_server THEN R("STATE", m)
        ELSE IF ~(m.peer.valid /\ m.peer.live) THEN R("NOT_READY", m)
        ELSE IF m.latest.state # "NONE"
             THEN R(IF m.latest.origin = "LOCAL" THEN "OK" ELSE "STATE", m)
        ELSE R("OK", ScheduleTx(SetSakState(SetSakState(fresh, "latest", "CANDIDATE"),
                                            "latest", "DISTRIBUTION_PENDING"),
                                {"DISTRIBUTE_SAK"}))

\* The steps of macsec_mka_start_rekey, each on the result r of the one before.
GenerateIfLive(r, k) ==
    IF r.ret = "OK" /\ r.m.peer.valid /\ r.m.peer.live THEN EnsureSak(r.m, k) ELSE r

ScheduleRekey(r) ==
    IF r.ret # "OK" THEN r
    ELSE R("OK", ScheduleTx(r.m, {"REKEY", "PEER_CHANGE"} \cup
                                 (IF r.m.latest.state # "NONE" THEN {"DISTRIBUTE_SAK"} ELSE {})))

StartRekey(m, k) ==
    IF ~m.local_key_server THEN R("STATE", m)
    ELSE IF m.old.state # "NONE" THEN R("BUSY", m)
    ELSE ScheduleRekey(GenerateIfLive(FreeLatest(m), k))

-----------------------------------------------------------------------------
(* Receiving an MKPDU.  p is [wellformed, auth, sci, mi, prio, listed, dist, *)
(* use]; listed is the MI in its peer list.                                  *)

\* Ethernet, EAPOL and Basic set with ICV, then the optional parameter sets.
FrameLen(p) ==
    66 + CknLen + (IF p.listed # NoMI THEN 20 ELSE 0)
                + (IF p.dist.has # "none" THEN 32 ELSE 0)
                + (IF p.use.has # "none" THEN 44 ELSE 0)

\* The three parameter-set scanners skip a frame shorter than 90 bytes.
Scanned(p) == FrameLen(p) >= 90

OwnFrame(m, p) == p.sci = m.sci \/ p.mi = m.mi

ReceivedSak(p) ==
    [NoSak EXCEPT !.key = p.dist.key, !.kn = p.dist.kn, !.an = p.dist.an,
                  !.origin = "REMOTE"]

SameSak(m, p) ==
    /\ m.latest.state # "NONE"
    /\ m.latest.origin = "REMOTE"
    /\ m.latest.kn = p.dist.kn
    /\ m.latest.an = p.dist.an
    /\ m.latest.key = p.dist.key

\* r is the result of freeing the latest slot.
TakeReceivedSak(r, p) ==
    IF r.ret # "OK" THEN r
    ELSE R("OK", SetSakState([r.m EXCEPT !.latest = ReceivedSak(p)], "latest", "CANDIDATE"))

ParseDistributedSak(m, p) ==
    IF ~Scanned(p) \/ p.dist.has = "none" THEN R("NOT_READY", m)
    ELSE IF p.dist.has = "bad" \/ p.dist.kn = 0 THEN R("BUFFER", m)
    ELSE IF ~m.keyed THEN R("CRYPTO", m)
    ELSE IF SameSak(m, p) THEN R("NOT_READY", m)
    ELSE TakeReceivedSak(FreeLatest(m), p)

\* The SAK Use describes latest_sak, by the election's view of who issued it.
UseNamesLatest(m, use) ==
    /\ m.latest.state \in {"DISTRIBUTED", "INSTALL_PENDING", "ACTIVE", "CONFIRMED"}
    /\ IF m.local_key_server
       THEN m.latest.origin = "LOCAL" /\ use.mi = m.mi
       ELSE m.latest.origin = "REMOTE" /\ m.peer.valid /\ use.mi = m.peer.mi
    /\ use.kn = m.latest.kn
    /\ use.an = m.latest.an

\* Mutation: the retirement is never asked for.
RetirementForgotten(m) == m

RequestRetirement(m) ==
    IF m.old.state = "RETIRING" THEN Raise(m, {"SAK_RETIRE_REQUIRED"}) ELSE m

\* Mutation: the old SAK is retired as soon as the peer receives with the new.
ParseSakUseEager(m, p) ==
    LET noted == [m EXCEPT !.latest.peer_tx = p.use.tx, !.latest.peer_rx = p.use.rx]
    IN  IF ~Scanned(p) \/ p.use.has = "none" THEN R("NOT_READY", m)
        ELSE IF p.use.has = "bad" THEN R("BUFFER", m)
        ELSE IF ~UseNamesLatest(m, p.use) THEN R("NOT_READY", m)
        ELSE R("OK", IF p.use.rx THEN RequestRetirement(noted) ELSE noted)

ParseSakUse(m, p) ==
    LET noted     == [m EXCEPT !.latest.peer_tx = p.use.tx, !.latest.peer_rx = p.use.rx]
        confirmed == SetSakState(noted, "latest", "CONFIRMED")
    IN  IF ~Scanned(p) \/ p.use.has = "none" THEN R("NOT_READY", m)
        ELSE IF p.use.has = "bad" THEN R("BUFFER", m)
        ELSE IF ~UseNamesLatest(m, p.use) THEN R("NOT_READY", m)
        ELSE IF p.use.rx /\ p.use.tx
             THEN IF m.latest.state = "ACTIVE" THEN R("OK", RequestRetirement(confirmed))
                  ELSE R("OK", noted)
        ELSE IF m.latest.state = "CONFIRMED"
             THEN R("OK", SetSakState(noted, "latest", "ACTIVE"))
        ELSE R("OK", noted)

PeerIdentityChanged(m, p) ==
    ~m.peer.valid \/ m.peer.mi # p.mi \/ m.peer.sci # p.sci

UpdatePeer(m, p) ==
    [m EXCEPT !.peer = [valid |-> TRUE, mi |-> p.mi, sci |-> p.sci, prio |-> p.prio,
                        live |-> m.peer.live, idle |-> 0]]

\* m is the context before the MKPDU, n the one with the peer updated.
UpdateLiveness(m, n, p) ==
    IF Scanned(p) /\ p.listed = m.mi /\ p.listed # NoMI
    THEN SetState([n EXCEPT !.peer.live = TRUE], "PEER_LIVE")
    ELSE IF PeerIdentityChanged(m, p) \/ ~m.peer.live
    THEN SetState([n EXCEPT !.peer.live = FALSE], "PEER_DISCOVERED")
    ELSE n

\* Mutation: an election is held only once the peer is live.
ElectWhenLive(m) ==
    [m EXCEPT !.local_key_server = IF m.peer.live THEN LocalWinsKeyServer(m) ELSE @]

Elect(m) == [m EXCEPT !.local_key_server = LocalWinsKeyServer(m)]

\* Mutation: a new peer gets the key of the one before it.
RekeyForNobody(m, n, p, k) == R("OK", n)

RekeyForNewPeer(m, n, p, k) ==
    IF PeerIdentityChanged(m, p) /\ n.local_key_server /\ n.latest.state # "NONE"
    THEN StartRekey(n, k)
    ELSE R("OK", n)

\* Mutation: every MKPDU is answered.
ReplyAlways(m, n, p) == ScheduleTx(n, {"PEER_CHANGE"})

\* Replies scheduled at the end of macsec_mka_input; m is the context before.
ScheduleReplies(m, n, p) ==
    LET changed == PeerIdentityChanged(m, p)
        lost    == ~changed /\ m.peer.live /\ ~n.peer.live
        peer    == changed \/ m.peer.live # n.peer.live
        server  == m.local_key_server # n.local_key_server
    IN  Raise(ScheduleTx(n, (IF peer THEN {"PEER_CHANGE"} ELSE {}) \cup
                            (IF server THEN {"KEY_SERVER_CHANGE"} ELSE {})),
              IF lost THEN {"PEER_LOST"} ELSE {})

\* An authenticated MKPDU of another participant: Distributed SAK, peer and
\* election, rekey, SAK Use, replies.  m is the context before the MKPDU, r the
\* result of the step before.
FinishInput(m, r, p) ==
    IF r.ret \notin {"OK", "NOT_READY"} THEN r ELSE R("OK", ScheduleReplies(m, r.m, p))

NoteSakUse(m, r, p) ==
    IF r.ret \notin {"OK", "BUSY"} THEN r ELSE FinishInput(m, ParseSakUse(r.m, p), p)

NotePeer(m, r, p, k) ==
    LET elected == Elect(UpdateLiveness(m, UpdatePeer(r.m, p), p))
    IN  IF r.ret \notin {"OK", "NOT_READY"} THEN r
        ELSE NoteSakUse(m, RekeyForNewPeer(m, elected, p, k), p)

AcceptMkpdu(m, p, k) == NotePeer(m, ParseDistributedSak(m, p), p, k)

MkaInput(m, p, k) ==
    IF ~p.wellformed THEN R("BUFFER", m)
    ELSE IF OwnFrame(m, p) THEN R("OK", m)
    ELSE IF m.keyed /\ ~p.auth THEN R("AUTH", m)
    ELSE AcceptMkpdu(m, p, k)

-----------------------------------------------------------------------------
(* The clock.  d is the number of intervals since the last tick.            *)

Older(age, d, cap) ==
    IF age = Never THEN Never ELSE IF age + d > cap THEN cap ELSE age + d

Age(m, d) == [m EXCEPT !.peer.idle = Older(@, d, PeerTimeout),
                       !.since_tx = Older(@, d, 1)]

\* Mutation: a lost peer does not change the participant's state.
ExpirePeerQuietly(m) ==
    IF m.peer.valid /\ m.peer.idle >= PeerTimeout
    THEN ScheduleTx(Raise([m EXCEPT !.peer.valid = FALSE, !.peer.live = FALSE],
                          {"PEER_LOST"}),
                    {"PEER_CHANGE"})
    ELSE m

ExpirePeer(m) ==
    IF m.peer.valid /\ m.peer.idle >= PeerTimeout
    THEN ScheduleTx(Raise(SetState([m EXCEPT !.peer.valid = FALSE, !.peer.live = FALSE],
                                   "WAIT_PEER"),
                          {"PEER_LOST"}),
                    {"PEER_CHANGE"})
    ELSE m

SchedulePeriodic(m) ==
    IF m.tx_reasons # {} THEN m
    ELSE IF m.since_tx = Never THEN ScheduleTx(m, {"INITIAL"})
    ELSE IF m.since_tx >= 1 THEN ScheduleTx(m, {"PERIODIC"})
    ELSE m

MkaTick(m, d) == SchedulePeriodic(ExpirePeer(Age(m, d)))

-----------------------------------------------------------------------------
(* Transmitting an MKPDU: build, then success or failure *)

Distributable == {"DISTRIBUTION_PENDING", "DISTRIBUTED", "INSTALL_PENDING",
                  "ACTIVE", "CONFIRMED"}

\* Mutation: a key is distributed once, whether or not the peer got it.
DistributesOnce(m) ==
    /\ m.local_key_server
    /\ m.peer.valid /\ m.peer.live
    /\ m.latest.state = "DISTRIBUTION_PENDING"

IncludesDistributedSak(m) ==
    /\ m.local_key_server
    /\ m.peer.valid /\ m.peer.live
    /\ m.latest.state \in Distributable
    /\ m.latest.origin = "LOCAL"
    /\ m.latest.state = "DISTRIBUTION_PENDING" \/ ~m.latest.peer_rx

IncludesSakUse(m) ==
    /\ m.latest.state # "NONE" \/ m.old.state = "RETIRING"
    /\ m.peer.valid /\ m.peer.live

WrittenSakUse(m) ==
    [has |-> "use",
     mi  |-> IF m.latest.state = "NONE" THEN NoMI
             ELSE IF m.local_key_server THEN m.mi ELSE m.peer.mi,
     kn  |-> m.latest.kn, an |-> m.latest.an,
     tx  |-> m.latest.tx_installed, rx |-> m.latest.rx_installed]

WrittenDistributedSak(m) ==
    [has |-> "dist", kn |-> m.latest.kn, an |-> m.latest.an, key |-> m.latest.key]

MkpduOf(m) ==
    [wellformed |-> TRUE, auth |-> TRUE, sci |-> m.sci, mi |-> m.mi, prio |-> m.prio,
     listed |-> IF m.peer.valid THEN m.peer.mi ELSE NoMI,
     dist   |-> IF IncludesDistributedSak(m) THEN WrittenDistributedSak(m) ELSE NoDist,
     use    |-> IF IncludesSakUse(m) THEN WrittenSakUse(m) ELSE NoUse]

\* macsec_mka_tx_meta_t
NoMeta == [valid |-> FALSE, mn |-> 0, reasons |-> {}, dist |-> FALSE, kn |-> 0, an |-> 0]

MetaOf(m) ==
    LET dist == IncludesDistributedSak(m)
    IN  [valid |-> TRUE, mn |-> m.local_mn, reasons |-> m.tx_reasons, dist |-> dist,
         kn |-> IF dist THEN m.latest.kn ELSE 0, an |-> IF dist THEN m.latest.an ELSE 0]

\* The context after macsec_mka_build_tx_frame; with "OK" the frame is
\* MkpduOf and the metadata MetaOf that context.
BuildTxFrame(m, k) ==
    IF ~m.keyed THEN R("STATE", m)
    ELSE IF m.tx_reasons = {} THEN R("NOT_READY", m)
    ELSE IF m.local_key_server /\ m.peer.valid /\ m.peer.live
    THEN EnsureSak(m, k)
    ELSE R("OK", m)

NextMN(mn) == IF mn = MnMax THEN 1 ELSE mn + 1

\* Mutations: the key number runs past its largest value, or wraps to zero.
NextKNUnbounded(kn) == kn + 1
NextKNThroughZero(kn) == (kn + 1) % (KnMax + 1)

NextKN(kn) == IF kn = KnMax THEN 1 ELSE kn + 1

\* First successful transmission of latest_sak: it is distributed, and the
\* next key number and AN are reserved.
CommitDistribution(m) ==
    IF m.latest.state = "DISTRIBUTION_PENDING"
    THEN [SetSakState(m, "latest", "DISTRIBUTED") EXCEPT
              !.next_kn = NextKN(@),
              !.next_an = (@ + 1) % MkaMaxSA]
    ELSE m

DistMatchesLatest(m, meta) ==
    /\ m.latest.state \in Distributable
    /\ m.latest.origin = "LOCAL"
    /\ m.latest.kn = meta.kn
    /\ m.latest.an = meta.an

\* Mutation: every pending reason is cleared.
NotifyTxSuccessForgets(m, meta) ==
    LET sent == IF meta.dist THEN CommitDistribution(m) ELSE m
    IN  IF meta.mn # m.local_mn THEN R("STATE", m)
        ELSE IF meta.reasons = {} THEN R("PARAM", m)
        ELSE IF meta.dist /\ ~DistMatchesLatest(m, meta) THEN R("STATE", m)
        ELSE R("OK", [sent EXCEPT !.local_mn = NextMN(@), !.since_tx = 0,
                                  !.tx_reasons = {}])

NotifyTxSuccess(m, meta) ==
    LET sent == IF meta.dist THEN CommitDistribution(m) ELSE m
    IN  IF meta.mn # m.local_mn THEN R("STATE", m)
        ELSE IF meta.reasons = {} THEN R("PARAM", m)
        ELSE IF meta.dist /\ ~DistMatchesLatest(m, meta) THEN R("STATE", m)
        ELSE R("OK", [sent EXCEPT !.local_mn = NextMN(@), !.since_tx = 0,
                                  !.tx_reasons = @ \ meta.reasons])

\* Mutation: a failed transmission counts as a distribution.
NotifyTxFailureCommits(m, meta) ==
    ScheduleTx(IF meta.dist THEN CommitDistribution(m) ELSE m, meta.reasons)

NotifyTxFailure(m, meta) == ScheduleTx(m, meta.reasons)

-----------------------------------------------------------------------------
(* Hand-over to the data plane *)

TakeSakForInstall(m) ==
    LET available ==
            \/ m.latest.origin = "REMOTE" /\ m.latest.state = "CANDIDATE"
            \/ m.latest.origin = "LOCAL" /\ m.latest.state = "DISTRIBUTED"
            \/ m.latest.origin # "NONE" /\ m.latest.state = "INSTALL_PENDING"
    IN  IF m.latest.state = "NONE" THEN R("NOT_READY", m)
        ELSE IF m.latest.kn = 0 THEN R("STATE", m)
        ELSE IF ~available \/ (m.latest.rx_installed /\ m.latest.tx_installed)
             THEN R("NOT_READY", m)
        ELSE R("OK", SetSakState(m, "latest", "INSTALL_PENDING"))

\* Mutation: OPERATIONAL whether or not the peer is live.
ActivateSakAlways(m) ==
    LET active == Raise(SetSakState(m, "latest", "ACTIVE"), {"SAK_ACTIVE"})
    IN  R("OK", SetState(ScheduleTx(active, {"SAK_USE"}), "OPERATIONAL"))

\* Mutation: the old SAK is retired without waiting for the peer.
ActivateSakRetires(m) ==
    LET active == Raise(SetSakState(m, "latest", "ACTIVE"), {"SAK_ACTIVE"})
    IN  R("OK", RequestRetirement(active))

\* Both directions are installed: the SAK is active, perhaps already confirmed.
ConfirmIfPeerDid(m) ==
    IF m.latest.peer_rx /\ m.latest.peer_tx
    THEN RequestRetirement(SetSakState(m, "latest", "CONFIRMED")) ELSE m

BecomeOperational(m) ==
    IF m.peer.valid /\ m.peer.live THEN SetState(m, "OPERATIONAL") ELSE m

OperationalOrError(m) ==
    R(IF m.peer.valid /\ m.peer.live /\ m.state # "OPERATIONAL" THEN "STATE" ELSE "OK", m)

ActivateSak(m) ==
    LET active == Raise(SetSakState(m, "latest", "ACTIVE"), {"SAK_ACTIVE"})
    IN  OperationalOrError(
            BecomeOperational(ScheduleTx(ConfirmIfPeerDid(active), {"SAK_USE"})))

NotifySakInstalled(m, kn, an, dir) ==
    LET noted == IF dir = "RX" THEN [m EXCEPT !.latest.rx_installed = TRUE]
                 ELSE [m EXCEPT !.latest.tx_installed = TRUE,
                                !.old.tx_installed = @ /\ m.old.state # "RETIRING"]
    IN  IF m.latest.state = "NONE" THEN R("NOT_READY", m)
        ELSE IF m.latest.state # "INSTALL_PENDING" THEN R("STATE", m)
        ELSE IF m.latest.kn # kn \/ m.latest.an # an THEN R("PARAM", m)
        ELSE IF noted.latest.rx_installed /\ noted.latest.tx_installed
             THEN ActivateSak(noted)
        ELSE R("OK", noted)

NotifySakRetired(m, kn, an) ==
    IF m.old.state = "NONE" THEN R("NOT_READY", m)
    ELSE IF m.old.kn # kn \/ m.old.an # an THEN R("PARAM", m)
    ELSE IF m.old.state # "RETIRING" THEN R("STATE", m)
    ELSE R("OK", [m EXCEPT !.old = NoSak])
=============================================================================
