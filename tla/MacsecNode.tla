------------------------------ MODULE MacsecNode ------------------------------
(***************************************************************************)
(* One station running the stack against an arbitrary environment: peers   *)
(* that hold the same CAK and may send any MKPDU at any time, in any order *)
(* and repeatedly, frames that fail authentication, a clock that jumps,    *)
(* transmissions that fail, an application that sends and receives, and    *)
(* restarts of the station itself.                                         *)
(***************************************************************************)
EXTENDS Macsec

CONSTANTS ConfigModes, \* what cfg.mode may be
          Prio,       \* cfg.key_server_priority
          Peers,      \* the other participants: [sci, mi, prio, dists], dists
                      \* the Distributed SAK sets it may send, NoDist included
          UseKeys,    \* the <<kn, an>> their SAK Use sets may name
          LocalKeys,  \* keys macsec_random may return here; bounds generation
          ClockSteps, \* intervals that may pass between two ticks
          DataFrames, \* protected frames that may arrive
          MaxBoots,   \* bound on the station's incarnations
          AsyncTx     \* calls may come between building an MKPDU and its report

\* The fields of an MKPDU have their widths; a Distributed SAK carries a key.
ASSUME NodeAssumption ==
    /\ ConfigModes \subseteq Modes /\ Prio \in Nat
    /\ \A peer \in Peers :
          /\ peer.sci \in Nat /\ peer.mi \in Nat /\ peer.prio \in Nat
          /\ \A dist \in peer.dists :
                /\ dist \in [has: {"none", "bad", "dist"}, kn: 0 .. KnMax,
                             an: 0 .. MkaMaxSA - 1, key: Key \cup {NoKey}]
                /\ dist.has = "dist" => dist.key \in Key
    /\ UseKeys \subseteq Nat \X Nat
    /\ LocalKeys \subseteq Key \cap Nat   \* drawn in increasing order
    /\ ClockSteps \subseteq Nat
    /\ DataFrames \subseteq Frame
    /\ MaxBoots \in Nat
    /\ AsyncTx \in BOOLEAN

Me == 1     \* this station's SCI; its MI is the number of the incarnation

VARIABLES c,       \* macsec_ctx_t
          boots,   \* incarnations so far
          issued,  \* history: keys macsec_random has returned
          sent,    \* history: keys in MKPDUs reported as transmitted
          onAir,   \* history: the key in the MKPDU that awaits its report
          late,    \* history: reasons scheduled since that MKPDU was built
          used,    \* history: used[k], packet numbers sent with key k
          confirmer \* history: MI of the last to confirm latest_sak, while CONFIRMED

vars == <<c, boots, issued, sent, onAir, late, used, confirmer>>

m == c.mka

Init ==
    /\ c \in {MacsecInit(mode, Me, 1, Prio) : mode \in ConfigModes}
    /\ boots = 1
    /\ issued = {}
    /\ sent = {}
    /\ onAir = NoKey
    /\ late = {}
    /\ used = [k \in Key |-> {}]
    /\ confirmer = NoMI

-----------------------------------------------------------------------------
\* The key macsec_random returns next, NoKey when the bound is reached.
Drawn ==
    IF LocalKeys \subseteq issued THEN NoKey
    ELSE CHOOSE k \in LocalKeys \ issued : \A j \in LocalKeys \ issued : k <= j

\* The step stays within the supply of keys and accounts for the one it took.
Draws ==
    /\ m'.latest.state # "NONE" => m'.latest.key # NoKey
    /\ issued' = IF m'.latest.key = Drawn /\ Drawn # NoKey
                 THEN issued \cup {Drawn} ELSE issued

Idle == AsyncTx \/ ~c.meta.valid

Forgetful(x) == [x EXCEPT !.mka.tx_reasons = {}]

\* Reasons a call on context x scheduled, r being its result on Forgetful(x).
Notes(r) == late' = IF c.meta.valid THEN late \cup r.c.mka.tx_reasons ELSE {}

Mkpdu(peer, listed, dist, use) ==
    [wellformed |-> TRUE, auth |-> TRUE, sci |-> peer.sci, mi |-> peer.mi, prio |-> peer.prio,
     listed |-> IF listed THEN m.mi ELSE NoMI, dist |-> dist, use |-> use]

\* A peer's SAK Use names the Key Server the two of them elect, and claims
\* transmission only with a key it also receives with.
Uses(peer) ==
    {NoUse, BadUse} \cup
    {[has |-> "use", mi |-> IF Prio < peer.prio THEN m.mi ELSE peer.mi,
      kn |-> ka[1], an |-> ka[2], tx |-> tr[1], rx |-> tr[2]] :
        ka \in UseKeys,
        tr \in {<<FALSE, FALSE>>, <<FALSE, TRUE>>, <<TRUE, TRUE>>}}

\* p was accepted, and its SAK Use says that its sender receives and sends
\* with latest_sak.
Confirms(p) ==
    /\ ~OwnFrame(m, p)
    /\ Scanned(p) /\ p.use.has = "use" /\ p.use.rx /\ p.use.tx
    /\ LET r == MkaInput(m, p, Drawn) IN r.ret = "OK" /\ UseNamesLatest(r.m, p.use)

ReceiveMkpdu(p) ==
    LET r == InputMkpdu(c, p, Drawn)
    IN  /\ Idle
        /\ c' = r.c
        /\ Draws
        /\ Notes(InputMkpdu(Forgetful(c), p, Drawn))
        /\ confirmer' = IF Confirms(p) THEN p.mi
                        ELSE IF m'.latest.state = "CONFIRMED" THEN confirmer ELSE NoMI
        /\ UNCHANGED <<boots, sent, onAir, used>>

\* A frame that does not authenticate, or does not parse.
ReceiveRejected(p, wellformed) ==
    LET q == [p EXCEPT !.wellformed = wellformed, !.auth = FALSE]
    IN  /\ Idle
        /\ c' = InputMkpdu(c, q, NoKey).c
        /\ UNCHANGED <<boots, issued, sent, onAir, late, used, confirmer>>

AdvanceClock(d) ==
    LET r == Tick(c, d)
    IN  /\ Idle
        /\ c' = r.c
        /\ late' = IF c.meta.valid /\ r.c.mka.peer.valid # m.peer.valid
                   THEN late \cup {"PEER_CHANGE"} ELSE late
        /\ UNCHANGED <<boots, issued, sent, onAir, used, confirmer>>

BuildMkpdu ==
    LET r == BuildControlFrame(c, Drawn)
    IN  /\ ~c.meta.valid
        /\ c' = r.c
        /\ Draws
        /\ onAir' = IF r.c.meta.dist THEN r.c.mka.latest.key ELSE NoKey
        /\ late' = {}
        /\ UNCHANGED <<boots, sent, used, confirmer>>

TxSucceeded ==
    /\ c.meta.valid
    /\ c' = NotifyControlTxSuccess(c).c
    /\ sent' = IF onAir = NoKey THEN sent ELSE sent \cup {onAir}
    /\ onAir' = NoKey
    /\ UNCHANGED <<boots, issued, late, used, confirmer>>

TxFailed ==
    /\ c.meta.valid
    /\ c' = NotifyControlTxFailure(c).c
    /\ onAir' = NoKey
    /\ UNCHANGED <<boots, issued, sent, late, used, confirmer>>

SendData ==
    LET r  == Output(c)
        pn == c.fc.tx_sak.next_pn
    IN  /\ c' = r.c
        /\ used' = IF r.ret = "OK" /\ c.mode # "DISABLED"
                   THEN [used EXCEPT ![r.c.fc.gcm] = @ \cup {pn}] ELSE used
        /\ UNCHANGED <<boots, issued, sent, onAir, late, confirmer>>

ReceiveData(f) ==
    /\ c' = InputProtected(c, f).c
    /\ UNCHANGED <<boots, issued, sent, onAir, late, used, confirmer>>

\* macsec_clear and macsec_init, or a power cycle.
Restart ==
    /\ boots < MaxBoots
    /\ boots' = boots + 1
    /\ c' = MacsecInit(c.mode, Me, boots + 1, Prio)
    /\ onAir' = NoKey
    /\ late' = {}
    /\ confirmer' = NoMI
    /\ UNCHANGED <<issued, sent, used>>

Next ==
    \/ \E peer \in Peers, listed \in BOOLEAN :
          \E dist \in peer.dists, use \in Uses(peer) : ReceiveMkpdu(Mkpdu(peer, listed, dist, use))
    \/ \E peer \in Peers, wellformed \in BOOLEAN :
          ReceiveRejected(Mkpdu(peer, TRUE, NoDist, NoUse), wellformed)
    \/ \E d \in ClockSteps : AdvanceClock(d)
    \/ BuildMkpdu
    \/ TxSucceeded
    \/ TxFailed
    \/ SendData
    \/ \E f \in DataFrames : ReceiveData(f)
    \/ Restart

Spec == Init /\ [][Next]_vars

-----------------------------------------------------------------------------
(* Properties *)

Sak == [state: SakStates, key: Key \cup {NoKey}, kn: 0 .. KnMax, an: AN,
        origin: Origins, rx_installed: BOOLEAN, tx_installed: BOOLEAN,
        peer_rx: BOOLEAN, peer_tx: BOOLEAN]

\* The context stays within macsec_ctx_t: message numbers, key numbers and
\* association numbers wrap inside their ranges (mka.c 2414-2546).
TypeOK ==
    /\ c.mode \in ConfigModes /\ c.state \in MacsecStates /\ c.fc \in FrameCtx
    /\ m.state \in MkaStates /\ m.latest \in Sak /\ m.old \in Sak
    /\ m.events \subseteq Events /\ m.tx_reasons \subseteq TxReasons
    /\ m.local_mn \in 0 .. MnMax /\ m.next_kn \in 0 .. KnMax /\ m.next_an \in AN
    /\ m.peer.idle \in 0 .. PeerTimeout /\ m.since_tx \in {Never, 0, 1}
    /\ issued \subseteq LocalKeys /\ sent \subseteq Key /\ late \subseteq TxReasons
    /\ used \in [Key -> SUBSET PN] /\ confirmer \in Nat

\* The participant's state says exactly what is known of the peer, whatever
\* MKPDUs, timeouts and installations came in between, and no illegal
\* transition of the participant or of a SAK is ever attempted (the tables
\* of mka.c 104-255 are complete for what the handlers do).
StateMatchesPeer ==
    c.mode = "MKA_PSK" =>
        CASE m.state = "WAIT_PEER"       -> ~m.peer.valid
          [] m.state = "PEER_DISCOVERED" -> m.peer.valid /\ ~m.peer.live
          [] m.state = "PEER_LIVE"       -> m.peer.valid /\ m.peer.live
          [] m.state = "OPERATIONAL"     -> /\ m.peer.valid /\ m.peer.live
                                            /\ m.latest.tx_installed \/ c.state = "ERROR"
          [] OTHER                       -> FALSE

\* The two SAK slots and the frame layer agree: the transmit association is
\* the one MKA believes installed, and every key the frame layer still
\* receives with belongs to latest_sak or old_sak, so no retired or
\* superseded key stays usable (macsec.c 129-334).
SlotsMatchFrameLayer ==
    c.mode = "MKA_PSK" =>
        /\ c.fc.tx_sak.valid =>
              \E sak \in {m.latest, m.old} :
                  sak.tx_installed /\ sak.key = c.fc.tx_sak.key /\ sak.an = c.fc.tx_sak.an
        /\ m.latest.tx_installed => c.fc.tx_sak.key = m.latest.key
        /\ \A an \in AN : c.fc.rx_sak[an].valid =>
              \E sak \in {m.latest, m.old} :
                  sak.rx_installed /\ sak.key = c.fc.rx_sak[an].key /\ sak.an = an

\* A station that reports SECURED can send and can receive what its peer
\* sends with the same key: removing the old SAK leaves the latest one
\* installed in both directions (macsec.c 388-395).
SecuredBothWays ==
    c.state = "SECURED" /\ c.mode # "DISABLED" =>
        /\ c.fc.tx_sak.valid
        /\ c.fc.rx_sak[c.fc.tx_sak.an].valid
        /\ c.fc.rx_sak[c.fc.tx_sak.an].key = c.fc.tx_sak.key

\* A key this station generated reaches its frame layer only after an MKPDU
\* carrying that very key was transmitted (mka.c 732-741).
DistributedBeforeInstalled ==
    \A sak \in {m.latest, m.old} :
        sak.origin = "LOCAL" /\ (sak.rx_installed \/ sak.tx_installed) => sak.key \in sent

\* The next frame a secured station sends has a packet number that it never
\* used with that key, over rekeys, repeated key installations and restarts
\* (macsec.c 87-127, frame_crypto.c 248-272).
NonceOnce ==
    c.state = "SECURED" /\ ReadyTx(c.fc) =>
        c.fc.tx_sak.next_pn \notin used[c.fc.tx_sak.key]

\* A rekey removes the old SAK on the word of the current peer alone: it is
\* that peer, and not one it replaced, which confirmed the latest SAK, and what
\* remains is the latest SAK in both directions, the receive association that
\* is removed by its number included (mka.c 860-875, 1421-1444; macsec.c 129-210).
RetiresOnlyWhenConfirmed ==
    [][m.old.state = "RETIRING" /\ m'.old.state = "NONE" /\ boots' = boots =>
          /\ m'.latest.state = "CONFIRMED"
          /\ m'.peer.valid /\ confirmer' = m'.peer.mi
          /\ c'.fc.tx_sak.key = m'.latest.key
          /\ c'.fc.rx_sak[m'.latest.an].valid
          /\ c'.fc.rx_sak[m'.latest.an].key = m'.latest.key]_vars

\* A confirmed SAK is confirmed by the peer that is there: "this prevents
\* confirmation belonging to an old peer from surviving a participant
\* restart" (mka.c 1780-1784).
ConfirmationIsPeers ==
    m.peer.valid /\ m.latest.state = "CONFIRMED" => confirmer = m.peer.mi

\* Zero is no message number and no key number: the counters skip it where they
\* wrap (mka.c 2498-2503, 2521-2529), or the installation at this end and the
\* parser at the other would refuse the key (mka.c 715, 1165).
NumbersNeverZero ==
    c.mode = "MKA_PSK" =>
        /\ m.local_mn # 0 /\ m.next_kn # 0
        /\ \A sak \in {m.latest, m.old} : sak.state # "NONE" => sak.kn # 0

\* The station learns whether its MKPDU was sent; a restart tells it nothing.
TxReported == c.meta.valid /\ ~c'.meta.valid /\ boots' = boots

\* Reasons scheduled after an MKPDU was built, other than those it already
\* stood for, outlive the report on it, good or bad (mka.c 2528-2532).
NewReasonsOutliveReport ==
    [][TxReported => late \ c.meta.reasons \subseteq m'.tx_reasons]_vars
=============================================================================
