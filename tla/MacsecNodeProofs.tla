--------------------------- MODULE MacsecNodeProofs ---------------------------
(***************************************************************************)
(* The properties of a station among arbitrary peers, for every number of  *)
(* keys, peers and restarts and every range of the counters.               *)
(***************************************************************************)
EXTENDS MacsecNode, MacsecProofs, WellFoundedInduction

-----------------------------------------------------------------------------
(* Inputs *)

\* A key that macsec_random returns was never returned before.
LEMMA DrawnType == Drawn \in (LocalKeys \ issued) \cup {NoKey}
<1> DEFINE fresh == LocalKeys \ issued
           less == {ss \in Nat \X Nat : ss[1] < ss[2]}
<1>1. CASE fresh = {}
  BY <1>1 DEF Drawn
<1>2. CASE fresh # {}
  <2>1. fresh \subseteq Nat
    BY NodeAssumption
  <2>2. IsWellFoundedOn(less, Nat)
    BY NatLessThanWellFounded DEF OpToRel
  <2> HIDE DEF less, fresh
  <2>3. \E k \in fresh : \A j \in fresh : ~(<<j, k>> \in less)
    BY <1>2, <2>1, <2>2, WFMin
  <2>4. \E k \in fresh : \A j \in fresh : k <= j
    <3>1. ASSUME NEW j \in Nat, NEW k \in Nat, ~(<<j, k>> \in less) PROVE k <= j
      <4>1. <<j, k>> \in Nat \X Nat /\ <<j, k>>[1] = j /\ <<j, k>>[2] = k
        OBVIOUS
      <4> QED
        BY <3>1, <4>1 DEF less
    <3> QED
      BY <2>1, <2>3, <3>1
  <2>5. Drawn \in fresh
    BY <1>2, <2>4 DEF Drawn, fresh
  <2> QED
    BY <2>5 DEF fresh
<1> QED
  BY <1>1, <1>2

\* What a peer may send is an MKPDU.
LEMMA MkpduType ==
    ASSUME m \in MkaCtx, NEW peer \in Peers, NEW listed \in BOOLEAN,
           NEW dist, dist \in peer.dists \cup {NoDist},
           NEW use, use \in Uses(peer) \cup {NoUse},
           NEW p, p = Mkpdu(peer, listed, dist, use)
    PROVE  p \in MkpduRec /\ p.dist = dist /\ p.auth
<1>1. peer.sci \in Nat /\ peer.mi \in Nat /\ peer.prio \in Nat /\ m.mi \in Nat
  BY NodeAssumption DEF MkaCtx
<1>2. dist \in DistRec /\ (dist.has = "dist" => dist.key \in Key)
  <2>1. CASE dist = NoDist
    BY <2>1, MkaAssumption DEF NoDist, DistRec, MkaAN, MkaMaxSA
  <2>2. CASE dist \in peer.dists
    BY <2>2, NodeAssumption DEF DistRec, MkaAN
  <2> QED
    BY <2>1, <2>2
<1>3. use \in UseRec
  <2>1. NoUse \in UseRec /\ BadUse \in UseRec
    BY DEF NoUse, BadUse, UseRec, NoMI
  <2>2. ASSUME NEW ka \in UseKeys, NEW tx \in BOOLEAN, NEW rx \in BOOLEAN, NEW mi \in Nat
        PROVE  [has |-> "use", mi |-> mi, kn |-> ka[1], an |-> ka[2], tx |-> tx, rx |-> rx]
                  \in UseRec
    <3>1. ka[1] \in Nat /\ ka[2] \in Nat
      BY NodeAssumption
    <3> QED
      BY <3>1 DEF UseRec
  <2>3. CASE use \in {NoUse, BadUse}
    BY <2>1, <2>3
  <2>4. CASE use \notin {NoUse, BadUse}
    <3> DEFINE rights == {<<FALSE, FALSE>>, <<FALSE, TRUE>>, <<TRUE, TRUE>>}
               Row(ka, tr) == [has |-> "use", mi |-> IF Prio < peer.prio THEN m.mi ELSE peer.mi,
                               kn |-> ka[1], an |-> ka[2], tx |-> tr[1], rx |-> tr[2]]
               named == {Row(ka, tr) : ka \in UseKeys, tr \in rights}
    <3>0. use \in named
      <4>1. Uses(peer) = {NoUse, BadUse} \cup named
        BY DEF Uses
      <4> HIDE DEF named
      <4> QED
        BY <2>4, <4>1
    <3>1. PICK ka \in UseKeys, tr \in rights : use = Row(ka, tr)
      <4> HIDE DEF Row, rights
      <4> QED
        BY <3>0
    <3>2. tr[1] \in BOOLEAN /\ tr[2] \in BOOLEAN
      <4>1. CASE tr = <<FALSE, FALSE>>
        BY <4>1
      <4>2. CASE tr = <<FALSE, TRUE>>
        BY <4>2
      <4>3. CASE tr = <<TRUE, TRUE>>
        BY <4>3
      <4> QED
        BY <4>1, <4>2, <4>3
    <3>3. (IF Prio < peer.prio THEN m.mi ELSE peer.mi) \in Nat
      BY <1>1
    <3> QED
      BY <2>2, <3>1, <3>2, <3>3
  <2> QED
    BY <2>3, <2>4
<1>4. (IF listed THEN m.mi ELSE NoMI) \in Nat
  BY <1>1 DEF NoMI
<1> QED
  BY <1>1, <1>2, <1>3, <1>4 DEF Mkpdu, MkpduRec

-----------------------------------------------------------------------------
(* The invariant *)

\* macsec_random never ran out of keys.
KeyKnown(x) == x.mka.latest.state # "NONE" => x.mka.latest.key \in Key

\* The context of each mode between two calls.
ModeOK(x) ==
    \/ x.mode = "MKA_PSK" /\ Rested(x) /\ KeyKnown(x)
    \/ Static(x)
    \/ Disabled(x)

HistoryOK ==
    /\ boots \in Nat /\ issued \subseteq LocalKeys /\ sent \subseteq Key
    /\ onAir \in Key \cup {NoKey} /\ late \subseteq TxReasons /\ used \in [Key -> SUBSET PN]
    /\ confirmer \in Nat

NodeInv == c.mode \in ConfigModes /\ ModeOK(c) /\ HistoryOK

LEMMA ModeType ==
    ASSUME NEW x, ModeOK(x)
    PROVE  /\ x \in MacsecCtx /\ FrameOK(x.fc) /\ x.mka \in MkaCtx /\ x.meta \in MetaRec
           /\ x.meta.valid => x.mode = "MKA_PSK"
<1>1. x \in MacsecCtx /\ FrameOK(x.fc)
  BY ClearedOK DEF ModeOK, Rested, Sound, Static, Disabled
<1> QED
  BY <1>1 DEF MacsecCtx, ModeOK, Static, Disabled, NoMeta

LEMMA InitModeOK ==
    ASSUME NEW mode \in Modes, NEW n \in Nat, NEW x, x = MacsecInit(mode, Me, n, Prio)
    PROVE  /\ ModeOK(x) /\ x.mode = mode
           /\ mode = "MKA_PSK" =>
                 /\ RxExact(x.mka, x.fc) /\ x.fc = ClearedCtx /\ x.meta = NoMeta
                 /\ x.mka.latest = NoSak /\ x.mka.old = NoSak /\ x.mka.next_an = 0
                 /\ x.state = "WAIT_MKA"
<1>1. Me \in Nat /\ Prio \in Nat
  BY NodeAssumption DEF Me
<1>2. CASE mode = "DISABLED"
  BY <1>2, InitDisabled DEF ModeOK, Disabled
<1>3. CASE mode = "STATIC_SAK"
  BY <1>3, InitStatic DEF ModeOK, Static
<1>4. CASE mode = "MKA_PSK"
  <2>1. /\ Rested(x) /\ RxExact(x.mka, x.fc) /\ x.fc = ClearedCtx /\ x.meta = NoMeta
        /\ x.mka.latest = NoSak /\ x.mka.old = NoSak /\ x.mka.next_an = 0
        /\ x.state = "WAIT_MKA"
    BY <1>1, <1>4, InitMkaPsk
  <2> QED
    BY <1>4, <2>1 DEF ModeOK, Rested, KeyKnown, NoSak
<1> QED
  BY <1>2, <1>3, <1>4 DEF Modes

LEMMA NodeInit == Init => NodeInv
<1> SUFFICES ASSUME Init PROVE NodeInv
  OBVIOUS
<1>1. PICK mode \in ConfigModes : c = MacsecInit(mode, Me, 1, Prio)
  BY DEF Init
<1>2. mode \in Modes /\ 1 \in Nat
  BY NodeAssumption
<1>3. ModeOK(c) /\ c.mode = mode
  BY <1>1, <1>2, InitModeOK
<1>4. HistoryOK
  BY DEF Init, HistoryOK, NoMI
<1> QED
  BY <1>3, <1>4 DEF NodeInv

\* Serving the participant does not change the latest key.
LEMMA ServedKey ==
    ASSUME NEW z, Sound(z), KeyKnown(z), NEW y, Served(z, y) \/ Stopped(z, y)
    PROVE  KeyKnown(y)
<1>1. z.mka.latest \in SakRec /\ LatestOK(z.mka.latest)
  BY DEF Sound, MkaOK, MkaBase, MkaCtx
<1>2. CASE Installed(z, y)
  <2>1. y.mka.latest.key = z.mka.latest.key /\ z.mka.latest.key \in Key
    BY <1>1, <1>2, InUseFields, InstallableFields DEF Installed
  <2> QED
    BY <2>1 DEF KeyKnown
<1>3. CASE y.mka.latest = z.mka.latest
  BY <1>3 DEF KeyKnown
<1> QED
  BY <1>2, <1>3 DEF Served, Stopped, Retired, Untouched

LEMMA ModeCases ==
    ASSUME NEW x, ModeOK(x)
    PROVE  /\ x.mode \in Modes
           /\ x.mode = "MKA_PSK" => Rested(x) /\ KeyKnown(x)
           /\ x.mode = "STATIC_SAK" => Static(x)
           /\ x.mode = "DISABLED" => Disabled(x)
BY ModeType DEF ModeOK, Static, Disabled, Modes

-----------------------------------------------------------------------------
(* Every action keeps the invariant *)

\* A received MKPDU, in whatever mode.
LEMMA InputModeOK ==
    ASSUME NEW x, ModeOK(x), NEW p \in MkpduRec, NEW k \in Key \cup {NoKey},
           NEW r, r = InputMkpdu(x, p, k)
    PROVE  /\ r.c \in MacsecCtx /\ r.c.mode = x.mode
           /\ x.mode = "MKA_PSK" => Called(x, r.c)
           /\ x.mode # "MKA_PSK" => ModeOK(r.c) /\ r.c.fc = x.fc
<1>1. CASE x.mode = "MKA_PSK"
  <2>1. Rested(x)
    BY <1>1, ModeCases
  <2> DEFINE z == [x EXCEPT !.mka = MkaInput(x.mka, p, k).m]
  <2>2. Prepared(x, z) /\ (Served(z, r.c) \/ Stopped(z, r.c))
    BY <2>1, InputMkpduStep
  <2> HIDE DEF z
  <2>3. Called(x, r.c)
    BY <1>1, <2>2, ServedCalled, StoppedCalled
  <2> QED
    BY <1>1, <2>3 DEF Called, Rested, Sound
<1>2. CASE x.mode = "STATIC_SAK"
  <2>1. Static(r.c) /\ r.c.fc = x.fc
    BY <1>2, ModeCases, StaticInput
  <2> QED
    BY <1>2, <2>1 DEF Static, ModeOK
<1>3. CASE x.mode = "DISABLED"
  <2>1. r.c = x
    BY <1>3 DEF InputMkpdu, C
  <2> QED
    BY <1>3, <2>1, ModeType
<1> QED
  BY <1>1, <1>2, <1>3, ModeCases DEF Modes

LEMMA ForgetfulOK ==
    ASSUME NEW x, ModeOK(x), NEW y, y = Forgetful(x)
    PROVE  ModeOK(y) /\ y.mode = x.mode
<1> DEFINE n == [x.mka EXCEPT !.tx_reasons = {}]
<1>1. x \in MacsecCtx /\ x.mka \in MkaCtx
  BY ModeType
<1>2. y = [x EXCEPT !.mka = n]
  BY <1>1 DEF Forgetful, MacsecCtx
<1>3. /\ n \in MkaCtx /\ n.state = x.mka.state /\ n.keyed = x.mka.keyed /\ n.sci = x.mka.sci
      /\ n.prio = x.mka.prio /\ n.local_key_server = x.mka.local_key_server
      /\ n.peer = x.mka.peer /\ n.latest = x.mka.latest /\ n.old = x.mka.old
      /\ n.next_kn = x.mka.next_kn /\ n.local_mn = x.mka.local_mn
      /\ n.events = x.mka.events
  BY <1>1 DEF MkaCtx
<1>4. x.mka = ZeroMka => n = ZeroMka
  <2>1. ZeroMka.tx_reasons = {}
    BY DEF ZeroMka
  <2> QED
    BY <2>1, ZeroMkaType DEF MkaCtx
<1> HIDE DEF n
<1>5. /\ y \in MacsecCtx /\ y.mka = n /\ y.fc = x.fc /\ y.mode = x.mode /\ y.state = x.state
      /\ y.meta = x.meta
  BY <1>1, <1>2, <1>3 DEF MacsecCtx
<1>6. ASSUME Rested(x), KeyKnown(x) PROVE Rested(y) /\ KeyKnown(y)
  <2>1. MkaOK(n)
    BY <1>3, <1>6 DEF Rested, Sound, MkaOK, MkaBase, OperationalHasKey, PeerMatches, Elected,
                      LocalWinsKeyServer
  <2>2. Slots(n, x.fc)
    BY <1>3, <1>6 DEF Rested, Sound, Slots, TxMatches, RxMatches
  <2> QED
    BY <1>3, <1>5, <1>6, <2>1, <2>2 DEF Rested, Sound, SecuredHasKey, KeyKnown
<1>7. Static(x) => Static(y)
  BY <1>3, <1>5 DEF Static, Unkeyed
<1>8. Disabled(x) => Disabled(y)
  BY <1>4, <1>5 DEF Disabled
<1> QED
  BY <1>5, <1>6, <1>7, <1>8 DEF ModeOK

LEMMA ReceiveMkpduStep ==
    ASSUME NodeInv, NEW p \in MkpduRec, ReceiveMkpdu(p)
    PROVE  NodeInv' /\ (c.mode = "MKA_PSK" => Called(c, c'))
<1> DEFINE r == InputMkpdu(c, p, Drawn)
           forgetful == Forgetful(c)
           f == InputMkpdu(forgetful, p, Drawn)
<1>1. ModeOK(c) /\ c.mode \in ConfigModes /\ HistoryOK
  BY DEF NodeInv
<1>2. Drawn \in Key \cup {NoKey} /\ Drawn \in LocalKeys \cup {NoKey}
  BY DrawnType, NodeAssumption
<1>3. c' = r.c /\ Draws /\ Notes(f) /\ UNCHANGED <<boots, sent, onAir, used>>
      /\ confirmer' \in {p.mi, confirmer, NoMI} /\ p.mi \in Nat /\ NoMI \in Nat
  BY DEF ReceiveMkpdu, MkpduRec, NoMI
<1>4. /\ r.c \in MacsecCtx /\ r.c.mode = c.mode
      /\ c.mode = "MKA_PSK" => Called(c, r.c)
      /\ c.mode # "MKA_PSK" => ModeOK(r.c)
  BY <1>1, <1>2, InputModeOK
<1>5. f.c.mka.tx_reasons \subseteq TxReasons
  <2>1. ModeOK(forgetful)
    BY <1>1, ForgetfulOK
  <2> HIDE DEF forgetful
  <2>2. f.c \in MacsecCtx
    BY <1>2, <2>1, InputModeOK
  <2> QED
    BY <2>2 DEF MacsecCtx, MkaCtx
<1> HIDE DEF r, f
<1>6. KeyKnown(r.c)
  BY <1>3, <1>4 DEF Draws, m, KeyKnown, MacsecCtx, MkaCtx, SakRec
<1>7. ModeOK(c')
  BY <1>3, <1>4, <1>6 DEF ModeOK, Called, Rested
<1>8. HistoryOK'
  BY <1>1, <1>2, <1>3, <1>5 DEF HistoryOK, Draws, m, Notes
<1> QED
  BY <1>1, <1>3, <1>4, <1>7, <1>8 DEF NodeInv

\* A frame that fails authentication leaves a keyed participant as it was.
LEMMA RejectedInput ==
    ASSUME NEW n \in MkaCtx, n.keyed, NEW p, ~p.auth, NEW k
    PROVE  MkaInput(n, p, k).m = n
BY DEF MkaInput, R

LEMMA ReceiveRejectedStep ==
    ASSUME NodeInv, NEW p \in MkpduRec, NEW wellformed \in BOOLEAN,
           ReceiveRejected(p, wellformed)
    PROVE  NodeInv' /\ (c.mode = "MKA_PSK" => Called(c, c'))
<1> DEFINE q == [p EXCEPT !.wellformed = wellformed, !.auth = FALSE]
           r == InputMkpdu(c, q, NoKey)
           z == [c EXCEPT !.mka = MkaInput(c.mka, q, NoKey).m]
<1>1. ModeOK(c) /\ c.mode \in ConfigModes /\ HistoryOK
  BY DEF NodeInv
<1>2. q \in MkpduRec /\ ~q.auth
  BY DEF MkpduRec
<1>3. c' = r.c /\ UNCHANGED <<boots, issued, sent, onAir, late, used, confirmer>>
  BY DEF ReceiveRejected
<1> HIDE DEF q
<1>4. /\ r.c \in MacsecCtx /\ r.c.mode = c.mode
      /\ c.mode = "MKA_PSK" => Called(c, r.c)
      /\ c.mode # "MKA_PSK" => ModeOK(r.c)
  BY <1>1, <1>2, InputModeOK
<1>5. ASSUME c.mode = "MKA_PSK" PROVE KeyKnown(r.c)
  <2>1. Rested(c) /\ KeyKnown(c)
    BY <1>1, <1>5, ModeCases
  <2>2. Prepared(c, z) /\ (Served(z, r.c) \/ Stopped(z, r.c))
    BY <1>2, <2>1, InputMkpduStep
  <2>3. c \in MacsecCtx /\ c.mka \in MkaCtx /\ c.mka.keyed
    BY <2>1 DEF Rested, Sound, MkaOK, MkaBase
  <2>4. z.mka = c.mka
    BY <1>2, <2>3, RejectedInput DEF MacsecCtx
  <2> HIDE DEF z, r
  <2>5. Sound(z) /\ KeyKnown(z)
    BY <2>1, <2>2, <2>4 DEF Prepared, KeyKnown
  <2> QED
    BY <2>2, <2>5, ServedKey
<1> HIDE DEF r
<1>6. ModeOK(c')
  BY <1>3, <1>4, <1>5 DEF ModeOK, Called
<1>7. HistoryOK'
  BY <1>1, <1>3 DEF HistoryOK
<1> QED
  BY <1>1, <1>3, <1>4, <1>6, <1>7 DEF NodeInv

LEMMA AdvanceClockStep ==
    ASSUME NodeInv, NEW d \in ClockSteps, AdvanceClock(d)
    PROVE  /\ NodeInv' /\ (c.mode = "MKA_PSK" => Called(c, c'))
           /\ c.mode # "MKA_PSK" => c' = c
<1> DEFINE r == Tick(c, d)
           z == [c EXCEPT !.mka = MkaTick(@, d)]
<1>1. ModeOK(c) /\ c.mode \in ConfigModes /\ HistoryOK /\ d \in Nat
  BY NodeAssumption DEF NodeInv
<1>2. c' = r.c /\ UNCHANGED <<boots, issued, sent, onAir, used, confirmer>>
      /\ late' \in {late, late \cup {"PEER_CHANGE"}}
  BY DEF AdvanceClock
<1>3. HistoryOK'
  BY <1>1, <1>2 DEF HistoryOK, TxReasons
<1>4. CASE c.mode = "MKA_PSK"
  <2>1. Rested(c) /\ KeyKnown(c)
    BY <1>1, <1>4, ModeCases
  <2>2. Prepared(c, z) /\ SameButClock(c.mka, z.mka) /\ Served(z, r.c)
    BY <1>1, <2>1, TickStep
  <2> HIDE DEF z, r
  <2>3. Sound(z) /\ KeyKnown(z)
    BY <2>1, <2>2 DEF Prepared, KeyKnown, SameButClock
  <2>4. Called(c, r.c) /\ KeyKnown(r.c)
    BY <1>4, <2>2, <2>3, ServedKey, ServedCalled
  <2> QED
    BY <1>1, <1>2, <1>3, <1>4, <2>4 DEF NodeInv, ModeOK, Called, Rested
<1>5. CASE c.mode # "MKA_PSK"
  <2>1. r.c = c
    BY <1>5 DEF Tick, C
  <2> QED
    BY <1>1, <1>2, <1>3, <1>5, <2>1 DEF NodeInv
<1> QED
  BY <1>4, <1>5

LEMMA BuildMkpduStep ==
    ASSUME NodeInv, BuildMkpdu
    PROVE  /\ NodeInv' /\ (c.mode = "MKA_PSK" => Called(c, c'))
           /\ c.mode # "MKA_PSK" => c' = c
<1> DEFINE r == BuildControlFrame(c, Drawn)
<1>1. ModeOK(c) /\ c.mode \in ConfigModes /\ HistoryOK
  BY DEF NodeInv
<1>2. Drawn \in Key \cup {NoKey} /\ Drawn \in LocalKeys \cup {NoKey}
  BY DrawnType, NodeAssumption
<1>3. /\ ~c.meta.valid /\ c' = r.c /\ Draws /\ late' = {}
      /\ UNCHANGED <<boots, sent, used, confirmer>>
      /\ onAir' = IF r.c.meta.dist THEN r.c.mka.latest.key ELSE NoKey
  BY DEF BuildMkpdu
<1>4. CASE c.mode = "MKA_PSK"
  <2>1. Rested(c)
    BY <1>1, <1>4, ModeCases
  <2>2. Called(c, r.c)
    BY <1>2, <1>3, <2>1, BuildControlFrameStep
  <2> HIDE DEF r
  <2>3. r.c.mka.latest.key \in Key \cup {NoKey} /\ r.c.mode = "MKA_PSK"
    BY <2>2 DEF Called, Rested, Sound, MacsecCtx, MkaCtx, SakRec
  <2>4. KeyKnown(r.c)
    BY <1>3, <2>3 DEF Draws, m, KeyKnown
  <2>5. HistoryOK'
    BY <1>1, <1>2, <1>3, <2>3 DEF HistoryOK, Draws, m
  <2> QED
    BY <1>1, <1>3, <1>4, <2>2, <2>3, <2>4, <2>5 DEF NodeInv, ModeOK, Called
<1>5. CASE c.mode # "MKA_PSK"
  <2>1. r.c = c
    BY <1>5 DEF BuildControlFrame, C
  <2> HIDE DEF r
  <2>2. c.mka.latest.key \in Key \cup {NoKey}
    BY <1>1, ModeType DEF MkaCtx, SakRec
  <2>3. HistoryOK'
    BY <1>1, <1>2, <1>3, <2>1, <2>2 DEF HistoryOK, Draws, m
  <2> QED
    BY <1>1, <1>3, <1>5, <2>1, <2>3 DEF NodeInv
<1> QED
  BY <1>4, <1>5

\* A reported MKPDU leaves at most the key it carried in a new state.
LEMMA ReportedKey ==
    ASSUME NEW x, x.mka.latest \in SakRec, KeyKnown(x), NEW z, Reported(x, z)
    PROVE  KeyKnown(z)
<1>1. CASE z.mka.latest = x.mka.latest
  BY <1>1 DEF KeyKnown
<1>2. CASE Committed(x.mka, z.mka)
  BY <1>2 DEF KeyKnown, Committed, SakRec
<1> QED
  BY <1>1, <1>2 DEF Reported

LEMMA TxSucceededStep ==
    ASSUME NodeInv, TxSucceeded
    PROVE  NodeInv' /\ (c.mode = "MKA_PSK" => Called(c, c'))
<1> DEFINE r == NotifyControlTxSuccess(c)
<1>1. ModeOK(c) /\ c.mode \in ConfigModes /\ HistoryOK
  BY DEF NodeInv
<1>2. /\ c.meta.valid /\ c' = r.c /\ onAir' = NoKey
      /\ UNCHANGED <<boots, issued, late, used, confirmer>>
      /\ sent' = IF onAir = NoKey THEN sent ELSE sent \cup {onAir}
  BY DEF TxSucceeded
<1>3. c.mode = "MKA_PSK"
  BY <1>1, <1>2, ModeType
<1>4. Rested(c) /\ KeyKnown(c) /\ c.mka.latest \in SakRec
  BY <1>1, <1>3, ModeCases DEF Rested, Sound, MacsecCtx, MkaCtx
<1>5. PICK z : /\ Prepared(c, z) /\ Reported(c, z)
               /\ \/ Served(z, r.c) /\ z.meta = NoMeta
                  \/ Stopped(z, r.c) /\ z = c
  BY <1>2, <1>4, NotifyControlTxSuccessStep DEF KeyKnown
<1> HIDE DEF r
<1>6. KeyKnown(z) /\ Sound(z)
  BY <1>4, <1>5, ReportedKey DEF Prepared
<1>7. Called(c, r.c) /\ KeyKnown(r.c)
  BY <1>3, <1>5, <1>6, ServedKey, ServedCalled, StoppedCalled
<1>8. HistoryOK'
  BY <1>1, <1>2 DEF HistoryOK
<1> QED
  BY <1>1, <1>2, <1>3, <1>7, <1>8 DEF NodeInv, ModeOK, Called, Rested

LEMMA TxFailedStep ==
    ASSUME NodeInv, TxFailed
    PROVE  NodeInv' /\ (c.mode = "MKA_PSK" => Called(c, c'))
<1> DEFINE r == NotifyControlTxFailure(c)
<1>1. ModeOK(c) /\ c.mode \in ConfigModes /\ HistoryOK
  BY DEF NodeInv
<1>2. c.meta.valid /\ c' = r.c /\ onAir' = NoKey
      /\ UNCHANGED <<boots, issued, sent, late, used, confirmer>>
  BY DEF TxFailed
<1>3. c.mode = "MKA_PSK"
  BY <1>1, <1>2, ModeType
<1>4. Rested(c) /\ KeyKnown(c)
  BY <1>1, <1>3, ModeCases
<1>5. Called(c, r.c) /\ r.c.mka.latest = c.mka.latest
  BY <1>2, <1>4, NotifyControlTxFailureStep
<1> HIDE DEF r
<1>6. HistoryOK'
  BY <1>1, <1>2 DEF HistoryOK
<1> QED
  BY <1>1, <1>2, <1>3, <1>4, <1>5, <1>6 DEF NodeInv, ModeOK, Called, Rested, KeyKnown

\* Data frames move packet numbers in every mode but DISABLED.
LEMMA FrameOnlyModeOK ==
    ASSUME NEW x, ModeOK(x), x.mode # "DISABLED", NEW y, FrameOnly(x, y)
    PROVE  ModeOK(y) /\ y.mode = x.mode /\ (x.mode = "MKA_PSK" => Called(x, y))
<1>1. CASE x.mode = "MKA_PSK"
  <2>1. Rested(x) /\ KeyKnown(x)
    BY <1>1, ModeCases
  <2>2. Called(x, y)
    BY <2>1, FrameOnlyCalled
  <2> QED
    BY <1>1, <2>1, <2>2 DEF ModeOK, Called, KeyKnown, FrameOnly
<1>2. CASE x.mode = "STATIC_SAK"
  <2>1. Static(x) /\ StaticAn \in AN
    BY <1>2, ModeCases, MacsecAssumption
  <2>2. Static(y)
    BY <2>1 DEF Static, FrameOnly, HasStaticSak, SameSaks
  <2> QED
    BY <1>2, <2>2 DEF ModeOK, FrameOnly
<1> QED
  BY <1>1, <1>2, ModeCases DEF Modes

LEMMA SendDataStep ==
    ASSUME NodeInv, SendData
    PROVE  NodeInv' /\ (c.mode = "MKA_PSK" => Called(c, c'))
<1> DEFINE r == Output(c)
           pn == c.fc.tx_sak.next_pn
<1>1. /\ ModeOK(c) /\ c.mode \in ConfigModes /\ HistoryOK /\ c \in MacsecCtx /\ FrameOK(c.fc)
      /\ c.fc \in FrameCtx
  BY ModeType DEF NodeInv, FrameOK
<1>2. /\ c' = r.c /\ UNCHANGED <<boots, issued, sent, onAir, late, confirmer>>
      /\ used' = IF r.ret = "OK" /\ c.mode # "DISABLED"
                 THEN [used EXCEPT ![r.c.fc.gcm] = @ \cup {pn}] ELSE used
  BY DEF SendData
<1>3. CASE c.mode = "DISABLED"
  <2>1. r.c = c
    BY <1>3 DEF Output, C
  <2> QED
    BY <1>1, <1>2, <1>3, <2>1 DEF NodeInv, HistoryOK
<1>4. CASE c.mode # "DISABLED"
  <2>1. /\ FrameOnly(c, r.c)
        /\ \/ r.ret # "OK"
           \/ r.ret = "OK" /\ c.fc.tx_sak.valid /\ pn \in PN /\ r.c.fc.gcm = c.fc.tx_sak.key
    BY <1>1, <1>4, OutputStep
  <2> HIDE DEF r
  <2>2. ModeOK(r.c) /\ r.c.mode = c.mode /\ (c.mode = "MKA_PSK" => Called(c, r.c))
    BY <1>1, <1>4, <2>1, FrameOnlyModeOK
  <2>3. used' \in [Key -> SUBSET PN]
    <3>1. CASE r.ret # "OK"
      BY <1>1, <1>2, <3>1 DEF HistoryOK
    <3>2. CASE r.ret = "OK"
      <4>1. pn \in PN /\ r.c.fc.gcm \in Key
        BY <1>1, <2>1, <3>2 DEF FrameOK, Keyed
      <4> HIDE DEF pn
      <4> QED
        BY <1>1, <1>2, <1>4, <3>2, <4>1 DEF HistoryOK
    <3> QED
      BY <3>1, <3>2
  <2>4. HistoryOK'
    BY <1>1, <1>2, <2>3 DEF HistoryOK
  <2> QED
    BY <1>1, <1>2, <2>2, <2>4 DEF NodeInv
<1> QED
  BY <1>3, <1>4

LEMMA ReceiveDataStep ==
    ASSUME NodeInv, NEW f \in DataFrames, ReceiveData(f)
    PROVE  NodeInv' /\ (c.mode = "MKA_PSK" => Called(c, c'))
<1> DEFINE r == InputProtected(c, f)
<1>1. /\ ModeOK(c) /\ c.mode \in ConfigModes /\ HistoryOK /\ c \in MacsecCtx /\ FrameOK(c.fc)
  BY ModeType DEF NodeInv
<1>2. c' = r.c /\ UNCHANGED <<boots, issued, sent, onAir, late, used, confirmer>>
  BY DEF ReceiveData
<1>3. HistoryOK'
  BY <1>1, <1>2 DEF HistoryOK
<1>4. CASE c.mode = "DISABLED"
  <2>1. r.c = c
    BY <1>4 DEF InputProtected, C
  <2> QED
    BY <1>1, <1>2, <1>3, <1>4, <2>1 DEF NodeInv
<1>5. CASE c.mode # "DISABLED"
  <2>1. f \in Frame
    BY NodeAssumption
  <2>2. FrameOnly(c, r.c)
    BY <1>1, <2>1, InputProtectedStep
  <2> HIDE DEF r
  <2>3. ModeOK(r.c) /\ r.c.mode = c.mode /\ (c.mode = "MKA_PSK" => Called(c, r.c))
    BY <1>1, <1>5, <2>2, FrameOnlyModeOK
  <2> QED
    BY <1>1, <1>2, <1>3, <2>3 DEF NodeInv
<1> QED
  BY <1>4, <1>5

LEMMA RestartStep ==
    ASSUME NodeInv, Restart
    PROVE  /\ NodeInv' /\ boots' # boots /\ c'.mode = c.mode
           /\ c.mode = "MKA_PSK" =>
                 /\ Rested(c') /\ RxExact(c'.mka, c'.fc) /\ c'.fc = ClearedCtx /\ c'.meta = NoMeta
                 /\ c'.mka.latest = NoSak /\ c'.mka.old = NoSak /\ c'.mka.next_an = 0
                 /\ c'.state = "WAIT_MKA"
<1>1. c.mode \in ConfigModes /\ HistoryOK /\ c.mode \in Modes /\ boots \in Nat
  BY NodeAssumption DEF NodeInv, HistoryOK
<1>2. /\ c' = MacsecInit(c.mode, Me, boots + 1, Prio) /\ boots' = boots + 1 /\ onAir' = NoKey
      /\ late' = {} /\ confirmer' = NoMI /\ UNCHANGED <<issued, sent, used>>
  BY DEF Restart
<1>3. boots + 1 \in Nat /\ boots + 1 # boots
  BY <1>1
<1> DEFINE n == boots + 1
<1> HIDE DEF n
<1>4. /\ ModeOK(c') /\ c'.mode = c.mode
      /\ c.mode = "MKA_PSK" =>
            /\ RxExact(c'.mka, c'.fc) /\ c'.fc = ClearedCtx /\ c'.meta = NoMeta
            /\ c'.mka.latest = NoSak /\ c'.mka.old = NoSak /\ c'.mka.next_an = 0
            /\ c'.state = "WAIT_MKA"
  <2>1. n \in Nat /\ c' = MacsecInit(c.mode, Me, n, Prio)
    BY <1>2, <1>3 DEF n
  <2> QED
    BY <1>1, <2>1, InitModeOK
<1>5. HistoryOK'
  BY <1>1, <1>2, <1>3 DEF HistoryOK, NoMI
<1>6. c.mode = "MKA_PSK" => Rested(c')
  BY <1>4, ModeCases
<1> QED
  BY <1>1, <1>2, <1>3, <1>4, <1>5, <1>6 DEF NodeInv

-----------------------------------------------------------------------------
(* The invariant holds *)

\* The station meets no participant that distributes keys.
SoleKeyServer == \A peer \in Peers : \A dist \in peer.dists : dist.has # "dist"

\* The disjuncts of Next on MKPDUs, with what a peer sends as one parameter.
LEMMA NextCases ==
    ASSUME m \in MkaCtx, Next
    PROVE  \/ \E p \in MkpduRec : (SoleKeyServer => p.dist.has # "dist") /\ ReceiveMkpdu(p)
           \/ \E p \in MkpduRec, wellformed \in BOOLEAN : ReceiveRejected(p, wellformed)
           \/ \E d \in ClockSteps : AdvanceClock(d)
           \/ BuildMkpdu \/ TxSucceeded \/ TxFailed \/ SendData
           \/ \E f \in DataFrames : ReceiveData(f)
           \/ Restart
<1>1. CASE \E peer \in Peers, listed \in BOOLEAN : \E dist \in peer.dists, use \in Uses(peer) :
              ReceiveMkpdu(Mkpdu(peer, listed, dist, use))
  <2>1. PICK peer \in Peers, listed \in BOOLEAN : \E dist \in peer.dists, use \in Uses(peer) :
              ReceiveMkpdu(Mkpdu(peer, listed, dist, use))
    BY <1>1
  <2>2. PICK dist \in peer.dists, use \in Uses(peer) :
              ReceiveMkpdu(Mkpdu(peer, listed, dist, use))
    BY <2>1
  <2> DEFINE p == Mkpdu(peer, listed, dist, use)
  <2>3. p \in MkpduRec /\ p.dist = dist
    BY MkpduType
  <2>4. SoleKeyServer => p.dist.has # "dist"
    BY <2>2, <2>3 DEF SoleKeyServer
  <2> HIDE DEF p
  <2> QED
    BY <2>2, <2>3, <2>4 DEF p
<1>2. CASE \E peer \in Peers, wellformed \in BOOLEAN :
              ReceiveRejected(Mkpdu(peer, TRUE, NoDist, NoUse), wellformed)
  <2>1. PICK peer \in Peers, wellformed \in BOOLEAN :
              ReceiveRejected(Mkpdu(peer, TRUE, NoDist, NoUse), wellformed)
    BY <1>2
  <2>2. Mkpdu(peer, TRUE, NoDist, NoUse) \in MkpduRec
    <3> DEFINE yes == TRUE
    <3>1. yes \in BOOLEAN
      OBVIOUS
    <3>2. Mkpdu(peer, yes, NoDist, NoUse) \in MkpduRec
      <4> HIDE DEF yes
      <4> QED
        BY <3>1, MkpduType
    <3> QED
      BY <3>2
  <2> QED
    BY <2>1, <2>2
<1> QED
  BY <1>1, <1>2 DEF Next

\* What one step guarantees in every mode.
Kept ==
    /\ NodeInv' /\ c'.mode = c.mode
    /\ c.mode = "MKA_PSK" /\ boots' = boots => Called(c, c')
    /\ c.mode = "MKA_PSK" /\ boots' # boots => RxExact(c'.mka, c'.fc)

\* The calls that only an MKA_PSK station takes part in change no mode.
LEMMA SameMode ==
    ASSUME NEW x, NEW y, x.mode = "MKA_PSK" => Called(x, y)
    PROVE  x.mode = "MKA_PSK" => y.mode = x.mode
BY DEF Called, Rested

\* Every call in MKA_PSK mode, and a step that is no call, keeps to Called.
LEMMA NodeNext ==
    ASSUME NodeInv, [Next]_vars
    PROVE  Kept
<1>1. CASE UNCHANGED vars
  <2>1. c' = c /\ NodeInv' /\ boots' = boots
    BY <1>1 DEF vars, NodeInv, HistoryOK
  <2>2. c.mode = "MKA_PSK" => Called(c, c)
    BY ModeCases DEF NodeInv, Called, Rested, Sound, MkaOK, MkaBase, OldOK
  <2> QED
    BY <2>1, <2>2 DEF Kept
<1>2. ASSUME NEW p \in MkpduRec, ReceiveMkpdu(p) PROVE Kept
  <2>1. NodeInv' /\ (c.mode = "MKA_PSK" => Called(c, c'))
    BY <1>2, ReceiveMkpduStep
  <2>2. c'.mode = c.mode /\ boots' = boots
    BY <1>2, DrawnType, NodeAssumption, InputModeOK DEF ReceiveMkpdu, NodeInv
  <2> QED
    BY <2>1, <2>2 DEF Kept
<1>3. ASSUME NEW p \in MkpduRec, NEW wellformed \in BOOLEAN, ReceiveRejected(p, wellformed)
      PROVE  Kept
  <2> DEFINE q == [p EXCEPT !.wellformed = wellformed, !.auth = FALSE]
  <2>1. NodeInv' /\ (c.mode = "MKA_PSK" => Called(c, c'))
    BY <1>3, ReceiveRejectedStep
  <2>2. c' = InputMkpdu(c, q, NoKey).c /\ boots' = boots /\ q \in MkpduRec
    BY <1>3 DEF ReceiveRejected, MkpduRec
  <2> HIDE DEF q
  <2>3. c'.mode = c.mode
    BY <2>2, InputModeOK DEF NodeInv
  <2> QED
    BY <2>1, <2>2, <2>3 DEF Kept
<1>4. ASSUME NEW d \in ClockSteps, AdvanceClock(d) PROVE Kept
  BY <1>4, AdvanceClockStep, SameMode DEF AdvanceClock, Kept
<1>5. CASE BuildMkpdu
  BY <1>5, BuildMkpduStep, SameMode DEF BuildMkpdu, Kept
<1>6. CASE TxSucceeded
  <2>1. c.mode = "MKA_PSK"
    BY <1>6, ModeType DEF TxSucceeded, NodeInv
  <2> QED
    BY <1>6, <2>1, TxSucceededStep, SameMode DEF TxSucceeded, Kept
<1>7. CASE TxFailed
  <2>1. c.mode = "MKA_PSK"
    BY <1>7, ModeType DEF TxFailed, NodeInv
  <2> QED
    BY <1>7, <2>1, TxFailedStep, SameMode DEF TxFailed, Kept
<1>8. CASE SendData
  <2>1. c'.mode = c.mode /\ boots' = boots
    BY <1>8, ModeType, OutputStep DEF SendData, NodeInv, FrameOnly
  <2> QED
    BY <1>8, <2>1, SendDataStep DEF Kept
<1>9. ASSUME NEW f \in DataFrames, ReceiveData(f) PROVE Kept
  <2>1. c'.mode = c.mode /\ boots' = boots
    BY <1>9, NodeAssumption, ModeType, InputProtectedStep DEF ReceiveData, NodeInv, FrameOnly
  <2> QED
    BY <1>9, <2>1, ReceiveDataStep DEF Kept
<1>10. CASE Restart
  BY <1>10, RestartStep DEF Kept
<1>11. CASE Next
  <2>1. m \in MkaCtx
    BY ModeType DEF NodeInv, m
  <2> QED
    BY <1>2, <1>3, <1>4, <1>5, <1>6, <1>7, <1>8, <1>9, <1>10, <1>11, <2>1, NextCases
<1> QED
  BY <1>1, <1>11

\* Every context the station is ever in is one that NodeInv describes.
THEOREM NodeInvariant == Spec => []NodeInv
<1>1. NodeInv /\ [Next]_vars => NodeInv'
  BY NodeNext DEF Kept
<1> QED
  BY <1>1, NodeInit, PTL DEF Spec

-----------------------------------------------------------------------------
(* What follows from it *)

LEMMA RestedOf ==
    ASSUME NodeInv, c.mode = "MKA_PSK"
    PROVE  Rested(c) /\ KeyKnown(c) /\ MkaOK(m) /\ Slots(m, c.fc)
BY ModeCases DEF NodeInv, Rested, Sound, m

\* TypeOK: no operation of the stack leaves the ranges of macsec_ctx_t, for
\* every value the counters of message, key and packet numbers wrap at.
THEOREM TypeCorrect == Spec => []TypeOK
<1>1. NodeInv => TypeOK
  <2> SUFFICES ASSUME NodeInv PROVE TypeOK
    OBVIOUS
  <2>1. c \in MacsecCtx /\ m \in MkaCtx /\ HistoryOK /\ c.mode \in ConfigModes
    BY ModeType DEF NodeInv, m
  <2>2. c.fc \in FrameCtx /\ c.state \in MacsecStates
    BY <2>1 DEF MacsecCtx
  <2>3. SakRec = Sak
    BY SameAN DEF SakRec, Sak
  <2>4. /\ m.state \in MkaStates /\ m.latest \in SakRec /\ m.old \in SakRec
        /\ m.events \subseteq Events /\ m.tx_reasons \subseteq TxReasons
        /\ m.local_mn \in 0 .. MnMax /\ m.next_kn \in 0 .. KnMax /\ m.next_an \in AN
        /\ m.peer.idle \in 0 .. PeerTimeout /\ m.since_tx \in {Never, 0, 1}
    BY <2>1, SameAN DEF MkaCtx, PeerRec
  <2> QED
    BY <2>1, <2>2, <2>3, <2>4 DEF TypeOK, HistoryOK
<1> QED
  BY <1>1, NodeInvariant, PTL

\* StateMatchesPeer: the participant never leaves the transitions of mka.c
\* 104-255, and OPERATIONAL means a live peer and a key in use.
THEOREM StateFollowsPeer == Spec => []StateMatchesPeer
<1>1. NodeInv => StateMatchesPeer
  <2> SUFFICES ASSUME NodeInv, c.mode = "MKA_PSK" PROVE StateMatchesPeer
    BY DEF StateMatchesPeer
  <2>1. Rested(c) /\ MkaOK(m)
    BY RestedOf
  <2>2. m.state = "OPERATIONAL" => m.latest.tx_installed \/ c.state = "ERROR"
    BY <2>1 DEF Rested, MkaOK, MkaBase, OperationalHasKey, LatestOK, m
  <2> QED
    BY <2>1, <2>2 DEF StateMatchesPeer, MkaOK, MkaBase, PeerMatches
<1> QED
  BY <1>1, NodeInvariant, PTL

\* NumbersNeverZero: wherever the counters wrap, no message number and no key
\* number of a slot is the one a receiver refuses (mka.c 2498-2503, 2521-2529).
THEOREM NumbersSkipZero == Spec => []NumbersNeverZero
<1>1. NodeInv => NumbersNeverZero
  <2> SUFFICES ASSUME NodeInv, c.mode = "MKA_PSK" PROVE NumbersNeverZero
    BY DEF NumbersNeverZero
  <2>1. MkaBase(m)
    BY RestedOf DEF MkaOK
  <2>2. /\ m.latest.state # "NONE" => m.latest.kn # 0
        /\ m.old.state # "NONE" => m.old.kn # 0
    BY <2>1 DEF MkaBase, LatestOK, OldOK
  <2> QED
    BY <2>1, <2>2 DEF NumbersNeverZero, MkaBase
<1> QED
  BY <1>1, NodeInvariant, PTL

\* SlotsMatchFrameLayer: the frame layer never sends or receives with a key
\* that MKA does not hold as installed (macsec.c 129-334).
THEOREM SlotsAgree == Spec => []SlotsMatchFrameLayer
<1>1. NodeInv => SlotsMatchFrameLayer
  <2> SUFFICES ASSUME NodeInv, c.mode = "MKA_PSK" PROVE SlotsMatchFrameLayer
    BY DEF SlotsMatchFrameLayer
  <2>1. TxMatches(m, c.fc) /\ RxMatches(m, c.fc)
    BY RestedOf DEF Slots
  <2>2. c.fc.tx_sak.valid =>
           \E sak \in {m.latest, m.old} :
              sak.tx_installed /\ sak.key = c.fc.tx_sak.key /\ sak.an = c.fc.tx_sak.an
    BY <2>1 DEF TxMatches
  <2>3. \A an \in AN : c.fc.rx_sak[an].valid =>
           \E sak \in {m.latest, m.old} :
              sak.rx_installed /\ sak.key = c.fc.rx_sak[an].key /\ sak.an = an
    BY <2>1 DEF RxMatches
  <2>4. m.latest.tx_installed => c.fc.tx_sak.key = m.latest.key
    BY <2>1 DEF TxMatches
  <2> QED
    BY <2>2, <2>3, <2>4 DEF SlotsMatchFrameLayer
<1> QED
  BY <1>1, NodeInvariant, PTL

-----------------------------------------------------------------------------
(* Both directions of a secured station *)

\* latest_sak and old_sak never have the same association number, as long as
\* the Key Server numbers its keys in turn.
SlotsApart == c.mode = "MKA_PSK" => Apart(m)

\* Every key that MKA holds as received with has its receive association.
RxInv == c.mode = "MKA_PSK" => RxExact(m, c.fc)

LEMMA InitRxExact == Init => RxInv
<1> SUFFICES ASSUME Init, c.mode = "MKA_PSK" PROVE RxExact(m, c.fc)
  BY DEF RxInv
<1>1. PICK mode \in ConfigModes : c = MacsecInit(mode, Me, 1, Prio)
  BY DEF Init
<1>2. mode \in Modes /\ 1 \in Nat
  BY NodeAssumption
<1> QED
  BY <1>1, <1>2, InitModeOK DEF m

LEMMA SecuredBoth ==
    ASSUME NodeInv, RxInv
    PROVE  SecuredBothWays
<1> SUFFICES ASSUME c.state = "SECURED", c.mode # "DISABLED"
             PROVE  /\ c.fc.tx_sak.valid
                    /\ c.fc.rx_sak[c.fc.tx_sak.an].valid
                    /\ c.fc.rx_sak[c.fc.tx_sak.an].key = c.fc.tx_sak.key
  BY DEF SecuredBothWays
<1>1. CASE c.mode = "MKA_PSK"
  <2>1. RxExact(m, c.fc) /\ TxMatches(m, c.fc) /\ LatestOK(m.latest) /\ OldOK(m.old)
        /\ SecuredHasKey(c)
    BY <1>1, RestedOf DEF RxInv, Slots, MkaOK, MkaBase, Rested
  <2>2. CASE Held(m.latest)
    BY <2>1, <2>2 DEF LatestOK, TxMatches, RxExact, InRxSlot
  <2>3. CASE m.old.state = "RETIRING" /\ m.old.tx_installed
    BY <2>1, <2>3 DEF OldOK, TxMatches, RxExact, InRxSlot
  <2> QED
    BY <2>1, <2>2, <2>3 DEF SecuredHasKey, m
<1>2. CASE c.mode = "STATIC_SAK"
  BY <1>2, ModeCases DEF NodeInv, Static, HasStaticSak
<1> QED
  BY <1>1, <1>2, ModeCases DEF NodeInv, Modes

LEMMA RxStep ==
    ASSUME NodeInv, RxInv, SlotsApart, SlotsApart', [Next]_vars
    PROVE  RxInv'
<1> SUFFICES ASSUME c'.mode = "MKA_PSK" PROVE RxExact(m', c'.fc)
  BY DEF RxInv
<1>1. Kept
  BY NodeNext
<1>2. c.mode = "MKA_PSK"
  BY <1>1 DEF Kept
<1>3. RxExact(m, c.fc) /\ Apart(m) /\ Apart(m')
  BY <1>2 DEF RxInv, SlotsApart
<1> QED
  BY <1>1, <1>2, <1>3 DEF Kept, Called, m

\* SecuredBothWays: whatever is lost, repeated or reordered, a secured station
\* receives with the key it sends with, provided the two keys of a rekey have
\* different association numbers (macsec.c 388-395; the run restarted_server
\* shows what happens when they have not).
THEOREM SecuredWhileApart == Spec /\ []SlotsApart => []SecuredBothWays
<1>1. NodeInv /\ RxInv /\ SlotsApart /\ SlotsApart' /\ [Next]_vars => RxInv'
  BY RxStep
<1>2. NodeInv /\ RxInv => SecuredBothWays
  BY SecuredBoth
<1> QED
  BY <1>1, <1>2, InitRxExact, NodeInvariant, PTL DEF Spec

-----------------------------------------------------------------------------
(* What one call does to the keys of an MKA_PSK station *)

\* The participant's part of a call on n1, its next key being k.
SameSlots(n1, n2) ==
    SameKey(n1.latest, n2.latest) /\ n2.old = n1.old /\ n2.next_an = n1.next_an

Swapped(n1, n2, k) ==
    /\ n2.next_an = n1.next_an /\ OldAfter(n1, n2.old)
    /\ \/ n2.latest = NoSak
       \/ n2.latest = Generated(n1, k)
       \/ ~SoleKeyServer /\ n2.latest.origin = "REMOTE" /\ n2.latest.state = "CANDIDATE"

FirstSent(n1, n2) == Committed(n1, n2) /\ n2.old = n1.old

\* What the stack then does for it.
Left(z, y) ==
    /\ y.mka.latest = z.mka.latest /\ y.mka.old = z.mka.old /\ y.mka.next_an = z.mka.next_an
    /\ y.fc = z.fc

Settles(z, y) == Served(z, y) \/ Left(z, y)

\* A call on x whose own part ends in z, and the whole in y.
Turn(x, z, y) == Rested(x) /\ Sound(z) /\ Sound(y) /\ z.fc = x.fc /\ Settles(z, y)

LEMMA StoppedLeft ==
    ASSUME NEW z, NEW y, Stopped(z, y) PROVE Left(z, y)
BY DEF Stopped, Left

LEMMA SlotsStepCases ==
    ASSUME NEW n1 \in MkaCtx, NEW n2, NEW k, NEW p \in MkpduRec,
           SlotsStep(n1, n2, p, k), SameIdentity(n1, n2), SoleKeyServer => p.dist.has # "dist"
    PROVE  SameSlots(n1, n2) \/ Swapped(n1, n2, k)
<1>1. ASSUME n2.latest = Received(p), p.dist.has = "dist", p.dist.kn # 0
      PROVE  ~SoleKeyServer /\ n2.latest.origin = "REMOTE" /\ n2.latest.state = "CANDIDATE"
  BY <1>1, ReceivedOK DEF LatestOK
<1> QED
  BY <1>1 DEF SlotsStep, SameIdentity, SameSlots, Swapped, Replacement

\* What MKPDUs do; key is the one that was drawn, NoKey where none was.
LEMMA ReceiveMkpduTurn ==
    ASSUME NodeInv, c.mode = "MKA_PSK", NEW p \in MkpduRec, SoleKeyServer => p.dist.has # "dist",
           ReceiveMkpdu(p)
    PROVE  \E z : /\ Turn(c, z, c') /\ z.meta = c.meta /\ c'.meta = c.meta
                  /\ SameSlots(m, z.mka) \/ Swapped(m, z.mka, Drawn)
<1> DEFINE r == InputMkpdu(c, p, Drawn)
           z == [c EXCEPT !.mka = MkaInput(c.mka, p, Drawn).m]
<1>1. Rested(c) /\ Sound(c) /\ m \in MkaCtx /\ c \in MacsecCtx
  BY RestedOf DEF Rested, Sound, MkaOK, MkaBase
<1>2. Drawn \in Key \cup {NoKey} /\ c' = r.c
  BY DrawnType, NodeAssumption DEF ReceiveMkpdu
<1>3. /\ Prepared(c, z) /\ InputStep(m, z.mka, p, Drawn)
      /\ Served(z, r.c) \/ Stopped(z, r.c)
  BY <1>1, <1>2, InputMkpduStep DEF m
<1>4. z.meta = c.meta
  BY <1>1 DEF MacsecCtx
<1> HIDE DEF z, r
<1>5. Sound(r.c)
  BY <1>3, ServedCalled, StoppedCalled DEF Called, Rested
<1>6. Turn(c, z, r.c) /\ r.c.meta = c.meta
  BY <1>1, <1>3, <1>4, <1>5, StoppedLeft DEF Turn, Settles, Prepared, Served, Stopped
<1>7. SameSlots(m, z.mka) \/ Swapped(m, z.mka, Drawn)
  BY <1>1, <1>3, SlotsStepCases DEF InputStep
<1> QED
  BY <1>2, <1>4, <1>6, <1>7

LEMMA ReceiveRejectedTurn ==
    ASSUME NodeInv, c.mode = "MKA_PSK", NEW p \in MkpduRec, NEW wellformed \in BOOLEAN,
           ReceiveRejected(p, wellformed)
    PROVE  \E z : Turn(c, z, c') /\ c'.meta = c.meta /\ SameSlots(m, z.mka)
<1> DEFINE q == [p EXCEPT !.wellformed = wellformed, !.auth = FALSE]
           r == InputMkpdu(c, q, NoKey)
           z == [c EXCEPT !.mka = MkaInput(c.mka, q, NoKey).m]
<1>1. Rested(c) /\ Sound(c) /\ m \in MkaCtx /\ m.keyed /\ c \in MacsecCtx
  BY RestedOf DEF Rested, Sound, MkaOK, MkaBase
<1>2. q \in MkpduRec /\ ~q.auth /\ c' = r.c
  BY DEF MkpduRec, ReceiveRejected
<1> HIDE DEF q
<1>3. Prepared(c, z) /\ (Served(z, r.c) \/ Stopped(z, r.c))
  BY <1>1, <1>2, InputMkpduStep
<1>4. z.mka = m /\ z.meta = c.meta
  BY <1>1, <1>2, RejectedInput DEF MacsecCtx, m
<1> HIDE DEF z, r
<1>5. Sound(r.c)
  BY <1>3, ServedCalled, StoppedCalled DEF Called, Rested
<1>6. Turn(c, z, r.c) /\ r.c.meta = c.meta
  BY <1>1, <1>3, <1>4, <1>5, StoppedLeft DEF Turn, Settles, Prepared, Served, Stopped
<1>7. SameSlots(m, z.mka)
  BY <1>4 DEF SameSlots, SameKey
<1> QED
  BY <1>2, <1>6, <1>7

LEMMA AdvanceClockTurn ==
    ASSUME NodeInv, c.mode = "MKA_PSK", NEW d \in ClockSteps, AdvanceClock(d)
    PROVE  \E z : Turn(c, z, c') /\ c'.meta = c.meta /\ SameSlots(m, z.mka)
<1> DEFINE r == Tick(c, d)
           z == [c EXCEPT !.mka = MkaTick(@, d)]
<1>1. Rested(c) /\ Sound(c) /\ c \in MacsecCtx /\ d \in Nat /\ c' = r.c
  BY RestedOf, NodeAssumption DEF Rested, Sound, AdvanceClock
<1>2. Prepared(c, z) /\ SameButClock(m, z.mka) /\ Served(z, r.c)
  BY <1>1, TickStep DEF m
<1>3. z.meta = c.meta
  BY <1>1 DEF MacsecCtx
<1> HIDE DEF z, r
<1>4. Turn(c, z, r.c) /\ r.c.meta = c.meta
  BY <1>1, <1>2, <1>3 DEF Turn, Settles, Prepared, Served
<1>5. SameSlots(m, z.mka)
  BY <1>2 DEF SameSlots, SameKey, SameButClock
<1> QED
  BY <1>1, <1>4, <1>5

LEMMA TxFailedTurn ==
    ASSUME NodeInv, c.mode = "MKA_PSK", TxFailed
    PROVE  Turn(c, c', c') /\ c'.meta = NoMeta /\ SameSlots(m, m')
<1> DEFINE r == NotifyControlTxFailure(c)
<1>1. Rested(c) /\ Sound(c) /\ c.meta.valid /\ c' = r.c
  BY RestedOf DEF Rested, TxFailed
<1>2. /\ Called(c, r.c) /\ r.c.fc = c.fc /\ r.c.meta = NoMeta
      /\ SameButSlots(m, r.c.mka) /\ r.c.mka.latest = m.latest /\ r.c.mka.old = m.old
  BY <1>1, NotifyControlTxFailureStep DEF m
<1> HIDE DEF r
<1>3. Turn(c, r.c, r.c)
  BY <1>1, <1>2 DEF Turn, Settles, Left, Called, Rested
<1> QED
  BY <1>1, <1>2, <1>3 DEF SameSlots, SameKey, SameButSlots, m

LEMMA BuildMkpduTurn ==
    ASSUME NodeInv, c.mode = "MKA_PSK", BuildMkpdu
    PROVE  /\ Turn(c, c', c') /\ (c'.meta = NoMeta \/ c'.meta = MetaOf(m'))
           /\ SameSlots(m, m') \/ Swapped(m, m', Drawn)
<1> DEFINE r == BuildControlFrame(c, Drawn)
<1>1. /\ Rested(c) /\ Sound(c) /\ ~c.meta.valid /\ c' = r.c /\ Drawn \in Key \cup {NoKey}
      /\ LatestOK(m.latest)
  BY RestedOf, DrawnType, NodeAssumption DEF Rested, BuildMkpdu, MkaOK, MkaBase
<1>2. /\ Called(c, r.c) /\ r.c.fc = c.fc
      /\ r.c.meta = NoMeta \/ r.c.meta = MetaOf(r.c.mka)
      /\ \/ r.c.mka = m
         \/ /\ m.latest.state = "NONE" /\ SameButSlots(m, r.c.mka)
            /\ r.c.mka.latest = Generated(m, Drawn) /\ r.c.mka.old = m.old
  BY <1>1, BuildControlFrameStep DEF m
<1> HIDE DEF r
<1>3. Turn(c, r.c, r.c)
  BY <1>1, <1>2 DEF Turn, Settles, Left, Called, Rested
<1>4. SameSlots(m, r.c.mka) \/ Swapped(m, r.c.mka, Drawn)
  BY <1>2 DEF SameSlots, SameKey, Swapped, OldAfter, Held, SameButSlots
<1> QED
  BY <1>1, <1>2, <1>3, <1>4 DEF m

LEMMA TxSucceededTurn ==
    ASSUME NodeInv, c.mode = "MKA_PSK", TxSucceeded
    PROVE  \E z : /\ Turn(c, z, c')
                  /\ SameSlots(m, z.mka) \/ (c.meta.dist /\ FirstSent(m, z.mka))
                  /\ c'.meta = NoMeta \/ (c'.meta = c.meta /\ c'.mka.latest = m.latest)
<1> DEFINE r == NotifyControlTxSuccess(c)
<1>1. /\ Rested(c) /\ Sound(c) /\ KeyKnown(c) /\ c.meta.valid /\ c' = r.c
  BY RestedOf DEF Rested, TxSucceeded
<1>2. PICK z : /\ Prepared(c, z) /\ Reported(c, z)
               /\ \/ Served(z, r.c) /\ z.meta = NoMeta
                  \/ Stopped(z, r.c) /\ z = c
  BY <1>1, NotifyControlTxSuccessStep DEF KeyKnown
<1> HIDE DEF r
<1>3. Sound(r.c)
  BY <1>1, <1>2, ServedCalled, StoppedCalled DEF Called, Rested
<1>4. Turn(c, z, r.c)
  BY <1>1, <1>2, <1>3, StoppedLeft DEF Turn, Settles, Prepared
<1>5. SameSlots(m, z.mka) \/ (c.meta.dist /\ FirstSent(m, z.mka))
  BY <1>2 DEF Reported, SameSlots, SameKey, FirstSent, m
<1>6. r.c.meta = NoMeta \/ (r.c.meta = c.meta /\ r.c.mka.latest = m.latest)
  BY <1>2 DEF Served, Stopped, m
<1> QED
  BY <1>1, <1>4, <1>5, <1>6

\* Frames leave MKA alone; one that is sent uses a packet number of the key.
LEMMA SendDataTurn ==
    ASSUME NodeInv, c.mode # "DISABLED", SendData
    PROVE  /\ FrameOnly(c, c')
           /\ \/ c'.fc.tx_sak = c.fc.tx_sak /\ used' = used
              \/ /\ c.fc.tx_sak.valid /\ c.fc.tx_sak.next_pn \in PN
                 /\ c'.fc.tx_sak = [c.fc.tx_sak EXCEPT !.next_pn = NextPN(@)]
                 /\ used' = [used EXCEPT ![c.fc.tx_sak.key] = @ \cup {c.fc.tx_sak.next_pn}]
<1> DEFINE r == Output(c)
<1>1. c \in MacsecCtx /\ FrameOK(c.fc)
  BY ModeType DEF NodeInv
<1>2. /\ c' = r.c
      /\ used' = IF r.ret = "OK" /\ c.mode # "DISABLED"
                 THEN [used EXCEPT ![r.c.fc.gcm] = @ \cup {c.fc.tx_sak.next_pn}] ELSE used
  BY DEF SendData
<1>3. /\ FrameOnly(c, r.c)
      /\ \/ r.c.fc.tx_sak = c.fc.tx_sak /\ r.ret # "OK"
         \/ /\ r.ret = "OK" /\ c.fc.tx_sak.valid /\ c.fc.tx_sak.next_pn \in PN
            /\ r.c.fc.tx_sak = [c.fc.tx_sak EXCEPT !.next_pn = NextPN(@)]
            /\ r.c.fc.gcm = c.fc.tx_sak.key
  BY <1>1, OutputStep
<1> HIDE DEF r
<1> QED
  BY <1>2, <1>3

LEMMA ReceiveDataTurn ==
    ASSUME NodeInv, NEW f \in DataFrames, ReceiveData(f)
    PROVE  FrameOnly(c, c') /\ c'.fc.tx_sak = c.fc.tx_sak
<1>1. c \in MacsecCtx /\ FrameOK(c.fc) /\ f \in Frame
  BY ModeType, NodeAssumption DEF NodeInv
<1> QED
  BY <1>1, InputProtectedStep DEF ReceiveData

-----------------------------------------------------------------------------
(* On whose word the old SAK goes *)

LEMMA OldSakServed ==
    ASSUME NEW x, x.mka.old.state = "RETIRING", NEW z, Prepared(x, z),
           NEW y, Served(z, y) \/ Stopped(z, y),
           Served(z, y) => "SAK_RETIRE_REQUIRED" \notin z.mka.events
    PROVE  y.mka.old.state = "RETIRING"
<1>1. z.mka.old.state = "RETIRING" /\ z.mka.old \in SakRec /\ OldOK(z.mka.old)
  BY DEF Prepared, Sound, MkaOK, MkaBase, MkaCtx
<1>2. CASE Installed(z, y)
  BY <1>1, <1>2, SilencedFields DEF Installed
<1> QED
  BY <1>1, <1>2 DEF Served, Stopped, Untouched

\* The MKPDU that ends a rekey is the current peer's, and confirms the key.
LEMMA ReceiveMkpduRetires ==
    ASSUME NodeInv, c.mode = "MKA_PSK", NEW p \in MkpduRec, ReceiveMkpdu(p),
           m.old.state = "RETIRING", m'.old.state = "NONE"
    PROVE  m'.peer.valid /\ confirmer' = m'.peer.mi
<1> DEFINE i == MkaInput(m, p, Drawn)
           z == [c EXCEPT !.mka = MkaInput(c.mka, p, Drawn).m]
           r == InputMkpdu(c, p, Drawn)
<1>1. Rested(c) /\ Drawn \in Key \cup {NoKey} /\ c \in MacsecCtx
  BY RestedOf, DrawnType, NodeAssumption DEF Rested, Sound
<1>2. c' = r.c /\ (Confirms(p) => confirmer' = p.mi)
  BY DEF ReceiveMkpdu
<1>3. /\ Prepared(c, z) /\ (Served(z, r.c) \/ Stopped(z, r.c))
      /\ "SAK_RETIRE_REQUIRED" \in z.mka.events => Confirmation(m, i, p)
  BY <1>1, InputMkpduStep DEF m
<1>4. z.mka = i.m
  BY <1>1 DEF MacsecCtx, m
<1> HIDE DEF z, r
<1>5. Served(z, r.c) /\ "SAK_RETIRE_REQUIRED" \in z.mka.events
  BY <1>2, <1>3, OldSakServed DEF m
<1>6. Confirmation(m, i, p) /\ m'.peer = i.m.peer
  BY <1>2, <1>3, <1>4, <1>5 DEF Served, SameButService, m
<1>7. Confirms(p)
  BY <1>6 DEF Confirmation, Confirms, Claims
<1> QED
  BY <1>2, <1>6, <1>7 DEF Confirmation, SentBy

\* No other call ends one.
LEMMA RetirementStep ==
    ASSUME NodeInv, [Next]_vars, c.mode = "MKA_PSK", boots' = boots,
           m.old.state = "RETIRING", m'.old.state = "NONE"
    PROVE  m'.peer.valid /\ confirmer' = m'.peer.mi
<1>1. Rested(c) /\ KeyKnown(c) /\ c \in MacsecCtx /\ m \in MkaCtx /\ m.keyed /\ m.events = {}
  BY RestedOf DEF Rested, Sound, MkaOK, MkaBase, m
<1>2. ASSUME NEW p \in MkpduRec, ReceiveMkpdu(p)
      PROVE  m'.peer.valid /\ confirmer' = m'.peer.mi
  BY <1>2, ReceiveMkpduRetires
<1>3. ASSUME NEW p \in MkpduRec, NEW wellformed \in BOOLEAN, ReceiveRejected(p, wellformed)
      PROVE  FALSE
  <2> DEFINE q == [p EXCEPT !.wellformed = wellformed, !.auth = FALSE]
             r == InputMkpdu(c, q, NoKey)
             z == [c EXCEPT !.mka = MkaInput(c.mka, q, NoKey).m]
  <2>1. q \in MkpduRec /\ ~q.auth /\ c' = r.c
    BY <1>3 DEF MkpduRec, ReceiveRejected
  <2> HIDE DEF q
  <2>2. Prepared(c, z) /\ (Served(z, r.c) \/ Stopped(z, r.c))
    BY <1>1, <2>1, InputMkpduStep
  <2>3. z.mka = m
    BY <1>1, <2>1, RejectedInput DEF MacsecCtx, m
  <2> HIDE DEF z, r
  <2>4. "SAK_RETIRE_REQUIRED" \notin z.mka.events
    BY <1>1, <2>3
  <2> QED
    BY <2>1, <2>2, <2>4, OldSakServed DEF m
<1>4. ASSUME NEW d \in ClockSteps, AdvanceClock(d) PROVE FALSE
  <2> DEFINE r == Tick(c, d)
             z == [c EXCEPT !.mka = MkaTick(@, d)]
  <2>1. Prepared(c, z) /\ Served(z, r.c) /\ z.mka.events \subseteq {"PEER_LOST"}
    BY <1>1, TickStep, NodeAssumption
  <2>2. c' = r.c
    BY <1>4 DEF AdvanceClock
  <2> HIDE DEF z, r
  <2>3. "SAK_RETIRE_REQUIRED" \notin z.mka.events
    BY <2>1
  <2> QED
    BY <2>1, <2>2, <2>3, OldSakServed DEF m
<1>5. CASE BuildMkpdu
  BY <1>5, BuildMkpduTurn DEF SameSlots, Swapped, OldAfter, m
<1>6. CASE TxSucceeded
  <2> DEFINE r == NotifyControlTxSuccess(c)
  <2>1. c' = r.c /\ c.meta.valid
    BY <1>6 DEF TxSucceeded
  <2>2. PICK z : /\ Prepared(c, z)
                 /\ \/ Served(z, r.c) /\ z.mka.events = {}
                    \/ Stopped(z, r.c)
    BY <1>1, <2>1, NotifyControlTxSuccessStep DEF KeyKnown
  <2> HIDE DEF r
  <2>3. Served(z, r.c) => "SAK_RETIRE_REQUIRED" \notin z.mka.events
    BY <2>2 DEF Stopped
  <2> QED
    BY <2>1, <2>2, <2>3, OldSakServed DEF m
<1>7. CASE TxFailed
  BY <1>7, TxFailedTurn DEF SameSlots, m
<1>8. CASE SendData
  BY <1>8, SendDataTurn DEF FrameOnly, m
<1>9. ASSUME NEW f \in DataFrames, ReceiveData(f) PROVE FALSE
  BY <1>9, ReceiveDataTurn DEF FrameOnly, m
<1>10. CASE Restart
  BY <1>10, RestartStep
<1>11. CASE UNCHANGED vars
  BY <1>11 DEF vars, m
<1> QED
  BY <1>1, <1>2, <1>3, <1>4, <1>5, <1>6, <1>7, <1>8, <1>9, <1>10, <1>11, NextCases

\* RetiresOnlyWhenConfirmed: the key that still protects the peer's frames is
\* dropped only when the current peer has confirmed the next one, and that one
\* stays in both directions, provided the two have different association
\* numbers (mka.c 1421-1444; macsec.c 161 removes the association by its number).
THEOREM RetirementJustified == Spec /\ []SlotsApart => RetiresOnlyWhenConfirmed
<1> DEFINE Gone == m.old.state = "RETIRING" /\ m'.old.state = "NONE" /\ boots' = boots
           Safe == /\ m'.latest.state = "CONFIRMED"
                   /\ m'.peer.valid /\ confirmer' = m'.peer.mi
                   /\ c'.fc.tx_sak.key = m'.latest.key
                   /\ c'.fc.rx_sak[m'.latest.an].valid
                   /\ c'.fc.rx_sak[m'.latest.an].key = m'.latest.key
<1>1. NodeInv /\ RxInv /\ SlotsApart /\ SlotsApart' /\ [Next]_vars => RxInv'
  BY RxStep
<1>2. NodeInv /\ RxInv' /\ [Next]_vars => [Gone => Safe]_vars
  <2> SUFFICES ASSUME NodeInv, RxInv', [Next]_vars, Gone PROVE Safe
    OBVIOUS
  <2>1. Kept
    BY NodeNext
  <2>2. CASE c.mode = "MKA_PSK"
    <3>1. Rested(c') /\ m'.latest.state = "CONFIRMED" /\ RxExact(m', c'.fc)
      BY <2>1, <2>2 DEF Kept, Called, RxInv, m
    <3>2. LatestOK(m'.latest) /\ Slots(m', c'.fc)
      BY <3>1 DEF Rested, Sound, MkaOK, MkaBase, m
    <3>3. m'.latest.rx_installed /\ m'.latest.tx_installed
      BY <3>1, <3>2 DEF LatestOK, Held
    <3>4. m'.peer.valid /\ confirmer' = m'.peer.mi
      BY <2>2, RetirementStep
    <3> QED
      BY <3>1, <3>2, <3>3, <3>4 DEF Slots, TxMatches, RxExact, InRxSlot
  <2>3. CASE c.mode # "MKA_PSK"
    <3>1. m.old.state = "NONE"
      BY <2>3 DEF NodeInv, ModeOK, Static, Disabled, Unkeyed, ZeroMka, NoSak, m
    <3> QED
      BY <3>1
  <2> QED
    BY <2>2, <2>3
<1> QED
  BY <1>1, <1>2, InitRxExact, NodeInvariant, PTL DEF Spec, RetiresOnlyWhenConfirmed

-----------------------------------------------------------------------------
(* A Key Server numbers its associations in turn *)

Issued(s) == s.state = "DISTRIBUTED" \/ Held(s)

\* latest_sak has the number of the next key until it is distributed, and the
\* one before it from then on; old_sak has neither.
Rotates(n) ==
    /\ n.latest.origin # "REMOTE"
    /\ n.latest.state = "DISTRIBUTION_PENDING" => n.latest.an = n.next_an
    /\ Issued(n.latest) => n.next_an = (n.latest.an + 1) % MkaMaxSA
    /\ n.old.state # "NONE" => n.old.an # IF Issued(n.latest) THEN n.latest.an ELSE n.next_an

LEMMA NextANDiffers ==
    ASSUME NEW an \in MkaAN PROVE (an + 1) % MkaMaxSA # an
<1>1. an \in 0 .. 3 /\ MkaMaxSA = 4
  BY DEF MkaAN, MkaMaxSA
<1>2. CASE an = 3
  BY <1>1, <1>2
<1>3. CASE an # 3
  <2>1. (an + 1) % 4 = an + 1
    BY <1>1, <1>3
  <2> QED
    BY <1>1, <2>1
<1> QED
  BY <1>2, <1>3

LEMMA RotatesPart ==
    ASSUME SoleKeyServer, NEW n1, MkaOK(n1), n1.latest.state # "DISTRIBUTED", Rotates(n1),
           NEW n2 \in MkaCtx, NEW k \in Key \cup {NoKey},
           SameSlots(n1, n2) \/ Swapped(n1, n2, k) \/ FirstSent(n1, n2)
    PROVE  Rotates(n2)
<1>1. /\ n1 \in MkaCtx /\ n1.latest \in SakRec /\ LatestOK(n1.latest) /\ OldOK(n1.old)
      /\ n1.latest.an \in MkaAN /\ n1.next_an \in MkaAN /\ n1.next_kn # 0
  BY DEF MkaOK, MkaBase, MkaCtx, SakRec
<1>2. CASE SameSlots(n1, n2)
  BY <1>2 DEF SameSlots, SameKey, Rotates, Issued, Held
<1>3. CASE Swapped(n1, n2, k)
  <2>1. \/ n2.latest.state = "NONE" /\ n2.latest.origin = "NONE"
        \/ n2.latest.state = "DISTRIBUTION_PENDING" /\ n2.latest.an = n1.next_an
           /\ n2.latest.origin = "LOCAL"
    BY <1>1, <1>3, GeneratedOK DEF Swapped, NoSak
  <2>2. n2.old.state # "NONE" => n2.old.an # n2.next_an
    <3>1. CASE n2.old = n1.old /\ ~Held(n1.latest)
      BY <1>3, <3>1 DEF Swapped, Rotates, Issued
    <3>2. CASE Held(n1.latest) /\ n2.old.an = n1.latest.an
      BY <1>1, <1>3, <3>2, NextANDiffers DEF Swapped, Rotates, Issued
    <3> QED
      BY <1>3, <3>1, <3>2 DEF Swapped, OldAfter
  <2> QED
    BY <1>3, <2>1, <2>2 DEF Swapped, Rotates, Issued, Held
<1>4. CASE FirstSent(n1, n2)
  <2>1. /\ n2.latest.state = "DISTRIBUTED" /\ n2.latest.an = n1.next_an
        /\ n2.latest.origin = n1.latest.origin
        /\ n2.next_an = (n1.next_an + 1) % MkaMaxSA /\ n2.old = n1.old
        /\ n1.latest.state = "DISTRIBUTION_PENDING"
    BY <1>1, <1>4 DEF FirstSent, Committed, SakRec, Rotates
  <2> QED
    BY <2>1 DEF Rotates, Issued, Held
<1> QED
  BY <1>2, <1>3, <1>4

LEMMA RotatesServed ==
    ASSUME NEW z, Sound(z), Rotates(z.mka), NEW y, Settles(z, y)
    PROVE  Rotates(y.mka)
<1>1. /\ z.mka.latest \in SakRec /\ LatestOK(z.mka.latest) /\ z.mka.old \in SakRec
      /\ OldOK(z.mka.old)
  BY DEF Sound, MkaOK, MkaBase, MkaCtx
<1>2. CASE Left(z, y)
  BY <1>2 DEF Left, Rotates
<1>3. CASE Retired(z, y) /\ y.mka.next_an = z.mka.next_an
  BY <1>3 DEF Retired, Rotates, NoSak
<1>4. CASE Untouched(z, y) /\ y.mka.next_an = z.mka.next_an
  BY <1>4 DEF Untouched, Rotates
<1>5. CASE Installed(z, y) /\ y.mka.next_an = z.mka.next_an
  <2>1. y.mka.latest = InUse(z.mka.latest) /\ Installable(z.mka.latest)
        /\ y.mka.old = Silenced(z.mka.old)
    BY <1>5 DEF Installed
  <2>2. z.mka.latest.state = "DISTRIBUTED"
    BY <1>1, <2>1 DEF Installable, LatestOK, Rotates
  <2>3. y.mka.latest.state = "ACTIVE" /\ y.mka.latest.an = z.mka.latest.an
        /\ y.mka.latest.origin = z.mka.latest.origin
    BY <1>1, <2>1, InUseFields
  <2>4. y.mka.old.state = z.mka.old.state /\ y.mka.old.an = z.mka.old.an
    BY <1>1, <2>1, SilencedFields
  <2> QED
    BY <1>5, <2>2, <2>3, <2>4 DEF Rotates, Issued, Held
<1> QED
  BY <1>2, <1>3, <1>4, <1>5 DEF Settles, Served, SameButService

LEMMA RotatesTurn ==
    ASSUME SoleKeyServer, NEW x, NEW z, NEW y, Turn(x, z, y), Rotates(x.mka),
           NEW k \in Key \cup {NoKey},
           SameSlots(x.mka, z.mka) \/ Swapped(x.mka, z.mka, k) \/ FirstSent(x.mka, z.mka)
    PROVE  Rotates(y.mka)
<1>1. MkaOK(x.mka) /\ x.mka.latest.state # "DISTRIBUTED" /\ z.mka \in MkaCtx /\ Sound(z)
  BY DEF Turn, Rested, Sound, MkaOK, MkaBase
<1>2. Rotates(z.mka)
  BY <1>1, RotatesPart
<1> QED
  BY <1>1, <1>2, RotatesServed DEF Turn

LEMMA RotatesApart ==
    ASSUME NEW x, Rested(x), Rotates(x.mka)
    PROVE  Apart(x.mka)
<1>1. /\ x.mka.latest.state \in {"NONE", "CANDIDATE", "DISTRIBUTION_PENDING", "ACTIVE", "CONFIRMED"}
      /\ x.mka.latest.state = "CANDIDATE" => x.mka.latest.origin = "REMOTE"
  BY DEF Rested, Sound, MkaOK, MkaBase, LatestOK
<1> QED
  BY <1>1 DEF Rotates, Apart, Issued, Held

NumbersInv == c.mode = "MKA_PSK" => Rotates(m)

LEMMA InitRotates ==
    ASSUME NEW x, x.mka.latest = NoSak, x.mka.old = NoSak
    PROVE  Rotates(x.mka)
BY DEF Rotates, NoSak, Issued, Held

LEMMA RotatesStep ==
    ASSUME SoleKeyServer, NodeInv, NumbersInv, [Next]_vars
    PROVE  NumbersInv'
<1> SUFFICES ASSUME c'.mode = "MKA_PSK" PROVE Rotates(m')
  BY DEF NumbersInv
<1>1. c.mode = "MKA_PSK" /\ Rotates(m)
  BY NodeNext DEF Kept, NumbersInv
<1>2. Drawn \in Key \cup {NoKey}
  BY DrawnType, NodeAssumption
<1>3. ASSUME NEW p \in MkpduRec, SoleKeyServer => p.dist.has # "dist", ReceiveMkpdu(p)
      PROVE  Rotates(m')
  BY <1>1, <1>2, <1>3, ReceiveMkpduTurn, RotatesTurn DEF m
<1>4. ASSUME NEW p \in MkpduRec, NEW wellformed \in BOOLEAN, ReceiveRejected(p, wellformed)
      PROVE  Rotates(m')
  BY <1>1, <1>2, <1>4, ReceiveRejectedTurn, RotatesTurn DEF m
<1>5. ASSUME NEW d \in ClockSteps, AdvanceClock(d) PROVE Rotates(m')
  BY <1>1, <1>2, <1>5, AdvanceClockTurn, RotatesTurn DEF m
<1>6. CASE BuildMkpdu
  BY <1>1, <1>2, <1>6, BuildMkpduTurn, RotatesTurn DEF m
<1>7. CASE TxSucceeded
  BY <1>1, <1>2, <1>7, TxSucceededTurn, RotatesTurn DEF m
<1>8. CASE TxFailed
  BY <1>1, <1>2, <1>8, TxFailedTurn, RotatesTurn DEF m
<1>9. CASE SendData
  BY <1>1, <1>9, SendDataTurn DEF FrameOnly, m
<1>10. ASSUME NEW f \in DataFrames, ReceiveData(f) PROVE Rotates(m')
  BY <1>1, <1>10, ReceiveDataTurn DEF FrameOnly, m
<1>11. CASE Restart
  BY <1>1, <1>11, RestartStep, InitRotates DEF m
<1>12. CASE UNCHANGED vars
  BY <1>1, <1>12 DEF vars, m
<1>13. m \in MkaCtx
  BY ModeType DEF NodeInv, m
<1> QED
  BY <1>3, <1>4, <1>5, <1>6, <1>7, <1>8, <1>9, <1>10, <1>11, <1>12, <1>13, NextCases

LEMMA InitNumbers == Init => NumbersInv
<1> SUFFICES ASSUME Init, c.mode = "MKA_PSK" PROVE Rotates(m)
  BY DEF NumbersInv
<1>1. PICK mode \in ConfigModes : c = MacsecInit(mode, Me, 1, Prio)
  BY DEF Init
<1>2. mode \in Modes /\ 1 \in Nat
  BY NodeAssumption
<1>3. m.latest = NoSak /\ m.old = NoSak
  BY <1>1, <1>2, InitModeOK DEF m
<1> QED
  BY <1>3, InitRotates DEF m

\* A Key Server on whose link nobody else distributes keys keeps the two keys
\* of a rekey apart, over lost and repeated MKPDUs, failed transmissions, peers
\* that restart and restarts of its own (mka.c 2480-2516).
THEOREM ServerSlotsApart ==
    ASSUME SoleKeyServer PROVE Spec => []SlotsApart
<1>1. NodeInv /\ NumbersInv /\ [Next]_vars => NumbersInv'
  BY RotatesStep
<1>2. NodeInv /\ NumbersInv => SlotsApart
  BY RestedOf, RotatesApart DEF NumbersInv, SlotsApart, m
<1> QED
  BY <1>1, <1>2, InitNumbers, NodeInvariant, PTL DEF Spec

\* SecuredBothWays without any assumption on the order of association numbers,
\* for the station that assigns them.
THEOREM ServerSecured ==
    ASSUME SoleKeyServer PROVE Spec => []SecuredBothWays
<1>1. Spec => []SlotsApart
  BY ServerSlotsApart
<1> QED
  BY <1>1, SecuredWhileApart, PTL

\* RetiresOnlyWhenConfirmed in the same way, for every peer and every order of
\* its MKPDUs.
THEOREM ServerRetirement ==
    ASSUME SoleKeyServer PROVE Spec => RetiresOnlyWhenConfirmed
<1>1. Spec => []SlotsApart
  BY ServerSlotsApart
<1> QED
  BY <1>1, RetirementJustified, PTL

-----------------------------------------------------------------------------
(* A key is distributed before it is installed *)

\* The keys drawn here that are past their distribution are among keys.
Shared(n, keys) ==
    \A s \in {n.latest, n.old} :
        s.origin = "LOCAL" /\ s.state \notin {"NONE", "DISTRIBUTION_PENDING"} => s.key \in keys

\* An MKPDU that awaits its report carries the key that latest_sak still has.
CarriesLatest == c.meta.dist => c.meta.valid /\ m.latest.key \in sent \cup {onAir}

DistInv == c.mode = "MKA_PSK" => Shared(m, sent) /\ CarriesLatest

LEMMA SharedPart ==
    ASSUME NEW n1, MkaOK(n1), NEW keys, Shared(n1, keys), NEW n2, NEW k \in Key \cup {NoKey},
           \/ SameSlots(n1, n2) \/ Swapped(n1, n2, k)
           \/ FirstSent(n1, n2) /\ n1.latest.key \in keys
    PROVE  Shared(n2, keys)
<1>1. n1 \in MkaCtx /\ n1.next_kn # 0 /\ n1.latest \in SakRec /\ LatestOK(n1.latest)
  BY DEF MkaOK, MkaBase, MkaCtx
<1>2. CASE SameSlots(n1, n2)
  BY <1>2 DEF SameSlots, SameKey, Shared, Held
<1>3. CASE Swapped(n1, n2, k)
  <2>1. \/ n2.latest.state \in {"NONE", "DISTRIBUTION_PENDING"}
        \/ n2.latest.origin = "REMOTE"
    BY <1>1, <1>3, GeneratedOK DEF Swapped, NoSak
  <2>2. n2.old = n1.old \/ (/\ Held(n1.latest) /\ n2.old.key = n1.latest.key
                            /\ n2.old.origin = n1.latest.origin)
    BY <1>3 DEF Swapped, OldAfter
  <2> QED
    BY <2>1, <2>2 DEF Shared, Held
<1>4. CASE FirstSent(n1, n2) /\ n1.latest.key \in keys
  <2>1. n2.latest.key \in keys /\ n2.old = n1.old
    BY <1>1, <1>4 DEF FirstSent, Committed, SakRec
  <2> QED
    BY <2>1 DEF Shared
<1> QED
  BY <1>2, <1>3, <1>4

LEMMA SharedServed ==
    ASSUME NEW z, Sound(z), NEW keys, Shared(z.mka, keys), NEW y, Settles(z, y)
    PROVE  Shared(y.mka, keys)
<1>1. /\ z.mka.latest \in SakRec /\ LatestOK(z.mka.latest) /\ z.mka.old \in SakRec
      /\ OldOK(z.mka.old)
  BY DEF Sound, MkaOK, MkaBase, MkaCtx
<1>2. CASE Left(z, y)
  BY <1>2 DEF Left, Shared
<1>3. CASE Retired(z, y)
  BY <1>3 DEF Retired, Shared, NoSak
<1>4. CASE Untouched(z, y)
  BY <1>4 DEF Untouched, Shared
<1>5. CASE Installed(z, y)
  <2>1. y.mka.latest = InUse(z.mka.latest) /\ Installable(z.mka.latest)
        /\ y.mka.old = Silenced(z.mka.old)
    BY <1>5 DEF Installed
  <2>2. y.mka.latest.key = z.mka.latest.key /\ y.mka.latest.origin = z.mka.latest.origin
    BY <1>1, <2>1, InUseFields
  <2>3. /\ y.mka.old.state = z.mka.old.state /\ y.mka.old.key = z.mka.old.key
        /\ y.mka.old.origin = z.mka.old.origin
    BY <1>1, <2>1, SilencedFields
  <2> QED
    BY <2>1, <2>2, <2>3 DEF Shared, Installable
<1> QED
  BY <1>2, <1>3, <1>4, <1>5 DEF Settles, Served

LEMMA SharedTurn ==
    ASSUME NEW x, NEW z, NEW y, Turn(x, z, y), NEW keys, Shared(x.mka, keys),
           NEW k \in Key \cup {NoKey},
           \/ SameSlots(x.mka, z.mka) \/ Swapped(x.mka, z.mka, k)
           \/ FirstSent(x.mka, z.mka) /\ x.mka.latest.key \in keys
    PROVE  Shared(y.mka, keys)
<1>1. MkaOK(x.mka) /\ Sound(z)
  BY DEF Turn, Rested, Sound
<1>2. Shared(z.mka, keys)
  BY <1>1, SharedPart
<1> QED
  BY <1>1, <1>2, SharedServed DEF Turn

LEMMA DistStep ==
    ASSUME ~AsyncTx, NodeInv, DistInv, [Next]_vars
    PROVE  DistInv'
<1> DEFINE Good == Shared(m', sent') /\ CarriesLatest'
<1> SUFFICES ASSUME c'.mode = "MKA_PSK" PROVE Good
  BY DEF DistInv
<1>1. c.mode = "MKA_PSK" /\ Shared(m, sent) /\ CarriesLatest /\ KeyKnown(c)
  BY NodeNext, RestedOf DEF Kept, DistInv
<1>2. Drawn \in Key \cup {NoKey}
  BY DrawnType, NodeAssumption
<1>3. NoMeta.dist = FALSE
  BY DEF NoMeta
<1>4. ASSUME NEW p \in MkpduRec, SoleKeyServer => p.dist.has # "dist", ReceiveMkpdu(p)
      PROVE  Good
  <2>1. ~c.meta.valid /\ sent' = sent /\ onAir' = onAir
    BY <1>4 DEF ReceiveMkpdu, Idle
  <2>2. Shared(m', sent) /\ c'.meta = c.meta
    BY <1>1, <1>2, <1>4, ReceiveMkpduTurn, SharedTurn DEF m
  <2> QED
    BY <1>1, <2>1, <2>2 DEF CarriesLatest
<1>5. ASSUME NEW p \in MkpduRec, NEW wellformed \in BOOLEAN, ReceiveRejected(p, wellformed)
      PROVE  Good
  <2>1. ~c.meta.valid /\ sent' = sent /\ onAir' = onAir
    BY <1>5 DEF ReceiveRejected, Idle
  <2>2. Shared(m', sent) /\ c'.meta = c.meta
    BY <1>1, <1>2, <1>5, ReceiveRejectedTurn, SharedTurn DEF m
  <2> QED
    BY <1>1, <2>1, <2>2 DEF CarriesLatest
<1>6. ASSUME NEW d \in ClockSteps, AdvanceClock(d) PROVE Good
  <2>1. ~c.meta.valid /\ sent' = sent /\ onAir' = onAir
    BY <1>6 DEF AdvanceClock, Idle
  <2>2. Shared(m', sent) /\ c'.meta = c.meta
    BY <1>1, <1>2, <1>6, AdvanceClockTurn, SharedTurn DEF m
  <2> QED
    BY <1>1, <2>1, <2>2 DEF CarriesLatest
<1>7. CASE BuildMkpdu
  <2>1. sent' = sent /\ onAir' = IF c'.meta.dist THEN m'.latest.key ELSE NoKey
    BY <1>7 DEF BuildMkpdu, m
  <2>2. Shared(m', sent) /\ (c'.meta = NoMeta \/ c'.meta = MetaOf(m'))
    BY <1>1, <1>2, <1>7, BuildMkpduTurn, SharedTurn DEF m
  <2>3. c'.meta.dist => c'.meta.valid
    BY <1>3, <2>2 DEF MetaOf
  <2> QED
    BY <2>1, <2>2, <2>3 DEF CarriesLatest
<1>8. CASE TxSucceeded
  <2>1. sent' = (IF onAir = NoKey THEN sent ELSE sent \cup {onAir}) /\ onAir' = NoKey
    BY <1>8 DEF TxSucceeded
  <2>2. Shared(m, sent')
    BY <1>1, <2>1 DEF Shared
  <2>3. PICK z : /\ Turn(c, z, c')
                 /\ SameSlots(m, z.mka) \/ (c.meta.dist /\ FirstSent(m, z.mka))
                 /\ c'.meta = NoMeta \/ (c'.meta = c.meta /\ c'.mka.latest = m.latest)
    BY <1>1, <1>8, TxSucceededTurn
  <2>4. FirstSent(m, z.mka) /\ c.meta.dist => m.latest.key \in sent'
    <3>1. FirstSent(m, z.mka) => m.latest.key # NoKey
      BY <1>1, ConstantFacts DEF FirstSent, Committed, KeyKnown, m
    <3> QED
      BY <1>1, <2>1, <3>1 DEF CarriesLatest
  <2>5. Shared(m', sent')
    <3> DEFINE keys == sent'
    <3>1. Shared(m, keys) /\ (FirstSent(m, z.mka) /\ c.meta.dist => m.latest.key \in keys)
      BY <2>2, <2>4
    <3> HIDE DEF keys
    <3>2. Shared(c'.mka, keys)
      BY <1>2, <2>3, <3>1, SharedTurn DEF m
    <3> QED
      BY <3>2 DEF keys, m
  <2>6. CarriesLatest'
    BY <1>1, <1>3, <2>1, <2>3 DEF CarriesLatest, m
  <2> QED
    BY <2>5, <2>6
<1>9. CASE TxFailed
  <2>1. Shared(m', sent) /\ c'.meta = NoMeta /\ sent' = sent
    BY <1>1, <1>2, <1>9, TxFailedTurn, SharedTurn DEF m, TxFailed
  <2> QED
    BY <1>3, <2>1 DEF CarriesLatest
<1>10. CASE SendData
  <2>1. c'.mka = c.mka /\ c'.meta = c.meta /\ sent' = sent /\ onAir' = onAir
    BY <1>1, <1>10, SendDataTurn DEF FrameOnly, SendData
  <2> QED
    BY <1>1, <2>1 DEF CarriesLatest, m
<1>11. ASSUME NEW f \in DataFrames, ReceiveData(f) PROVE Good
  <2>1. c'.mka = c.mka /\ c'.meta = c.meta /\ sent' = sent /\ onAir' = onAir
    BY <1>11, ReceiveDataTurn DEF FrameOnly, ReceiveData
  <2> QED
    BY <1>1, <2>1 DEF CarriesLatest, m
<1>12. CASE Restart
  <2>1. c'.mka.latest = NoSak /\ c'.mka.old = NoSak /\ c'.meta = NoMeta
    BY <1>1, <1>12, RestartStep
  <2> QED
    BY <1>3, <2>1 DEF CarriesLatest, Shared, NoSak, m
<1>13. CASE UNCHANGED vars
  BY <1>1, <1>13 DEF vars, m, CarriesLatest
<1>14. m \in MkaCtx
  BY ModeType DEF NodeInv, m
<1> HIDE DEF Good
<1> QED
  BY <1>4, <1>5, <1>6, <1>7, <1>8, <1>9, <1>10, <1>11, <1>12, <1>13, <1>14, NextCases

LEMMA InitDist == Init => DistInv
<1> SUFFICES ASSUME Init, c.mode = "MKA_PSK" PROVE Shared(m, sent) /\ CarriesLatest
  BY DEF DistInv
<1>1. PICK mode \in ConfigModes : c = MacsecInit(mode, Me, 1, Prio)
  BY DEF Init
<1>2. mode \in Modes /\ 1 \in Nat
  BY NodeAssumption
<1>3. m.latest = NoSak /\ m.old = NoSak /\ c.meta = NoMeta
  BY <1>1, <1>2, InitModeOK DEF m
<1> QED
  BY <1>3 DEF Shared, CarriesLatest, NoSak, NoMeta

\* DistributedBeforeInstalled: a Key Server that lets no call come between an
\* MKPDU and its report, as the bridge does, never protects traffic with a key
\* it has not sent to its peer, over failed transmissions, rekeys for a new
\* peer and restarts (mka.c 732-741).
THEOREM DistributionFirst ==
    ASSUME ~AsyncTx PROVE Spec => []DistributedBeforeInstalled
<1>1. NodeInv /\ DistInv /\ [Next]_vars => DistInv'
  BY DistStep
<1>2. NodeInv /\ DistInv => DistributedBeforeInstalled
  <2> SUFFICES ASSUME NodeInv, DistInv, NEW s \in {m.latest, m.old}, s.origin = "LOCAL",
                      s.rx_installed \/ s.tx_installed
               PROVE  s.key \in sent
    BY DEF DistributedBeforeInstalled
  <2>1. CASE c.mode = "MKA_PSK"
    <3>1. LatestOK(m.latest) /\ OldOK(m.old) /\ Shared(m, sent)
      BY <2>1, RestedOf DEF MkaOK, MkaBase, DistInv
    <3>2. s.state \notin {"NONE", "DISTRIBUTION_PENDING"}
      BY <3>1 DEF LatestOK, OldOK, Held, NoSak
    <3> QED
      BY <3>1, <3>2 DEF Shared
  <2>2. CASE c.mode # "MKA_PSK"
    <3>1. m.latest = NoSak /\ m.old = NoSak
      BY <2>2 DEF NodeInv, ModeOK, Static, Disabled, Unkeyed, ZeroMka, m
    <3> QED
      BY <3>1 DEF NoSak
  <2> QED
    BY <2>1, <2>2
<1> QED
  BY <1>1, <1>2, InitDist, NodeInvariant, PTL DEF Spec

-----------------------------------------------------------------------------
(* No packet number is used twice with a key *)

\* A configured key serves one incarnation only.
StaticKeyServesOnce == "STATIC_SAK" \in ConfigModes => MaxBoots <= 1

\* The keys of the slots come from keys and differ, and the latest one sent
\* nothing before it was put into use; numbers[k] are the numbers sent with k.
SlotsFresh(n, keys, numbers) ==
    /\ n.latest.state # "NONE" => n.latest.key \in keys
    /\ n.old.state # "NONE" => n.old.key \in keys
    /\ n.latest.state # "NONE" /\ n.old.state # "NONE" => n.latest.key # n.old.key
    /\ n.latest.state # "NONE" /\ ~Held(n.latest) => numbers[n.latest.key] = {}

\* Only keys that macsec_random returned are sent with.
OnlyIssued(keys, numbers) == \A k \in Key : numbers[k] # {} => k \in keys

\* The next packet number lies beyond those sent, unless they are exhausted.
TxAhead(tx, numbers) ==
    tx.valid => \A pn \in numbers[tx.key] : tx.next_pn = 0 \/ pn < tx.next_pn

NonceInv ==
    /\ boots >= 1 /\ TxAhead(c.fc.tx_sak, used)
    /\ c.mode = "MKA_PSK" => OnlyIssued(issued, used) /\ SlotsFresh(m, issued, used)

LEMMA FreshPart ==
    ASSUME SoleKeyServer, NEW n1, MkaOK(n1), NEW keys, NEW numbers, OnlyIssued(keys, numbers),
           SlotsFresh(n1, keys, numbers), NEW keys2, keys \subseteq keys2,
           NEW k \in Key \cup {NoKey}, NEW n2,
           \/ SameSlots(n1, n2) \/ FirstSent(n1, n2)
           \/ Swapped(n1, n2, k) /\ (n2.latest.state # "NONE" => k \in (keys2 \cap Key) \ keys)
    PROVE  SlotsFresh(n2, keys2, numbers)
<1>1. /\ n1 \in MkaCtx /\ n1.next_kn # 0 /\ n1.latest \in SakRec /\ LatestOK(n1.latest)
      /\ OldOK(n1.old)
  BY DEF MkaOK, MkaBase, MkaCtx
<1>2. CASE SameSlots(n1, n2)
  BY <1>2 DEF SameSlots, SameKey, SlotsFresh, Held
<1>3. CASE FirstSent(n1, n2)
  <2>1. /\ n2.old = n1.old /\ n2.latest.key = n1.latest.key /\ ~Held(n1.latest)
        /\ n1.latest.state # "NONE"
    BY <1>1, <1>3 DEF FirstSent, Committed, SakRec, Held
  <2> QED
    BY <2>1 DEF SlotsFresh
<1>4. CASE Swapped(n1, n2, k) /\ (n2.latest.state # "NONE" => k \in (keys2 \cap Key) \ keys)
  <2>1. n2.old.state # "NONE" => n2.old.key \in keys
    BY <1>4 DEF Swapped, OldAfter, SlotsFresh, Held
  <2>2. CASE n2.latest = NoSak
    BY <2>1, <2>2 DEF SlotsFresh, NoSak
  <2>3. CASE n2.latest = Generated(n1, k)
    <3>1. n2.latest.key = k /\ n2.latest.state = "DISTRIBUTION_PENDING"
      BY <1>1, <2>3, GeneratedOK
    <3>2. k \in keys2 /\ k \in Key /\ k \notin keys /\ numbers[k] = {}
      BY <1>4, <3>1 DEF OnlyIssued
    <3> QED
      BY <2>1, <3>1, <3>2 DEF SlotsFresh
  <2> QED
    BY <1>4, <2>2, <2>3 DEF Swapped
<1> QED
  BY <1>2, <1>3, <1>4

LEMMA FreshServed ==
    ASSUME NEW z, Sound(z), NEW keys, NEW numbers, SlotsFresh(z.mka, keys, numbers),
           TxAhead(z.fc.tx_sak, numbers), NEW y, Settles(z, y)
    PROVE  SlotsFresh(y.mka, keys, numbers) /\ TxAhead(y.fc.tx_sak, numbers)
<1>1. /\ z.mka.latest \in SakRec /\ LatestOK(z.mka.latest) /\ z.mka.old \in SakRec
      /\ OldOK(z.mka.old)
  BY DEF Sound, MkaOK, MkaBase, MkaCtx
<1>2. CASE Left(z, y)
  BY <1>2 DEF Left, SlotsFresh
<1>3. CASE Retired(z, y)
  BY <1>3 DEF Retired, SlotsFresh, NoSak
<1>4. CASE Untouched(z, y)
  BY <1>4 DEF Untouched, SlotsFresh
<1>5. CASE Installed(z, y)
  <2>1. y.mka.latest = InUse(z.mka.latest) /\ Installable(z.mka.latest)
        /\ y.mka.old = Silenced(z.mka.old)
    BY <1>5 DEF Installed
  <2>2. y.mka.latest.key = z.mka.latest.key /\ y.mka.latest.state = "ACTIVE"
    BY <1>1, <2>1, InUseFields
  <2>3. y.mka.old.state = z.mka.old.state /\ y.mka.old.key = z.mka.old.key
    BY <1>1, <2>1, SilencedFields
  <2>4. /\ z.mka.latest.state # "NONE" /\ numbers[z.mka.latest.key] = {}
    BY <2>1 DEF Installable, SlotsFresh, Held
  <2>5. TxAhead(y.fc.tx_sak, numbers)
    <3>1. \/ y.fc.tx_sak = z.fc.tx_sak
          \/ y.fc.tx_sak.key = z.mka.latest.key
      BY <1>5 DEF Installed
    <3> QED
      BY <2>4, <3>1 DEF TxAhead
  <2> QED
    BY <2>2, <2>3, <2>4, <2>5 DEF SlotsFresh, Held
<1> QED
  BY <1>2, <1>3, <1>4, <1>5 DEF Settles, Served

\* A call that protects no frame: the keys of the slots stay fresh.
LEMMA FreshTurn ==
    ASSUME SoleKeyServer, NEW x, NEW z, NEW y, Turn(x, z, y), NEW keys, NEW numbers,
           OnlyIssued(keys, numbers), SlotsFresh(x.mka, keys, numbers),
           TxAhead(x.fc.tx_sak, numbers), NEW keys2, keys \subseteq keys2,
           NEW k \in Key \cup {NoKey},
           \/ SameSlots(x.mka, z.mka) \/ FirstSent(x.mka, z.mka)
           \/ Swapped(x.mka, z.mka, k) /\ (z.mka.latest.state # "NONE" => k \in (keys2 \cap Key) \ keys)
    PROVE  /\ OnlyIssued(keys2, numbers) /\ SlotsFresh(y.mka, keys2, numbers)
           /\ TxAhead(y.fc.tx_sak, numbers)
<1>1. MkaOK(x.mka) /\ Sound(z) /\ z.fc = x.fc
  BY DEF Turn, Rested, Sound
<1>2. SlotsFresh(z.mka, keys2, numbers)
  BY <1>1, FreshPart
<1>3. OnlyIssued(keys2, numbers)
  BY DEF OnlyIssued
<1> QED
  BY <1>1, <1>2, <1>3, FreshServed DEF Turn

\* A key the call generated is drawn for the first time, and is accounted for.
LEMMA DrawnNow ==
    ASSUME SoleKeyServer, NodeInv, NodeInv', c.mode = "MKA_PSK", c'.mode = "MKA_PSK",
           NEW z, Turn(c, z, c'), Swapped(m, z.mka, Drawn), z.mka.latest.state # "NONE",
           issued' = IF c'.mka.latest.key = Drawn /\ Drawn # NoKey
                     THEN issued \cup {Drawn} ELSE issued
    PROVE  Drawn \in (issued' \cap Key) \ issued
<1>1. m \in MkaCtx /\ m.next_kn # 0 /\ KeyKnown(c)
  BY RestedOf DEF MkaOK, MkaBase
<1>2. Drawn \in Key \cup {NoKey} /\ Drawn \in (LocalKeys \ issued) \cup {NoKey}
  BY DrawnType, NodeAssumption
<1>3. z.mka.latest.key = Drawn /\ z.mka.latest.state = "DISTRIBUTION_PENDING"
  BY <1>1, <1>2, GeneratedOK DEF Swapped, NoSak
<1>4. c'.mka.latest = z.mka.latest
  BY <1>3 DEF Turn, Settles, Left, Served, Retired, Untouched, Installed, Installable
<1>5. KeyKnown(c')
  BY ModeCases DEF NodeInv
<1>6. Drawn \in Key
  BY <1>3, <1>4, <1>5 DEF KeyKnown
<1> QED
  BY <1>2, <1>3, <1>4, <1>6, ConstantFacts

\* The key that a frame is sent with is one the slots have in use.
LEMMA SentKey ==
    ASSUME NodeInv, c.mode = "MKA_PSK", SlotsFresh(m, issued, used), c.fc.tx_sak.valid
    PROVE  /\ c.fc.tx_sak.key \in issued
           /\ m.latest.state # "NONE" /\ ~Held(m.latest) => m.latest.key # c.fc.tx_sak.key
<1>1. TxMatches(m, c.fc) /\ LatestOK(m.latest) /\ OldOK(m.old)
  BY RestedOf DEF Slots, MkaOK, MkaBase
<1>2. CASE m.latest.tx_installed
  <2>1. Held(m.latest) /\ c.fc.tx_sak.key = m.latest.key
    BY <1>1, <1>2 DEF TxMatches, LatestOK
  <2> QED
    BY <2>1 DEF SlotsFresh, Held
<1>3. CASE m.old.tx_installed
  <2>1. m.old.state # "NONE" /\ c.fc.tx_sak.key = m.old.key
    BY <1>1, <1>3 DEF TxMatches, OldOK, NoSak
  <2> QED
    BY <2>1 DEF SlotsFresh
<1> QED
  BY <1>1, <1>2, <1>3 DEF TxMatches

\* Sending uses the next number and moves beyond it.
LEMMA TxAheadSent ==
    ASSUME NEW tx, NEW key \in Key, tx.key = key, NEW pn \in PN, tx.next_pn = pn, tx.valid,
           NEW numbers, numbers[key] \subseteq PN, TxAhead(tx, numbers),
           NEW tx2, tx2.key = key, tx2.next_pn = NextPN(pn),
           NEW numbers2, numbers2[key] = numbers[key] \cup {pn}
    PROVE  TxAhead(tx2, numbers2)
<1>1. numbers2[key] = numbers[key] \cup {pn} /\ numbers[key] \subseteq PN
  OBVIOUS
<1>2. MaxPN \in Nat /\ pn \in 1 .. MaxPN /\ NextPN(pn) \in {0, pn + 1}
  BY FrameAssumption DEF PN, NextPN
<1>3. ASSUME NEW q \in numbers2[key] PROVE tx2.next_pn = 0 \/ q < tx2.next_pn
  <2>1. q \in Nat /\ (q = pn \/ pn = 0 \/ q < pn)
    BY <1>1, <1>2 DEF PN, TxAhead
  <2> QED
    BY <1>2, <2>1
<1> QED
  BY <1>3 DEF TxAhead

LEMMA SendDataFresh ==
    ASSUME NodeInv, c.mode # "DISABLED", SendData, NonceInv
    PROVE  TxAhead(c'.fc.tx_sak, used')
           /\ (c.mode = "MKA_PSK" => OnlyIssued(issued, used') /\ SlotsFresh(m, issued, used'))
<1>1. used \in [Key -> SUBSET PN] /\ c \in MacsecCtx /\ FrameOK(c.fc)
  BY ModeType DEF NodeInv, HistoryOK
<1>2. CASE c'.fc.tx_sak = c.fc.tx_sak /\ used' = used
  BY <1>2 DEF NonceInv
<1> DEFINE tx == c.fc.tx_sak
<1>3. CASE /\ tx.valid /\ tx.next_pn \in PN
           /\ c'.fc.tx_sak = [tx EXCEPT !.next_pn = NextPN(@)]
           /\ used' = [used EXCEPT ![tx.key] = @ \cup {tx.next_pn}]
  <2>1. tx.key \in Key /\ tx \in TxSak
    BY <1>1, <1>3 DEF FrameOK, Keyed, FrameCtx
  <2>2. c'.fc.tx_sak.key = tx.key /\ c'.fc.tx_sak.next_pn = NextPN(tx.next_pn)
    BY <1>3, <2>1 DEF TxSak
  <2>3. TxAhead(c'.fc.tx_sak, used')
    <3> DEFINE numbers2 == used'
               tx2 == c'.fc.tx_sak
               key == tx.key
               pn == tx.next_pn
    <3>1. /\ TxAhead(tx, used) /\ tx.valid /\ tx.key = key /\ tx.next_pn = pn
          /\ key \in Key /\ pn \in PN /\ tx2.key = key /\ tx2.next_pn = NextPN(pn)
          /\ numbers2[key] = used[key] \cup {pn} /\ used[key] \subseteq PN
      BY <1>1, <1>3, <2>1, <2>2 DEF NonceInv
    <3> HIDE DEF tx, tx2, numbers2, key, pn
    <3>2. TxAhead(tx2, numbers2)
      BY <3>1, TxAheadSent
    <3> QED
      BY <3>2 DEF tx2, numbers2
  <2>4. ASSUME c.mode = "MKA_PSK" PROVE OnlyIssued(issued, used') /\ SlotsFresh(m, issued, used')
    <3>1. /\ OnlyIssued(issued, used) /\ SlotsFresh(m, issued, used)
          /\ tx.key \in issued
          /\ m.latest.state # "NONE" /\ ~Held(m.latest) => m.latest.key # tx.key
      BY <1>3, <2>4, SentKey DEF NonceInv
    <3>2. \A k \in Key : k # tx.key => used'[k] = used[k]
      BY <1>1, <1>3, <2>1
    <3>3. LatestOK(m.latest) /\ KeyKnown(c)
      BY <2>4, RestedOf DEF MkaOK, MkaBase
    <3> HIDE DEF tx
    <3>4. OnlyIssued(issued, used')
      BY <3>1, <3>2 DEF OnlyIssued
    <3>5. SlotsFresh(m, issued, used')
      BY <3>1, <3>2, <3>3 DEF SlotsFresh, KeyKnown, m
    <3> QED
      BY <3>4, <3>5
  <2> QED
    BY <2>3, <2>4
<1> QED
  BY <1>2, <1>3, SendDataTurn

\* A mode without key agreement protects frames and does nothing else to the
\* transmit association.
LEMMA UnkeyedNonce ==
    ASSUME NodeInv, NonceInv, c.mode # "MKA_PSK", [Next]_vars,
           StaticKeyServesOnce
    PROVE  TxAhead(c'.fc.tx_sak, used') /\ boots' >= 1
<1> DEFINE Good == TxAhead(c'.fc.tx_sak, used') /\ boots' >= 1
<1> SUFFICES Good
  OBVIOUS
<1>1. TxAhead(c.fc.tx_sak, used) /\ boots >= 1 /\ boots \in Nat /\ ModeOK(c) /\ c.mode \in ConfigModes
  BY DEF NonceInv, NodeInv, HistoryOK
<1>2. ASSUME c'.fc.tx_sak = c.fc.tx_sak, used' = used, boots' = boots PROVE Good
  BY <1>1, <1>2
<1> HIDE DEF Good
<1>3. ASSUME NEW p \in MkpduRec, ReceiveMkpdu(p) PROVE Good
  <2>1. c'.fc = c.fc
    BY <1>1, <1>3, DrawnType, NodeAssumption, InputModeOK DEF ReceiveMkpdu
  <2> QED
    BY <1>2, <1>3, <2>1 DEF ReceiveMkpdu
<1>4. ASSUME NEW p \in MkpduRec, NEW wellformed \in BOOLEAN, ReceiveRejected(p, wellformed)
      PROVE  Good
  <2> DEFINE q == [p EXCEPT !.wellformed = wellformed, !.auth = FALSE]
  <2>1. c' = InputMkpdu(c, q, NoKey).c /\ boots' = boots /\ used' = used /\ q \in MkpduRec
    BY <1>4 DEF ReceiveRejected, MkpduRec
  <2> HIDE DEF q
  <2>2. c'.fc = c.fc
    BY <1>1, <2>1, InputModeOK
  <2> QED
    BY <1>2, <2>1, <2>2
<1>5. ASSUME NEW d \in ClockSteps, AdvanceClock(d) PROVE Good
  BY <1>2, <1>5, AdvanceClockStep DEF AdvanceClock
<1>6. CASE BuildMkpdu
  <2>1. c'.fc.tx_sak = c.fc.tx_sak
    BY <1>6, BuildMkpduStep
  <2> QED
    BY <1>2, <1>6, <2>1 DEF BuildMkpdu
<1>7. CASE TxSucceeded \/ TxFailed
  BY <1>1, <1>7, ModeType DEF TxSucceeded, TxFailed
<1>8. CASE SendData
  <2>1. CASE c.mode = "DISABLED"
    <3>1. c'.fc.tx_sak = c.fc.tx_sak /\ used' = used /\ boots' = boots
      BY <1>8, <2>1 DEF SendData, Output, C
    <3> QED
      BY <1>2, <3>1
  <2>2. CASE c.mode # "DISABLED"
    BY <1>1, <1>8, <2>2, SendDataFresh DEF SendData, Good
  <2> QED
    BY <2>1, <2>2
<1>9. ASSUME NEW f \in DataFrames, ReceiveData(f) PROVE Good
  BY <1>2, <1>9, ReceiveDataTurn DEF ReceiveData
<1>10. CASE Restart
  <2>1. boots < MaxBoots /\ boots' = boots + 1 /\ used' = used /\ MaxBoots \in Nat
    BY <1>10, NodeAssumption DEF Restart
  <2>2. c'.mode = "DISABLED" /\ ModeOK(c')
    <3>1. c'.mode = c.mode /\ ModeOK(c')
      BY <1>10, RestartStep DEF NodeInv
    <3>2. c.mode # "STATIC_SAK"
      BY <1>1, <2>1 DEF StaticKeyServesOnce
    <3> QED
      BY <1>1, <3>1, <3>2, ModeCases DEF Modes
  <2>3. ~c'.fc.tx_sak.valid
    BY <2>2, ModeCases DEF Disabled, ClearedCtx, NoTxSak
  <2> QED
    BY <1>1, <2>1, <2>3 DEF Good, TxAhead
<1>11. CASE UNCHANGED vars
  BY <1>1, <1>11 DEF vars, Good
<1>12. m \in MkaCtx
  BY ModeType DEF NodeInv, m
<1> QED
  BY <1>3, <1>4, <1>5, <1>6, <1>7, <1>8, <1>9, <1>10, <1>11, <1>12, NextCases DEF Good

LEMMA AgreedNonce ==
    ASSUME SoleKeyServer, NodeInv, NonceInv, c.mode = "MKA_PSK", [Next]_vars
    PROVE  /\ TxAhead(c'.fc.tx_sak, used') /\ boots' >= 1
           /\ OnlyIssued(issued', used') /\ SlotsFresh(c'.mka, issued', used')
<1> DEFINE Good == /\ TxAhead(c'.fc.tx_sak, used') /\ boots' >= 1
                   /\ OnlyIssued(issued', used') /\ SlotsFresh(c'.mka, issued', used')
           now == issued'
<1> SUFFICES Good
  OBVIOUS
<1>1. /\ TxAhead(c.fc.tx_sak, used) /\ boots >= 1 /\ boots \in Nat
      /\ OnlyIssued(issued, used) /\ SlotsFresh(m, issued, used)
  BY DEF NonceInv, NodeInv, HistoryOK
<1>2. Drawn \in Key \cup {NoKey} /\ NoKey \in Key \cup {NoKey} /\ NodeInv' /\ c'.mode = "MKA_PSK"
  BY DrawnType, NodeAssumption, NodeNext DEF Kept
<1>3. ASSUME used' = used, boots' = boots, issued \subseteq now, NEW z, Turn(c, z, c'),
             \/ SameSlots(m, z.mka) \/ FirstSent(m, z.mka)
             \/ /\ Swapped(m, z.mka, Drawn)
                /\ z.mka.latest.state # "NONE" => Drawn \in (now \cap Key) \ issued
      PROVE  Good
  <2> HIDE DEF now
  <2>1. OnlyIssued(now, used) /\ SlotsFresh(c'.mka, now, used) /\ TxAhead(c'.fc.tx_sak, used)
    BY <1>1, <1>2, <1>3, FreshTurn DEF m
  <2> QED
    BY <1>1, <1>3, <2>1 DEF now
<1>4. ASSUME FrameOnly(c, c'), TxAhead(c'.fc.tx_sak, used'), OnlyIssued(issued, used'),
             SlotsFresh(m, issued, used'), issued' = issued, boots' = boots
      PROVE  Good
  BY <1>1, <1>4 DEF FrameOnly, m
<1> HIDE DEF Good
<1>5. ASSUME NEW p \in MkpduRec, SoleKeyServer => p.dist.has # "dist", ReceiveMkpdu(p)
      PROVE  Good
  <2>1. /\ used' = used /\ boots' = boots
        /\ issued' = IF c'.mka.latest.key = Drawn /\ Drawn # NoKey
                     THEN issued \cup {Drawn} ELSE issued
    BY <1>5 DEF ReceiveMkpdu, Draws, m
  <2>2. PICK z : Turn(c, z, c') /\ (SameSlots(m, z.mka) \/ Swapped(m, z.mka, Drawn))
    BY <1>5, ReceiveMkpduTurn
  <2>3. Swapped(m, z.mka, Drawn) /\ z.mka.latest.state # "NONE" => Drawn \in (now \cap Key) \ issued
    BY <1>2, <2>1, <2>2, DrawnNow
  <2>4. issued \subseteq now
    BY <2>1
  <2> QED
    BY <1>3, <2>1, <2>2, <2>3, <2>4
<1>6. ASSUME NEW p \in MkpduRec, NEW wellformed \in BOOLEAN, ReceiveRejected(p, wellformed)
      PROVE  Good
  <2>1. used' = used /\ boots' = boots /\ issued \subseteq now
    BY <1>6 DEF ReceiveRejected
  <2> QED
    BY <1>3, <1>6, <2>1, ReceiveRejectedTurn
<1>7. ASSUME NEW d \in ClockSteps, AdvanceClock(d) PROVE Good
  BY <1>3, <1>7, AdvanceClockTurn DEF AdvanceClock
<1>8. CASE BuildMkpdu
  <2>1. /\ used' = used /\ boots' = boots
        /\ issued' = IF c'.mka.latest.key = Drawn /\ Drawn # NoKey
                     THEN issued \cup {Drawn} ELSE issued
    BY <1>8 DEF BuildMkpdu, Draws, m
  <2> DEFINE z == c'
  <2>2. Turn(c, z, c') /\ (SameSlots(m, z.mka) \/ Swapped(m, z.mka, Drawn))
    BY <1>8, BuildMkpduTurn DEF m
  <2> HIDE DEF z
  <2>3. Swapped(m, z.mka, Drawn) /\ z.mka.latest.state # "NONE" => Drawn \in (now \cap Key) \ issued
    BY <1>2, <2>1, <2>2, DrawnNow
  <2>4. issued \subseteq now
    BY <2>1
  <2> QED
    BY <1>3, <2>1, <2>2, <2>3, <2>4
<1>9. CASE TxSucceeded
  <2>1. used' = used /\ boots' = boots /\ issued \subseteq now
    BY <1>9 DEF TxSucceeded
  <2> QED
    BY <1>3, <1>9, <2>1, TxSucceededTurn
<1>10. CASE TxFailed
  <2>1. used' = used /\ boots' = boots /\ issued \subseteq now
    BY <1>10 DEF TxFailed
  <2> DEFINE z == c'
  <2>2. Turn(c, z, c') /\ SameSlots(m, z.mka)
    BY <1>10, TxFailedTurn DEF m
  <2> HIDE DEF z
  <2> QED
    BY <1>3, <2>1, <2>2
<1>11. CASE SendData
  <2>1. issued' = issued /\ boots' = boots
    BY <1>11 DEF SendData
  <2>2. /\ FrameOnly(c, c') /\ TxAhead(c'.fc.tx_sak, used')
        /\ OnlyIssued(issued, used') /\ SlotsFresh(m, issued, used')
    BY <1>11, SendDataTurn, SendDataFresh
  <2> QED
    BY <1>4, <2>1, <2>2
<1>12. ASSUME NEW f \in DataFrames, ReceiveData(f) PROVE Good
  BY <1>1, <1>4, <1>12, ReceiveDataTurn DEF ReceiveData
<1>13. CASE Restart
  <2>1. /\ c'.fc = ClearedCtx /\ c'.mka.latest = NoSak /\ c'.mka.old = NoSak
    BY <1>13, RestartStep
  <2>2. boots' = boots + 1 /\ issued' = issued /\ used' = used
    BY <1>13 DEF Restart
  <2> QED
    BY <1>1, <2>1, <2>2 DEF Good, TxAhead, SlotsFresh, ClearedCtx, NoTxSak, NoSak
<1>14. CASE UNCHANGED vars
  BY <1>1, <1>14 DEF vars, Good, m
<1>15. m \in MkaCtx
  BY ModeType DEF NodeInv, m
<1> QED
  BY <1>5, <1>6, <1>7, <1>8, <1>9, <1>10, <1>11, <1>12, <1>13, <1>14, <1>15, NextCases DEF Good

LEMMA InitNonce == Init => NonceInv
<1> SUFFICES ASSUME Init PROVE NonceInv
  OBVIOUS
<1>1. PICK mode \in ConfigModes : c = MacsecInit(mode, Me, 1, Prio)
  BY DEF Init
<1>2. mode \in Modes /\ 1 \in Nat
  BY NodeAssumption
<1>3. c.mode = "MKA_PSK" => m.latest = NoSak /\ m.old = NoSak
  BY <1>1, <1>2, InitModeOK DEF m
<1>4. used = [k \in Key |-> {}] /\ boots = 1
  BY DEF Init
<1>5. c.fc.tx_sak.valid => c.fc.tx_sak.key \in Key
  BY NodeInit, ModeType DEF NodeInv, FrameOK, Keyed
<1> QED
  BY <1>3, <1>4, <1>5 DEF NonceInv, TxAhead, OnlyIssued, SlotsFresh, NoSak

\* NonceOnce: the station that draws the keys never protects two frames with
\* one packet number and key, over rekeys, repeated installations, wrapped
\* counters and restarts (macsec.c 87-127, frame_crypto.c 248-272).  Where a
\* key is configured, macsec_init starts it at packet number 1, so that no
\* second incarnation may use it.
THEOREM ServerNonceOnce ==
    ASSUME SoleKeyServer, StaticKeyServesOnce PROVE Spec => []NonceOnce
<1>1. NodeInv /\ NonceInv /\ [Next]_vars => NonceInv'
  <2> SUFFICES ASSUME NodeInv, NonceInv, [Next]_vars PROVE NonceInv'
    OBVIOUS
  <2>1. c'.mode = c.mode
    BY NodeNext DEF Kept
  <2> QED
    BY <2>1, UnkeyedNonce, AgreedNonce DEF NonceInv, m
<1>2. NodeInv /\ NonceInv => NonceOnce
  <2> SUFFICES ASSUME NodeInv, NonceInv, ReadyTx(c.fc)
               PROVE  c.fc.tx_sak.next_pn \notin used[c.fc.tx_sak.key]
    BY DEF NonceOnce
  <2>1. c.fc.tx_sak.next_pn \in PN0
    BY ModeType DEF NodeInv, FrameOK, FrameCtx, TxSak
  <2>2. c.fc.tx_sak.valid /\ c.fc.tx_sak.next_pn # 0 /\ c.fc.tx_sak.next_pn \in Int
    BY <2>1, FrameAssumption DEF ReadyTx, PN0
  <2> QED
    BY <2>2 DEF NonceInv, TxAhead
<1> QED
  BY <1>1, <1>2, InitNonce, NodeInvariant, PTL DEF Spec

-----------------------------------------------------------------------------
(* Reasons scheduled while an MKPDU awaits its report *)

\* While an MKPDU awaits its report, every reason scheduled since it was built
\* is pending, unless the MKPDU stands for it too.
LateInv == c.meta.valid => late \subseteq c.meta.reasons \cup m.tx_reasons

\* What a step does to the reasons.
ReasonsKept == LateInv' /\ (TxReported => late \ c.meta.reasons \subseteq m'.tx_reasons)

\* A context is the one with nothing pending, and its reasons again.
LEMMA ForgetfulMore ==
    ASSUME NEW x \in MacsecCtx
    PROVE  /\ Whole(x) /\ Whole(Forgetful(x))
           /\ More(Forgetful(x), x.mka.tx_reasons) = x
<1> DEFINE n == [x.mka EXCEPT !.tx_reasons = {}]
<1>1. Shaped(x.mka)
  BY ShapedOfType DEF MacsecCtx
<1>2. Whole(x)
  BY <1>1 DEF MacsecCtx, Whole, CtxFields
<1>3. Shaped(n) /\ ScheduleTx(n, x.mka.tx_reasons) = x.mka
  BY <1>1 DEF Shaped, MkaFields, ScheduleTx
<1>4. Forgetful(x) = [x EXCEPT !.mka = n]
  BY DEF Forgetful
<1> HIDE DEF n
<1>5. Whole(Forgetful(x)) /\ Forgetful(x).mka = n
  BY <1>2, <1>3, <1>4 DEF Whole, CtxFields
<1>6. More(Forgetful(x), x.mka.tx_reasons) = x
  BY <1>2, <1>3, <1>4 DEF Whole, CtxFields, More
<1> QED
  BY <1>2, <1>5, <1>6

\* An MKPDU schedules the same whatever was scheduled before, takes nothing
\* away, and leaves the MKPDU that awaits its report alone.
LEMMA InputReasons ==
    ASSUME NEW x \in MacsecCtx, NEW p, NEW k
    PROVE  LET y == InputMkpdu(x, p, k).c
           IN  /\ y.meta = x.meta
               /\ y.mka.tx_reasons =
                     InputMkpdu(Forgetful(x), p, k).c.mka.tx_reasons \cup x.mka.tx_reasons
<1> DEFINE t == x.mka.tx_reasons
           f == Forgetful(x)
           r == InputMkpdu(f, p, k)
           q == InputMkpdu(x, p, k)
<1>1. Whole(f) /\ More(f, t) = x
  BY ForgetfulMore
<1> HIDE DEF f
<1>2. AlikeWith(f, r, q, t)
  BY <1>1, InputAlike
<1>3. f.meta = x.meta
  BY <1>1, MoreWhole
<1> HIDE DEF r, q, t
<1>4. Whole(r.c) /\ r.c.meta = x.meta /\ q.c = More(r.c, t)
  BY <1>2, <1>3 DEF AlikeWith, C
<1>5. q.c.meta = x.meta /\ q.c.mka = ScheduleTx(r.c.mka, t) /\ Shaped(r.c.mka)
  BY <1>4, MoreWhole DEF Whole
<1>6. q.c.mka.tx_reasons = r.c.mka.tx_reasons \cup t
  BY <1>5, ReasonsAdded
<1> QED
  BY <1>5, <1>6 DEF r, q, t, f

\* One lemma per action: what it does to the pending reasons.
LEMMA ReceiveMkpduReasons ==
    ASSUME NodeInv, LateInv, NEW p, ReceiveMkpdu(p)
    PROVE  ReasonsKept
<1> DEFINE r == InputMkpdu(c, p, Drawn)
           f == InputMkpdu(Forgetful(c), p, Drawn)
<1>1. c \in MacsecCtx
  BY ModeType DEF NodeInv
<1>2. c' = r.c /\ late' = IF c.meta.valid THEN late \cup f.c.mka.tx_reasons ELSE {}
  BY DEF ReceiveMkpdu, Notes
<1>3. r.c.meta = c.meta /\ r.c.mka.tx_reasons = f.c.mka.tx_reasons \cup c.mka.tx_reasons
  BY <1>1, InputReasons
<1> HIDE DEF r, f
<1> QED
  BY <1>2, <1>3 DEF LateInv, ReasonsKept, TxReported, m

LEMMA ReceiveRejectedReasons ==
    ASSUME NodeInv, LateInv, NEW p, NEW wellformed, ReceiveRejected(p, wellformed)
    PROVE  ReasonsKept
<1> DEFINE q == [p EXCEPT !.wellformed = wellformed, !.auth = FALSE]
           r == InputMkpdu(c, q, NoKey)
<1>1. c \in MacsecCtx
  BY ModeType DEF NodeInv
<1>2. c' = r.c /\ late' = late
  BY DEF ReceiveRejected
<1>3. r.c.meta = c.meta /\ c.mka.tx_reasons \subseteq r.c.mka.tx_reasons
  BY <1>1, InputReasons
<1> HIDE DEF r
<1> QED
  BY <1>2, <1>3 DEF LateInv, ReasonsKept, TxReported, m

LEMMA AdvanceClockReasons ==
    ASSUME NodeInv, LateInv, NEW d \in ClockSteps, AdvanceClock(d)
    PROVE  ReasonsKept
<1> DEFINE r == Tick(c, d)
           z == [c EXCEPT !.mka = MkaTick(@, d)]
<1>1. ModeOK(c) /\ c \in MacsecCtx /\ c.mka \in MkaCtx /\ d \in Nat
  BY ModeType, NodeAssumption DEF NodeInv
<1>2. /\ c' = r.c
      /\ late' = IF c.meta.valid /\ r.c.mka.peer.valid # c.mka.peer.valid
                 THEN late \cup {"PEER_CHANGE"} ELSE late
  BY DEF AdvanceClock, m
<1>3. CASE c.mode = "MKA_PSK"
  <2>1. Served(z, r.c) /\ z.meta = c.meta
    BY <1>1, <1>3, ModeCases, TickStep
  <2>2. z.mka = MkaTick(c.mka, d)
    BY <1>1 DEF MacsecCtx
  <2>3. /\ c.mka.tx_reasons \subseteq z.mka.tx_reasons
        /\ z.mka.peer.valid = c.mka.peer.valid \/ "PEER_CHANGE" \in z.mka.tx_reasons
    BY <1>1, <2>2, ShapedOfType, MkaTickReasons DEF MkaCtx
  <2> HIDE DEF r, z
  <2>4. /\ r.c.meta = c.meta /\ r.c.mka.peer = z.mka.peer
        /\ z.mka.tx_reasons \subseteq r.c.mka.tx_reasons
    BY <2>1 DEF Served, SameButService
  <2> QED
    BY <1>2, <2>3, <2>4 DEF LateInv, ReasonsKept, TxReported, m
<1>4. CASE c.mode # "MKA_PSK"
  <2>1. r.c = c
    BY <1>4 DEF Tick, C
  <2> HIDE DEF r
  <2> QED
    BY <1>2, <2>1 DEF LateInv, ReasonsKept, TxReported, m
<1> QED
  BY <1>3, <1>4

\* Only what the MKPDU stood for is taken away when it is reported.
LEMMA TxSucceededReasons ==
    ASSUME NodeInv, LateInv, TxSucceeded
    PROVE  ReasonsKept
<1> DEFINE r == NotifyControlTxSuccess(c)
           n == NotifyTxSuccess(c.mka, c.meta)
           z == [c EXCEPT !.mka = n.m, !.meta = NoMeta]
<1>1. /\ ModeOK(c) /\ c \in MacsecCtx /\ Shaped(c.mka) /\ c.meta.valid /\ c.mode = "MKA_PSK"
      /\ c' = r.c /\ late' = late
  BY ModeType, ShapedOfType DEF NodeInv, TxSucceeded
<1>2. r = ServeReport(c, n)
  BY <1>1 DEF NotifyControlTxSuccess
<1>3. CASE n.ret = "OK"
  <2>1. /\ Shaped(n.m)
        /\ n.m.tx_reasons = c.mka.tx_reasons \ c.meta.reasons
    <3> DEFINE o == CommitDistribution(c.mka)
               s == SetSakState(c.mka, "latest", "DISTRIBUTED")
               done == IF c.meta.dist THEN o ELSE c.mka
    <3>1. Shaped(s) /\ s.tx_reasons = c.mka.tx_reasons
      BY <1>1 DEF SetSakState, SetState, Raise, Shaped, MkaFields
    <3>2. Shaped(o) /\ o.tx_reasons = c.mka.tx_reasons
      <4> HIDE DEF s
      <4>1. o = IF c.mka.latest.state = "DISTRIBUTION_PENDING"
                THEN [s EXCEPT !.next_kn = NextKN(@), !.next_an = (@ + 1) % MkaMaxSA]
                ELSE c.mka
        BY DEF CommitDistribution, s
      <4> QED
        BY <1>1, <3>1, <4>1 DEF Shaped, MkaFields
    <3> HIDE DEF o
    <3>3. Shaped(done) /\ done.tx_reasons = c.mka.tx_reasons
      BY <1>1, <3>2
    <3>4. n.m = [done EXCEPT !.local_mn = NextMN(@), !.since_tx = 0,
                             !.tx_reasons = @ \ c.meta.reasons]
      BY <1>3 DEF NotifyTxSuccess, R, o
    <3> HIDE DEF done, n
    <3> QED
      BY <3>3, <3>4 DEF Shaped, MkaFields
  <2> HIDE DEF n
  <2>2. Whole(z) /\ z.mka = n.m /\ z.meta = NoMeta
    BY <1>1, <2>1 DEF Whole, CtxFields, MacsecCtx
  <2>3. r = ServedOrError(z)
    BY <1>2, <1>3 DEF ServeReport
  <2>4. r.c.meta = NoMeta /\ n.m.tx_reasons \subseteq r.c.mka.tx_reasons
    <3> HIDE DEF z
    <3> QED
      BY <2>2, <2>3, ServedReasons
  <2> HIDE DEF r, z
  <2> QED
    BY <1>1, <2>1, <2>4 DEF LateInv, ReasonsKept, TxReported, NoMeta, m
<1>4. CASE n.ret # "OK"
  <2>1. n.m = c.mka
    BY <1>4 DEF NotifyTxSuccess, R
  <2>2. r.c.meta = c.meta /\ r.c.mka = c.mka
    <3> HIDE DEF n, r
    <3>1. r.c = [c EXCEPT !.mka = n.m, !.state = "ERROR"]
      BY <1>2, <1>4 DEF ServeReport, C
    <3> QED
      BY <1>1, <2>1, <3>1 DEF MacsecCtx
  <2> HIDE DEF r
  <2> QED
    BY <1>1, <2>2 DEF LateInv, ReasonsKept, TxReported, m
<1> QED
  BY <1>3, <1>4

LEMMA TxFailedReasons ==
    ASSUME NodeInv, LateInv, TxFailed
    PROVE  ReasonsKept
<1> DEFINE n == NotifyTxFailure(c.mka, c.meta)
<1>1. /\ c \in MacsecCtx /\ Shaped(c.mka) /\ c.meta.valid /\ c.mode = "MKA_PSK"
      /\ c' = NotifyControlTxFailure(c).c /\ late' = late
  BY ModeType, ShapedOfType DEF NodeInv, TxFailed
<1>2. n.tx_reasons = c.mka.tx_reasons \cup c.meta.reasons
  BY <1>1, ReasonsAdded DEF NotifyTxFailure
<1>3. c' = [c EXCEPT !.mka = n, !.meta = NoMeta]
  BY <1>1 DEF NotifyControlTxFailure, C
<1> HIDE DEF n
<1>4. c'.mka = n /\ c'.meta = NoMeta
  BY <1>1, <1>3 DEF MacsecCtx
<1> QED
  BY <1>1, <1>2, <1>4 DEF LateInv, ReasonsKept, TxReported, NoMeta, m

\* Data frames leave MKA alone.
LEMMA DataReasons ==
    ASSUME NodeInv, LateInv, SendData \/ \E f \in DataFrames : ReceiveData(f)
    PROVE  ReasonsKept
<1>1. ModeOK(c) /\ c \in MacsecCtx /\ late' = late
  BY ModeType DEF NodeInv, SendData, ReceiveData
<1>2. c'.mka = c.mka /\ c'.meta = c.meta
  <2>1. CASE SendData
    BY <1>1, <2>1 DEF SendData, Output, C, MacsecCtx
  <2>2. CASE \E f \in DataFrames : ReceiveData(f)
    BY <1>1, <2>2 DEF ReceiveData, InputProtected, C, MacsecCtx
  <2> QED
    BY <2>1, <2>2
<1> QED
  BY <1>1, <1>2 DEF LateInv, ReasonsKept, TxReported, m

\* Every step keeps them.
LEMMA ReasonsStep ==
    ASSUME NodeInv, LateInv, [Next]_vars
    PROVE  ReasonsKept
<1>1. CASE UNCHANGED vars
  BY <1>1 DEF vars, LateInv, ReasonsKept, TxReported, m
<1>2. CASE BuildMkpdu
  BY <1>2 DEF BuildMkpdu, LateInv, ReasonsKept, TxReported
<1>3. CASE Restart
  <2>1. boots' # boots /\ late' = {}
    BY <1>3, RestartStep DEF Restart
  <2> QED
    BY <2>1 DEF LateInv, ReasonsKept, TxReported
<1>4. CASE Next
  <2>1. m \in MkaCtx
    BY ModeType DEF NodeInv, m
  <2> QED
    BY <1>2, <1>3, <1>4, <2>1, NextCases, ReceiveMkpduReasons, ReceiveRejectedReasons,
       AdvanceClockReasons, TxSucceededReasons, TxFailedReasons, DataReasons
<1> QED
  BY <1>1, <1>4

\* NewReasonsOutliveReport: whatever calls come between the building of an
\* MKPDU and its report, no reply they asked for is lost with the report
\* (mka.c 2528-2532).
THEOREM ReasonsOutlive == Spec => NewReasonsOutliveReport
<1>1. Init => LateInv
  BY DEF Init, LateInv
<1>2. NodeInv /\ LateInv /\ [Next]_vars => LateInv'
  BY ReasonsStep DEF ReasonsKept
<1>3. NodeInv /\ LateInv /\ [Next]_vars =>
         [TxReported => late \ c.meta.reasons \subseteq m'.tx_reasons]_vars
  BY ReasonsStep DEF ReasonsKept
<1> QED
  BY <1>1, <1>2, <1>3, NodeInvariant, PTL DEF Spec, NewReasonsOutliveReport
=============================================================================
