--------------------------- MODULE MacsecLinkProofs ---------------------------
(***************************************************************************)
(* Two bridges on a cable, for every set of faults, any number of restarts *)
(* and any number of keys.                                                 *)
(***************************************************************************)
EXTENDS MacsecLink, MacsecProofs, FiniteSetTheorems, SequenceTheorems

-----------------------------------------------------------------------------
(* What the two configurations have to say *)

StartsOf(n) == 1 .. Len(Prio[n])

\* No start of one bridge has the priority of a start of the other.
PrioritiesDiffer ==
    \A i \in StartsOf(Server), j \in StartsOf(Client) : Prio[Server][i] # Prio[Client][j]

\* In every incarnation of both the Server wins the election.
ServerWins ==
    \A i \in StartsOf(Server), j \in StartsOf(Client) : Prio[Server][i] < Prio[Client][j]

\* macsec_random never runs out of keys.
KeySupply == Nat \ {0} \subseteq Key

-----------------------------------------------------------------------------
(* The invariant *)

\* x, a participant, a peer record or an MKPDU, is o in its incarnation b.
Incarnation(x, o, b) == x.sci = o /\ x.mi = 2 * b + o /\ x.prio = Prio[o][b]

Station(x, o) == \E b \in StartsOf(o) : Incarnation(x, o, b)

\* An MKPDU on the way to n was built by the other bridge, and one on the way
\* to a Server that always wins distributes nothing.
Letters(n) ==
    {p \in MkpduRec : /\ Station(p, Other(n))
                      /\ ServerWins /\ n = Server => p.dist.has # "dist"}

\* The participant of n in its incarnation b; a Server that always wins has no
\* key of another.
Mates(m, n, b) ==
    /\ m.latest.state # "NONE" => m.latest.key \in Key
    /\ Incarnation(m, n, b)
    /\ m.peer.valid => Station(m.peer, Other(n))
    /\ ServerWins /\ n = Server => m.latest.origin # "REMOTE"

\* A bridge between two calls, without and with an MKPDU that awaits its report,
\* which is the one its participant would build again.
Bridge(x, n, b) == Rested(x) /\ Mates(x.mka, n, b) /\ ~x.meta.valid

Built(x, n, b) ==
    /\ Rested(x) /\ Mates(x.mka, n, b)
    /\ x.meta = MetaOf(x.mka) /\ x.mka.tx_reasons # {}

LinkTypeOK ==
    /\ keys \in Nat
    /\ DOMAIN c = Node /\ DOMAIN run = Node /\ DOMAIN pc = Node /\ DOMAIN due = Node
    /\ DOMAIN wire = Node /\ DOMAIN boots = Node

NodeOK(n) ==
    /\ boots[n] \in StartsOf(n) /\ due[n] \in Nat /\ pc[n] \in Pc
    /\ wire[n] \in Seq(Letters(n))
    /\ pc[n] \in {"readable", "receive"} => wire[n] # <<>>
    /\ run[n] = "running" => Bridge(c[n], n, boots[n])
    /\ run[n] # "running" => pc[n] = "poll"
    /\ ServerWins => run[n] # "failed"

LinkInv == LinkTypeOK /\ \A n \in Node : NodeOK(n)

-----------------------------------------------------------------------------
(* Identities *)

LEMMA OtherIs ==
    ASSUME NEW n \in Node
    PROVE  /\ Other(n) \in Node /\ Other(n) # n /\ Other(Other(n)) = n
           /\ n = Server => Other(n) = Client
           /\ n = Client => Other(n) = Server
           /\ n \in 1 .. 2
<1>1. Server # Client /\ Server \in 1 .. 2 /\ Client \in 1 .. 2
  BY LinkAssumption
<1>2. Other(Server) = Client /\ Other(Client) = Server
  BY <1>1 DEF Other, Node
<1> QED
  BY <1>1, <1>2 DEF Node

LEMMA PrioType ==
    ASSUME NEW n \in Node, NEW b \in StartsOf(n)
    PROVE  Prio[n][b] \in Nat /\ b \in Nat \ {0} /\ 2 * b + n \in Nat \ {0} /\ n \in Nat
<1> DEFINE byte == 0 .. 255
<1>1. Prio[n] \in Seq(byte)
  BY LinkAssumption
<1> HIDE DEF byte
<1>2. Len(Prio[n]) \in Nat /\ b \in 1 .. Len(Prio[n])
  BY <1>1 DEF StartsOf
<1>3. Prio[n][b] \in byte
  BY <1>1, <1>2
<1>4. n \in 1 .. 2
  BY OtherIs
<1>5. b \in Nat \ {0} /\ n \in Nat \ {0}
  BY <1>2, <1>4
<1>6. Prio[n][b] \in Nat
  BY <1>3 DEF byte
<1>7. 2 * b + n \in Nat \ {0}
  BY <1>5
<1> QED
  BY <1>5, <1>6, <1>7

\* A station's incarnations have different Member Identifiers.
LEMMA SameIncarnation ==
    ASSUME NEW n \in Node, NEW x, NEW a \in StartsOf(n), NEW b \in StartsOf(n),
           Incarnation(x, n, a), x.mi = 2 * b + n
    PROVE  a = b
<1>1. a \in Nat /\ b \in Nat /\ n \in Nat
  BY PrioType
<1> QED
  BY <1>1 DEF Incarnation

-----------------------------------------------------------------------------
(* The calls of a bridge *)

\* Serving the participant leaves it who it is.
LEMMA ServedMates ==
    ASSUME NEW n, NEW b, NEW x, x.mode = "MKA_PSK", NEW z, Prepared(x, z), Mates(z.mka, n, b),
           NEW y, Served(z, y)
    PROVE  Rested(y) /\ Mates(y.mka, n, b)
<1>1. Rested(y)
  BY ServedCalled DEF Called
<1>2. /\ y.mka.sci = z.mka.sci /\ y.mka.mi = z.mka.mi /\ y.mka.prio = z.mka.prio
      /\ y.mka.peer = z.mka.peer
  BY DEF Served, SameButService
<1>3. \/ y.mka.latest = z.mka.latest
      \/ /\ y.mka.latest.key = z.mka.latest.key /\ y.mka.latest.origin = z.mka.latest.origin
         /\ z.mka.latest.state # "NONE"
  <2>1. CASE Retired(z, y) \/ Untouched(z, y)
    BY <2>1 DEF Retired, Untouched
  <2>2. CASE Installed(z, y)
    <3>1. /\ z.mka.latest \in SakRec /\ LatestOK(z.mka.latest) /\ Installable(z.mka.latest)
          /\ y.mka.latest = InUse(z.mka.latest)
      BY <2>2 DEF Prepared, Sound, MkaOK, MkaBase, MkaCtx, Installed
    <3> QED
      BY <3>1, InUseFields DEF Installable
  <2> QED
    BY <2>1, <2>2 DEF Served
<1> QED
  BY <1>1, <1>2, <1>3 DEF Mates, Incarnation

\* macsec_tick always succeeds.
LEMMA BridgeTick ==
    ASSUME NEW n, NEW b, NEW x, Bridge(x, n, b), NEW d \in Nat, NEW r, r = Tick(x, d)
    PROVE  r.ret = "OK" /\ Bridge(r.c, n, b)
<1> DEFINE z == [x EXCEPT !.mka = MkaTick(@, d)]
<1>1. Rested(x) /\ x.mode = "MKA_PSK" /\ Mates(x.mka, n, b) /\ ~x.meta.valid
  BY DEF Bridge, Rested
<1>a. z = [x EXCEPT !.mka = MkaTick(@, d)]
  OBVIOUS
<1> HIDE DEF z
<1>2. Prepared(x, z) /\ SameButClock(x.mka, z.mka) /\ Served(z, r.c)
  BY <1>1, <1>a, TickStep
<1>q. r.ret = "OK"
  BY <1>1, <1>a, TickStep
<1>o. z.meta = x.meta
  BY <1>1, <1>a, TickStep
<1>p. PeerKept(x.mka, z.mka)
  BY <1>1, <1>a, TickStep
<1>3. Mates(z.mka, n, b)
  BY <1>1, <1>2, <1>p DEF SameButClock, SamePeer, PeerKept, Mates, Incarnation, Station
<1>4. Rested(r.c) /\ Mates(r.c.mka, n, b)
  BY <1>1, <1>2, <1>3, ServedMates
<1> QED
  BY <1>1, <1>2, <1>q, <1>o, <1>4 DEF Bridge, Served

\* Who always wins is Key Server and the other is not.
LEMMA ServerIsElected ==
    ASSUME ServerWins, NEW n \in Node, NEW b \in StartsOf(n), NEW m, MkaBase(m), Mates(m, n, b),
           m.peer.valid
    PROVE  m.local_key_server = (n = Server)
<1>1. m.local_key_server = LocalWinsKeyServer(m)
  BY DEF MkaBase, Elected
<1>2. PICK a \in StartsOf(Other(n)) : Incarnation(m.peer, Other(n), a)
  BY DEF Mates, Station
<1>3. m.prio = Prio[n][b] /\ m.peer.prio = Prio[Other(n)][a]
  BY <1>2 DEF Mates, Incarnation
<1>4. m.prio \in Nat /\ m.peer.prio \in Nat
  BY <1>2, <1>3, OtherIs, PrioType
<1>5. CASE n = Server
  BY <1>1, <1>2, <1>3, <1>5, OtherIs DEF ServerWins, LocalWinsKeyServer
<1>6. CASE n = Client
  <2>1. m.peer.prio < m.prio
    BY <1>2, <1>3, <1>6, OtherIs DEF ServerWins
  <2>2. ~(m.prio < m.peer.prio) /\ m.prio # m.peer.prio
    BY <1>4, <2>1
  <2> QED
    BY <1>1, <1>6, <2>2, OtherIs DEF LocalWinsKeyServer
<1> QED
  BY <1>5, <1>6 DEF Node

\* A bridge can build an MKPDU, unless as Key Server it holds the key of
\* another, which one that always wins does not.
LEMMA BridgeBuild ==
    ASSUME NEW n \in Node, NEW b \in StartsOf(n), NEW x, Bridge(x, n, b), NEW k \in Key,
           NEW r, r = BuildControlFrame(x, k)
    PROVE  /\ r.ret \in {"OK", "STATE", "NOT_READY"}
           /\ r.ret = "OK" => Built(r.c, n, b)
           /\ r.ret = "NOT_READY" => Bridge(r.c, n, b)
           /\ ServerWins => r.ret # "STATE"
<1>1. Rested(x) /\ Mates(x.mka, n, b) /\ ~x.meta.valid /\ k \in Key \cup {NoKey}
  BY DEF Bridge
<1>2. /\ Rested(r.c)
      /\ \/ r.c.mka = x.mka
         \/ /\ SameButSlots(x.mka, r.c.mka) /\ r.c.mka.latest = Generated(x.mka, k)
      /\ r.ret \in {"OK", "STATE", "NOT_READY"}
      /\ r.ret = "OK" => r.c.meta = MetaOf(r.c.mka) /\ r.c.mka.tx_reasons # {}
      /\ r.ret # "OK" => r.c.meta = NoMeta
      /\ r.ret = "STATE" => /\ x.mka.local_key_server /\ x.mka.peer.valid
                            /\ x.mka.latest.origin = "REMOTE"
  BY <1>1, BuildControlFrameStep DEF Called
<1>3. MkaBase(x.mka) /\ x.mka \in MkaCtx /\ x.mka.next_kn # 0
  BY <1>1 DEF Rested, Sound, MkaOK, MkaBase
<1>4. Generated(x.mka, k).key \in Key /\ Generated(x.mka, k).origin = "LOCAL"
  BY <1>1, <1>3, GeneratedOK
<1>5. Mates(r.c.mka, n, b)
  BY <1>1, <1>2, <1>4 DEF Mates, Incarnation, SameButSlots
<1>6. ASSUME ServerWins PROVE r.ret # "STATE"
  <2>1. SUFFICES ASSUME r.ret = "STATE" PROVE FALSE
    OBVIOUS
  <2>2. n = Server
    BY <1>1, <1>2, <1>3, <1>6, <2>1, ServerIsElected
  <2> QED
    BY <1>1, <1>2, <1>6, <2>1, <2>2 DEF Mates
<1>7. ~NoMeta.valid
  BY DEF NoMeta
<1> QED
  BY <1>2, <1>5, <1>6, <1>7 DEF Built, Bridge

\* The report of an MKPDU that was sent succeeds.
LEMMA BridgeSent ==
    ASSUME NEW n \in Node, NEW b \in StartsOf(n), NEW x, Built(x, n, b),
           NEW r, r = NotifyControlTxSuccess(x)
    PROVE  r.ret = "OK" /\ Bridge(r.c, n, b)
<1>1. Rested(x) /\ Mates(x.mka, n, b) /\ x.meta = MetaOf(x.mka) /\ x.mka.tx_reasons # {}
  BY DEF Built
<1>2. x.meta.valid /\ x.mode = "MKA_PSK" /\ (x.mka.latest.state # "NONE" => x.mka.latest.key \in Key)
  BY <1>1 DEF MetaOf, Rested, Mates
<1>3. NotifyTxSuccess(x.mka, x.meta).ret = "OK"
  BY <1>1, NotifyTxSuccessOfBuilt
<1>4. PICK z : Prepared(x, z) /\ Reported(x, z) /\ Served(z, r.c) /\ z.meta = NoMeta /\ r.ret = "OK"
  BY <1>1, <1>2, <1>3, NotifyControlTxSuccessStep
<1>5. /\ z.mka.latest.key = x.mka.latest.key /\ z.mka.latest.origin = x.mka.latest.origin
      /\ z.mka.latest.state # "NONE" => x.mka.latest.state # "NONE"
  <2>1. x.mka.latest \in SakRec
    BY <1>1 DEF Rested, Sound, MkaOK, MkaBase, MkaCtx
  <2> QED
    BY <1>4, <2>1 DEF Reported, Committed, SakRec
<1>6. Mates(z.mka, n, b)
  BY <1>1, <1>4, <1>5 DEF Reported, Mates, Incarnation
<1>7. Rested(r.c) /\ Mates(r.c.mka, n, b)
  BY <1>2, <1>4, <1>6, ServedMates
<1>8. ~r.c.meta.valid
  BY <1>4 DEF Served, NoMeta
<1> QED
  BY <1>4, <1>7, <1>8 DEF Bridge

\* So does that of one the socket did not take.
LEMMA BridgeUnsent ==
    ASSUME NEW n, NEW b, NEW x, Built(x, n, b),
           NEW r, r = NotifyControlTxFailure(x)
    PROVE  r.ret = "OK" /\ Bridge(r.c, n, b)
<1>1. Rested(x) /\ Mates(x.mka, n, b) /\ x.meta = MetaOf(x.mka)
  BY DEF Built
<1>2. x.meta.valid
  BY <1>1 DEF MetaOf
<1>3. /\ Rested(r.c) /\ r.c.meta = NoMeta /\ SameButSlots(x.mka, r.c.mka) /\ r.ret = "OK"
      /\ r.c.mka.latest = x.mka.latest
  BY <1>1, <1>2, NotifyControlTxFailureStep DEF Called
<1>4. Mates(r.c.mka, n, b)
  BY <1>1, <1>3 DEF Mates, Incarnation, SameButSlots
<1> QED
  BY <1>3, <1>4 DEF Bridge, NoMeta

\* What it sends is a letter to the other bridge.
LEMMA BridgeWrites ==
    ASSUME NEW n \in Node, NEW b \in StartsOf(n), NEW x, Built(x, n, b)
    PROVE  MkpduOf(x.mka) \in Letters(Other(n))
<1> DEFINE m == x.mka
           p == MkpduOf(m)
<1>1. MkaBase(m) /\ m \in MkaCtx /\ Mates(m, n, b)
  BY DEF Built, Rested, Sound, MkaOK, MkaBase
<1>2. /\ p.wellformed /\ p.auth /\ p.sci = m.sci /\ p.mi = m.mi /\ p.prio = m.prio
      /\ p.listed = (IF m.peer.valid THEN m.peer.mi ELSE NoMI)
      /\ p.dist = (IF IncludesDistributedSak(m) THEN WrittenDistributedSak(m) ELSE NoDist)
      /\ p.use = (IF IncludesSakUse(m) THEN WrittenSakUse(m) ELSE NoUse)
      /\ p = [wellformed |-> TRUE, auth |-> TRUE, sci |-> p.sci, mi |-> p.mi, prio |-> p.prio,
              listed |-> p.listed, dist |-> p.dist, use |-> p.use]
  BY DEF MkpduOf
<1> HIDE DEF p, m
<1>3. p.sci \in Nat /\ p.mi \in Nat /\ p.prio \in Nat /\ p.listed \in Nat
  BY <1>1, <1>2 DEF MkaCtx, PeerRec, NoMI
<1>4. p.dist \in DistRec /\ (p.dist.has = "dist" => p.dist.key \in Key)
  <2>1. CASE IncludesDistributedSak(m)
    <3>1. m.latest \in SakRec /\ m.latest.key \in Key
      BY <1>1, <2>1 DEF MkaCtx, Mates, IncludesDistributedSak, Distributable
    <3>2. m.latest.an \in MkaAN /\ m.latest.kn \in 0 .. KnMax
      BY <3>1 DEF SakRec
    <3> QED
      BY <1>2, <2>1, <3>1, <3>2 DEF WrittenDistributedSak, DistRec
  <2>2. CASE ~IncludesDistributedSak(m)
    <3>1. 0 \in 0 .. KnMax /\ 0 \in MkaAN
      BY MkaAssumption DEF MkaAN, MkaMaxSA
    <3> QED
      BY <1>2, <2>2, <3>1 DEF NoDist, DistRec
  <2> QED
    BY <2>1, <2>2
<1>5. p.use \in UseRec
  <2>1. CASE IncludesSakUse(m)
    <3>1. m.latest \in SakRec /\ m.mi \in Nat /\ m.peer.mi \in Nat /\ NoMI \in Nat
      BY <1>1 DEF MkaCtx, PeerRec, NoMI
    <3>2. m.latest.an \in MkaAN /\ m.latest.kn \in 0 .. KnMax
          /\ m.latest.tx_installed \in BOOLEAN /\ m.latest.rx_installed \in BOOLEAN
      BY <3>1 DEF SakRec
    <3>3. m.latest.an \in Nat /\ m.latest.kn \in Nat
      BY <3>2, MkaAssumption DEF MkaAN, MkaMaxSA
    <3> QED
      BY <1>2, <2>1, <3>1, <3>2, <3>3 DEF WrittenSakUse, UseRec
  <2>2. CASE ~IncludesSakUse(m)
    BY <1>2, <2>2 DEF NoUse, NoMI, UseRec
  <2> QED
    BY <2>1, <2>2
<1>6. p \in MkpduRec
  BY <1>2, <1>3, <1>4, <1>5 DEF MkpduRec
<1>7. Other(Other(n)) = n /\ Station(p, n)
  BY <1>1, <1>2, OtherIs DEF Mates, Incarnation, Station
<1>8. ASSUME ServerWins, Other(n) = Server PROVE p.dist.has # "dist"
  <2>1. CASE IncludesDistributedSak(m)
    <3>1. m.local_key_server /\ m.peer.valid
      BY <2>1 DEF IncludesDistributedSak
    <3> QED
      BY <1>1, <1>8, <3>1, OtherIs, ServerIsElected
  <2>2. CASE ~IncludesDistributedSak(m)
    BY <1>2, <2>2 DEF NoDist
  <2> QED
    BY <2>1, <2>2
<1> QED
  BY <1>6, <1>7, <1>8 DEF Letters, p, m

\* Reading a letter leaves a bridge what it is, whatever the letter does to it.
LEMMA BridgeInput ==
    ASSUME NEW n \in Node, NEW b \in StartsOf(n), NEW x, Bridge(x, n, b),
           NEW p \in Letters(n), NEW k \in Key, NEW r, r = InputMkpdu(x, p, k)
    PROVE  Bridge(r.c, n, b)
<1> DEFINE z == [x EXCEPT !.mka = MkaInput(x.mka, p, k).m]
<1>1. Rested(x) /\ Mates(x.mka, n, b) /\ ~x.meta.valid /\ x.mode = "MKA_PSK"
      /\ p \in MkpduRec /\ k \in Key \cup {NoKey} /\ Station(p, Other(n))
      /\ (ServerWins /\ n = Server => p.dist.has # "dist")
  BY DEF Bridge, Letters, Rested
<1>2. x.mka \in MkaCtx /\ x.mka.next_kn # 0
  BY <1>1 DEF Rested, Sound, MkaOK, MkaBase
<1>a. z = [x EXCEPT !.mka = MkaInput(x.mka, p, k).m]
  OBVIOUS
<1> HIDE DEF z
<1>d. z.meta = x.meta
  BY <1>1, <1>a, InputMkpduStep
<1>3. Prepared(x, z) /\ InputStep(x.mka, z.mka, p, k) /\ z.meta = x.meta
  BY <1>1, <1>a, <1>d, InputMkpduStep
<1>b. z.mka.peer = x.mka.peer \/ SentBy(z.mka, p)
  BY <1>1, <1>a, InputMkpduStep
<1>c. Served(z, r.c) \/ Stopped(z, r.c)
  BY <1>1, <1>a, InputMkpduStep
<1>4. /\ z.mka.latest.state # "NONE" => z.mka.latest.key \in Key
      /\ ServerWins /\ n = Server => z.mka.latest.origin # "REMOTE"
  <2>1. CASE SameKey(x.mka.latest, z.mka.latest)
    <3>1. z.mka.latest.state # "NONE" => x.mka.latest.state # "NONE"
      BY <2>1 DEF SameKey, Held
    <3> QED
      BY <1>1, <2>1, <3>1 DEF SameKey, Mates
  <2>2. CASE z.mka.latest = NoSak
    BY <2>2 DEF NoSak
  <2>3. CASE z.mka.latest = Received(p) /\ p.dist.has = "dist"
    <3>1. Received(p).key = p.dist.key /\ p.dist.key \in Key
      BY <1>1, <2>3 DEF Received, ReceivedSak, NoSak, MkpduRec
    <3> QED
      BY <1>1, <2>3, <3>1
  <2>4. CASE z.mka.latest = Generated(x.mka, k)
    BY <1>1, <1>2, <2>4, GeneratedOK
  <2> QED
    BY <1>3, <2>1, <2>2, <2>3, <2>4 DEF InputStep, SlotsStep, Replacement
<1>5. z.mka.peer.valid => Station(z.mka.peer, Other(n))
  <2>1. CASE z.mka.peer = x.mka.peer
    BY <1>1, <2>1 DEF Mates
  <2>2. CASE SentBy(z.mka, p)
    BY <1>1, <2>2 DEF SentBy, Station, Incarnation
  <2> QED
    BY <1>b, <2>1, <2>2
<1>6. Mates(z.mka, n, b)
  BY <1>1, <1>3, <1>4, <1>5 DEF Mates, Incarnation, InputStep, SameIdentity
<1>7. CASE Served(z, r.c)
  <2>1. Rested(r.c) /\ Mates(r.c.mka, n, b)
    BY <1>1, <1>3, <1>6, <1>7, ServedMates
  <2> QED
    BY <1>1, <1>3, <1>7, <2>1 DEF Bridge, Served
<1>8. CASE Stopped(z, r.c)
  <2>1. Rested(r.c)
    BY <1>1, <1>3, <1>8, StoppedCalled DEF Called
  <2> QED
    BY <1>1, <1>3, <1>6, <1>8, <2>1 DEF Bridge, Stopped
<1> QED
  BY <1>c, <1>7, <1>8

\* macsec_init (main.c builds its configuration from the options).
LEMMA BridgeStart ==
    ASSUME NEW n \in Node, NEW b \in StartsOf(n), NEW x, x = Started(n, b)
    PROVE  Bridge(x, n, b)
<1> DEFINE mi == 2 * b + n
           prio == Prio[n][b]
<1>1. n \in Nat /\ mi \in Nat /\ prio \in Nat
  BY PrioType
<1>a. x = MacsecInit("MKA_PSK", n, mi, prio)
  BY DEF Started
<1> HIDE DEF mi, prio
<1>2. /\ Rested(x) /\ x.meta = NoMeta /\ x.mka.latest = NoSak
      /\ x.mka.mi = mi /\ x.mka.sci = n /\ x.mka.prio = prio
      /\ ~x.mka.peer.valid
  BY <1>1, <1>a, InitMkaPsk
<1>3. Mates(x.mka, n, b)
  BY <1>2 DEF Mates, Incarnation, NoSak, mi, prio
<1> QED
  BY <1>2, <1>3 DEF Bridge, NoMeta

-----------------------------------------------------------------------------
(* The control part of the loop *)

\* What the control part leaves: a bridge and its letters, or a reason to leave.
LoopOK(r, n, b) ==
    /\ r.run \in {"running", "io_error", "failed"}
    /\ r.run = "running" => Bridge(r.c, n, b)
    /\ r.out \in Seq(Letters(Other(n)))
    /\ ServerWins => r.run # "failed"

LEMMA ControlLoop ==
    ASSUME NEW n \in Node, NEW b \in StartsOf(n), NEW x, Bridge(x, n, b), NEW d \in Nat,
           NEW k \in Key, NEW send \in {"sent", "full", "refused"},
           NEW t, t = Tick(x, d), NEW u, u = AfterTick(t, k),
           send # "sent" => u.ret = "OK",
           NEW r, r = AfterBuild(u, send)
    PROVE  LoopOK(r, n, b)
<1>1. t.ret = "OK" /\ Bridge(t.c, n, b)
  BY BridgeTick
<1>2. u = BuildControlFrame(t.c, k)
  BY <1>1 DEF AfterTick
<1>3. /\ u.ret \in {"OK", "STATE", "NOT_READY"}
      /\ u.ret = "OK" => Built(u.c, n, b)
      /\ u.ret = "NOT_READY" => Bridge(u.c, n, b)
      /\ ServerWins => u.ret # "STATE"
  BY <1>1, <1>2, BridgeBuild
<1>4. <<>> \in Seq(Letters(Other(n)))
  OBVIOUS
<1>5. CASE u.ret = "STATE"
  BY <1>3, <1>4, <1>5 DEF AfterBuild, Ends, LoopOK
<1>6. CASE u.ret = "NOT_READY"
  BY <1>3, <1>4, <1>6 DEF AfterBuild, Goes, LoopOK
<1>7. CASE u.ret = "OK" /\ send = "sent"
  <2> DEFINE y == NotifyControlTxSuccess(u.c)
             out == <<MkpduOf(u.c.mka)>>
  <2>1. y.ret = "OK" /\ Bridge(y.c, n, b)
    BY <1>3, <1>7, BridgeSent
  <2>2. out \in Seq(Letters(Other(n)))
    BY <1>3, <1>7, BridgeWrites
  <2>3. r = AfterReport(y, out)
    BY <1>7 DEF AfterBuild
  <2> HIDE DEF y, out
  <2> QED
    BY <2>1, <2>2, <2>3 DEF AfterReport, Goes, LoopOK
<1>8. CASE u.ret = "OK" /\ send # "sent"
  <2> DEFINE y == NotifyControlTxFailure(u.c)
  <2>1. y.ret = "OK" /\ Bridge(y.c, n, b)
    BY <1>3, <1>8, BridgeUnsent
  <2>2. r = AfterReport(y, <<>>) \/ r = AfterRefusal(y)
    BY <1>8 DEF AfterBuild
  <2> HIDE DEF y
  <2>3. CASE r = AfterReport(y, <<>>)
    BY <1>4, <2>1, <2>3 DEF AfterReport, Goes, LoopOK
  <2>4. CASE r = AfterRefusal(y)
    BY <1>4, <2>1, <2>4 DEF AfterRefusal, Ends, LoopOK
  <2> QED
    BY <2>2, <2>3, <2>4
<1> QED
  BY <1>3, <1>5, <1>6, <1>7, <1>8

-----------------------------------------------------------------------------
(* The steps of the two bridges *)

\* A step that does not touch host n.
Kept(n) ==
    /\ c'[n] = c[n] /\ run'[n] = run[n] /\ pc'[n] = pc[n] /\ due'[n] = due[n]
    /\ wire'[n] = wire[n] /\ boots'[n] = boots[n]

LEMMA KeptOK ==
    ASSUME NEW n \in Node, NodeOK(n), Kept(n)
    PROVE  NodeOK(n)'
BY DEF NodeOK, Kept

LEMMA LinkInit ==
    ASSUME Init
    PROVE  LinkInv
<1>1. LinkTypeOK
  BY DEF Init, LinkTypeOK
<1>2. ASSUME NEW n \in Node PROVE NodeOK(n)
  <2>1. 1 \in StartsOf(n)
    <3> DEFINE byte == 0 .. 255
    <3>1. Prio[n] \in Seq(byte) /\ Prio[n] # <<>>
      BY LinkAssumption
    <3> HIDE DEF byte
    <3>2. Len(Prio[n]) \in Nat /\ Len(Prio[n]) # 0
      BY <3>1
    <3> QED
      BY <3>2 DEF StartsOf
  <2>2. /\ c[n] = Started(n, 1) /\ run[n] = "running" /\ pc[n] = "poll" /\ due[n] = 0
        /\ wire[n] = <<>> /\ boots[n] = 1
    BY DEF Init
  <2>3. Bridge(c[n], n, boots[n])
    BY <2>1, <2>2, BridgeStart
  <2>4. wire[n] \in Seq(Letters(n))
    BY <2>2
  <2> QED
    BY <2>1, <2>2, <2>3, <2>4 DEF NodeOK, Pc
<1> QED
  BY <1>1, <1>2 DEF LinkInv

LEMMA PollOK ==
    ASSUME LinkInv, NEW n \in Node, Poll(n)
    PROVE  LinkInv'
<1>1. LinkTypeOK' /\ UNCHANGED <<c, run, due, wire, boots>>
      /\ pc'[n] = (IF wire[n] # <<>> THEN "readable" ELSE "timeout") /\ run[n] = "running"
  BY DEF LinkInv, LinkTypeOK, Poll
<1>2. NodeOK(n)'
  BY <1>1 DEF LinkInv, NodeOK, Pc
<1>3. ASSUME NEW o \in Node, o # n PROVE NodeOK(o)'
  <2>1. pc'[o] = pc[o]
    BY <1>3 DEF Poll, LinkInv, LinkTypeOK
  <2> QED
    BY <1>1, <2>1, KeptOK DEF Kept, LinkInv
<1> QED
  BY <1>1, <1>2, <1>3 DEF LinkInv

\* The control part, whether or not the socket took the MKPDU.
LEMMA ControlServiceOK ==
    ASSUME KeySupply, LinkInv, NEW n \in Node, NEW send \in {"sent", "full", "refused"},
           ControlService(n, send)
    PROVE  LinkInv'
<1>1. PICK t, u, r :
          /\ t = Tick(c[n], due[n]) /\ u = AfterTick(t, Drawn) /\ r = AfterBuild(u, send)
          /\ send # "sent" => u.ret = "OK"
          /\ ServiceWith(n, r)
  BY DEF ControlService
<1>2. /\ pc[n] \in {"readable", "timeout"} /\ NodeOK(n) /\ run[n] = "running"
      /\ n \in DOMAIN c /\ n \in DOMAIN run /\ n \in DOMAIN pc /\ n \in DOMAIN due
      /\ keys \in Nat
  BY DEF ControlService, LinkInv, LinkTypeOK, NodeOK
<1>3. Drawn \in Key /\ Drawn \in Nat
  BY <1>2 DEF Drawn, KeySupply
<1>4. Bridge(c[n], n, boots[n]) /\ due[n] \in Nat /\ boots[n] \in StartsOf(n)
  BY <1>2 DEF NodeOK
<1>5. LoopOK(r, n, boots[n])
  BY <1>1, <1>3, <1>4, ControlLoop
<1>6. /\ c'[n] = r.c /\ run'[n] = r.run /\ boots' = boots /\ due'[n] = 0
      /\ pc'[n] = (IF pc[n] = "readable" /\ r.run = "running" THEN "receive" ELSE "poll")
      /\ wire' = (IF run[Other(n)] # "running" THEN wire
                  ELSE [wire EXCEPT ![Other(n)] = @ \o r.out])
      /\ \A o \in Node \ {n} : /\ c'[o] = c[o] /\ run'[o] = run[o] /\ pc'[o] = pc[o]
                               /\ due'[o] = due[o]
  BY <1>1, <1>2 DEF ServiceWith, Carries
<1>7. LinkTypeOK'
  <2>1. keys' \in Nat
    BY <1>1, <1>2, <1>3 DEF ServiceWith, Draws
  <2>2. DOMAIN wire' = Node
    BY <1>6 DEF LinkInv, LinkTypeOK
  <2> QED
    BY <1>1, <2>1, <2>2 DEF ServiceWith, LinkInv, LinkTypeOK
<1>8. NodeOK(n)'
  <2>1. wire'[n] = wire[n]
    BY <1>6, OtherIs DEF LinkInv, LinkTypeOK
  <2> QED
    BY <1>2, <1>5, <1>6, <2>1 DEF NodeOK, LoopOK, Pc
<1>9. ASSUME NEW o \in Node, o # n PROVE NodeOK(o)'
  <2>1. o = Other(n) /\ NodeOK(o)
    BY <1>9, OtherIs DEF Node, LinkInv
  <2>2. CASE run[o] # "running"
    BY <1>6, <1>9, <2>1, <2>2, KeptOK DEF Kept
  <2>3. CASE run[o] = "running"
    <3>1. wire'[o] = wire[o] \o r.out /\ wire[o] \in Seq(Letters(o)) /\ r.out \in Seq(Letters(o))
      BY <1>5, <1>6, <2>1, <2>3 DEF LinkInv, LinkTypeOK, LoopOK, NodeOK
    <3> DEFINE letters == Letters(o)
    <3> HIDE DEF letters
    <3>2. wire'[o] \in Seq(letters) /\ (wire[o] # <<>> => wire'[o] # <<>>)
      BY <3>1 DEF letters
    <3> QED
      BY <1>6, <1>9, <2>1, <3>2 DEF NodeOK, letters
  <2> QED
    BY <2>2, <2>3
<1> QED
  BY <1>7, <1>8, <1>9 DEF LinkInv

LEMMA ReceiveOK ==
    ASSUME KeySupply, LinkInv, NEW n \in Node, Receive(n)
    PROVE  LinkInv'
<1>1. PICK r : r = InputMkpdu(c[n], Head(wire[n]), Drawn) /\ ReceiveWith(n, r)
  BY DEF Receive
<1>2. /\ pc[n] = "receive" /\ NodeOK(n) /\ run[n] = "running" /\ wire[n] # <<>>
      /\ n \in DOMAIN c /\ n \in DOMAIN wire /\ n \in DOMAIN pc
      /\ keys \in Nat /\ wire[n] \in Seq(Letters(n))
      /\ Bridge(c[n], n, boots[n]) /\ boots[n] \in StartsOf(n)
  BY DEF Receive, LinkInv, LinkTypeOK, NodeOK
<1>3. Drawn \in Key /\ Drawn \in Nat
  BY <1>2 DEF Drawn, KeySupply
<1>4. Head(wire[n]) \in Letters(n) /\ Tail(wire[n]) \in Seq(Letters(n))
  <2> DEFINE letters == Letters(n)
  <2> HIDE DEF letters
  <2>1. wire[n] \in Seq(letters) /\ wire[n] # <<>>
    BY <1>2 DEF letters
  <2>2. Head(wire[n]) \in letters /\ Tail(wire[n]) \in Seq(letters)
    BY <2>1
  <2> QED
    BY <2>2 DEF letters
<1>5. Bridge(r.c, n, boots[n])
  BY <1>1, <1>2, <1>3, <1>4, BridgeInput
<1>6. /\ c'[n] = r.c /\ pc'[n] = "poll" /\ wire'[n] = Tail(wire[n])
      /\ UNCHANGED <<run, due, boots>>
      /\ \A o \in Node \ {n} : c'[o] = c[o] /\ pc'[o] = pc[o] /\ wire'[o] = wire[o]
  BY <1>1, <1>2 DEF Receive, ReceiveWith
<1>7. LinkTypeOK'
  <2>1. keys' \in Nat
    BY <1>1, <1>2, <1>3 DEF ReceiveWith, Draws
  <2> QED
    BY <1>1, <2>1 DEF Receive, ReceiveWith, LinkInv, LinkTypeOK
<1>8. NodeOK(n)'
  BY <1>2, <1>4, <1>5, <1>6 DEF NodeOK, Pc
<1>9. ASSUME NEW o \in Node, o # n PROVE NodeOK(o)'
  BY <1>6, <1>9, KeptOK DEF Kept, LinkInv
<1> QED
  BY <1>7, <1>8, <1>9 DEF LinkInv

LEMMA ElapseOK ==
    ASSUME LinkInv, Elapse
    PROVE  LinkInv'
<1>1. /\ LinkTypeOK' /\ UNCHANGED <<c, run, pc, wire, boots>>
      /\ \A n \in Node : due'[n] \in Nat
  BY DEF Elapse, LinkInv, LinkTypeOK
<1>2. ASSUME NEW n \in Node PROVE NodeOK(n)'
  BY <1>1 DEF LinkInv, NodeOK
<1> QED
  BY <1>1, <1>2 DEF LinkInv

\* A fault on n's wire leaves letters there, and one where one is expected.
LEMMA WireFaultOK ==
    ASSUME LinkInv, NEW n \in Node, UNCHANGED <<c, run, pc, due, boots, keys>>,
           NEW w, wire' = [wire EXCEPT ![n] = w], w \in Seq(Letters(n)),
           pc[n] \in {"readable", "receive"} => w # <<>>
    PROVE  LinkInv'
<1>1. LinkTypeOK' /\ wire'[n] = w /\ \A o \in Node \ {n} : wire'[o] = wire[o]
  BY DEF LinkInv, LinkTypeOK
<1>2. NodeOK(n)'
  BY <1>1 DEF LinkInv, NodeOK
<1>3. ASSUME NEW o \in Node, o # n PROVE NodeOK(o)'
  BY <1>1, <1>3, KeptOK DEF Kept, LinkInv
<1> QED
  BY <1>1, <1>2, <1>3 DEF LinkInv

LEMMA LoseOK ==
    ASSUME LinkInv, NEW n \in Node, Lose(n)
    PROVE  LinkInv'
<1> DEFINE letters == Letters(n)
           s == wire[n]
           w == Front(s)
<1>1. s \in Seq(letters)
  BY DEF LinkInv, NodeOK
<1>2. /\ Len(s) > (IF pc[n] \in {"readable", "receive"} THEN 1 ELSE 0)
      /\ wire' = [wire EXCEPT ![n] = w]
      /\ UNCHANGED <<c, run, pc, due, boots, keys>>
  BY DEF Lose
<1> HIDE DEF letters, s
<1> DEFINE l == Len(s) - 1
<1>3. l \in Nat /\ Len(s) = l + 1 /\ w = SubSeq(s, 1, l)
  <2>1. Len(s) \in Nat /\ Len(s) >= 1
    BY <1>1, <1>2
  <2> QED
    BY <2>1 DEF Front
<1>4. pc[n] \in {"readable", "receive"} => l # 0
  BY <1>2, <1>3
<1> HIDE DEF l, w
<1>5. \A i \in 1 .. l : s[i] \in letters
  <2>1. \A i \in 1 .. l : i \in 1 .. Len(s)
    BY <1>3
  <2> QED
    BY <1>1, <2>1
<1>6. w \in Seq(letters) /\ Len(w) = (IF 1 <= l THEN l - 1 + 1 ELSE 0)
  BY <1>3, <1>5, SubSeqProperties
<1>7. l # 0 => w # <<>>
  <2>1. l # 0 => Len(w) # 0
    BY <1>3, <1>6
  <2> QED
    BY <2>1
<1> QED
  BY <1>2, <1>4, <1>6, <1>7, WireFaultOK DEF letters

LEMMA DamageOK ==
    ASSUME LinkInv, NEW n \in Node, NEW what, Damage(n, what)
    PROVE  LinkInv'
<1> DEFINE letters == Letters(n)
           s == wire[n]
           p == Damaged(s[1], what)
           w == [s EXCEPT ![1] = p]
<1>1. s \in Seq(letters) /\ s # <<>>
  BY DEF LinkInv, NodeOK, Damage
<1>2. wire' = [wire EXCEPT ![n] = w] /\ UNCHANGED <<c, run, pc, due, boots, keys>>
  BY DEF Damage
<1>3. s[1] \in Letters(n)
  <2> HIDE DEF letters, s
  <2>1. s[1] \in letters
    BY <1>1
  <2> QED
    BY <2>1 DEF letters
<1> HIDE DEF s
<1>4. p \in Letters(n)
  <2>1. s[1] \in MkpduRec /\ Station(s[1], Other(n)) /\ (ServerWins /\ n = Server => s[1].dist.has # "dist")
    BY <1>3 DEF Letters
  <2>2. /\ p.sci = s[1].sci /\ p.mi = s[1].mi
        /\ p.prio = s[1].prio /\ p.listed = s[1].listed /\ p.dist = s[1].dist /\ p.use = s[1].use
        /\ p \in MkpduRec
    BY <2>1 DEF MkpduRec, Damaged
  <2> HIDE DEF p
  <2> QED
    BY <2>1, <2>2 DEF Letters, Station, Incarnation
<1> HIDE DEF letters, p
<1>5. w \in Seq(letters) /\ w # <<>>
  <2>1. p \in letters
    BY <1>4 DEF letters
  <2>2. 1 \in 1 .. Len(s)
    BY <1>1
  <2> QED
    BY <1>1, <2>1, <2>2
<1> HIDE DEF w
<1> QED
  BY <1>2, <1>5, WireFaultOK DEF letters

LEMMA RestartOK ==
    ASSUME LinkInv, NEW n \in Node, Restart(n)
    PROVE  LinkInv'
<1> DEFINE b == boots[n] + 1
           x == Started(n, b)
<1>1. /\ c'[n] = x /\ run'[n] = "running" /\ pc'[n] = "poll" /\ due'[n] = 0
      /\ wire'[n] = <<>> /\ boots'[n] = b
      /\ \A o \in Node \ {n} : Kept(o)
      /\ LinkTypeOK'
  BY DEF Restart, LinkInv, LinkTypeOK, Kept
<1>2. b \in StartsOf(n)
  <2> DEFINE byte == 0 .. 255
  <2>1. Prio[n] \in Seq(byte)
    BY LinkAssumption
  <2> HIDE DEF byte
  <2>2. Len(Prio[n]) \in Nat /\ boots[n] \in 1 .. Len(Prio[n]) /\ boots[n] < Len(Prio[n])
    BY <2>1 DEF LinkInv, NodeOK, StartsOf, Restart
  <2> QED
    BY <2>2 DEF StartsOf
<1> HIDE DEF x, b
<1>3. Bridge(x, n, b)
  BY <1>2, BridgeStart DEF x
<1>4. NodeOK(n)'
  <2>1. <<>> \in Seq(Letters(n))
    OBVIOUS
  <2> QED
    BY <1>1, <1>2, <1>3, <2>1 DEF NodeOK, Pc
<1>5. ASSUME NEW o \in Node, o # n PROVE NodeOK(o)'
  BY <1>1, <1>5, KeptOK DEF LinkInv
<1> QED
  BY <1>1, <1>4, <1>5 DEF LinkInv

-----------------------------------------------------------------------------
(* Theorems *)

LEMMA LinkStep ==
    ASSUME KeySupply, LinkInv, [Next]_vars
    PROVE  LinkInv'
<1>1. CASE UNCHANGED vars
  BY <1>1 DEF vars, LinkInv, LinkTypeOK, NodeOK
<1>2. ASSUME NEW n \in Node, Poll(n) PROVE LinkInv'
  BY <1>2, PollOK
<1>3. ASSUME NEW n \in Node, Service(n) PROVE LinkInv'
  BY <1>3, ControlServiceOK DEF Service
<1>4. ASSUME NEW n \in Node, Receive(n) PROVE LinkInv'
  BY <1>4, ReceiveOK
<1>5. ASSUME NEW n \in Node, NEW why \in {"full", "refused"}, ServiceUnsent(n, why) PROVE LinkInv'
  BY <1>5, ControlServiceOK DEF ServiceUnsent
<1>6. ASSUME NEW n \in Node, Lose(n) PROVE LinkInv'
  BY <1>6, LoseOK
<1>7. ASSUME NEW n \in Node, NEW what, Damage(n, what) PROVE LinkInv'
  BY <1>7, DamageOK
<1>8. ASSUME NEW n \in Node, Restart(n) PROVE LinkInv'
  BY <1>8, RestartOK
<1>9. CASE Elapse
  BY <1>9, ElapseOK
<1> QED
  BY <1>1, <1>2, <1>3, <1>4, <1>5, <1>6, <1>7, <1>8, <1>9 DEF Next

\* The two loops keep the invariant: every context is between two calls of
\* the stack, and every frame on the cable was written by the other station.
THEOREM LinkInvariant ==
    ASSUME KeySupply
    PROVE  Spec => []LinkInv
<1>1. Init => LinkInv
  BY LinkInit
<1>2. LinkInv /\ [Next]_vars => LinkInv'
  BY LinkStep
<1> QED
  BY <1>1, <1>2, PTL DEF Spec

\* Of two stations of different priorities that know each other one and one
\* alone takes itself for the Key Server (mka.c 390-412).
LEMMA OneElected ==
    ASSUME PrioritiesDiffer, LinkInv
    PROVE  OneKeyServer
<1>1. SUFFICES ASSUME Acquainted
               PROVE  Cardinality({n \in Node : c[n].mka.local_key_server}) = 1
  BY DEF OneKeyServer
<1> DEFINE i == boots[Server]
           j == boots[Client]
           s == c[Server].mka
           l == c[Client].mka
<1>2. Server \in Node /\ Client \in Node /\ Server # Client /\ Node = {Server, Client}
      /\ Other(Server) = Client /\ Other(Client) = Server
  BY OtherIs, LinkAssumption DEF Node
<1>3. /\ run[Server] = "running" /\ s.peer.valid /\ s.peer.mi = l.mi
      /\ run[Client] = "running" /\ l.peer.valid /\ l.peer.mi = s.mi
  BY <1>1, <1>2 DEF Acquainted
<1>4. /\ i \in StartsOf(Server) /\ Mates(s, Server, i) /\ MkaBase(s)
      /\ j \in StartsOf(Client) /\ Mates(l, Client, j) /\ MkaBase(l)
  BY <1>2, <1>3 DEF LinkInv, NodeOK, Bridge, Rested, Sound, MkaOK
<1> HIDE DEF i, j, s, l
<1>5. /\ Incarnation(s, Server, i) /\ Station(s.peer, Client)
      /\ Incarnation(l, Client, j) /\ Station(l.peer, Server)
  BY <1>2, <1>3, <1>4 DEF Mates
<1>6. s.prio = Prio[Server][i] /\ s.peer.prio = Prio[Client][j]
  <2>1. PICK a \in StartsOf(Client) : Incarnation(s.peer, Client, a)
    BY <1>5 DEF Station
  <2>2. a = j
    <3>1. s.peer.mi = 2 * j + Client
      BY <1>3, <1>5 DEF Incarnation
    <3> QED
      BY <1>2, <1>4, <2>1, <3>1, SameIncarnation
  <2> QED
    BY <1>5, <2>1, <2>2 DEF Incarnation
<1>7. l.prio = Prio[Client][j] /\ l.peer.prio = Prio[Server][i]
  <2>1. PICK a \in StartsOf(Server) : Incarnation(l.peer, Server, a)
    BY <1>5 DEF Station
  <2>2. a = i
    <3>1. l.peer.mi = 2 * i + Server
      BY <1>3, <1>5 DEF Incarnation
    <3> QED
      BY <1>2, <1>4, <2>1, <3>1, SameIncarnation
  <2> QED
    BY <1>5, <2>1, <2>2 DEF Incarnation
<1>8. /\ Prio[Server][i] \in Nat /\ Prio[Client][j] \in Nat
      /\ Prio[Server][i] # Prio[Client][j]
  BY <1>2, <1>4, PrioType DEF PrioritiesDiffer
<1>9. s.local_key_server = LocalWinsKeyServer(s) /\ l.local_key_server = LocalWinsKeyServer(l)
  BY <1>3, <1>4 DEF MkaBase, Elected
<1>10. \/ s.local_key_server /\ ~l.local_key_server
       \/ ~s.local_key_server /\ l.local_key_server
  <2>1. CASE Prio[Server][i] < Prio[Client][j]
    <3>1. s.prio < s.peer.prio /\ ~(l.prio < l.peer.prio) /\ l.prio # l.peer.prio
      BY <1>6, <1>7, <1>8, <2>1
    <3> QED
      BY <1>3, <1>9, <3>1 DEF LocalWinsKeyServer
  <2>2. CASE Prio[Client][j] < Prio[Server][i]
    <3>1. l.prio < l.peer.prio /\ ~(s.prio < s.peer.prio) /\ s.prio # s.peer.prio
      BY <1>6, <1>7, <1>8, <2>2
    <3> QED
      BY <1>3, <1>9, <3>1 DEF LocalWinsKeyServer
  <2> QED
    BY <1>8, <2>1, <2>2
<1>11. PICK w \in Node : {n \in Node : c[n].mka.local_key_server} = {w}
  BY <1>2, <1>10 DEF s, l
<1> QED
  BY <1>11, FS_Singleton

\* For every set of faults and restarts: as long as no two starts have the
\* same priority, there is one Key Server (mka.c 390-412, 1751-1757).  With
\* the same priority the code's comparison of SCIs may leave none.
THEOREM OneServer ==
    ASSUME KeySupply, PrioritiesDiffer
    PROVE  Spec => []OneKeyServer
<1>1. LinkInv => OneKeyServer
  BY OneElected
<1> QED
  BY <1>1, LinkInvariant, PTL

\* As long as the Server's starts all win against the Client's, no call of
\* the stack ever makes a bridge leave its loop (main.c: tick, build and
\* report).  A Client that became Key Server would build on the key of
\* another and stop.
THEOREM BridgesSurvive ==
    ASSUME KeySupply, ServerWins
    PROVE  Spec => []BridgeSurvives
<1>1. LinkInv => BridgeSurvives
  BY DEF LinkInv, NodeOK, BridgeSurvives
<1> QED
  BY <1>1, LinkInvariant, PTL
=============================================================================
