------------------------- MODULE LinkAgreementProofs -------------------------
(***************************************************************************)
(* The two bridges change keys as KeyAgreement says, for any number of     *)
(* lost, damaged and unsent MKPDUs and any number of restarts of the       *)
(* client.  The difficulty is what may still be under way: an MKPDU that   *)
(* distributes a key or claims to use one was true when it was written,    *)
(* and must not mislead its reader when it arrives.                        *)
(***************************************************************************)
EXTENDS MacsecLinkProofs

\* The Server's bridge is neither stopped nor started again.
ServerStays == \A f \in Faults : f[2] = Server => f[1] \notin {"restart", "refused"}

-----------------------------------------------------------------------------
(* The invariant *)

\* q, an SA or a Distributed SAK, is of the key, number and AN of s.
Names(s, q) == s.key = q.key /\ s.kn = q.kn /\ s.an = q.an

\* m receives with the key q names.
Reads(m, q) ==
    \/ m.latest.rx_installed /\ Names(m.latest, q)
    \/ m.old.rx_installed /\ Names(m.old, q)

\* MKPDU p distributes the key s, or says that its sender uses it.
Mentions(p, s) ==
    \/ p.dist.has = "dist" /\ Names(s, p.dist)
    \/ Claims(p) /\ p.use.an = s.an

Without(w, s) == \A i \in 1 .. Len(w) : ~Mentions(w[i], s)

Both(s) == s.latest.rx_installed /\ s.old.rx_installed

\* p speaks of keys the Server s receives with only.
Timely(s, p) ==
    /\ p.use.has # "bad"
    /\ p.dist.has = "dist" => Reads(s, p.dist)
    /\ Claims(p) => \/ s.latest.rx_installed /\ p.use.an = s.latest.an
                    \/ s.old.rx_installed /\ p.use.an = s.old.an

\* What is under way, and nothing about the old key after the latest one.
WireOK(s, w) ==
    /\ \A i \in 1 .. Len(w) : Timely(s, w[i])
    /\ Both(s) => \A i, j \in 1 .. Len(w) :
          i < j /\ Mentions(w[i], s.latest) => ~Mentions(w[j], s.old)

\* The Server's slots: its keys are drawn in order, and its AN counts them.
Serving(s, drawn) ==
    /\ s.latest.state \in {"NONE", "DISTRIBUTION_PENDING", "ACTIVE", "CONFIRMED"}
    /\ s.latest.state # "NONE" => s.latest.key \in 1 .. drawn
    /\ s.old.state # "NONE" => s.old.key \in 1 .. drawn
    /\ s.latest.state # "NONE" /\ s.old.state # "NONE" => s.old.key < s.latest.key
    /\ s.latest.state = "DISTRIBUTION_PENDING" => s.latest.an = s.next_an
    /\ Held(s.latest) => s.next_an = (s.latest.an + 1) % MkaMaxSA
    /\ s.old.state # "NONE" =>
          (s.old.an + 1) % MkaMaxSA = IF Held(s.latest) THEN s.latest.an ELSE s.next_an

\* The Client's slots: its latest key is one the Server s receives with.
Following(s, l) ==
    /\ l.latest.state \in {"NONE", "ACTIVE", "CONFIRMED"}
    /\ l.latest.state = "NONE" => l.old.state = "NONE"
    /\ l.latest.state # "NONE" => l.latest.origin = "REMOTE" /\ Reads(s, l.latest)
    /\ l.old.state # "NONE" => /\ l.old.key \in Nat \ {0} /\ l.old.key < l.latest.key
                               /\ l.old.an # l.latest.an

Follows(l, s) == l.latest.rx_installed /\ Names(s, l.latest)

\* While the Server receives with two keys: once the Client says that it uses
\* the latest, or does, nothing takes it back to the old one.
Passed(s, l, up, down) ==
    Both(s) =>
        /\ ~Without(up, s.latest) => ~Follows(l, s.old) /\ Without(down, s.old)
        /\ Follows(l, s.latest) => Without(down, s.old)

\* The participants of Server and Client, what is under way to the Server and
\* to the Client, and the number of keys drawn.
Agreed(s, l, up, down, drawn) ==
    /\ Serving(s, drawn) /\ Following(s, l)
    /\ WireOK(s, up) /\ WireOK(s, down)
    /\ Passed(s, l, up, down)

\* The slots of a context are sound, and are what its frame layer does.
Tidy(m) ==
    m.latest \in SakRec /\ m.old \in SakRec /\ LatestOK(m.latest) /\ OldOK(m.old)
    /\ m.next_an \in MkaAN

Exact(x) == Tidy(x.mka) /\ Slots(x.mka, x.fc) /\ RxExact(x.mka, x.fc)

\* A Client that stopped reads nothing any more.
Coming == IF run[Client] = "running" THEN wire[Client] ELSE <<>>

AgreeInv ==
    /\ run[Server] = "running" /\ run[Client] # "failed" /\ faults \subseteq Faults
    /\ Agreed(c[Server].mka, c[Client].mka, wire[Server], Coming, keys)
    /\ \A n \in Node : Exact(c[n])

-----------------------------------------------------------------------------
(* What the calls of the stack do to the slots *)

\* The slots keep their keys, a confirmation may come or go.
Holds(m, n) == SameKey(m.latest, n.latest) /\ n.old = m.old /\ n.next_an = m.next_an

\* latest_sak made room, for the key k or for none yet.
Rotates(m, n, k) ==
    /\ OldAfter(m, n.old) /\ n.next_an = m.next_an
    /\ \/ n.latest.state = "NONE"
       \/ n.latest.state = "DISTRIBUTION_PENDING" /\ n.latest.key = k /\ n.latest.an = m.next_an

\* q is o, no longer sent with.
Silent(o, q) ==
    /\ q.state = o.state /\ q.key = o.key /\ q.kn = o.kn /\ q.an = o.an
    /\ q.rx_installed = o.rx_installed /\ ~q.tx_installed

\* The pending key was sent and put into use.
Issues(m, n) ==
    /\ m.latest.state = "DISTRIBUTION_PENDING"
    /\ n.latest.state = "ACTIVE" /\ Names(n.latest, m.latest) /\ Silent(m.old, n.old)
    /\ n.next_an = (m.next_an + 1) % MkaMaxSA

Retires(m, n) ==
    /\ Held(m.latest) /\ SameKey(m.latest, n.latest) /\ n.next_an = m.next_an
    /\ m.old.state = "RETIRING" /\ n.old = NoSak

\* The key p distributes was put into use, the one before made room.
Adopts(m, n, p) ==
    /\ p.dist.has = "dist" /\ ~SameSak(m, p)
    /\ n.latest.state = "ACTIVE" /\ n.latest.origin = "REMOTE" /\ Names(n.latest, p.dist)
    /\ \/ ~Held(m.latest) /\ Silent(m.old, n.old)
       \/ /\ Held(m.latest) /\ m.old = NoSak /\ n.old.state = "RETIRING"
          /\ Names(n.old, m.latest) /\ n.old.rx_installed /\ ~n.old.tx_installed

LEMMA RestedTidy ==
    ASSUME NEW x, Rested(x)
    PROVE  Tidy(x.mka) /\ Slots(x.mka, x.fc) /\ x.mka \in MkaCtx /\ MkaBase(x.mka)
BY DEF Rested, Sound, MkaOK, MkaBase, MkaCtx, Tidy

\* A station at rest has nothing to install, and is asked for no retirement by
\* the clock.
LEMMA TickMoves ==
    ASSUME NEW x, Rested(x), x.mka.latest.state # "CANDIDATE", NEW d \in Nat,
           NEW r, r = Tick(x, d)
    PROVE  SlotsKept(x.mka, r.c.mka) /\ r.c.mka.next_an = x.mka.next_an /\ r.c.fc = x.fc
<1> DEFINE z == [x EXCEPT !.mka = MkaTick(@, d)]
<1>1. /\ Prepared(x, z) /\ SameButClock(x.mka, z.mka) /\ Served(z, r.c)
      /\ z.mka.events \subseteq {"PEER_LOST"}
  BY TickStep
<1> HIDE DEF z
<1>2. ~Installable(z.mka.latest)
  BY <1>1 DEF Rested, SameButClock, Installable
<1>3. Untouched(z, r.c)
  BY <1>1, <1>2 DEF Served, Installed
<1> QED
  BY <1>1, <1>3 DEF Untouched, Served, SameButService, SameButClock, SlotsKept, Prepared

\* The report of an MKPDU changes the slots only when it carried the pending
\* key: the key is then installed in the same call.
LEMMA ReportMoves ==
    ASSUME NEW n \in Node, NEW b \in StartsOf(n), NEW x, Built(x, n, b),
           x.mka.latest.state # "CANDIDATE", NEW r, r = NotifyControlTxSuccess(x)
    PROVE  /\ \/ /\ SlotsKept(x.mka, r.c.mka) /\ r.c.mka.next_an = x.mka.next_an
                 /\ IncludesDistributedSak(x.mka) =>
                       x.mka.latest.state # "DISTRIBUTION_PENDING"
              \/ Issues(x.mka, r.c.mka)
           /\ RxExact(x.mka, x.fc) /\ Apart(x.mka) /\ Apart(r.c.mka) =>
                 RxExact(r.c.mka, r.c.fc)
<1>1. Rested(x) /\ Mates(x.mka, n, b) /\ x.meta = MetaOf(x.mka) /\ x.mka.tx_reasons # {}
  BY DEF Built
<1>2. /\ x.meta.valid /\ x.mode = "MKA_PSK" /\ (x.mka.latest.state # "NONE" => x.mka.latest.key \in Key)
      /\ x.meta.dist = IncludesDistributedSak(x.mka) /\ x.mka.latest.state # "DISTRIBUTED"
  BY <1>1 DEF MetaOf, Rested, Mates
<1>3. NotifyTxSuccess(x.mka, x.meta).ret = "OK"
  BY <1>1, NotifyTxSuccessOfBuilt
<1>4. PICK z : /\ Prepared(x, z) /\ Reported(x, z) /\ Served(z, r.c) /\ z.mka.events = {}
               /\ NewIsCommitted(x, z)
  BY <1>1, <1>2, <1>3, NotifyControlTxSuccessStep
<1>5. /\ z.mka.latest \in SakRec /\ LatestOK(z.mka.latest) /\ z.mka.old \in SakRec
      /\ OldOK(z.mka.old) /\ x.mka.latest \in SakRec /\ z.mka.old = x.mka.old
  BY <1>1, <1>4, RestedTidy DEF Tidy, Prepared, Sound, MkaOK, MkaBase, MkaCtx, Reported
<1>6. /\ Untouched(z, r.c) \/ Installed(z, r.c)
      /\ r.c.mka.next_an = z.mka.next_an
  BY <1>4 DEF Served, SameButService
<1>7. CASE Untouched(z, r.c)
  <2>1. ~Committed(x.mka, z.mka)
    <3>1. SUFFICES ASSUME Committed(x.mka, z.mka) PROVE FALSE
      OBVIOUS
    <3>2. z.mka.latest.state = "DISTRIBUTED"
      BY <1>5, <3>1 DEF Committed, SakRec
    <3> QED
      BY <1>7, <3>2 DEF Untouched, Installable
  <2>2. z.mka.latest = x.mka.latest /\ z.mka.next_an = x.mka.next_an
    BY <1>4, <2>1 DEF Reported
  <2>3. IncludesDistributedSak(x.mka) => x.mka.latest.state # "DISTRIBUTION_PENDING"
    BY <1>2, <1>4, <2>1 DEF NewIsCommitted
  <2>4. SlotsKept(x.mka, r.c.mka)
    BY <1>5, <1>7, <2>2 DEF Untouched, SlotsKept
  <2>5. r.c.mka.next_an = x.mka.next_an
    BY <1>6, <2>2
  <2> QED
    BY <1>1, <1>2, <1>4, <2>3, <2>4, <2>5, ServedCalled DEF Called
<1>8. CASE Installed(z, r.c)
  <2>1. /\ Installable(z.mka.latest) /\ r.c.mka.latest = InUse(z.mka.latest)
        /\ r.c.mka.old = Silenced(z.mka.old)
    BY <1>8 DEF Installed
  <2>2. Committed(x.mka, z.mka)
    BY <1>2, <1>4, <2>1 DEF Reported, Installable
  <2>3. /\ z.mka.latest.key = x.mka.latest.key /\ z.mka.latest.kn = x.mka.latest.kn
        /\ z.mka.latest.an = x.mka.latest.an
        /\ z.mka.next_an = (x.mka.next_an + 1) % MkaMaxSA
        /\ x.mka.latest.state = "DISTRIBUTION_PENDING"
    BY <1>5, <2>2 DEF Committed, SakRec
  <2>4. r.c.mka.latest.state = "ACTIVE" /\ Names(r.c.mka.latest, x.mka.latest)
    BY <1>5, <2>1, <2>3, InUseFields DEF Names
  <2>5. Silent(x.mka.old, r.c.mka.old)
    BY <1>5, <2>1, SilencedFields DEF Silent
  <2>6. Issues(x.mka, r.c.mka)
    BY <1>6, <2>3, <2>4, <2>5 DEF Issues
  <2> QED
    BY <1>1, <1>2, <1>4, <2>6, ServedCalled DEF Called
<1> QED
  BY <1>6, <1>7, <1>8

\* What a received MKPDU does to the slots, served and all.
LEMMA InputMovesStep ==
    ASSUME NEW x, Rested(x), x.mka.latest.state # "CANDIDATE",
           NEW p \in MkpduRec, p.use.has # "bad", NEW k \in Key \cup {NoKey},
           NEW r, r = InputMkpdu(x, p, k)
    PROVE  /\ \/ Holds(x.mka, r.c.mka)
              \/ /\ Rotates(x.mka, r.c.mka, k)
                 /\ r.c.mka.local_key_server /\ r.c.mka.peer.valid
              \/ Retires(x.mka, r.c.mka) /\ Claims(p) /\ p.use.an = x.mka.latest.an
              \/ Adopts(x.mka, r.c.mka, p)
           /\ RxExact(x.mka, x.fc) /\ Apart(x.mka) /\ Apart(r.c.mka) =>
                 RxExact(r.c.mka, r.c.fc)
<1> DEFINE z == [x EXCEPT !.mka = MkaInput(x.mka, p, k).m]
<1>1. /\ Prepared(x, z) /\ InputStep(x.mka, z.mka, p, k)
      /\ InputMoves(x.mka, z.mka, p, k)
  BY InputMkpduStep
<1>2. "SAK_RETIRE_REQUIRED" \in z.mka.events => Claims(p) /\ p.use.an = z.mka.latest.an
  BY InputMkpduStep
<1>3. Served(z, r.c) \/ (Stopped(z, r.c) /\ SlotsKept(x.mka, z.mka))
  BY InputMkpduStep
<1> HIDE DEF z
<1>4. RxExact(x.mka, x.fc) /\ Apart(x.mka) /\ Apart(r.c.mka) => RxExact(r.c.mka, r.c.fc)
  BY <1>1, <1>3, ServedCalled, StoppedCalled DEF Called, Rested
<1>5. /\ x.mka.latest \in SakRec /\ z.mka.latest \in SakRec /\ LatestOK(z.mka.latest)
      /\ z.mka.old \in SakRec /\ OldOK(z.mka.old) /\ z.mka.next_an = x.mka.next_an
      /\ x.mka.next_an \in MkaAN /\ x.mka \in MkaCtx /\ x.mka.next_kn # 0
      /\ x.mka.latest.state # "DISTRIBUTED"
  BY <1>1, RestedTidy DEF Tidy, Prepared, Sound, MkaOK, MkaBase, MkaCtx, InputStep,
     SameIdentity, Rested
<1>6. CASE Stopped(z, r.c) /\ SlotsKept(x.mka, z.mka)
  <2>1. Holds(x.mka, r.c.mka)
    BY <1>5, <1>6 DEF Stopped, SlotsKept, Holds, SameKey
  <2> QED
    BY <1>4, <2>1
<1>7. CASE Served(z, r.c)
  <2>1. /\ r.c.mka.next_an = x.mka.next_an /\ r.c.mka.local_key_server = z.mka.local_key_server
        /\ r.c.mka.peer = z.mka.peer
    BY <1>5, <1>7 DEF Served, SameButService
  <2>2. CASE SameKey(x.mka.latest, z.mka.latest) /\ z.mka.old = x.mka.old
    <3>1. ~Installable(z.mka.latest)
      BY <1>5, <2>2 DEF SameKey, Installable, Held
    <3>2. CASE Untouched(z, r.c)
      <4>1. Holds(x.mka, r.c.mka)
        BY <2>1, <2>2, <3>2 DEF Untouched, Holds
      <4> QED
        BY <1>4, <4>1
    <3>3. CASE Retired(z, r.c) /\ "SAK_RETIRE_REQUIRED" \in z.mka.events
      <4>1. /\ Held(x.mka.latest) /\ SameKey(x.mka.latest, r.c.mka.latest)
            /\ x.mka.old.state = "RETIRING" /\ r.c.mka.old = NoSak
        BY <2>2, <3>3 DEF Retired, SameKey, Held
      <4>2. Retires(x.mka, r.c.mka)
        BY <2>1, <4>1 DEF Retires
      <4>3. Claims(p) /\ p.use.an = x.mka.latest.an
        BY <1>2, <2>2, <3>3 DEF SameKey
      <4> QED
        BY <1>4, <4>2, <4>3
    <3> QED
      BY <1>7, <3>1, <3>2, <3>3 DEF Served, Installed
  <2>3. CASE /\ z.mka.latest = Received(p) /\ p.dist.has = "dist" /\ ~SameSak(x.mka, p)
             /\ OldAfter(x.mka, z.mka.old)
    <3> DEFINE l == z.mka.latest
               o == z.mka.old
    <3>1. /\ l.state = "CANDIDATE" /\ l.origin = "REMOTE" /\ l.key = p.dist.key
          /\ l.kn = p.dist.kn /\ l.an = p.dist.an
      BY <2>3 DEF Received, ReceivedSak, NoSak
    <3> HIDE DEF l, o
    <3>2. Installed(z, r.c)
      BY <1>7, <3>1 DEF Served, Untouched, Retired, Installable, l
    <3>3. r.c.mka.latest = InUse(l) /\ r.c.mka.old = Silenced(o) /\ Installable(l)
      BY <3>2 DEF Installed, l, o
    <3>4. l \in SakRec /\ LatestOK(l) /\ o \in SakRec /\ OldOK(o)
      BY <1>5 DEF l, o
    <3>5. /\ r.c.mka.latest.state = "ACTIVE" /\ r.c.mka.latest.origin = "REMOTE"
          /\ Names(r.c.mka.latest, p.dist)
      BY <3>1, <3>3, <3>4, InUseFields DEF Names
    <3>6. Silent(o, r.c.mka.old)
      BY <3>3, <3>4, SilencedFields DEF Silent
    <3>7. \/ ~Held(x.mka.latest) /\ Silent(x.mka.old, r.c.mka.old)
          \/ /\ Held(x.mka.latest) /\ x.mka.old = NoSak /\ r.c.mka.old.state = "RETIRING"
             /\ Names(r.c.mka.old, x.mka.latest)
             /\ r.c.mka.old.rx_installed /\ ~r.c.mka.old.tx_installed
      BY <2>3, <3>6 DEF OldAfter, Silent, Names, o
    <3>8. Adopts(x.mka, r.c.mka, p)
      BY <2>3, <3>5, <3>7 DEF Adopts
    <3> QED
      BY <1>4, <3>8
  <2>4. CASE /\ z.mka.latest \in {NoSak, Generated(x.mka, k)} /\ OldAfter(x.mka, z.mka.old)
             /\ z.mka.local_key_server /\ z.mka.peer.valid
    <3>1. \/ z.mka.latest.state = "NONE"
          \/ /\ z.mka.latest.state = "DISTRIBUTION_PENDING" /\ z.mka.latest.key = k
             /\ z.mka.latest.an = x.mka.next_an
      <4>1. NoSak.state = "NONE"
        BY DEF NoSak
      <4>2. x.mka.next_an % MkaMaxSA = x.mka.next_an
        BY <1>5 DEF MkaAN, MkaMaxSA
      <4>3. /\ Generated(x.mka, k).state = "DISTRIBUTION_PENDING" /\ Generated(x.mka, k).key = k
            /\ Generated(x.mka, k).an = x.mka.next_an
        BY <4>2 DEF Generated, GeneratedSak, NoSak
      <4> QED
        BY <2>4, <4>1, <4>3
    <3>2. Untouched(z, r.c)
      BY <1>7, <3>1 DEF Served, Retired, Installed, Installable
    <3>3. Rotates(x.mka, r.c.mka, k)
      BY <2>1, <2>4, <3>1, <3>2 DEF Untouched, Rotates
    <3> QED
      BY <1>4, <2>1, <2>4, <3>3
  <2> QED
    BY <1>1, <2>2, <2>3, <2>4 DEF InputMoves
<1> QED
  BY <1>3, <1>6, <1>7

-----------------------------------------------------------------------------
(* What the slots tell apart *)

LEMMA NextAN ==
    ASSUME NEW a \in MkaAN
    PROVE  (a + 1) % MkaMaxSA # a
BY DEF MkaAN, MkaMaxSA

\* The Server's two keys differ, in number and in AN.
LEMMA ServerApart ==
    ASSUME NEW s, Tidy(s), NEW drawn \in Nat, Serving(s, drawn)
    PROVE  /\ Apart(s)
           /\ s.latest.state # "NONE" /\ s.old.state # "NONE" => s.latest.key # s.old.key
           /\ s.latest.rx_installed => Held(s.latest)
           /\ s.old.rx_installed => s.old.state # "NONE"
<1>1. s.old.an \in MkaAN
  BY DEF Tidy, SakRec
<1>2. (s.old.an + 1) % MkaMaxSA # s.old.an
  BY <1>1, NextAN
<1>3. Apart(s)
  BY <1>2 DEF Serving, Apart, Held
<1>4. ASSUME s.latest.state # "NONE", s.old.state # "NONE" PROVE s.latest.key # s.old.key
  <2>1. s.latest.key \in Nat /\ s.old.key \in Nat /\ s.old.key < s.latest.key
    BY <1>4 DEF Serving
  <2> QED
    BY <2>1
<1>5. s.latest.rx_installed => Held(s.latest)
  BY DEF Tidy, LatestOK
<1>6. s.old.rx_installed => s.old.state # "NONE"
  BY DEF Tidy, OldOK, NoSak
<1> QED
  BY <1>3, <1>4, <1>5, <1>6

LEMMA ClientApart ==
    ASSUME NEW s, NEW l, Tidy(l), Following(s, l)
    PROVE  /\ Apart(l)
           /\ l.latest.state # "NONE" <=> Held(l.latest)
           /\ l.latest.rx_installed <=> Held(l.latest)
BY DEF Tidy, LatestOK, Following, Apart, Held

\* While it receives with both, nothing names both.
LEMMA NotBoth ==
    ASSUME NEW s, Tidy(s), NEW drawn \in Nat, Serving(s, drawn), Both(s)
    PROVE  /\ s.latest.an # s.old.an
           /\ \A q : ~(Names(s.latest, q) /\ Names(s.old, q))
<1>1. s.latest.state # "NONE" /\ s.old.state # "NONE"
  BY ServerApart DEF Both, Held
<1> QED
  BY <1>1, ServerApart DEF Apart, Names

-----------------------------------------------------------------------------
(* The Server's moves *)

\* t receives with the keys of s, and with both of them only if s does.
Alike(s, t) ==
    \/ /\ t.latest.rx_installed = s.latest.rx_installed
       /\ t.old.rx_installed = s.old.rx_installed
       /\ s.latest.rx_installed => Names(t.latest, s.latest)
       /\ s.old.rx_installed => Names(t.old, s.old)
    \/ /\ s.latest.rx_installed /\ ~s.old.rx_installed
       /\ ~t.latest.rx_installed /\ t.old.rx_installed /\ Names(t.old, s.latest)

LEMMA AgreedAlike ==
    ASSUME NEW s, NEW t, Alike(s, t), NEW l, NEW up, NEW down, NEW drawn, NEW more,
           Agreed(s, l, up, down, drawn), Serving(t, more)
    PROVE  Agreed(t, l, up, down, more)
<1>1. \A q : Reads(t, q) <=> Reads(s, q)
  BY DEF Alike, Reads, Names
<1>2. \A p : Timely(t, p) <=> Timely(s, p)
  BY <1>1 DEF Timely, Alike, Names
<1>3. Both(t) => Both(s) /\ Names(t.latest, s.latest) /\ Names(t.old, s.old)
  BY DEF Alike, Both
<1>4. Both(t) => /\ \A p : Mentions(p, t.latest) <=> Mentions(p, s.latest)
                 /\ \A p : Mentions(p, t.old) <=> Mentions(p, s.old)
                 /\ Follows(l, t.latest) <=> Follows(l, s.latest)
                 /\ Follows(l, t.old) <=> Follows(l, s.old)
  BY <1>3 DEF Mentions, Names, Follows
<1>5. Following(t, l)
  BY <1>1 DEF Agreed, Following
<1>6. WireOK(t, up) /\ WireOK(t, down)
  BY <1>2, <1>3, <1>4 DEF Agreed, WireOK
<1>7. Passed(t, l, up, down)
  BY <1>3, <1>4 DEF Agreed, Passed, Without
<1> QED
  BY <1>5, <1>6, <1>7 DEF Agreed

\* The Server keeps its keys, while keys may be drawn.
LEMMA ServerHolds ==
    ASSUME NEW s, Tidy(s), NEW t, Tidy(t), Holds(s, t), NEW l, NEW up, NEW down,
           NEW drawn \in Nat, Agreed(s, l, up, down, drawn), NEW more \in {drawn, drawn + 1}
    PROVE  Agreed(t, l, up, down, more)
<1>1. Alike(s, t)
  BY DEF Holds, SameKey, Alike, Names
<1>2. Serving(s, drawn)
  BY DEF Agreed
<1>3. \A k \in 1 .. drawn : k \in 1 .. more
  OBVIOUS
<1>4. Serving(t, more)
  <2>1. t.latest.state # "NONE" => t.latest.key \in 1 .. more
    BY <1>2, <1>3 DEF Serving, Holds, SameKey, Held
  <2>2. t.old.state # "NONE" => t.old.key \in 1 .. more
    BY <1>2, <1>3 DEF Serving, Holds
  <2> QED
    BY <1>2, <2>1, <2>2 DEF Serving, Holds, SameKey, Held
<1> QED
  BY <1>1, <1>4, AgreedAlike

\* Its latest key makes room.
LEMMA ServerRotates ==
    ASSUME NEW s, Tidy(s), NEW t, Tidy(t), NEW drawn \in Nat, Rotates(s, t, drawn + 1),
           NEW l, NEW up, NEW down, Agreed(s, l, up, down, drawn),
           NEW more \in {drawn, drawn + 1}, t.latest.state # "NONE" => more = drawn + 1
    PROVE  Agreed(t, l, up, down, more)
<1>1. ~t.latest.rx_installed /\ ~Held(t.latest)
  BY DEF Tidy, LatestOK, Held, Rotates
<1>2. s.latest.rx_installed <=> Held(s.latest)
  BY DEF Tidy, LatestOK
<1>3. Serving(s, drawn)
  BY DEF Agreed
<1>4. Alike(s, t)
  <2>1. s.latest.rx_installed \in BOOLEAN /\ t.latest.rx_installed \in BOOLEAN
    BY DEF Tidy, SakRec
  <2>2. CASE t.old = s.old /\ ~Held(s.latest)
    BY <1>1, <1>2, <2>1, <2>2 DEF Alike, Names
  <2>3. CASE Held(s.latest) /\ s.old = NoSak /\ t.old.rx_installed /\ Names(t.old, s.latest)
    BY <1>1, <1>2, <2>3 DEF Alike, NoSak
  <2> QED
    BY <2>2, <2>3 DEF Rotates, OldAfter, Names
<1>5. \A k \in 1 .. drawn : k \in 1 .. more /\ k < drawn + 1
  OBVIOUS
<1>6. t.old.state # "NONE" => t.old.key \in 1 .. drawn
  BY <1>3 DEF Rotates, OldAfter, Serving, Held
<1>7. t.latest.state # "NONE" => t.latest.key = drawn + 1 /\ drawn + 1 \in 1 .. more
  BY DEF Rotates
<1>8. t.old.state # "NONE" => (t.old.an + 1) % MkaMaxSA = t.next_an
  BY <1>3 DEF Rotates, OldAfter, Serving, Held
<1>9. /\ t.latest.state \in {"NONE", "DISTRIBUTION_PENDING"}
      /\ t.latest.state = "DISTRIBUTION_PENDING" => t.latest.an = t.next_an
  BY DEF Rotates
<1>10. Serving(t, more)
  BY <1>1, <1>5, <1>6, <1>7, <1>8, <1>9 DEF Serving
<1> QED
  BY <1>4, <1>10, AgreedAlike

\* It puts the pending key into use, which nothing speaks of yet.
LEMMA ServerIssues ==
    ASSUME NEW s, Tidy(s), NEW t, Tidy(t), Issues(s, t), NEW l, Tidy(l), NEW up, NEW down,
           NEW drawn \in Nat, Agreed(s, l, up, down, drawn)
    PROVE  Agreed(t, l, up, down, drawn)
<1>1. /\ ~s.latest.rx_installed /\ ~Held(s.latest) /\ Held(t.latest) /\ t.latest.rx_installed
      /\ s.latest.state = "DISTRIBUTION_PENDING" /\ Names(t.latest, s.latest)
      /\ Silent(s.old, t.old)
  BY DEF Tidy, LatestOK, Held, Issues
<1>2. Serving(s, drawn) /\ Following(s, l) /\ WireOK(s, up) /\ WireOK(s, down)
  BY DEF Agreed
<1>3. Serving(t, drawn)
  BY <1>1, <1>2 DEF Serving, Issues, Names, Silent
<1>4. \A q : Reads(s, q) => Reads(t, q)
  BY <1>1 DEF Reads, Silent, Names
<1>5. s.old.rx_installed => s.old.key # t.latest.key /\ s.old.an # t.latest.an
  BY <1>1, <1>2, ServerApart DEF Apart, Names
<1>6. \A p : Timely(s, p) => Timely(t, p) /\ ~Mentions(p, t.latest)
  BY <1>1, <1>4, <1>5 DEF Timely, Mentions, Reads, Names, Silent
<1>7. WireOK(t, up) /\ WireOK(t, down) /\ Without(up, t.latest)
  BY <1>2, <1>6 DEF WireOK, Without
<1>8. Following(t, l)
  BY <1>2, <1>4 DEF Following
<1>9. ~Follows(l, t.latest)
  <2>1. SUFFICES ASSUME Follows(l, t.latest) PROVE FALSE
    OBVIOUS
  <2>2. l.latest.state # "NONE" => s.old.rx_installed /\ s.old.key = l.latest.key
    BY <1>1, <1>2 DEF Following, Reads, Names
  <2>3. l.latest.state # "NONE"
    BY <1>2, <2>1, ClientApart DEF Follows
  <2> QED
    BY <1>5, <2>1, <2>2, <2>3 DEF Follows, Names
<1> QED
  BY <1>3, <1>7, <1>8, <1>9 DEF Agreed, Passed

\* It gives up the old key on MKPDU p, the first of those under way to it.
LEMMA ServerRetires ==
    ASSUME NEW s, Tidy(s), NEW t, Tidy(t), Retires(s, t), NEW l, Tidy(l), NEW up, NEW down,
           NEW drawn \in Nat, Agreed(s, l, up, down, drawn), Len(up) \in Nat, 1 <= Len(up),
           Claims(up[1]), up[1].use.an = s.latest.an,
           NEW rest, Len(rest) = Len(up) - 1, \A i \in 1 .. Len(rest) : rest[i] = up[i + 1]
    PROVE  /\ Agreed(t, l, rest, down, drawn)
           /\ ~Follows(l, s.old)
<1>1. /\ Both(s) /\ Held(s.latest) /\ Held(t.latest) /\ t.latest.rx_installed
      /\ Names(t.latest, s.latest) /\ ~t.old.rx_installed /\ t.old.state = "NONE"
  BY DEF Retires, Tidy, LatestOK, OldOK, Held, SameKey, Both, Names, NoSak
<1>2. /\ Serving(s, drawn) /\ Following(s, l) /\ WireOK(s, up) /\ WireOK(s, down)
      /\ Passed(s, l, up, down)
  BY DEF Agreed
<1>3. Mentions(up[1], s.latest) /\ 1 \in 1 .. Len(up)
  BY DEF Mentions
<1>4. ~Follows(l, s.old) /\ Without(down, s.old)
  BY <1>1, <1>2, <1>3 DEF Passed, Without
<1>5. \A j \in 1 .. Len(up) : 1 < j => ~Mentions(up[j], s.old)
  BY <1>1, <1>2, <1>3 DEF WireOK
<1>6. \A i \in 1 .. Len(rest) : i + 1 \in 1 .. Len(up) /\ 1 < i + 1
  OBVIOUS
<1>7. Without(rest, s.old) /\ \A i \in 1 .. Len(rest) : Timely(s, rest[i])
  BY <1>2, <1>5, <1>6 DEF Without, WireOK
<1>8. \A p : Timely(s, p) /\ ~Mentions(p, s.old) => Timely(t, p)
  BY <1>1 DEF Timely, Mentions, Reads, Names
<1>9. WireOK(t, rest) /\ WireOK(t, down)
  BY <1>1, <1>2, <1>4, <1>7, <1>8 DEF WireOK, Without, Both
<1>10. Following(t, l)
  BY <1>1, <1>2, <1>4, ClientApart DEF Following, Reads, Follows, Names
<1>11. Serving(t, drawn)
  BY <1>1, <1>2 DEF Serving, Retires, SameKey, Held
<1> QED
  BY <1>1, <1>4, <1>9, <1>10, <1>11 DEF Agreed, Passed, Both

-----------------------------------------------------------------------------
(* What is under way *)

\* v is what is left of w without its first d MKPDUs, perhaps shorter at the
\* end or damaged.
Thinner(w, v, d) ==
    /\ Len(w) \in Nat /\ Len(v) \in Nat /\ Len(v) + d <= Len(w)
    /\ \A i \in 1 .. Len(v) : v[i].dist = w[i + d].dist /\ v[i].use = w[i + d].use

LEMMA ThinnerWire ==
    ASSUME NEW w, NEW v, NEW d \in 0 .. 1, Thinner(w, v, d)
    PROVE  /\ \A s : WireOK(s, w) => WireOK(s, v)
           /\ \A q : Without(w, q) => Without(v, q)
<1>1. \A i \in 1 .. Len(v) : i + d \in 1 .. Len(w)
  BY DEF Thinner
<1>2. \A i, j \in 1 .. Len(v) : i < j => i + d < j + d
  BY DEF Thinner
<1>3. \A i \in 1 .. Len(v) : \A q : Mentions(v[i], q) <=> Mentions(w[i + d], q)
  BY DEF Thinner, Mentions, Claims
<1>4. \A i \in 1 .. Len(v) : \A s : Timely(s, v[i]) <=> Timely(s, w[i + d])
  BY DEF Thinner, Timely, Claims
<1>5. ASSUME NEW q, Without(w, q) PROVE Without(v, q)
  BY <1>1, <1>3, <1>5 DEF Without
<1>6. ASSUME NEW s, WireOK(s, w) PROVE WireOK(s, v)
  BY <1>1, <1>2, <1>3, <1>4, <1>6 DEF WireOK
<1> QED
  BY <1>5, <1>6

\* Whatever is lost, damaged or read, nothing is misled by the rest.
LEMMA AgreedThinner ==
    ASSUME NEW s, NEW l, NEW up, NEW down, NEW drawn, Agreed(s, l, up, down, drawn),
           NEW v, NEW w, NEW d \in 0 .. 1, NEW e \in 0 .. 1,
           Thinner(up, v, d), Thinner(down, w, e)
    PROVE  Agreed(s, l, v, w, drawn)
BY ThinnerWire DEF Agreed, Passed

\* One more MKPDU under way.
Longer(w, v, p) ==
    /\ Len(w) \in Nat /\ Len(v) = Len(w) + 1
    /\ \A i \in 1 .. Len(w) : v[i] = w[i]
    /\ v[Len(v)] = p

LEMMA LongerWire ==
    ASSUME NEW w, NEW v, NEW p, Longer(w, v, p)
    PROVE  /\ \A s : /\ WireOK(s, w) /\ Timely(s, p)
                     /\ Both(s) /\ ~Without(w, s.latest) => ~Mentions(p, s.old)
                     => WireOK(s, v)
           /\ \A q : Without(v, q) <=> Without(w, q) /\ ~Mentions(p, q)
<1>1. \A i \in 1 .. Len(v) : i \in 1 .. Len(w) \/ i = Len(v)
  BY DEF Longer
<1>2. \A i \in 1 .. Len(w) : i \in 1 .. Len(v) /\ v[i] = w[i]
  BY DEF Longer
<1>3. Len(v) \in 1 .. Len(v) /\ v[Len(v)] = p
  BY DEF Longer
<1>4. \A i, j \in 1 .. Len(v) : i < j => i \in 1 .. Len(w)
  BY DEF Longer
<1>5. ASSUME NEW q PROVE Without(v, q) <=> Without(w, q) /\ ~Mentions(p, q)
  BY <1>1, <1>2, <1>3 DEF Without
<1>6. ASSUME NEW s, WireOK(s, w), Timely(s, p),
             Both(s) /\ ~Without(w, s.latest) => ~Mentions(p, s.old)
      PROVE  WireOK(s, v)
  <2>1. \A i \in 1 .. Len(v) : Timely(s, v[i])
    BY <1>1, <1>2, <1>3, <1>6 DEF WireOK
  <2>2. ASSUME Both(s), NEW i \in 1 .. Len(v), NEW j \in 1 .. Len(v), i < j,
               Mentions(v[i], s.latest)
        PROVE  ~Mentions(v[j], s.old)
    <3>1. i \in 1 .. Len(w) /\ Mentions(w[i], s.latest)
      BY <1>2, <1>4, <2>2
    <3>2. CASE j \in 1 .. Len(w)
      BY <1>2, <1>6, <2>2, <3>1, <3>2 DEF WireOK
    <3>3. CASE j = Len(v)
      BY <1>3, <1>6, <2>2, <3>1, <3>3 DEF Without
    <3> QED
      BY <1>1, <3>2, <3>3
  <2> QED
    BY <2>1, <2>2 DEF WireOK
<1> QED
  BY <1>5, <1>6

\* p says of m's latest key only what is true.
SpeaksOf(m, p) ==
    /\ p.use.has # "bad"
    /\ p.dist.has = "dist" => m.latest.rx_installed /\ Names(m.latest, p.dist)
    /\ Claims(p) => m.latest.rx_installed /\ p.use.an = m.latest.an

\* The Server writes.
LEMMA ServerWrites ==
    ASSUME NEW s, Tidy(s), NEW l, NEW up, NEW down, NEW drawn \in Nat,
           Agreed(s, l, up, down, drawn), NEW p, SpeaksOf(s, p), NEW w, Longer(down, w, p)
    PROVE  Agreed(s, l, up, w, drawn)
<1>1. Timely(s, p)
  BY DEF SpeaksOf, Timely, Reads
<1>2. Both(s) => ~Mentions(p, s.old)
  BY NotBoth DEF Agreed, SpeaksOf, Mentions
<1>3. WireOK(s, w) /\ (Both(s) /\ Without(down, s.old) => Without(w, s.old))
  BY <1>1, <1>2, LongerWire DEF Agreed
<1> QED
  BY <1>3 DEF Agreed, Passed

\* The Client writes: it distributes nothing, and what it says of its latest
\* key is about a key the Server receives with.
LEMMA ClientWrites ==
    ASSUME NEW s, Tidy(s), NEW l, Tidy(l), NEW up, NEW down, NEW drawn \in Nat,
           Agreed(s, l, up, down, drawn), NEW p, SpeaksOf(l, p), p.dist.has # "dist",
           NEW w, Longer(up, w, p)
    PROVE  Agreed(s, l, w, down, drawn)
<1>1. Serving(s, drawn) /\ Following(s, l) /\ WireOK(s, up) /\ Passed(s, l, up, down)
  BY DEF Agreed
<1>2. Claims(p) => /\ p.use.an = l.latest.an /\ Reads(s, l.latest) /\ l.latest.rx_installed
  BY <1>1, ClientApart DEF SpeaksOf, Following
<1>3. Timely(s, p)
  BY <1>2 DEF SpeaksOf, Timely, Reads, Names
<1>4. Both(s) /\ Mentions(p, s.old) => Follows(l, s.old)
  BY <1>1, <1>2, NotBoth DEF Mentions, Follows, Reads, Names
<1>5. Both(s) /\ Mentions(p, s.latest) => Follows(l, s.latest)
  BY <1>1, <1>2, NotBoth DEF Mentions, Follows, Reads, Names
<1>6. Both(s) => ~(Follows(l, s.latest) /\ Follows(l, s.old))
  BY <1>1, NotBoth DEF Follows
<1>7. WireOK(s, w)
  BY <1>1, <1>3, <1>4, LongerWire DEF Passed
<1>8. Both(s) /\ ~Without(w, s.latest) => ~Without(up, s.latest) \/ Follows(l, s.latest)
  BY <1>5, LongerWire
<1>9. Passed(s, l, w, down)
  BY <1>1, <1>6, <1>8 DEF Passed
<1> QED
  BY <1>7, <1>9 DEF Agreed

-----------------------------------------------------------------------------
(* The Client's moves *)

LEMMA ClientHolds ==
    ASSUME NEW s, NEW l, NEW n, Holds(l, n), NEW up, NEW down,
           NEW drawn, Agreed(s, l, up, down, drawn)
    PROVE  Agreed(s, n, up, down, drawn)
<1>1. /\ n.latest.key = l.latest.key /\ n.latest.kn = l.latest.kn /\ n.latest.an = l.latest.an
      /\ n.latest.rx_installed = l.latest.rx_installed
  BY DEF Holds, SameKey
<1>2. Following(s, n)
  BY <1>1 DEF Agreed, Following, Holds, SameKey, Held, Reads, Names
<1>3. \A q : Follows(n, q) <=> Follows(l, q)
  BY <1>1 DEF Follows, Names
<1> QED
  BY <1>2, <1>3 DEF Agreed, Passed

LEMMA ClientRetires ==
    ASSUME NEW s, NEW l, NEW n, Retires(l, n), NEW up, NEW down,
           NEW drawn, Agreed(s, l, up, down, drawn)
    PROVE  Agreed(s, n, up, down, drawn)
<1>1. /\ n.latest.key = l.latest.key /\ n.latest.kn = l.latest.kn /\ n.latest.an = l.latest.an
      /\ n.latest.rx_installed = l.latest.rx_installed /\ n.old.state = "NONE"
  BY DEF Retires, SameKey, NoSak
<1>2. Following(s, n)
  BY <1>1 DEF Agreed, Following, Retires, SameKey, Held, Reads, Names
<1>3. \A q : Follows(n, q) <=> Follows(l, q)
  BY <1>1 DEF Follows, Names
<1> QED
  BY <1>2, <1>3 DEF Agreed, Passed

\* A Client without keys, to which nothing is under way.
LEMMA ClientForgets ==
    ASSUME NEW s, NEW l, NEW n, n.latest = NoSak, n.old = NoSak, NEW up, NEW down,
           NEW drawn, Agreed(s, l, up, down, drawn)
    PROVE  Agreed(s, n, up, <<>>, drawn)
<1>1. /\ n.latest.state = "NONE" /\ n.old.state = "NONE" /\ ~n.latest.rx_installed
  BY DEF NoSak
<1>2. Following(s, n)
  BY <1>1 DEF Following
<1>3. WireOK(s, <<>>) /\ \A q : Without(<<>>, q) /\ ~Follows(n, q)
  BY <1>1 DEF WireOK, Without, Follows
<1> QED
  BY <1>2, <1>3 DEF Agreed, Passed

\* The Client puts the key of MKPDU p into use, the first of those under way
\* to it.  That key is younger than the one before.
LEMMA ClientAdopts ==
    ASSUME NEW s, Tidy(s), NEW l, Tidy(l), NEW n, Tidy(n), NEW up, NEW down,
           NEW drawn \in Nat, Agreed(s, l, up, down, drawn), Len(down) \in Nat, 1 <= Len(down),
           Adopts(l, n, down[1]),
           NEW rest, Len(rest) = Len(down) - 1, \A i \in 1 .. Len(rest) : rest[i] = down[i + 1]
    PROVE  /\ Agreed(s, n, up, rest, drawn)
           /\ Reads(s, n.latest)
           /\ Held(l.latest) => l.latest.key < n.latest.key
<1> DEFINE p == down[1]
<1>1. /\ Serving(s, drawn) /\ Following(s, l) /\ WireOK(s, up) /\ WireOK(s, down)
      /\ Passed(s, l, up, down)
  BY DEF Agreed
<1>2. /\ p.dist.has = "dist" /\ ~SameSak(l, p) /\ n.latest.state = "ACTIVE"
      /\ n.latest.origin = "REMOTE" /\ Names(n.latest, p.dist) /\ Held(n.latest)
      /\ n.latest.rx_installed /\ 1 \in 1 .. Len(down)
  BY DEF Adopts, Tidy, LatestOK, Held
<1>3. Reads(s, p.dist) /\ Reads(s, n.latest)
  BY <1>1, <1>2 DEF WireOK, Timely, Reads, Names
<1>4. Both(s) /\ Names(s.old, p.dist) => Without(up, s.latest) /\ ~Follows(l, s.latest)
  BY <1>1, <1>2 DEF Passed, Without, Mentions
<1>5. Both(s) /\ Names(s.latest, p.dist) => Without(rest, s.old)
  <2>1. \A i \in 1 .. Len(rest) : i + 1 \in 1 .. Len(down) /\ 1 < i + 1 /\ rest[i] = down[i + 1]
    OBVIOUS
  <2> QED
    BY <1>1, <1>2, <2>1 DEF WireOK, Without, Mentions
<1>6. ASSUME Held(l.latest)
      PROVE  /\ l.latest.key \in Nat \ {0} /\ l.latest.key < n.latest.key
             /\ l.latest.an # n.latest.an
  <2>1. /\ Reads(s, l.latest) /\ l.latest.rx_installed /\ l.latest.origin = "REMOTE"
        /\ l.latest.state # "NONE"
    BY <1>1, <1>6, ClientApart DEF Following
  <2>2. CASE s.latest.rx_installed /\ Names(s.latest, l.latest)
    <3>1. ~Names(s.latest, p.dist)
      BY <1>2, <2>1, <2>2 DEF SameSak, Names
    <3>2. Both(s) /\ Names(s.old, p.dist)
      BY <1>3, <2>2, <3>1 DEF Reads, Both
    <3> QED
      BY <1>4, <2>1, <2>2, <3>2 DEF Follows
  <2>3. CASE s.old.rx_installed /\ Names(s.old, l.latest)
    <3>1. ~Names(s.old, p.dist)
      BY <1>2, <2>1, <2>3 DEF SameSak, Names
    <3>2. Both(s) /\ Names(s.latest, p.dist)
      BY <1>3, <2>3, <3>1 DEF Reads, Both
    <3>3. s.latest.state # "NONE" /\ s.old.state # "NONE" /\ s.latest.an # s.old.an
      BY <1>1, <3>2, ServerApart DEF Both, Held, Apart
    <3>4. s.old.key \in Nat \ {0} /\ s.old.key < s.latest.key
      BY <1>1, <3>3 DEF Serving
    <3> QED
      BY <1>2, <2>3, <3>2, <3>3, <3>4 DEF Names
  <2> QED
    BY <2>1, <2>2, <2>3 DEF Reads
<1>7. Following(s, n)
  <2>1. CASE Held(l.latest)
    BY <1>2, <1>3, <1>6, <2>1 DEF Following, Adopts, Names
  <2>2. CASE ~Held(l.latest)
    <3>1. n.old.state = "NONE"
      BY <1>1, <2>2, ClientApart DEF Following, Adopts, Silent
    <3> QED
      BY <1>2, <1>3, <3>1 DEF Following
  <2> QED
    BY <2>1, <2>2
<1>8. Thinner(down, rest, 1)
  BY DEF Thinner
<1>9. WireOK(s, rest)
  BY <1>1, <1>8, ThinnerWire
<1>10. Passed(s, n, up, rest)
  <2>1. SUFFICES ASSUME Both(s)
                 PROVE  /\ ~Without(up, s.latest) => ~Follows(n, s.old) /\ Without(rest, s.old)
                        /\ Follows(n, s.latest) => Without(rest, s.old)
    BY DEF Passed
  <2>2. CASE Names(s.latest, p.dist)
    <3>1. ~Follows(n, s.old)
      BY <1>1, <1>2, <2>1, <2>2, NotBoth DEF Follows, Names
    <3> QED
      BY <1>5, <2>1, <2>2, <3>1
  <2>3. CASE Names(s.old, p.dist)
    <3>1. ~Follows(n, s.latest)
      BY <1>1, <1>2, <2>1, <2>3, NotBoth DEF Follows, Names
    <3> QED
      BY <1>4, <2>1, <2>3, <3>1
  <2> QED
    BY <1>3, <2>2, <2>3 DEF Reads
<1> QED
  BY <1>1, <1>3, <1>6, <1>7, <1>9, <1>10 DEF Agreed

-----------------------------------------------------------------------------
(* What KeyAgreement sees of a station, read off its slots *)

KeySent(m) ==
    IF m.latest.tx_installed THEN m.latest.key
    ELSE IF m.old.tx_installed THEN m.old.key ELSE 0

KeysRead(m) == {s.key : s \in {t \in {m.latest, m.old} : t.rx_installed}}

\* The frame layer shows what the slots say.
LEMMA FrameShows ==
    ASSUME NEW x, Exact(x)
    PROVE  /\ (IF x.fc.tx_sak.valid THEN x.fc.tx_sak.key ELSE 0) = KeySent(x.mka)
           /\ {x.fc.rx_sak[an].key : an \in {a \in AN : x.fc.rx_sak[a].valid}} = KeysRead(x.mka)
<1>1. Slots(x.mka, x.fc) /\ RxExact(x.mka, x.fc)
  BY DEF Exact
<1>2. x.mka.latest.an \in AN /\ x.mka.old.an \in AN
  BY SameAN DEF Exact, Tidy, SakRec
<1>3. (IF x.fc.tx_sak.valid THEN x.fc.tx_sak.key ELSE 0) = KeySent(x.mka)
  BY <1>1 DEF Slots, TxMatches, KeySent
<1>4. ASSUME NEW an \in AN, x.fc.rx_sak[an].valid
      PROVE  x.fc.rx_sak[an].key \in KeysRead(x.mka)
  BY <1>1, <1>4 DEF Slots, RxMatches, KeysRead
<1>5. ASSUME NEW k \in KeysRead(x.mka)
      PROVE  \E an \in AN : x.fc.rx_sak[an].valid /\ x.fc.rx_sak[an].key = k
  BY <1>1, <1>2, <1>5 DEF RxExact, InRxSlot, KeysRead
<1> QED
  BY <1>3, <1>4, <1>5

LEMMA HoldsShows ==
    ASSUME NEW s, NEW t, Holds(s, t)
    PROVE  KeySent(t) = KeySent(s) /\ KeysRead(t) = KeysRead(s)
BY DEF Holds, SameKey, KeySent, KeysRead

LEMMA RotatesShows ==
    ASSUME NEW s, Tidy(s), NEW t, Tidy(t), NEW k, Rotates(s, t, k)
    PROVE  KeySent(t) = KeySent(s) /\ KeysRead(t) = KeysRead(s)
<1>1. ~t.latest.rx_installed /\ ~t.latest.tx_installed
  BY DEF Tidy, LatestOK, Held, Rotates
<1>2. CASE t.old = s.old /\ ~Held(s.latest)
  <2>1. ~s.latest.rx_installed /\ ~s.latest.tx_installed
    BY <1>2 DEF Tidy, LatestOK
  <2> QED
    BY <1>1, <1>2, <2>1 DEF KeySent, KeysRead
<1>3. CASE /\ Held(s.latest) /\ s.old = NoSak /\ t.old.key = s.latest.key
           /\ t.old.rx_installed /\ t.old.tx_installed
  <2>1. /\ s.latest.rx_installed /\ s.latest.tx_installed
        /\ ~s.old.rx_installed /\ ~s.old.tx_installed
    BY <1>3 DEF Tidy, LatestOK, NoSak
  <2>2. KeysRead(s) = {s.latest.key} /\ KeysRead(t) = {t.old.key}
    BY <1>1, <1>3, <2>1 DEF KeysRead
  <2> QED
    BY <1>1, <1>3, <2>1, <2>2 DEF KeySent
<1> QED
  BY <1>2, <1>3 DEF Rotates, OldAfter

LEMMA IssuesShows ==
    ASSUME NEW s, Tidy(s), NEW t, Tidy(t), Issues(s, t), NEW drawn \in Nat, Serving(s, drawn),
           NEW k, k = t.latest.key
    PROVE  /\ KeySent(t) = k /\ KeysRead(t) = KeysRead(s) \cup {k}
           /\ k > KeySent(s) /\ \A old \in KeysRead(s) : old < k
<1>1. /\ ~s.latest.rx_installed /\ ~s.latest.tx_installed
      /\ t.latest.rx_installed /\ t.latest.tx_installed /\ k = s.latest.key
      /\ t.old.key = s.old.key /\ t.old.rx_installed = s.old.rx_installed
      /\ s.latest.state # "NONE"
  BY DEF Tidy, LatestOK, Held, Issues, Names, Silent
<1>2. s.old.rx_installed \/ s.old.tx_installed => s.old.state # "NONE"
  BY DEF Tidy, OldOK, NoSak
<1>3. k \in Nat /\ 0 < k /\ (s.old.state # "NONE" => s.old.key < k)
  BY <1>1 DEF Serving
<1>4. KeysRead(t) = KeysRead(s) \cup {k}
  BY <1>1 DEF KeysRead
<1>5. \A old \in KeysRead(s) : old < k
  BY <1>1, <1>2, <1>3 DEF KeysRead
<1>6. k > KeySent(s) /\ KeySent(t) = k
  BY <1>1, <1>2, <1>3 DEF KeySent
<1> QED
  BY <1>4, <1>5, <1>6

LEMMA AdoptsShows ==
    ASSUME NEW s, NEW drawn \in Nat, Serving(s, drawn), Tidy(s),
           NEW l, Tidy(l), NEW n, Tidy(n), Following(s, l), NEW p, Adopts(l, n, p),
           Reads(s, n.latest), Held(l.latest) => l.latest.key < n.latest.key,
           NEW k, k = n.latest.key
    PROVE  /\ KeySent(n) = k /\ KeysRead(n) = KeysRead(l) \cup {k}
           /\ k \in KeysRead(s) /\ k > KeySent(l)
<1>1. n.latest.rx_installed /\ n.latest.tx_installed
  BY DEF Tidy, LatestOK, Held, Adopts
<1>2. k \in KeysRead(s)
  BY DEF Reads, KeysRead, Names
<1>3. k \in Nat /\ 0 < k
  BY ServerApart DEF Reads, Serving, Names, Held
<1>4. KeySent(n) = k
  BY <1>1 DEF KeySent
<1>5. CASE ~Held(l.latest)
  <2>1. /\ ~l.latest.rx_installed /\ ~l.latest.tx_installed
        /\ ~l.old.rx_installed /\ ~l.old.tx_installed /\ ~n.old.rx_installed
    BY <1>5, ClientApart DEF Tidy, LatestOK, OldOK, NoSak, Following, Adopts, Silent
  <2>2. KeysRead(l) = {} /\ KeysRead(n) = {k} /\ KeySent(l) = 0
    BY <1>1, <2>1 DEF KeysRead, KeySent
  <2> QED
    BY <1>2, <1>3, <1>4, <2>2
<1>6. CASE Held(l.latest)
  <2>1. /\ l.latest.rx_installed /\ l.latest.tx_installed /\ ~l.old.rx_installed
        /\ n.old.rx_installed /\ n.old.key = l.latest.key
    BY <1>6 DEF Tidy, LatestOK, NoSak, Adopts, Names
  <2>2. KeysRead(l) = {l.latest.key} /\ KeysRead(n) = {k, l.latest.key}
        /\ KeySent(l) = l.latest.key
    BY <1>1, <2>1 DEF KeysRead, KeySent
  <2>3. l.latest.key \in Nat
    BY <1>6, ClientApart, ServerApart DEF Following, Reads, Serving, Names, Held
  <2> QED
    BY <1>2, <1>3, <1>4, <1>6, <2>2, <2>3
<1> QED
  BY <1>5, <1>6

LEMMA ServerRetiresShows ==
    ASSUME NEW s, Tidy(s), NEW t, Tidy(t), Retires(s, t), NEW drawn \in Nat, Serving(s, drawn),
           NEW l, Tidy(l), Following(s, l), ~Follows(l, s.old), NEW k, k = s.old.key
    PROVE  /\ k \in KeysRead(s) /\ k # KeySent(s) /\ k # KeySent(l)
           /\ KeySent(t) = KeySent(s) /\ KeysRead(t) = KeysRead(s) \ {k}
<1>1. /\ s.latest.rx_installed /\ s.latest.tx_installed /\ s.old.rx_installed
      /\ t.latest.rx_installed /\ t.latest.tx_installed /\ ~t.old.rx_installed
      /\ t.latest.key = s.latest.key /\ s.old.state # "NONE" /\ s.latest.state # "NONE"
  BY DEF Retires, Tidy, LatestOK, OldOK, Held, SameKey, NoSak
<1>2. s.latest.key # k /\ k # 0
  BY <1>1, ServerApart DEF Serving
<1>3. KeysRead(s) = {s.latest.key, k} /\ KeysRead(t) = {s.latest.key}
      /\ KeySent(s) = s.latest.key /\ KeySent(t) = s.latest.key
  BY <1>1 DEF KeysRead, KeySent
<1>4. k # KeySent(l)
  <2>1. CASE Held(l.latest)
    <3>1. l.latest.tx_installed /\ l.latest.rx_installed /\ Reads(s, l.latest)
      BY <2>1 DEF Tidy, LatestOK, Following, Held
    <3>2. l.latest.key = s.latest.key
      BY <3>1 DEF Reads, Follows, Names
    <3> QED
      BY <1>2, <3>1, <3>2 DEF KeySent
  <2>2. CASE ~Held(l.latest)
    <3>1. ~l.latest.tx_installed /\ ~l.old.tx_installed
      BY <2>2, ClientApart DEF Tidy, LatestOK, OldOK, NoSak, Following
    <3> QED
      BY <1>2, <3>1 DEF KeySent
  <2> QED
    BY <2>1, <2>2
<1> QED
  BY <1>2, <1>3, <1>4

LEMMA ClientRetiresShows ==
    ASSUME NEW s, Tidy(s), NEW drawn \in Nat, Serving(s, drawn),
           NEW l, Tidy(l), NEW n, Tidy(n), Following(s, l), Retires(l, n), NEW k, k = l.old.key
    PROVE  /\ k \in KeysRead(l) /\ k # KeySent(l) /\ k # KeySent(s)
           /\ KeySent(n) = KeySent(l) /\ KeysRead(n) = KeysRead(l) \ {k}
<1>1. /\ l.latest.rx_installed /\ l.latest.tx_installed /\ l.old.rx_installed
      /\ n.latest.rx_installed /\ n.latest.tx_installed /\ ~n.old.rx_installed
      /\ n.latest.key = l.latest.key /\ l.old.state # "NONE" /\ l.latest.state # "NONE"
  BY DEF Retires, Tidy, LatestOK, OldOK, Held, SameKey, NoSak
<1>2. Reads(s, l.latest) /\ k \in Nat \ {0} /\ k < l.latest.key
  BY <1>1 DEF Following
<1>3. l.latest.key \in Nat
  BY <1>2, ServerApart DEF Reads, Serving, Names, Held
<1>4. KeysRead(l) = {l.latest.key, k} /\ KeysRead(n) = {l.latest.key}
      /\ KeySent(l) = l.latest.key /\ KeySent(n) = l.latest.key
  BY <1>1 DEF KeysRead, KeySent
<1>5. k # KeySent(s)
  <2>1. CASE s.latest.tx_installed
    <3>1. Held(s.latest) /\ s.latest.state # "NONE"
      BY <2>1 DEF Tidy, LatestOK, Held
    <3>2. s.latest.key \in Nat /\ (s.old.rx_installed => s.old.key \in Nat /\ s.old.key < s.latest.key)
      BY <3>1, ServerApart DEF Serving
    <3>3. \/ l.latest.key = s.latest.key
          \/ s.old.rx_installed /\ l.latest.key = s.old.key
      BY <1>2 DEF Reads, Names
    <3>4. k # s.latest.key
      BY <1>2, <1>3, <3>2, <3>3
    <3> QED
      BY <2>1, <3>4 DEF KeySent
  <2>2. CASE ~s.latest.tx_installed
    <3>1. ~s.latest.rx_installed
      BY <2>2 DEF Tidy, LatestOK
    <3>2. s.old.key = l.latest.key
      BY <1>2, <3>1 DEF Reads, Names
    <3> QED
      BY <1>2, <1>3, <2>2, <3>2 DEF KeySent
  <2> QED
    BY <2>1, <2>2
<1>6. k # l.latest.key
  BY <1>2, <1>3
<1> QED
  BY <1>4, <1>5, <1>6

LEMMA ForgottenShows ==
    ASSUME NEW n, n.latest = NoSak, n.old = NoSak
    PROVE  KeySent(n) = 0 /\ KeysRead(n) = {}
BY DEF NoSak, KeySent, KeysRead

-----------------------------------------------------------------------------
(* The steps of KeyAgreement *)

\* The frame layers show what the slots say, before and after the step.
Shown == \A n \in Node : Exact(c[n]) /\ Exact(c'[n])

LEMMA Views ==
    ASSUME Shown
    PROVE  \A n \in Node :
              /\ SentWith(n) = KeySent(c[n].mka) /\ ReceivedWith(n) = KeysRead(c[n].mka)
              /\ SentWith(n)' = KeySent(c'[n].mka) /\ ReceivedWith(n)' = KeysRead(c'[n].mka)
<1>1. SUFFICES ASSUME NEW n \in Node
      PROVE  /\ SentWith(n) = KeySent(c[n].mka) /\ ReceivedWith(n) = KeysRead(c[n].mka)
             /\ SentWith(n)' = KeySent(c'[n].mka) /\ ReceivedWith(n)' = KeysRead(c'[n].mka)
  OBVIOUS
<1>2. SentWith(n) = KeySent(c[n].mka) /\ ReceivedWith(n) = KeysRead(c[n].mka)
  BY FrameShows DEF Shown, SentWith, ReceivedWith
<1>3. SentWith(n)' = KeySent(c'[n].mka) /\ ReceivedWith(n)' = KeysRead(c'[n].mka)
  BY FrameShows DEF Shown, SentWith, ReceivedWith
<1> QED
  BY <1>2, <1>3

\* n's station shows what it showed.
SameShow(n) ==
    KeySent(c'[n].mka) = KeySent(c[n].mka) /\ KeysRead(c'[n].mka) = KeysRead(c[n].mka)

LEMMA NothingShown ==
    ASSUME Shown, \A n \in Node : SameShow(n)
    PROVE  UNCHANGED KA!kvars
<1>1. \A n \in Node : SentWith(n)' = SentWith(n) /\ ReceivedWith(n)' = ReceivedWith(n)
  BY Views DEF SameShow
<1> QED
  BY <1>1 DEF KA!kvars

LEMMA IssueShown ==
    ASSUME Shown, SameShow(Client), NEW k,
           KeySent(c'[Server].mka) = k,
           KeysRead(c'[Server].mka) = KeysRead(c[Server].mka) \cup {k},
           k > KeySent(c[Server].mka), \A old \in KeysRead(c[Server].mka) : old < k
    PROVE  KA!Next
<1> DEFINE tx == [n \in Node |-> SentWith(n)]
           rx == [n \in Node |-> ReceivedWith(n)]
<1>1. Node = {Server, Client} /\ Server # Client
  BY LinkAssumption DEF Node
<1>2. /\ SentWith(Server)' = k /\ ReceivedWith(Server)' = ReceivedWith(Server) \cup {k}
      /\ SentWith(Client)' = SentWith(Client) /\ ReceivedWith(Client)' = ReceivedWith(Client)
      /\ k > SentWith(Server) /\ \A old \in ReceivedWith(Server) : old < k
  BY <1>1, Views DEF SameShow
<1>3. KA!Issue(k)
  BY <1>1, <1>2 DEF KA!Issue
<1>4. k = tx'[Server]
  BY <1>1, <1>2
<1> QED
  BY <1>3, <1>4 DEF KA!Next

LEMMA AdoptShown ==
    ASSUME Shown, SameShow(Server), NEW k,
           KeySent(c'[Client].mka) = k,
           KeysRead(c'[Client].mka) = KeysRead(c[Client].mka) \cup {k},
           k \in KeysRead(c[Server].mka), k > KeySent(c[Client].mka)
    PROVE  KA!Next
<1>1. Node = {Server, Client} /\ Server # Client
  BY LinkAssumption DEF Node
<1>2. /\ SentWith(Client)' = k /\ ReceivedWith(Client)' = ReceivedWith(Client) \cup {k}
      /\ SentWith(Server)' = SentWith(Server) /\ ReceivedWith(Server)' = ReceivedWith(Server)
      /\ k > SentWith(Client) /\ k \in ReceivedWith(Server)
  BY <1>1, Views DEF SameShow
<1>3. KA!Adopt(k) /\ k \in [n \in Node |-> ReceivedWith(n)][Server]
  BY <1>1, <1>2 DEF KA!Adopt
<1> QED
  BY <1>3 DEF KA!Next

LEMMA RetireShown ==
    ASSUME Shown, NEW n \in Node, NEW o \in Node, o # n, SameShow(o), NEW k,
           KeySent(c'[n].mka) = KeySent(c[n].mka),
           KeysRead(c'[n].mka) = KeysRead(c[n].mka) \ {k},
           k \in KeysRead(c[n].mka), k # KeySent(c[n].mka), k # KeySent(c[o].mka)
    PROVE  KA!Next
<1>1. Node = {Server, Client} /\ Server # Client
  BY LinkAssumption DEF Node
<1>2. /\ SentWith(n)' = SentWith(n) /\ ReceivedWith(n)' = ReceivedWith(n) \ {k}
      /\ SentWith(o)' = SentWith(o) /\ ReceivedWith(o)' = ReceivedWith(o)
      /\ k \in ReceivedWith(n) /\ k # SentWith(n) /\ k # SentWith(o)
  BY <1>1, Views DEF SameShow
<1>3. \A a \in Node : a = n \/ a = o
  BY <1>1
<1>4. KA!Retire(n, o, k) /\ k \in [a \in Node |-> ReceivedWith(a)][n]
  BY <1>2, <1>3 DEF KA!Retire
<1>5. CASE n = Server
  BY <1>1, <1>4, <1>5 DEF KA!Next
<1>6. CASE n = Client
  BY <1>1, <1>4, <1>6 DEF KA!Next
<1> QED
  BY <1>1, <1>5, <1>6

LEMMA ForgetShown ==
    ASSUME Shown, SameShow(Server),
           KeySent(c'[Client].mka) = 0, KeysRead(c'[Client].mka) = {}
    PROVE  KA!Next
<1>1. Node = {Server, Client} /\ Server # Client
  BY LinkAssumption DEF Node
<1>2. /\ SentWith(Client)' = 0 /\ ReceivedWith(Client)' = {}
      /\ SentWith(Server)' = SentWith(Server) /\ ReceivedWith(Server)' = ReceivedWith(Server)
  BY <1>1, Views DEF SameShow
<1>3. KA!Forget
  BY <1>1, <1>2 DEF KA!Forget
<1> QED
  BY <1>3 DEF KA!Next

-----------------------------------------------------------------------------
(* The control part of the loop *)

\* What a station in m wrote is true of it in t, its MKPDU sent and reported.
LEMMA LetterSpeaks ==
    ASSUME NEW m, Tidy(m), m.latest.state # "DISTRIBUTED", NEW t, Tidy(t),
           \/ /\ SlotsKept(m, t)
              /\ IncludesDistributedSak(m) => m.latest.state # "DISTRIBUTION_PENDING"
           \/ Issues(m, t),
           NEW p, p = MkpduOf(m)
    PROVE  SpeaksOf(t, p)
<1>1. /\ p.dist = (IF IncludesDistributedSak(m) THEN WrittenDistributedSak(m) ELSE NoDist)
      /\ p.use = (IF IncludesSakUse(m) THEN WrittenSakUse(m) ELSE NoUse)
  BY DEF MkpduOf
<1>2. p.use.has # "bad" /\ (Claims(p) => m.latest.rx_installed /\ p.use.an = m.latest.an)
  <2>1. CASE IncludesSakUse(m)
    BY <1>1, <2>1 DEF WrittenSakUse, Claims
  <2>2. CASE ~IncludesSakUse(m)
    BY <1>1, <2>2 DEF NoUse, Claims
  <2> QED
    BY <2>1, <2>2
<1>3. p.dist.has = "dist" => IncludesDistributedSak(m) /\ Names(m.latest, p.dist)
  BY <1>1 DEF WrittenDistributedSak, NoDist, Names
<1>4. CASE /\ SlotsKept(m, t)
           /\ IncludesDistributedSak(m) => m.latest.state # "DISTRIBUTION_PENDING"
  <2>1. IncludesDistributedSak(m) => m.latest.rx_installed
    BY <1>4 DEF IncludesDistributedSak, Distributable, Tidy, LatestOK, Held
  <2> QED
    BY <1>2, <1>3, <1>4, <2>1 DEF SpeaksOf, SlotsKept
<1>5. CASE Issues(m, t)
  <2>1. ~m.latest.rx_installed /\ t.latest.rx_installed /\ Names(t.latest, m.latest)
    BY <1>5 DEF Issues, Tidy, LatestOK, Held
  <2> QED
    BY <1>2, <1>3, <2>1 DEF SpeaksOf, Names
<1> QED
  BY <1>4, <1>5

\* What one pass of tick, build, send and report does to the slots: the
\* participant m wrote the MKPDU, t is there when it is reported.
Passes(l, m, t, n, k, out) ==
    /\ Tidy(m) /\ Tidy(t)
    /\ Holds(l, m) \/ (Rotates(l, m, k) /\ n = Server)
    /\ Holds(m, t) \/ Issues(m, t)
    /\ out = <<>> \/ \E p : out = <<p>> /\ SpeaksOf(t, p)

LEMMA ControlMoves ==
    ASSUME ServerWins, NEW n \in Node, NEW b \in StartsOf(n), NEW x, Bridge(x, n, b),
           x.mka.latest.state # "CANDIDATE", NEW d \in Nat, NEW k \in Key,
           NEW send \in {"sent", "full", "refused"},
           NEW t, t = Tick(x, d), NEW u, u = AfterTick(t, k), send # "sent" => u.ret = "OK",
           NEW r, r = AfterBuild(u, send)
    PROVE  \/ /\ r.run = "io_error" /\ send = "refused" /\ r.out = <<>>
              /\ r.c = ZeroMacsec("MKA_PSK")
           \/ /\ r.run = "running" /\ Rested(r.c)
              /\ \E m : /\ Passes(x.mka, m, r.c.mka, n, k, r.out)
                        /\ RxExact(x.mka, x.fc) /\ Apart(x.mka) /\ Apart(m) /\ Apart(r.c.mka)
                           => RxExact(r.c.mka, r.c.fc)
<1>1. t.ret = "OK" /\ Bridge(t.c, n, b) /\ Rested(x)
  BY BridgeTick DEF Bridge
<1>2. u = BuildControlFrame(t.c, k)
  BY <1>1 DEF AfterTick
<1>3. /\ u.ret \in {"OK", "NOT_READY"}
      /\ u.ret = "OK" => Built(u.c, n, b)
      /\ u.ret = "NOT_READY" => Bridge(u.c, n, b)
  BY <1>1, <1>2, BridgeBuild
<1>4. SlotsKept(x.mka, t.c.mka) /\ t.c.mka.next_an = x.mka.next_an /\ t.c.fc = x.fc
  BY <1>1, TickMoves
<1>5. Rested(t.c) /\ Mates(t.c.mka, n, b) /\ ~t.c.meta.valid /\ MkaBase(t.c.mka)
      /\ t.c.mka.next_an \in MkaAN
  BY <1>1, RestedTidy DEF Bridge, Tidy
<1> DEFINE m == u.c.mka
<1>6. /\ Called(t.c, u.c) /\ u.c.fc = t.c.fc
      /\ \/ m = t.c.mka
         \/ /\ t.c.mka.latest.state = "NONE" /\ SameButSlots(t.c.mka, m)
            /\ m.latest = Generated(t.c.mka, k) /\ m.old = t.c.mka.old
            /\ t.c.mka.local_key_server /\ t.c.mka.peer.valid
  BY <1>2, <1>5, BuildControlFrameStep
<1>7. Holds(x.mka, m) \/ (Rotates(x.mka, m, k) /\ n = Server)
  <2>1. CASE m = t.c.mka
    BY <1>4, <2>1 DEF SlotsKept, Holds, SameKey
  <2>2. CASE m # t.c.mka
    <3>1. t.c.mka.next_an % MkaMaxSA = t.c.mka.next_an
      BY <1>5 DEF MkaAN, MkaMaxSA
    <3>2. /\ m.latest.state = "DISTRIBUTION_PENDING" /\ m.latest.key = k
          /\ m.latest.an = x.mka.next_an
      BY <1>4, <1>6, <2>2, <3>1 DEF Generated, GeneratedSak, NoSak
    <3>3. Rotates(x.mka, m, k)
      BY <1>4, <1>6, <2>2, <3>2 DEF Rotates, OldAfter, SlotsKept, SameButSlots, Held
    <3>4. n = Server
      BY <1>5, <1>6, <2>2, ServerIsElected
    <3> QED
      BY <3>3, <3>4
  <2> QED
    BY <2>1, <2>2
<1>8. Rested(u.c) /\ Tidy(m) /\ m.latest.state # "CANDIDATE" /\ m.latest.state # "DISTRIBUTED"
  <2>1. Rested(u.c)
    BY <1>6 DEF Called
  <2>2. m.latest.state # "CANDIDATE"
    BY <1>4, <1>6 DEF SlotsKept, Generated, GeneratedSak, NoSak
  <2> QED
    BY <2>1, <2>2, RestedTidy DEF Rested
<1>9. RxExact(x.mka, x.fc) /\ Apart(x.mka) /\ Apart(m) => RxExact(m, u.c.fc)
  <2>1. RxExact(x.mka, x.fc) /\ Apart(x.mka) => RxExact(t.c.mka, t.c.fc) /\ Apart(t.c.mka)
    BY <1>4 DEF SlotsKept, RxExact, Apart
  <2> QED
    BY <1>6, <2>1 DEF Called
<1>10. Holds(m, m)
  BY DEF Holds, SameKey
<1>11. CASE u.ret = "NOT_READY"
  <2>1. r.run = "running" /\ r.c = u.c /\ r.out = <<>>
    BY <1>11 DEF AfterBuild, Goes
  <2> HIDE DEF m
  <2>2. Passes(x.mka, m, m, n, k, r.out)
    BY <1>7, <1>8, <1>10, <2>1 DEF Passes
  <2> QED
    BY <1>8, <1>9, <2>1, <2>2 DEF m
<1>12. CASE u.ret = "OK" /\ send = "sent"
  <2> DEFINE y == NotifyControlTxSuccess(u.c)
             p == MkpduOf(m)
  <2>1. y.ret = "OK" /\ Bridge(y.c, n, b)
    BY <1>3, <1>12, BridgeSent
  <2>2. /\ \/ /\ SlotsKept(m, y.c.mka) /\ y.c.mka.next_an = m.next_an
              /\ IncludesDistributedSak(m) => m.latest.state # "DISTRIBUTION_PENDING"
           \/ Issues(m, y.c.mka)
        /\ RxExact(m, u.c.fc) /\ Apart(m) /\ Apart(y.c.mka) => RxExact(y.c.mka, y.c.fc)
    BY <1>3, <1>8, <1>12, ReportMoves
  <2>3. r = AfterReport(y, <<p>>)
    BY <1>12 DEF AfterBuild
  <2> HIDE DEF y, p
  <2>4. r.run = "running" /\ r.c = y.c /\ r.out = <<p>>
    BY <2>1, <2>3 DEF AfterReport, Goes
  <2>5. Rested(y.c) /\ Tidy(y.c.mka)
    BY <2>1, RestedTidy DEF Bridge
  <2>6. SpeaksOf(y.c.mka, p)
    BY <1>8, <2>2, <2>5, LetterSpeaks DEF p
  <2>7. Holds(m, y.c.mka) \/ Issues(m, y.c.mka)
    BY <2>2 DEF SlotsKept, Holds, SameKey
  <2> HIDE DEF m
  <2>8. Passes(x.mka, m, r.c.mka, n, k, r.out)
    BY <1>7, <1>8, <2>4, <2>5, <2>6, <2>7 DEF Passes
  <2> QED
    BY <1>9, <2>2, <2>4, <2>5, <2>8
<1>13. CASE u.ret = "OK" /\ send # "sent"
  <2> DEFINE y == NotifyControlTxFailure(u.c)
  <2>1. u.c.meta.valid
    BY <1>3, <1>13 DEF Built, MetaOf
  <2>2. /\ Rested(y.c) /\ y.c.fc = u.c.fc /\ SameButSlots(m, y.c.mka) /\ y.ret = "OK"
        /\ y.c.mka.latest = m.latest /\ y.c.mka.old = m.old
    BY <1>8, <2>1, NotifyControlTxFailureStep DEF Called
  <2>3. \/ r = AfterReport(y, <<>>)
        \/ r = AfterRefusal(y) /\ send = "refused"
    BY <1>13 DEF AfterBuild
  <2> HIDE DEF y
  <2>4. CASE r = AfterRefusal(y) /\ send = "refused"
    BY <2>2, <2>4 DEF AfterRefusal, Ends
  <2>5. CASE r = AfterReport(y, <<>>)
    <3>1. r.run = "running" /\ r.c = y.c /\ r.out = <<>>
      BY <2>2, <2>5 DEF AfterReport, Goes
    <3>2. Holds(m, y.c.mka) /\ Tidy(y.c.mka)
      BY <2>2, RestedTidy DEF Holds, SameKey, SameButSlots
    <3>3. RxExact(m, u.c.fc) => RxExact(y.c.mka, y.c.fc)
      BY <2>2 DEF RxExact, InRxSlot
    <3> HIDE DEF m
    <3>4. Passes(x.mka, m, r.c.mka, n, k, r.out)
      BY <1>7, <1>8, <3>1, <3>2 DEF Passes
    <3> QED
      BY <1>9, <2>2, <3>1, <3>3, <3>4
  <2> QED
    BY <2>3, <2>4, <2>5
<1> QED
  BY <1>3, <1>11, <1>12, <1>13

-----------------------------------------------------------------------------
(* The steps of the two bridges *)

\* What a step has to show.
Agrees == AgreeInv' /\ (KA!Next \/ UNCHANGED KA!kvars)

LEMMA TwoHosts ==
    /\ Node = {Server, Client} /\ Server # Client
    /\ Other(Server) = Client /\ Other(Client) = Server
BY OtherIs, LinkAssumption DEF Node

\* The steps that touch nothing but the wires, if these.
LEMMA WireAgrees ==
    ASSUME AgreeInv, UNCHANGED <<c, run, keys>>, faults' \subseteq faults,
           \A n \in Node : wire'[n] = wire[n] \/ Thinner(wire[n], wire'[n], 0)
    PROVE  Agrees
<1> DEFINE s == c[Server].mka
           l == c[Client].mka
<1>1. UNCHANGED KA!kvars
  BY DEF KA!kvars, SentWith, ReceivedWith
<1>2. /\ \A t : WireOK(t, wire[Server]) => WireOK(t, wire'[Server])
      /\ \A q : Without(wire[Server], q) => Without(wire'[Server], q)
  BY TwoHosts, ThinnerWire
<1>3. /\ \A t : WireOK(t, Coming) => WireOK(t, Coming')
      /\ \A q : Without(Coming, q) => Without(Coming', q)
  BY TwoHosts, ThinnerWire DEF Coming
<1>4. Agreed(s, l, wire'[Server], Coming', keys)
  BY <1>2, <1>3 DEF AgreeInv, Agreed, Passed
<1>5. AgreeInv'
  BY <1>4 DEF AgreeInv
<1> QED
  BY <1>1, <1>5 DEF Agrees

LEMMA PollAgrees ==
    ASSUME AgreeInv, NEW n \in Node, Poll(n)
    PROVE  Agrees
BY WireAgrees DEF Poll

LEMMA ElapseAgrees ==
    ASSUME AgreeInv, Elapse
    PROVE  Agrees
BY WireAgrees DEF Elapse

LEMMA LoseAgrees ==
    ASSUME AgreeInv, LinkInv, NEW n \in Node, Lose(n)
    PROVE  Agrees
<1> DEFINE letters == Letters(n)
           s == wire[n]
           w == Front(s)
<1>1. s \in Seq(letters) /\ n \in DOMAIN wire
  BY DEF LinkInv, LinkTypeOK, NodeOK
<1>2. /\ Len(s) > (IF pc[n] \in {"readable", "receive"} THEN 1 ELSE 0)
      /\ wire' = [wire EXCEPT ![n] = w]
      /\ UNCHANGED <<c, run, keys>> /\ faults' \subseteq faults
  BY DEF Lose, Spends
<1> HIDE DEF letters, s
<1> DEFINE m == Len(s) - 1
<1>3. m \in Nat /\ Len(s) = m + 1 /\ w = SubSeq(s, 1, m)
  <2>1. Len(s) \in Nat /\ Len(s) >= 1
    BY <1>1, <1>2
  <2> QED
    BY <2>1 DEF Front
<1> HIDE DEF m, w
<1>4. \A i \in 1 .. m : s[i] \in letters
  <2>1. \A i \in 1 .. m : i \in 1 .. Len(s)
    BY <1>3
  <2> QED
    BY <1>1, <2>1
<1>5. Len(w) = m /\ \A i \in 1 .. m : w[i] = s[i]
  <2>1. /\ Len(w) = (IF 1 <= m THEN m - 1 + 1 ELSE 0)
        /\ \A i \in 1 .. (m - 1 + 1) : w[i] = s[1 + i - 1]
    BY <1>3, <1>4, SubSeqProperties
  <2> QED
    BY <1>3, <2>1
<1>6. Thinner(s, w, 0)
  BY <1>3, <1>5 DEF Thinner
<1>7. \A o \in Node : wire'[o] = wire[o] \/ Thinner(wire[o], wire'[o], 0)
  BY <1>1, <1>2, <1>6 DEF s, LinkInv, LinkTypeOK
<1> QED
  BY <1>2, <1>7, WireAgrees

LEMMA DamageAgrees ==
    ASSUME AgreeInv, LinkInv, NEW n \in Node, NEW what, Damage(n, what)
    PROVE  Agrees
<1> DEFINE letters == Letters(n)
           s == wire[n]
           p == Damaged(s[1], what)
           w == [s EXCEPT ![1] = p]
<1>1. s \in Seq(letters) /\ s # <<>> /\ n \in DOMAIN wire
  BY DEF LinkInv, LinkTypeOK, NodeOK, Damage
<1>2. wire' = [wire EXCEPT ![n] = w] /\ UNCHANGED <<c, run, keys>> /\ faults' \subseteq faults
  BY DEF Damage, Spends
<1>3. s[1] \in Letters(n)
  <2> HIDE DEF letters, s
  <2>1. s[1] \in letters
    BY <1>1
  <2> QED
    BY <2>1 DEF letters
<1> HIDE DEF s
<1>4. p.dist = s[1].dist /\ p.use = s[1].use
  BY <1>3 DEF Letters, MkpduRec, Damaged
<1> HIDE DEF letters, p
<1>5. Len(s) \in Nat /\ Len(w) = Len(s) /\ w[1] = p /\ \A i \in 1 .. Len(s) : i # 1 => w[i] = s[i]
  <2>1. 1 \in 1 .. Len(s) /\ Len(s) \in Nat
    BY <1>1
  <2> QED
    BY <1>1, <2>1
<1> HIDE DEF w
<1>6. Thinner(s, w, 0)
  BY <1>4, <1>5 DEF Thinner
<1>7. \A o \in Node : wire'[o] = wire[o] \/ Thinner(wire[o], wire'[o], 0)
  BY <1>1, <1>2, <1>6 DEF s, LinkInv, LinkTypeOK
<1> QED
  BY <1>2, <1>7, WireAgrees

\* macsec_init leaves a station without keys.
LEMMA StartedExact ==
    ASSUME NEW n \in Node, NEW b \in StartsOf(n), NEW x, x = Started(n, b)
    PROVE  Exact(x) /\ x.mka.latest = NoSak /\ x.mka.old = NoSak
<1> DEFINE mi == 2 * b + n
           prio == Prio[n][b]
<1>1. n \in Nat /\ mi \in Nat /\ prio \in Nat
  BY PrioType
<1>2. x = MacsecInit("MKA_PSK", n, mi, prio)
  BY DEF Started
<1> HIDE DEF mi, prio
<1>3. Rested(x) /\ RxExact(x.mka, x.fc) /\ x.mka.latest = NoSak /\ x.mka.old = NoSak
  BY <1>1, <1>2, InitMkaPsk
<1> QED
  BY <1>3, RestedTidy DEF Exact

\* So does macsec_clear.
LEMMA ZeroExact ==
    ASSUME NEW x, x = ZeroMacsec("MKA_PSK")
    PROVE  Exact(x) /\ x.mka.latest = NoSak /\ x.mka.old = NoSak
<1>1. x.mka = ZeroMka /\ x.fc = ClearedCtx
  BY DEF ZeroMacsec
<1>2. ZeroMka.latest = NoSak /\ ZeroMka.old = NoSak /\ ZeroMka.next_an = 0
  BY DEF ZeroMka
<1>3. Tidy(ZeroMka)
  BY <1>2, NoSakOK DEF Tidy, MkaAN, MkaMaxSA
<1>4. Slots(ZeroMka, ClearedCtx) /\ RxExact(ZeroMka, ClearedCtx)
  BY <1>2 DEF Slots, TxMatches, RxMatches, RxExact, ClearedCtx, NoSak, NoTxSak, NoRxSak
<1> QED
  BY <1>1, <1>2, <1>3, <1>4 DEF Exact

\* The Client lost all it had.
LEMMA ForgetAgrees ==
    ASSUME AgreeInv, Exact(c'[Client]), c'[Client].mka.latest = NoSak,
           c'[Client].mka.old = NoSak, c'[Server] = c[Server], run'[Server] = run[Server],
           run'[Client] # "failed", faults' \subseteq faults, wire'[Server] = wire[Server],
           Coming' = <<>>, keys \in Nat, keys' \in {keys, keys + 1}
    PROVE  Agrees
<1> DEFINE s == c[Server].mka
           l == c[Client].mka
           n == c'[Client].mka
<1>1. Agreed(s, l, wire[Server], Coming, keys) /\ Tidy(s)
  BY TwoHosts DEF AgreeInv, Exact
<1>2. Holds(s, s)
  BY DEF Holds, SameKey
<1>3. Agreed(s, l, wire[Server], Coming, keys')
  BY <1>1, <1>2, ServerHolds
<1>4. Agreed(s, n, wire[Server], <<>>, keys')
  BY <1>3, ClientForgets
<1>5. AgreeInv' /\ Shown
  BY <1>4, TwoHosts DEF AgreeInv, Shown
<1>6. SameShow(Server) /\ KeySent(n) = 0 /\ KeysRead(n) = {}
  BY ForgottenShows DEF SameShow
<1>7. KA!Next
  BY <1>5, <1>6, ForgetShown
<1> QED
  BY <1>5, <1>7 DEF Agrees

LEMMA RestartAgrees ==
    ASSUME ServerStays, AgreeInv, LinkInv, LinkInv', NEW n \in Node, Restart(n)
    PROVE  Agrees
<1>1. n = Client
  <2>1. PICK f \in faults : f[1] = "restart" /\ f[2] = n
    BY DEF Restart, Spends
  <2>2. f[2] # Server
    BY <2>1 DEF AgreeInv, ServerStays
  <2> QED
    BY <2>1, <2>2, TwoHosts
<1>2. /\ c'[Client] = Started(Client, boots[Client] + 1) /\ boots'[Client] = boots[Client] + 1
      /\ c'[Server] = c[Server] /\ run'[Server] = run[Server] /\ run'[Client] = "running"
      /\ wire'[Server] = wire[Server] /\ wire'[Client] = <<>> /\ keys' = keys /\ keys \in Nat
      /\ faults' \subseteq faults
  BY <1>1, TwoHosts DEF Restart, Spends, LinkInv, LinkTypeOK
<1>3. boots[Client] + 1 \in StartsOf(Client)
  BY <1>2, TwoHosts DEF LinkInv, NodeOK
<1>4. Exact(c'[Client]) /\ c'[Client].mka.latest = NoSak /\ c'[Client].mka.old = NoSak
  BY <1>2, <1>3, TwoHosts, StartedExact
<1> QED
  BY <1>2, <1>4, ForgetAgrees DEF Coming

LEMMA AppendedLonger ==
    ASSUME NEW S, NEW w \in Seq(S), NEW p, <<p>> \in Seq(S), NEW v, v = w \o <<p>>
    PROVE  Longer(w, v, p) /\ p \in S
<1>1. p \in S
  <2>1. Len(<<p>>) = 1 /\ <<p>>[1] = p
    OBVIOUS
  <2>2. <<p>>[1] \in S
    BY <2>1
  <2> QED
    BY <2>1, <2>2
<1>2. Len(w) \in Nat /\ Len(v) = Len(w) + 1
  BY <1>1
<1>3. \A i \in 1 .. Len(w) : v[i] = w[i]
  BY <1>1
<1>4. v[Len(w) + 1] = p
  BY <1>1
<1> QED
  BY <1>1, <1>2, <1>3, <1>4 DEF Longer

LEMMA TailRest ==
    ASSUME NEW S, NEW w \in Seq(S), w # <<>>, NEW v, v = Tail(w)
    PROVE  /\ Len(w) \in Nat /\ 1 <= Len(w) /\ Len(v) = Len(w) - 1 /\ Head(w) = w[1]
           /\ w[1] \in S
           /\ \A i \in 1 .. Len(v) : v[i] = w[i + 1]
           /\ Thinner(w, v, 1)
<1>1. Len(w) \in Nat /\ 1 <= Len(w) /\ Len(v) = Len(w) - 1 /\ Head(w) = w[1]
  OBVIOUS
<1>2. w[1] \in S
  BY <1>1
<1>3. \A i \in 1 .. Len(v) : v[i] = w[i + 1]
  OBVIOUS
<1> QED
  BY <1>1, <1>2, <1>3 DEF Thinner

\* At most one key is drawn, and it is counted when it is there.
LEMMA DrawsOne ==
    ASSUME NEW n, NEW x, Draws(n, x), keys \in Nat
    PROVE  keys' \in {keys, keys + 1} /\ (x.mka.latest.key = Drawn => keys' = keys + 1)
BY DEF Draws, Drawn

LEMMA ServerServes ==
    ASSUME KeySupply, ServerWins, AgreeInv, LinkInv, LinkInv', NEW send \in {"sent", "full"},
           ControlService(Server, send), faults' \subseteq faults
    PROVE  Agrees
<1> DEFINE x == c[Server]
           s == x.mka
           l == c[Client].mka
           b == boots[Server]
<1>1. PICK t, u, r :
          /\ t = Tick(x, due[Server]) /\ u = AfterTick(t, Drawn) /\ r = AfterBuild(u, send)
          /\ send # "sent" => u.ret = "OK"
          /\ ServiceWith(Server, r)
  BY DEF ControlService
<1>2. /\ Bridge(x, Server, b) /\ b \in StartsOf(Server) /\ due[Server] \in Nat
      /\ keys \in Nat /\ Server \in Node /\ Client \in Node
      /\ wire[Client] \in Seq(Letters(Client))
  BY TwoHosts DEF LinkInv, LinkTypeOK, NodeOK, AgreeInv
<1>3. Drawn \in Key /\ Drawn = keys + 1
  BY <1>2 DEF Drawn, KeySupply
<1>4. /\ Agreed(s, l, wire[Server], Coming, keys) /\ Exact(x) /\ Tidy(s) /\ Tidy(l)
      /\ s.latest.state # "CANDIDATE" /\ Serving(s, keys)
  BY <1>2 DEF AgreeInv, Exact, Agreed, Serving
<1>5. LoopOK(r, Server, b)
  BY <1>1, <1>2, <1>3, ControlLoop
<1>6. PICK m : /\ Passes(s, m, r.c.mka, Server, Drawn, r.out)
               /\ RxExact(s, x.fc) /\ Apart(s) /\ Apart(m) /\ Apart(r.c.mka)
                     => RxExact(r.c.mka, r.c.fc)
  BY <1>1, <1>2, <1>3, <1>4, ControlMoves
<1>7. r.run = "running" /\ Rested(r.c)
  BY <1>1, <1>2, <1>3, <1>4, ControlMoves
<1> DEFINE z == r.c.mka
<1>8. /\ c'[Server] = r.c /\ c'[Client] = c[Client]
      /\ run'[Server] = run[Server] /\ run'[Client] = run[Client]
      /\ wire'[Server] = wire[Server]
      /\ wire'[Client] = (IF run[Client] # "running" THEN wire[Client] ELSE wire[Client] \o r.out)
      /\ Draws(Server, r.c)
  <2>1. /\ c'[Server] = r.c /\ c'[Client] = c[Client] /\ Draws(Server, r.c)
    BY <1>1, TwoHosts DEF ServiceWith, LinkInv, LinkTypeOK
  <2>2. run' = [run EXCEPT ![Server] = "running"] /\ run[Server] = "running"
    BY <1>1, <1>7 DEF ServiceWith, AgreeInv
  <2>3. run'[Server] = run[Server] /\ run'[Client] = run[Client]
    BY <2>2, TwoHosts DEF LinkInv, LinkTypeOK
  <2>4. wire' = (IF run[Client] # "running" THEN wire
                 ELSE [wire EXCEPT ![Client] = @ \o r.out])
    BY <1>1, TwoHosts DEF ServiceWith, Carries
  <2>5. /\ wire'[Server] = wire[Server]
        /\ wire'[Client] = (IF run[Client] # "running" THEN wire[Client]
                            ELSE wire[Client] \o r.out)
    BY <2>4, TwoHosts DEF LinkInv, LinkTypeOK
  <2> QED
    BY <2>1, <2>3, <2>5
<1> HIDE DEF x, s, l
<1>9. keys' \in {keys, keys + 1} /\ (z.latest.key = Drawn => keys' = keys + 1)
  BY <1>2, <1>8, DrawsOne
<1>10. Tidy(m) /\ Tidy(z) /\ (Holds(m, z) \/ Issues(m, z)) /\ keys' \in Nat
       /\ (Holds(s, m) \/ Rotates(s, m, keys + 1))
  BY <1>2, <1>3, <1>6, <1>9 DEF Passes
<1>11. Agreed(m, l, wire[Server], Coming, keys')
  <2>1. CASE Holds(s, m)
    BY <1>2, <1>4, <1>9, <1>10, <2>1, ServerHolds
  <2>2. CASE Rotates(s, m, keys + 1)
    <3>1. z.latest.key = m.latest.key
      BY <1>10 DEF Holds, SameKey, Issues, Names
    <3>2. m.latest.state # "NONE" => m.latest.key = Drawn
      BY <1>3, <2>2 DEF Rotates
    <3> QED
      BY <1>2, <1>4, <1>9, <1>10, <2>2, <3>1, <3>2, ServerRotates
  <2> QED
    BY <1>10, <2>1, <2>2
<1>12. Agreed(z, l, wire[Server], Coming, keys')
  <2>1. CASE Holds(m, z)
    BY <1>10, <1>11, <2>1, ServerHolds
  <2>2. CASE Issues(m, z)
    BY <1>4, <1>10, <1>11, <2>2, ServerIssues
  <2> QED
    BY <1>10, <2>1, <2>2
<1>13. Agreed(z, l, wire'[Server], Coming', keys')
  <2>1. CASE run[Client] # "running"
    BY <1>8, <1>12, <2>1 DEF Coming
  <2>2. CASE run[Client] = "running" /\ r.out = <<>>
    <3>1. wire[Client] \o <<>> = wire[Client]
      BY <1>2
    <3> QED
      BY <1>8, <1>12, <2>2, <3>1 DEF Coming
  <2>3. ASSUME run[Client] = "running", NEW p, r.out = <<p>>, SpeaksOf(z, p)
        PROVE  Agreed(z, l, wire'[Server], Coming', keys')
    <3> DEFINE letters == Letters(Client)
    <3>1. r.out \in Seq(letters) /\ wire[Client] \in Seq(letters)
      BY <1>2, <1>5, TwoHosts DEF LoopOK
    <3>2. /\ wire'[Client] = wire[Client] \o <<p>> /\ <<p>> \in Seq(letters)
          /\ Coming = wire[Client] /\ Coming' = wire'[Client]
      BY <1>8, <2>3, <3>1 DEF Coming
    <3> HIDE DEF letters
    <3>3. Longer(wire[Client], wire'[Client], p)
      BY <3>1, <3>2, AppendedLonger
    <3>4. Longer(Coming, Coming', p)
      BY <3>2, <3>3
    <3> QED
      BY <1>8, <1>10, <1>12, <2>3, <3>4, ServerWrites
  <2> QED
    BY <1>6, <2>1, <2>2, <2>3 DEF Passes
<1>14. Exact(r.c)
  <2>1. Apart(s) /\ Apart(m) /\ Apart(z)
    BY <1>2, <1>4, <1>10, <1>11, <1>12, ServerApart DEF Agreed
  <2> QED
    BY <1>4, <1>6, <1>7, <2>1, RestedTidy DEF Exact, s
<1>15. AgreeInv' /\ Shown
  BY <1>8, <1>13, <1>14, TwoHosts DEF AgreeInv, Shown, l
<1>16. KeySent(m) = KeySent(s) /\ KeysRead(m) = KeysRead(s)
  BY <1>4, <1>10, HoldsShows, RotatesShows
<1>17. SameShow(Client)
  BY <1>8 DEF SameShow
<1>18. CASE Holds(m, z)
  <2>1. SameShow(Server)
    BY <1>8, <1>16, <1>18, HoldsShows DEF SameShow, s, x
  <2> QED
    BY <1>15, <1>17, <2>1, NothingShown, TwoHosts DEF Agrees
<1>19. CASE Issues(m, z)
  <2> DEFINE k == z.latest.key
  <2>1. /\ KeySent(z) = k /\ KeysRead(z) = KeysRead(s) \cup {k}
        /\ k > KeySent(s) /\ \A old \in KeysRead(s) : old < k
    BY <1>10, <1>11, <1>16, <1>19, IssuesShows DEF Agreed
  <2> HIDE DEF k
  <2>2. KA!Next
    BY <1>8, <1>15, <1>17, <2>1, IssueShown DEF s, x
  <2> QED
    BY <1>15, <2>2 DEF Agrees
<1> QED
  BY <1>10, <1>18, <1>19

LEMMA ClientServes ==
    ASSUME KeySupply, ServerWins, AgreeInv, LinkInv, LinkInv',
           NEW send \in {"sent", "full", "refused"},
           ControlService(Client, send), faults' \subseteq faults
    PROVE  Agrees
<1> DEFINE x == c[Client]
           s == c[Server].mka
           l == x.mka
           b == boots[Client]
<1>1. PICK t, u, r :
          /\ t = Tick(x, due[Client]) /\ u = AfterTick(t, Drawn) /\ r = AfterBuild(u, send)
          /\ send # "sent" => u.ret = "OK"
          /\ ServiceWith(Client, r)
  BY DEF ControlService
<1>2. /\ Server \in Node /\ Client \in Node
      /\ pc[Client] \in {"readable", "timeout"} /\ run[Client] = "running"
      /\ Bridge(x, Client, b) /\ b \in StartsOf(Client) /\ due[Client] \in Nat
      /\ keys \in Nat /\ wire[Server] \in Seq(Letters(Server)) /\ run[Server] = "running"
  BY TwoHosts DEF LinkInv, LinkTypeOK, NodeOK, AgreeInv, ControlService
<1>3. Drawn \in Key
  BY <1>2 DEF Drawn, KeySupply
<1>4. /\ Agreed(s, l, wire[Server], Coming, keys) /\ Exact(x) /\ Tidy(s) /\ Tidy(l)
      /\ l.latest.state # "CANDIDATE" /\ Following(s, l) /\ Serving(s, keys)
  BY <1>2 DEF AgreeInv, Exact, Agreed, Following
<1>5. LoopOK(r, Client, b)
  BY <1>1, <1>2, <1>3, ControlLoop
<1>6. /\ c'[Client] = r.c /\ c'[Server] = c[Server] /\ run'[Server] = run[Server]
      /\ run'[Client] = r.run /\ wire'[Client] = wire[Client]
      /\ wire'[Server] = wire[Server] \o r.out /\ Draws(Client, r.c)
  <2>1. /\ c'[Client] = r.c /\ c'[Server] = c[Server] /\ Draws(Client, r.c)
        /\ run'[Server] = run[Server] /\ run'[Client] = r.run
    BY <1>1, TwoHosts DEF ServiceWith, LinkInv, LinkTypeOK
  <2>2. wire' = [wire EXCEPT ![Server] = @ \o r.out]
    BY <1>1, <1>2, TwoHosts DEF ServiceWith, Carries
  <2>3. wire'[Client] = wire[Client] /\ wire'[Server] = wire[Server] \o r.out
    BY <2>2, TwoHosts DEF LinkInv, LinkTypeOK
  <2> QED
    BY <2>1, <2>3
<1>7. keys' \in {keys, keys + 1} /\ keys' \in Nat
  BY <1>2, <1>6, DrawsOne
<1>8. wire[Server] \o <<>> = wire[Server]
  BY <1>2
<1>9. \/ r.run = "io_error" /\ r.out = <<>> /\ r.c = ZeroMacsec("MKA_PSK")
      \/ /\ r.run = "running" /\ Rested(r.c)
         /\ \E m : /\ Passes(l, m, r.c.mka, Client, Drawn, r.out)
                   /\ RxExact(l, x.fc) /\ Apart(l) /\ Apart(m) /\ Apart(r.c.mka)
                         => RxExact(r.c.mka, r.c.fc)
  BY <1>1, <1>2, <1>3, <1>4, ControlMoves
<1> HIDE DEF x, s, l
<1>10. CASE r.run = "io_error" /\ r.out = <<>> /\ r.c = ZeroMacsec("MKA_PSK")
  <2>1. Coming' = <<>> /\ run'[Client] # "failed" /\ wire'[Server] = wire[Server]
    BY <1>6, <1>8, <1>10 DEF Coming
  <2>2. Exact(c'[Client]) /\ c'[Client].mka.latest = NoSak /\ c'[Client].mka.old = NoSak
    BY <1>6, <1>10, ZeroExact
  <2> QED
    BY <1>2, <1>6, <1>7, <2>1, <2>2, ForgetAgrees
<1>11. ASSUME r.run = "running", Rested(r.c), NEW m, Passes(l, m, r.c.mka, Client, Drawn, r.out),
              RxExact(l, x.fc) /\ Apart(l) /\ Apart(m) /\ Apart(r.c.mka) => RxExact(r.c.mka, r.c.fc)
       PROVE  Agrees
  <2> DEFINE z == r.c.mka
  <2>1. Tidy(m) /\ Tidy(z) /\ (Holds(m, z) \/ Issues(m, z)) /\ Holds(l, m)
    BY <1>11, TwoHosts DEF Passes
  <2>2. Holds(s, s)
    BY DEF Holds, SameKey
  <2>3. Agreed(s, l, wire[Server], Coming, keys')
    BY <1>2, <1>4, <1>7, <2>2, ServerHolds
  <2>4. Agreed(s, m, wire[Server], Coming, keys')
    BY <2>1, <2>3, ClientHolds
  <2>5. Holds(m, z)
    BY <2>1, <2>4 DEF Agreed, Following, Issues
  <2>6. Agreed(s, z, wire[Server], Coming, keys')
    BY <2>4, <2>5, ClientHolds
  <2>7. Coming' = Coming
    BY <1>2, <1>6, <1>11 DEF Coming
  <2>8. Agreed(s, z, wire'[Server], Coming', keys')
    <3>1. CASE r.out = <<>>
      BY <1>6, <1>8, <2>6, <2>7, <3>1
    <3>2. ASSUME NEW p, r.out = <<p>>, SpeaksOf(z, p) PROVE Agreed(s, z, wire'[Server], Coming', keys')
      <4> DEFINE letters == Letters(Server)
      <4>1. r.out \in Seq(letters) /\ wire[Server] \in Seq(letters)
        BY <1>2, <1>5, TwoHosts DEF LoopOK
      <4> HIDE DEF letters
      <4>2. Longer(wire[Server], wire'[Server], p) /\ p \in letters
        BY <1>6, <3>2, <4>1, AppendedLonger
      <4>3. p.dist.has # "dist"
        BY <4>2 DEF letters, Letters
      <4> QED
        BY <1>4, <1>7, <2>1, <2>6, <2>7, <3>2, <4>2, <4>3, ClientWrites
    <3> QED
      BY <1>11, <3>1, <3>2 DEF Passes
  <2>9. Exact(r.c)
    <3>1. Apart(l) /\ Apart(m) /\ Apart(z)
      BY <1>4, <2>1, <2>4, <2>6, ClientApart DEF Agreed
    <3> QED
      BY <1>4, <1>11, <3>1, RestedTidy DEF Exact, l
  <2>10. AgreeInv' /\ Shown
    BY <1>6, <1>11, <2>8, <2>9, TwoHosts DEF AgreeInv, Shown, s
  <2>11. SameShow(Server) /\ SameShow(Client)
    BY <1>6, <2>1, <2>5, HoldsShows DEF SameShow, l, x
  <2> QED
    BY <2>10, <2>11, NothingShown, TwoHosts DEF Agrees
<1> QED
  BY <1>9, <1>10, <1>11

LEMMA ServerReads ==
    ASSUME KeySupply, ServerWins, AgreeInv, LinkInv, LinkInv', Receive(Server)
    PROVE  Agrees
<1> DEFINE x == c[Server]
           s == x.mka
           l == c[Client].mka
           up == wire[Server]
           p == up[1]
           rest == Tail(up)
           letters == Letters(Server)
<1>1. /\ up \in Seq(letters) /\ up # <<>> /\ Rested(x) /\ keys \in Nat
      /\ Server \in Node /\ Client \in Node
  BY TwoHosts DEF LinkInv, LinkTypeOK, NodeOK, AgreeInv, Bridge, Receive
<1> HIDE DEF letters
<1>2. /\ Len(up) \in Nat /\ 1 <= Len(up) /\ Len(rest) = Len(up) - 1 /\ Head(up) = p
      /\ p \in letters /\ \A i \in 1 .. Len(rest) : rest[i] = up[i + 1]
  BY <1>1, TailRest
<1>a. Thinner(up, rest, 1)
  BY <1>1, TailRest
<1>3. p \in MkpduRec /\ p.dist.has # "dist"
  BY <1>2 DEF letters, Letters
<1>4. PICK r : r = InputMkpdu(x, p, Drawn) /\ ReceiveWith(Server, r)
  BY <1>2 DEF Receive
<1>5. /\ c'[Server] = r.c /\ c'[Client] = c[Client] /\ run' = run /\ faults' = faults
      /\ wire'[Server] = rest /\ wire'[Client] = wire[Client] /\ Draws(Server, r.c)
  BY <1>1, <1>4, TwoHosts DEF Receive, ReceiveWith, LinkInv, LinkTypeOK
<1>6. Drawn \in Key \cup {NoKey} /\ Drawn = keys + 1
  BY <1>1 DEF Drawn, KeySupply
<1> DEFINE z == r.c.mka
<1>7. keys' \in {keys, keys + 1} /\ keys' \in Nat /\ (z.latest.key = Drawn => keys' = keys + 1)
  BY <1>1, <1>5, DrawsOne
<1>8. /\ Agreed(s, l, up, Coming, keys) /\ Exact(x) /\ Tidy(s) /\ Tidy(l)
      /\ s.latest.state # "CANDIDATE" /\ Serving(s, keys) /\ Following(s, l)
  BY <1>1 DEF AgreeInv, Exact, Agreed, Serving
<1>9. p.use.has # "bad"
  <2>1. 1 \in 1 .. Len(up)
    BY <1>2
  <2> QED
    BY <1>8, <2>1 DEF Agreed, WireOK, Timely
<1>10. /\ \/ Holds(s, z)
          \/ Rotates(s, z, Drawn)
          \/ Retires(s, z) /\ Claims(p) /\ p.use.an = s.latest.an
          \/ Adopts(s, z, p)
       /\ RxExact(s, x.fc) /\ Apart(s) /\ Apart(z) => RxExact(z, r.c.fc)
  BY <1>1, <1>3, <1>4, <1>6, <1>8, <1>9, InputMovesStep
<1>11. Rested(r.c) /\ Tidy(z)
  <2>1. Rested(c'[Server])
    BY <1>1, <1>5 DEF LinkInv, NodeOK, AgreeInv, Bridge
  <2> QED
    BY <1>5, <2>1, RestedTidy
<1>12. Coming' = Coming
  BY <1>5 DEF Coming
<1> HIDE DEF x, s, l, up, p, rest
<1>b. Thinner(Coming, Coming, 0)
  <2> DEFINE others == Letters(Client)
  <2>1. Coming \in Seq(others)
    BY <1>1 DEF Coming, LinkInv, NodeOK
  <2> HIDE DEF others
  <2>2. Len(Coming) \in Nat
    BY <2>1
  <2> QED
    BY <2>2 DEF Thinner
<1>13. SameShow(Client)
  BY <1>5 DEF SameShow
<1>14. ASSUME Agreed(z, l, rest, Coming, keys') PROVE AgreeInv' /\ Shown
  <2>1. Serving(z, keys')
    BY <1>14 DEF Agreed
  <2>2. Apart(s) /\ Apart(z)
    BY <1>1, <1>7, <1>8, <1>11, <2>1, ServerApart
  <2>3. Exact(r.c)
    BY <1>8, <1>10, <1>11, <2>2, RestedTidy DEF Exact, s
  <2> QED
    BY <1>5, <1>12, <1>14, <2>3, TwoHosts DEF AgreeInv, Shown, l
<1>15. ASSUME Agreed(z, l, up, Coming, keys') PROVE Agreed(z, l, rest, Coming, keys')
  BY <1>15, <1>a, <1>b, AgreedThinner
<1>16. CASE Holds(s, z)
  <2>1. Agreed(z, l, up, Coming, keys')
    BY <1>1, <1>7, <1>8, <1>11, <1>16, ServerHolds
  <2>2. SameShow(Server)
    BY <1>5, <1>16, HoldsShows DEF SameShow, s, x
  <2> QED
    BY <1>13, <1>14, <1>15, <2>1, <2>2, NothingShown, TwoHosts DEF Agrees
<1>17. CASE Rotates(s, z, Drawn)
  <2>1. z.latest.state # "NONE" => keys' = keys + 1
    BY <1>7, <1>17 DEF Rotates
  <2>2. Agreed(z, l, up, Coming, keys')
    BY <1>1, <1>6, <1>7, <1>8, <1>11, <1>17, <2>1, ServerRotates
  <2>3. SameShow(Server)
    BY <1>5, <1>8, <1>11, <1>17, RotatesShows DEF SameShow, s, x
  <2> QED
    BY <1>13, <1>14, <1>15, <2>2, <2>3, NothingShown, TwoHosts DEF Agrees
<1>18. CASE Retires(s, z) /\ Claims(p) /\ p.use.an = s.latest.an
  <2> DEFINE k == s.old.key
  <2>1. Agreed(z, l, rest, Coming, keys) /\ ~Follows(l, s.old)
    BY <1>1, <1>2, <1>8, <1>11, <1>18, ServerRetires DEF p
  <2>2. Holds(z, z)
    BY DEF Holds, SameKey
  <2>3. Agreed(z, l, rest, Coming, keys')
    BY <1>1, <1>7, <1>11, <2>1, <2>2, ServerHolds
  <2>4. /\ k \in KeysRead(s) /\ k # KeySent(s) /\ k # KeySent(l)
        /\ KeySent(z) = KeySent(s) /\ KeysRead(z) = KeysRead(s) \ {k}
    BY <1>1, <1>8, <1>11, <1>18, <2>1, ServerRetiresShows
  <2> HIDE DEF k
  <2>5. AgreeInv' /\ Shown
    BY <1>14, <2>3
  <2>6. KA!Next
    BY <1>1, <1>5, <1>13, <2>4, <2>5, TwoHosts, RetireShown DEF s, x, l
  <2> QED
    BY <2>5, <2>6 DEF Agrees
<1>19. ~Adopts(s, z, p)
  BY <1>3 DEF Adopts
<1> QED
  BY <1>10, <1>16, <1>17, <1>18, <1>19

LEMMA ClientReads ==
    ASSUME KeySupply, ServerWins, AgreeInv, LinkInv, LinkInv', Receive(Client)
    PROVE  Agrees
<1> DEFINE x == c[Client]
           s == c[Server].mka
           l == x.mka
           down == wire[Client]
           p == down[1]
           rest == Tail(down)
           letters == Letters(Client)
<1>1. /\ Server \in Node /\ Client \in Node /\ pc[Client] = "receive"
      /\ run[Client] = "running"
  BY TwoHosts DEF LinkInv, NodeOK, Receive
<1>2. /\ down \in Seq(letters) /\ down # <<>> /\ Rested(x) /\ keys \in Nat
      /\ Bridge(x, Client, boots[Client]) /\ boots[Client] \in StartsOf(Client)
  BY <1>1 DEF LinkInv, LinkTypeOK, NodeOK, Bridge
<1> HIDE DEF letters
<1>3. /\ Len(down) \in Nat /\ 1 <= Len(down) /\ Len(rest) = Len(down) - 1 /\ Head(down) = p
      /\ p \in letters /\ \A i \in 1 .. Len(rest) : rest[i] = down[i + 1]
  BY <1>2, TailRest
<1>a. Thinner(down, rest, 1)
  BY <1>2, TailRest
<1>4. p \in MkpduRec
  BY <1>3 DEF letters, Letters
<1>5. PICK r : r = InputMkpdu(x, p, Drawn) /\ ReceiveWith(Client, r)
  BY <1>3 DEF Receive
<1>6. /\ c'[Client] = r.c /\ c'[Server] = c[Server] /\ run' = run /\ faults' = faults
      /\ wire'[Client] = rest /\ wire'[Server] = wire[Server] /\ Draws(Client, r.c)
      /\ boots' = boots
  BY <1>1, <1>5, TwoHosts DEF Receive, ReceiveWith, LinkInv, LinkTypeOK
<1>7. Drawn \in Key \cup {NoKey}
  BY <1>2 DEF Drawn, KeySupply
<1> DEFINE z == r.c.mka
<1>8. keys' \in {keys, keys + 1} /\ keys' \in Nat
  BY <1>2, <1>6, DrawsOne
<1>9. Coming = down /\ Coming' = rest
  BY <1>1, <1>6 DEF Coming
<1>10. /\ Agreed(s, l, wire[Server], down, keys) /\ Exact(x) /\ Tidy(s) /\ Tidy(l)
       /\ l.latest.state # "CANDIDATE" /\ Serving(s, keys) /\ Following(s, l)
  BY <1>1, <1>9 DEF AgreeInv, Exact, Agreed, Following
<1>11. p.use.has # "bad"
  <2>1. 1 \in 1 .. Len(down)
    BY <1>3
  <2> QED
    BY <1>10, <2>1 DEF Agreed, WireOK, Timely
<1>12. /\ \/ Holds(l, z)
          \/ z.local_key_server /\ z.peer.valid
          \/ Retires(l, z)
          \/ Adopts(l, z, p)
       /\ RxExact(l, x.fc) /\ Apart(l) /\ Apart(z) => RxExact(z, r.c.fc)
  BY <1>2, <1>4, <1>5, <1>7, <1>10, <1>11, InputMovesStep
<1>13. Rested(r.c) /\ Tidy(z) /\ MkaBase(z) /\ Mates(z, Client, boots[Client])
  <2>1. Bridge(c'[Client], Client, boots'[Client])
    BY <1>1, <1>6 DEF LinkInv, NodeOK
  <2> QED
    BY <1>6, <2>1, RestedTidy DEF Bridge
<1>14. ~(z.local_key_server /\ z.peer.valid)
  BY <1>1, <1>2, <1>13, TwoHosts, ServerIsElected
<1> HIDE DEF x, s, l, down, p, rest
<1>15. Holds(s, s) /\ SameShow(Server)
  BY <1>6 DEF Holds, SameKey, SameShow
<1>b. Thinner(wire[Server], wire[Server], 0)
  <2> DEFINE others == Letters(Server)
  <2>1. wire[Server] \in Seq(others)
    BY <1>1 DEF LinkInv, NodeOK
  <2> HIDE DEF others
  <2>2. Len(wire[Server]) \in Nat
    BY <2>1
  <2> QED
    BY <2>2 DEF Thinner
<1>16. ASSUME Agreed(s, z, wire[Server], rest, keys) PROVE AgreeInv' /\ Shown
  <2>1. Agreed(s, z, wire[Server], rest, keys')
    BY <1>2, <1>8, <1>10, <1>15, <1>16, ServerHolds
  <2>2. Apart(l) /\ Apart(z)
    BY <1>10, <1>13, <1>16, ClientApart DEF Agreed
  <2>3. Exact(r.c)
    BY <1>10, <1>12, <1>13, <2>2, RestedTidy DEF Exact, l
  <2> QED
    BY <1>1, <1>6, <1>9, <2>1, <2>3, TwoHosts DEF AgreeInv, Shown, s
<1>17. ASSUME Agreed(s, z, wire[Server], down, keys) PROVE Agreed(s, z, wire[Server], rest, keys)
  BY <1>17, <1>a, <1>b, AgreedThinner
<1>18. CASE Holds(l, z)
  <2>1. Agreed(s, z, wire[Server], down, keys)
    BY <1>10, <1>18, ClientHolds
  <2>2. SameShow(Client)
    BY <1>6, <1>18, HoldsShows DEF SameShow, l, x
  <2> QED
    BY <1>15, <1>16, <1>17, <2>1, <2>2, NothingShown, TwoHosts DEF Agrees
<1>19. CASE Retires(l, z)
  <2> DEFINE k == l.old.key
  <2>1. Agreed(s, z, wire[Server], down, keys)
    BY <1>10, <1>19, ClientRetires
  <2>2. /\ k \in KeysRead(l) /\ k # KeySent(l) /\ k # KeySent(s)
        /\ KeySent(z) = KeySent(l) /\ KeysRead(z) = KeysRead(l) \ {k}
    BY <1>2, <1>10, <1>13, <1>19, ClientRetiresShows
  <2> HIDE DEF k
  <2>3. AgreeInv' /\ Shown
    BY <1>16, <1>17, <2>1
  <2>4. KA!Next
    BY <1>1, <1>6, <1>15, <2>2, <2>3, TwoHosts, RetireShown DEF s, x, l
  <2> QED
    BY <2>3, <2>4 DEF Agrees
<1>20. CASE Adopts(l, z, p)
  <2> DEFINE k == z.latest.key
  <2>1. /\ Agreed(s, z, wire[Server], rest, keys) /\ Reads(s, z.latest)
        /\ Held(l.latest) => l.latest.key < z.latest.key
    BY <1>2, <1>3, <1>10, <1>13, <1>20, ClientAdopts DEF p
  <2>2. /\ KeySent(z) = k /\ KeysRead(z) = KeysRead(l) \cup {k}
        /\ k \in KeysRead(s) /\ k > KeySent(l)
    BY <1>2, <1>10, <1>13, <1>20, <2>1, AdoptsShows
  <2> HIDE DEF k
  <2>3. AgreeInv' /\ Shown
    BY <1>16, <2>1
  <2>4. KA!Next
    BY <1>6, <1>15, <2>2, <2>3, AdoptShown DEF s, x, l
  <2> QED
    BY <2>3, <2>4 DEF Agrees
<1> QED
  BY <1>12, <1>14, <1>18, <1>19, <1>20

-----------------------------------------------------------------------------
(* Theorems *)

LEMMA AgreeInit ==
    ASSUME ServerStays, Init
    PROVE  AgreeInv /\ KA!Init
<1>1. \A n \in Node : 1 \in StartsOf(n) /\ c[n] = Started(n, 1)
  <2>1. SUFFICES ASSUME NEW n \in Node PROVE 1 \in StartsOf(n)
    BY DEF Init
  <2> DEFINE byte == 0 .. 255
  <2>2. Prio[n] \in Seq(byte) /\ Prio[n] # <<>>
    BY LinkAssumption
  <2> HIDE DEF byte
  <2>3. Len(Prio[n]) \in Nat /\ Len(Prio[n]) # 0
    BY <2>2
  <2> QED
    BY <2>3 DEF StartsOf
<1>2. \A n \in Node : Exact(c[n]) /\ c[n].mka.latest = NoSak /\ c[n].mka.old = NoSak
  BY <1>1, StartedExact
<1> DEFINE s == c[Server].mka
           l == c[Client].mka
<1>3. /\ s.latest.state = "NONE" /\ s.old.state = "NONE" /\ l.latest.state = "NONE"
      /\ l.old.state = "NONE" /\ ~Both(s)
  BY <1>2, TwoHosts DEF NoSak, Both
<1>4. /\ run[Server] = "running" /\ run[Client] = "running" /\ wire[Server] = <<>>
      /\ wire[Client] = <<>> /\ keys = 0 /\ faults = Faults
  BY TwoHosts DEF Init
<1>5. Coming = <<>>
  BY <1>4 DEF Coming
<1>6. Agreed(s, l, <<>>, <<>>, 0)
  BY <1>3 DEF Agreed, Serving, Following, WireOK, Passed, Held
<1>7. AgreeInv
  BY <1>2, <1>4, <1>5, <1>6 DEF AgreeInv
<1>8. \A n \in Node : SentWith(n) = 0 /\ ReceivedWith(n) = {}
  BY <1>2, FrameShows, ForgottenShows DEF SentWith, ReceivedWith
<1>9. KA!Init
  BY <1>8, TwoHosts DEF KA!Init
<1> QED
  BY <1>7, <1>9

LEMMA AgreeStep ==
    ASSUME KeySupply, ServerWins, ServerStays, AgreeInv, LinkInv, LinkInv', [Next]_vars
    PROVE  Agrees
<1>1. CASE UNCHANGED vars
  <2>1. UNCHANGED <<c, run, keys>> /\ faults' \subseteq faults /\ wire' = wire
    BY <1>1 DEF vars
  <2> QED
    BY <2>1, WireAgrees
<1>2. ASSUME NEW n \in Node, Poll(n) PROVE Agrees
  BY <1>2, PollAgrees
<1>3. ASSUME NEW n \in Node, Service(n) PROVE Agrees
  BY <1>3, ServerServes, ClientServes, TwoHosts DEF Service
<1>4. ASSUME NEW n \in Node, Receive(n) PROVE Agrees
  BY <1>4, ServerReads, ClientReads, TwoHosts
<1>5. ASSUME NEW n \in Node, NEW why \in {"full", "refused"}, ServiceUnsent(n, why) PROVE Agrees
  <2>1. ControlService(n, why) /\ faults' \subseteq faults
    BY <1>5 DEF ServiceUnsent, Spends
  <2>2. n = Server => why = "full"
    <3>1. PICK f \in faults : f[1] = why /\ f[2] = n
      BY <1>5 DEF ServiceUnsent, Spends
    <3> QED
      BY <3>1 DEF AgreeInv, ServerStays
  <2> QED
    BY <2>1, <2>2, ServerServes, ClientServes, TwoHosts
<1>6. ASSUME NEW n \in Node, Lose(n) PROVE Agrees
  BY <1>6, LoseAgrees
<1>7. ASSUME NEW n \in Node, NEW what, Damage(n, what) PROVE Agrees
  BY <1>7, DamageAgrees
<1>8. ASSUME NEW n \in Node, Restart(n) PROVE Agrees
  BY <1>8, RestartAgrees
<1>9. CASE Elapse
  BY <1>9, ElapseAgrees
<1> QED
  BY <1>1, <1>2, <1>3, <1>4, <1>5, <1>6, <1>7, <1>8, <1>9 DEF Next

\* Nothing under way misleads its reader: whatever MKPDUs were lost, damaged
\* or never sent, and however often the client was started again, what is
\* still to be read names only keys the server receives with, and nothing
\* takes a client that left the old key back to it (mka.c 1421-1444).
THEOREM NothingMisleads ==
    ASSUME KeySupply, ServerWins, ServerStays
    PROVE  Spec => []AgreeInv
<1>1. Init => AgreeInv
  BY AgreeInit
<1>2. AgreeInv /\ LinkInv /\ LinkInv' /\ [Next]_vars => AgreeInv'
  BY AgreeStep DEF Agrees
<1> QED
  BY <1>1, <1>2, LinkInvariant, PTL DEF Spec

\* The two bridges implement KeyAgreement: through rekeys, failures and
\* restarts of the client the server receives with a key before the client
\* sends with it, nobody returns to an older key, and no key goes that the
\* other station still sends with (macsec.c 129-210, 241-334).
THEOREM BridgesAgree ==
    ASSUME KeySupply, ServerWins, ServerStays
    PROVE  Spec => ImplementsKeyAgreement
<1>1. Init => KA!Init
  BY AgreeInit
<1>2. AgreeInv /\ LinkInv /\ LinkInv' /\ [Next]_vars => [KA!Next]_KA!kvars
  BY AgreeStep DEF Agrees
<1> QED
  BY <1>1, <1>2, LinkInvariant, NothingMisleads, PTL DEF Spec, ImplementsKeyAgreement, KA!Spec

\* The promises of KeyAgreement, of the two bridges.
KAP == INSTANCE KeyAgreementProofs WITH tx <- [n \in Node |-> SentWith(n)],
                                        rx <- [n \in Node |-> ReceivedWith(n)]

\* No frame of the client is lost on a missing key: what a bridge sends with
\* it receives with, and the server receives with what the client sends with,
\* while keys change and MKPDUs are lost (macsec.c 263-321).
THEOREM ClientIsRead ==
    ASSUME KeySupply, ServerWins, ServerStays
    PROVE  Spec => []KA!Readable
<1>1. KAP!Spec => []KAP!Readable
  BY KAP!AlwaysReadable, TwoHosts
<1>2. KA!Spec => KAP!Spec
  BY DEF KA!Spec, KAP!Spec, KA!Init, KAP!Init, KA!Next, KAP!Next, KA!kvars, KAP!kvars,
     KA!Issue, KAP!Issue, KA!Adopt, KAP!Adopt, KA!Retire, KAP!Retire, KA!Forget, KAP!Forget
<1>3. KAP!Readable <=> KA!Readable
  BY DEF KAP!Readable, KA!Readable
<1>4. Spec => KA!Spec
  BY BridgesAgree DEF ImplementsKeyAgreement
<1> QED
  BY <1>1, <1>2, <1>3, <1>4, PTL
=============================================================================
