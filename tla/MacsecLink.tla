------------------------------ MODULE MacsecLink ------------------------------
(***************************************************************************)
(* Two hosts that run the linux_tap bridge, main.c, on the two ends of a   *)
(* cable.  A bridge is one loop: poll, then tick, build, send and report   *)
(* one control frame, then read at most one frame from the wire.  A wire   *)
(* is a first-in first-out queue per receiver, as an Ethernet link and the *)
(* packet socket behind it are.  The faults are a frame lost on the way, a *)
(* damaged frame, a send queue that is full, a socket that refuses a frame *)
(* for good, and a bridge that is stopped and started again; each of the   *)
(* constant's happens at most once, at any moment.                         *)
(*                                                                         *)
(* Time passes in transmit intervals, and only when both loops have come   *)
(* to rest: poll returns after at most 100 ms and an interval is 2000 ms.  *)
(* The data side of the loop (TAP) is left to MacsecNode.                  *)
(***************************************************************************)
EXTENDS Macsec, SequencesExt

CONSTANTS Server, Client,  \* the two hosts, by SCI
          Prio,            \* mka_priority in the configuration of each start,
                           \* and so a bound on the starts
          Faults           \* the faults that may occur, each once: <<kind, host, i>>

Node == {Server, Client}

\* In poll; in the control part, poll having reported a frame or not; about
\* to read a frame from the wire.
Pc == {"poll", "readable", "timeout", "receive"}

ASSUME LinkAssumption ==
    /\ Server \in 1 .. 2 /\ Client \in 1 .. 2 /\ Server # Client
    /\ Prio \in [Node -> Seq(0 .. 255)] /\ \A n \in Node : Prio[n] # <<>>
    /\ Faults \subseteq ({"lose", "full", "refused", "damage", "restart"} \X Node \X Nat)

VARIABLES c,       \* macsec_ctx_t of each bridge
          run,     \* "running", or why the loop was left
          pc,      \* where its loop is, see Pc
          due,     \* intervals since the last macsec_tick
          wire,    \* frames on their way to each host
          boots,   \* incarnations of each bridge
          held,    \* the keys each incarnation has sent with
          keys,    \* keys macsec_random has returned so far, 1 .. keys
          faults   \* the faults still to come

vars == <<c, run, pc, due, wire, boots, held, keys, faults>>

Other(n) == CHOOSE o \in Node : o # n

\* A Member Identifier is random and so fresh in every incarnation.
Started(n, b) == MacsecInit("MKA_PSK", n, 2 * b + n, Prio[n][b])

Init ==
    /\ c = [n \in Node |-> Started(n, 1)]
    /\ run = [n \in Node |-> "running"]
    /\ pc = [n \in Node |-> "poll"]
    /\ due = [n \in Node |-> 0]
    /\ wire = [n \in Node |-> <<>>]
    /\ boots = [n \in Node |-> 1]
    /\ held = {}
    /\ keys = 0
    /\ faults = Faults

-----------------------------------------------------------------------------
(* The control part of the loop: tick, build, send, report.  Each operator *)
(* continues from the result of the call before and returns why the loop   *)
(* goes on or ends, the context and the frames sent.                       *)

Goes(x, out) == [run |-> "running", c |-> x, out |-> out]

\* Leaving the loop ends in macsec_clear.
Ends(why) == [run |-> why, c |-> ZeroMacsec("MKA_PSK"), out |-> <<>>]

AfterReport(r, out) == IF r.ret = "OK" THEN Goes(r.c, out) ELSE Ends("failed")

AfterRefusal(r) == IF r.ret = "OK" THEN Ends("io_error") ELSE Ends("failed")

\* b is the result of the build, send what linux_raw_send says of the frame.
AfterBuild(b, send) ==
    CASE b.ret = "NOT_READY" -> Goes(b.c, <<>>)
      [] b.ret = "OK" /\ send = "sent" ->
            AfterReport(NotifyControlTxSuccess(b.c), <<MkpduOf(b.c.mka)>>)
      [] b.ret = "OK" /\ send = "full" -> AfterReport(NotifyControlTxFailure(b.c), <<>>)
      [] b.ret = "OK" /\ send = "refused" -> AfterRefusal(NotifyControlTxFailure(b.c))
      [] OTHER -> Ends("failed")

AfterTick(t, k) == IF t.ret = "OK" THEN BuildControlFrame(t.c, k) ELSE t

-----------------------------------------------------------------------------
(* Steps of a bridge *)

\* The key macsec_random would return next.
Drawn == keys + 1

Draws(n, x) ==
    /\ keys' = IF x.mka.latest.key = Drawn THEN Drawn ELSE keys
    /\ held' = IF x.fc.tx_sak.valid
               THEN held \cup {[node |-> n, boot |-> boots[n], key |-> x.fc.tx_sak.key]}
               ELSE held

Spends(kind, n) ==
    \E f \in faults : f[1] = kind /\ f[2] = n /\ faults' = faults \ {f}

\* Frames sent by n join the other host's queue unless they are lost.
Carries(n, out) ==
    wire' = IF run[Other(n)] # "running" THEN wire
            ELSE [wire EXCEPT ![Other(n)] = @ \o out]

\* There is something for n's loop to do.  With nothing to do poll returns
\* every 100 ms, tick and build change nothing, and the loop polls again.
HasWork(n) == due[n] > 0 \/ wire[n] # <<>> \/ c[n].mka.tx_reasons # {}

\* Poll returns, saying whether there is a frame to read.
Poll(n) ==
    /\ run[n] = "running"
    /\ pc[n] = "poll"
    /\ HasWork(n)
    /\ pc' = [pc EXCEPT ![n] = IF wire[n] # <<>> THEN "readable" ELSE "timeout"]
    /\ UNCHANGED <<c, run, due, wire, boots, held, keys, faults>>

ServiceWith(n, r) ==
    /\ c' = [c EXCEPT ![n] = r.c]
    /\ run' = [run EXCEPT ![n] = r.run]
    /\ pc' = [pc EXCEPT ![n] = IF @ = "readable" /\ r.run = "running"
                               THEN "receive" ELSE "poll"]
    /\ due' = [due EXCEPT ![n] = 0]
    /\ Draws(n, r.c)
    /\ Carries(n, r.out)
    /\ UNCHANGED boots

\* A quantifier over one value names it, so that TLC computes it once.
ControlService(n, send) ==
    /\ pc[n] \in {"readable", "timeout"}
    /\ \E t \in {Tick(c[n], due[n])} : \E b \in {AfterTick(t, Drawn)} :
          /\ send # "sent" => b.ret = "OK"
          /\ \E r \in {AfterBuild(b, send)} : ServiceWith(n, r)

Service(n) ==
    /\ ControlService(n, "sent")
    /\ UNCHANGED faults

\* The socket's queue is full, or it refuses the frame for good.
ServiceUnsent(n, why) ==
    /\ Spends(why, n)
    /\ ControlService(n, why)

\* An error of macsec_input is counted and the loop goes on.
ReceiveWith(n, r) ==
    /\ c' = [c EXCEPT ![n] = r.c]
    /\ Draws(n, r.c)

Receive(n) ==
    /\ pc[n] = "receive"
    /\ \E r \in {InputMkpdu(c[n], Head(wire[n]), Drawn)} : ReceiveWith(n, r)
    /\ wire' = [wire EXCEPT ![n] = Tail(@)]
    /\ pc' = [pc EXCEPT ![n] = "poll"]
    /\ UNCHANGED <<run, due, boots, faults>>

-----------------------------------------------------------------------------
(* Time and faults *)

\* Nothing is under way: all frames were read, all replies sent.
Quiet == \A n \in Node : run[n] = "running" => pc[n] = "poll" /\ ~HasWork(n)

Elapse ==
    /\ Quiet
    /\ due' = [n \in Node |-> IF run[n] = "running" THEN 1 ELSE 0]
    /\ UNCHANGED <<c, run, pc, wire, boots, held, keys, faults>>

\* The frame sent last to n is lost, unless its socket already holds it.
Lose(n) ==
    /\ Spends("lose", n)
    /\ Len(wire[n]) > (IF pc[n] \in {"readable", "receive"} THEN 1 ELSE 0)
    /\ wire' = [wire EXCEPT ![n] = Front(@)]
    /\ UNCHANGED <<c, run, pc, due, boots, held, keys>>

\* The next frame no longer parses, or its ICV no longer fits.
Damaged(p, what) ==
    IF what = "parse" THEN [p EXCEPT !.wellformed = FALSE] ELSE [p EXCEPT !.auth = FALSE]

Damage(n, what) ==
    /\ wire[n] # <<>>
    /\ Spends("damage", n)
    /\ wire' = [wire EXCEPT ![n][1] = Damaged(@, what)]
    /\ UNCHANGED <<c, run, pc, due, boots, held, keys>>

Restart(n) ==
    /\ boots[n] < Len(Prio[n])
    /\ Spends("restart", n)
    /\ boots' = [boots EXCEPT ![n] = @ + 1]
    /\ c' = [c EXCEPT ![n] = Started(n, boots[n] + 1)]
    /\ run' = [run EXCEPT ![n] = "running"]
    /\ pc' = [pc EXCEPT ![n] = "poll"]
    /\ due' = [due EXCEPT ![n] = 0]
    /\ wire' = [wire EXCEPT ![n] = <<>>]
    /\ UNCHANGED <<held, keys>>

Next ==
    \/ \E n \in Node : Poll(n) \/ Service(n) \/ Receive(n)
    \/ \E n \in Node, why \in {"full", "refused"} : ServiceUnsent(n, why)
    \/ \E n \in Node, what \in {"parse", "icv"} : Damage(n, what)
    \/ \E n \in Node : Lose(n) \/ Restart(n)
    \/ Elapse

\* n's loop moves on.  Each of its steps changes pc[n].
LoopMoves(n) ==
    /\ run[n] = "running"
    /\ pc[n] = "poll" => HasWork(n)
    /\ \E next \in Pc \ {pc[n]} : pc' = [pc EXCEPT ![n] = next]

\* The loop never blocks for longer than poll's 100 ms, and time passes.
\* Faults are never required.
Fairness ==
    /\ WF_vars(Elapse)
    /\ \A n \in Node : WF_pc(LoopMoves(n))

Spec == Init /\ [][Next]_vars /\ Fairness

-----------------------------------------------------------------------------
(* Properties *)

\* The frame layer of the one holds the key the other sends with.
HoldsKey(from, to) ==
    LET tx == c[from].fc.tx_sak
    IN  tx.valid /\ c[to].fc.rx_sak[tx.an].valid /\ c[to].fc.rx_sak[tx.an].key = tx.key

\* A data frame of the one reaches the other's host: macsec_output and
\* macsec_input refuse it in any state but SECURED (macsec.c 650-655, 716-720).
CanReceive(from, to) ==
    c[from].state = "SECURED" /\ c[to].state = "SECURED" /\ HoldsKey(from, to)

BothRun == \A n \in Node : run[n] = "running"

\* Once the faults are over, data flows in both directions for good between
\* two running bridges, and a bridge whose peer stopped for good no longer
\* reports a secured link.  A received frame that is malformed or damaged is
\* no reason to stop (mka.c 1561-1569, 1588-1601).
Converges ==
    <>[](IF BothRun THEN \A n \in Node : CanReceive(n, Other(n))
         ELSE \A n \in Node : run[n] = "running" => c[n].state # "SECURED")

\* The same where no MKPDU is damaged on the way, as the stack lets no data
\* pass after one that was (macsec.c 622-626).
NoneDamaged == \A f \in Faults \ faults : f[1] # "damage"

ConvergesIfIntact == []NoneDamaged => Converges

\* Whatever the faults, a damaged MKPDU included, the keys survive: sooner or
\* later each frame layer holds for good what the other end sends with, so
\* that no rekey, retirement or refused MKPDU leaves one of them without
\* (macsec.c 129-334, 622-645).  It does not say that the stack lets data pass.
KeysMeet ==
    <>[](BothRun => \A n \in Node : HoldsKey(n, Other(n)))

\* No storm of MKPDUs: whatever was exchanged, the replies come to an end.
Settles == []<>Quiet

\* The slot of the old key is free again sooner or later, so that a rekey
\* is not refused for ever (mka.c 318-340), unless the peer that would have
\* to confirm the new key has stopped.
OldSakGoes ==
    \A n \in Node : c[n].mka.old.state = "RETIRING" ~>
                       c[n].mka.old.state = "NONE" \/ run[Other(n)] # "running"

\* A bridge leaves its loop only when the socket fails: the stack never
\* makes tick, build or report fail under it.
BridgeSurvives == \A n \in Node : run[n] # "failed"

\* Each end knows the other's present incarnation.
Acquainted ==
    \A n \in Node : /\ run[n] = "running" /\ c[n].mka.peer.valid
                   /\ c[n].mka.peer.mi = c[Other(n)].mka.mi

\* Once both know each other, one of them and one alone takes itself for the
\* Key Server (mka.c 390-412, 1751-1757): two would distribute competing
\* keys, none would leave the link without.
OneKeyServer ==
    Acquainted => Cardinality({n \in Node : c[n].mka.local_key_server}) = 1

\* What KeyAgreement sees of the two frame layers.
SentWith(n) == IF c[n].fc.tx_sak.valid THEN c[n].fc.tx_sak.key ELSE 0

ReceivedWith(n) == {c[n].fc.rx_sak[an].key : an \in {a \in AN : c[n].fc.rx_sak[a].valid}}

KA == INSTANCE KeyAgreement WITH tx <- [n \in Node |-> SentWith(n)],
                                 rx <- [n \in Node |-> ReceivedWith(n)]

\* Through rekeys, failures and restarts of the client the two data planes
\* change keys as KeyAgreement says: the server installs a key for reception
\* before the client can send with it, nobody returns to an older key, and
\* no key goes that the other station still sends with (the retirement of
\* macsec.c 129-210 on the confirmation of mka.c 1421-1444).
ImplementsKeyAgreement == KA!Spec

\* No key is sent with by two incarnations of a station: each starts with
\* packet number 1 under the same SCI, and would repeat its nonces (a
\* restarted client must not be given its predecessor's key, mka.c
\* 1764-1768).
KeyPerIncarnation ==
    \A a, b \in held : a.node = b.node /\ a.key = b.key => a.boot = b.boot
=============================================================================
