-------------------------------- MODULE Macsec --------------------------------
(***************************************************************************)
(* The stack's public interface, macsec.c: every call drives the MKA       *)
(* participant (Mka), serves what it asks for and keeps the frame layer    *)
(* (FrameSa) in step.  A context is [mode, state, mka, fc, meta]; meta is  *)
(* the MKPDU built but not yet reported sent (pending_mka_tx_meta, valid   *)
(* when pending_mka_tx_valid).  Operators return [ret, c].                 *)
(***************************************************************************)
EXTENDS Mka, FrameSa

CONSTANTS StaticKey,  \* cfg.static_sak
          StaticAn    \* cfg.static_an

\* macsec_init accepts the configured association (macsec.c 210-220); key
\* agreement counts association numbers modulo 4.
ASSUME MacsecAssumption == StaticKey \in Key /\ StaticAn \in AN /\ MaxSA = MkaMaxSA

Modes == {"DISABLED", "STATIC_SAK", "MKA_PSK"}
MacsecStates == {"INIT", "WAIT_MKA", "SECURED", "ERROR"}

C(ret, c) == [ret |-> ret, c |-> c]

-----------------------------------------------------------------------------
(* Moving SAKs between MKA and the frame layer *)

SakEqual(sak, key) == sak.valid /\ sak.key = key

InstallRxSak(c, key, an) ==
    IF SakEqual(c.fc.rx_sak[an], key) THEN c
    ELSE [c EXCEPT !.fc = SetRxSak(@, an, key, 1)]

InstallTxSak(c, key, an) ==
    IF SakEqual(c.fc.tx_sak, key) /\ c.fc.tx_sak.an = an THEN c
    ELSE [c EXCEPT !.fc = SetTxSak(@, key, an, 1)]

InstallStaticSak(c) ==
    [InstallTxSak(InstallRxSak(c, StaticKey, StaticAn), StaticKey, StaticAn)
         EXCEPT !.state = "SECURED"]

\* Mutation: the transmit SA goes whichever key it holds.
RemoveAnyTx(c, old) == [c EXCEPT !.fc = RemoveTxSak(@)]

RemoveOldTx(c, old) ==
    IF old.tx_installed /\ SakEqual(c.fc.tx_sak, old.key) /\ c.fc.tx_sak.an = old.an
    THEN [c EXCEPT !.fc = RemoveTxSak(@)] ELSE c

\* Mutations: the receive SA of the latest key goes, or none at all.
RemoveLatestRx(c, old) == [c EXCEPT !.fc = RemoveRxSak(@, c.mka.latest.an)]
KeepOldRx(c, old) == c

RemoveOldRx(c, old) ==
    IF old.rx_installed THEN [c EXCEPT !.fc = RemoveRxSak(@, old.an)] ELSE c

\* c once MKA was told of a change in the frame layer and answered r.
Told(c, r) == C(r.ret, [c EXCEPT !.mka = r.m])

RemoveMkaOldSak(c) ==
    LET old == c.mka.old
    IN  IF old.state = "NONE" THEN C("OK", c)
        ELSE IF old.state # "RETIRING" THEN C("STATE", c)
        ELSE Told(RemoveOldTx(RemoveOldRx(c, old), old),
                  NotifySakRetired(c.mka, old.kn, old.an))

\* Unless it is there already: place the key and report it to MKA.
InstallRx(c, sak) ==
    IF sak.rx_installed THEN C("OK", c)
    ELSE Told(InstallRxSak(c, sak.key, sak.an),
              NotifySakInstalled(c.mka, sak.kn, sak.an, "RX"))

InstallTx(r, sak) ==
    IF r.ret # "OK" \/ sak.tx_installed THEN r
    ELSE Told(InstallTxSak(r.c, sak.key, sak.an),
              NotifySakInstalled(r.c.mka, sak.kn, sak.an, "TX"))

\* taken is the answer of macsec_mka_take_sak_for_install.
InstallTaken(c, taken) ==
    LET sak   == taken.m.latest
        start == [c EXCEPT !.mka = taken.m]
    IN  IF taken.ret = "NOT_READY" THEN C("OK", c)
        ELSE IF taken.ret # "OK" THEN C(taken.ret, c)
        ELSE IF sak.state # "INSTALL_PENDING" THEN C("STATE", start)
        ELSE InstallTx(InstallRx(start, sak), sak)

ProcessMkaSakInstall(c) == InstallTaken(c, TakeSakForInstall(c.mka))

-----------------------------------------------------------------------------
(* Serving the participant's requests *)

StateAfterEvents(state, events) ==
    IF "SAK_ACTIVE" \in events THEN "SECURED"
    ELSE IF "PEER_LOST" \in events THEN "WAIT_MKA"
    ELSE state

ProcessMkaEvents(c) ==
    LET events == c.mka.events
        taken  == [c EXCEPT !.mka.events = {}]
        moved  == [taken EXCEPT !.state = StateAfterEvents(@, events)]
    IN  IF "ERROR" \in events THEN C("STATE", [taken EXCEPT !.state = "ERROR"])
        ELSE IF "SAK_RETIRE_REQUIRED" \in events THEN RemoveMkaOldSak(moved)
        ELSE C("OK", moved)

InstallIfOK(r) == IF r.ret = "OK" THEN ProcessMkaSakInstall(r.c) ELSE r
EventsIfOK(r)  == IF r.ret = "OK" THEN ProcessMkaEvents(r.c) ELSE r

ServiceMka(c) == EventsIfOK(InstallIfOK(ProcessMkaEvents(c)))

\* The caller of macsec_service_mka enters ERROR when it fails.
OrError(r) == IF r.ret = "OK" THEN r ELSE C(r.ret, [r.c EXCEPT !.state = "ERROR"])

ServedOrError(c) == OrError(ServiceMka(c))

-----------------------------------------------------------------------------
(* The public interface *)

ZeroMacsec(mode) ==
    [mode |-> mode, state |-> "INIT", mka |-> ZeroMka, fc |-> ClearedCtx, meta |-> NoMeta]

\* A configuration that macsec_init accepts: with any other it returns an error,
\* and the bridge of examples/linux_tap ends without another call.
MacsecInit(mode, sci, mi, prio) ==
    LET c == ZeroMacsec(mode)
    IN  CASE mode = "DISABLED"   -> [c EXCEPT !.state = "SECURED"]
          [] mode = "STATIC_SAK" -> InstallStaticSak(c)
          [] mode = "MKA_PSK"    -> [c EXCEPT !.mka = MkaInit(sci, mi, prio),
                                              !.state = "WAIT_MKA"]

\* macsec_input on an EAPOL-MKA frame.
ServeInput(c, r) ==
    IF r.ret # "OK" THEN C(r.ret, [c EXCEPT !.mka = r.m, !.state = "ERROR"])
    ELSE ServedOrError([c EXCEPT !.mka = r.m])

InputMkpdu(c, p, k) ==
    IF c.mode = "DISABLED" THEN C("OK", c) ELSE ServeInput(c, MkaInput(c.mka, p, k))

\* macsec_input on a MACsec frame; "OK" passes its payload to the stack.
InputProtected(c, f) ==
    LET r == FrameDecrypt(c.fc, f, TRUE)
    IN  IF c.mode = "DISABLED" THEN C("OK", c)
        ELSE IF c.state # "SECURED" THEN C("NOT_READY", c)
        ELSE C(r.ret, [c EXCEPT !.fc = r.fc])

\* macsec_output; in DISABLED mode the frame leaves unprotected.
Output(c) ==
    LET r == FrameEncrypt(c.fc, TRUE, TRUE, TRUE)
    IN  IF c.mode = "DISABLED" THEN C("OK", c)
        ELSE IF c.state # "SECURED" \/ ~c.fc.tx_sak.valid THEN C("NOT_READY", c)
        ELSE C(r.ret, [c EXCEPT !.fc = r.fc])

Tick(c, d) ==
    IF c.mode # "MKA_PSK" THEN C("OK", c)
    ELSE ServedOrError([c EXCEPT !.mka = MkaTick(@, d)])

\* macsec_build_control_frame; with "OK" the frame is MkpduOf(c.mka).
BuildControlFrame(c, k) ==
    LET r == BuildTxFrame(c.mka, k)
    IN  IF c.mode # "MKA_PSK" THEN C("STATE", c)
        ELSE IF c.meta.valid THEN C("BUSY", c)
        ELSE C(r.ret, [c EXCEPT !.mka = r.m,
                                !.meta = IF r.ret = "OK" THEN MetaOf(r.m) ELSE NoMeta])

ServeReport(c, r) ==
    IF r.ret # "OK" THEN C(r.ret, [c EXCEPT !.mka = r.m, !.state = "ERROR"])
    ELSE ServedOrError([c EXCEPT !.mka = r.m, !.meta = NoMeta])

NotifyControlTxSuccess(c) ==
    IF c.mode # "MKA_PSK" THEN C("STATE", c)
    ELSE IF ~c.meta.valid THEN C("NOT_READY", c)
    ELSE ServeReport(c, NotifyTxSuccess(c.mka, c.meta))

\* Mutation: the MKPDU stays pending when it could not be sent.
FailureKeepsPending(c) ==
    IF ~c.meta.valid THEN C("NOT_READY", c)
    ELSE C("OK", [c EXCEPT !.mka = NotifyTxFailure(@, c.meta)])

NotifyControlTxFailure(c) ==
    IF c.mode # "MKA_PSK" THEN C("STATE", c)
    ELSE IF ~c.meta.valid THEN C("NOT_READY", c)
    ELSE C("OK", [c EXCEPT !.mka = NotifyTxFailure(@, c.meta), !.meta = NoMeta])
=============================================================================
