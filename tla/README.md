# A TLA+ verification of the lightweight MACsec stack

The stack implements IEEE 802.1AE frame protection and the pre-shared-key mode
of IEEE 802.1X key agreement (MKA) in portable C. It has no threads: an
application calls it, from a loop or from interrupt and driver callbacks, and
every call runs to completion. What is hard about it is the *order* of calls
and messages: which MKPDU arrives when, what happens between building a
control frame and reporting it sent, when a key becomes usable, and when the
previous one may go.

## 1. Inventory

| part | state | operations | talks to |
|---|---|---|---|
| frame layer, `frame_crypto.c` | one transmit association, four receive associations with replay watermarks and bitmap, one cached GCM key | init, clear, set/remove TX and RX SAK, encrypt, decrypt | called by `macsec.c`; calls GCM |
| MKA participant, `mka.c` | participant state, the one peer, election result, two SAK slots (latest, old), key and message counters, pending events and transmit reasons, timestamps | init, input, tick, build, notify sent / failed, take a SAK for installation, notify installed / retired | called by `macsec.c`; answers through event flags and the SAK slots |
| stack interface, `macsec.c` | mode, INIT / WAIT_MKA / SECURED / ERROR, metadata of the control frame that awaits its report | init, clear, input, output, tick, build_control_frame, notify success / failure | the application; after each call it serves MKA's events and moves keys into the frame layer |
| MKA cryptography, `mka_crypto.c` | pre-shared key, derived ICK and KEK, one CMAC and one AES context that every call uses | set the key, derive, compute and verify an ICV, wrap and unwrap a SAK, clear | called by `mka.c`; calls CMAC and AES |
| `math/` | AES schedule and tables; CMAC chain and last block; GCM hash, counter, lengths | set a key, encrypt, decrypt; MAC in one shot; seal or open in one shot, in place | called by `mka_crypto.c` and `frame_crypto.c`, on contexts that keep what the last call left |
| `macsec_common.c` | none | byte order, constant-time compare, zeroise | its compare decides the election's tie-break |
| `port/` | none | random numbers, time, logging | |
| `examples/linux_tap` | sockets, whether the loop runs | a single-threaded poll loop that ticks, builds, sends, reports and forwards frames; leaves the loop over any failure but one of `macsec_input` | the discipline under which the stack is normally called; its twin at the other end of the cable |

Hard behaviours, listed with their lines under `hazards` in `PROJECT.json`:
lost, repeated and delayed MKPDUs; a peer that is replaced by another
participant in the middle of a key change; transmissions that fail or are
reported late; timeouts in any state; the two-slot limit on keys; one step of
several failing inside `macsec_mka_input`; packet number and window edges; a
one-entry key cache; two bridges whose loops interleave, on a wire that loses
and damages frames, under sockets that refuse them, one of them restarted; the
questions of progress this raises; and in the cryptography the lengths around a
block, buffers that overlap and contexts used again.

What makes each part correct:

* frame layer: no packet number is used twice with one key; a frame is
  delivered once, inside the window and only under its association's key; a
  late but new frame inside the window is not refused;
* MKA: the state says what is known of the peer; both ends elect the same Key
  Server; a generated key is used only after it was sent; an old key goes only
  when the peer uses the new one; confirmations belong to the current peer;
* stack: SECURED means that traffic flows both ways with the latest key; the
  SAK slots and the frame layer agree; no key outlives its slot;
* bridge and link: the stack never makes the bridge stop; one end and only one
  is Key Server; when the faults are over both ends should be SECURED for good
  (the runs `link`, `link_lost` and `link_damaged` say when they are), both
  frame layers hold each other's key, the old key is gone and the MKPDUs come
  to rest; through all of it the client sends only with keys the server can
  read, and nobody returns to an older key;
* cryptography: what the standards define, for every key size and length, in
  place and on used contexts; nothing is left behind by a call that fails.

## 2. Modules

| module | models | form |
|---|---|---|
| `MacsecCommon` | key values, `macsec_compare` | constants, one operator |
| `FrameSa` | `frame_crypto.c` | operators on the context value |
| `FrameService` | what the frame layer promises | abstract state machine: sets of used and delivered packet numbers |
| `FrameCrypto` | one context and any sequence of calls on it | state machine over `FrameSa`, refinement to `FrameService` |
| `FrameCryptoProofs` | | theorems about `FrameCrypto` |
| `FrameSaProofs` | | what each operator of `FrameSa` changes |
| `Mka` | `mka.c` | operators `[ret, m]`: return code and context left behind |
| `MkaProofs` | | what each operator of `Mka` keeps, changes and returns |
| `Macsec` | `macsec.c` | operators `[ret, c]`, composing `Mka` and `FrameSa` as the C code does |
| `MacsecProofs` | | what each call of `macsec.h` keeps, changes and returns |
| `MacsecNode` | one station in an arbitrary environment | state machine over `Macsec` |
| `MacsecNodeProofs` | | theorems about `MacsecNode` |
| `MCMacsecNode` | | the environments of the runs |
| `MacsecLink` | `linux_tap/main.c`, `raw_socket.c` and the cable | two stations with program counters, a queue per receiver, faults, fairness; refinement to `KeyAgreement` |
| `KeyAgreement` | what two stations owe each other while keys change | abstract state machine: key sent with, keys received with |
| `KeyAgreementProofs` | | a theorem about `KeyAgreement` |
| `MacsecLinkProofs` | | theorems about `MacsecLink` |
| `LinkAgreementProofs` | | that `MacsecLink` implements `KeyAgreement` |
| `MCMacsecLink` | | priorities and faults of the runs |
| `Octets`, `ExclusiveOr` | bytes, C's `^` | constant operator `Xor`, its tables |
| `BlockCipher` | the interface of `aes.h` the modes use | constant operators, given a cipher by the run |
| `Aes` | `math/aes.c`, the build that generates its tables | operators on schedules and blocks |
| `Cmac`, `Gcm` | `math/cmac.c`, `math/gcm.c` | operators from context to context |
| `MkaCrypto` | `mka_crypto.c` | operators `[ret, ctx, ...]` |
| `Fips197`, `CryptoStandards` | FIPS 197; RFC 4493, SP 800-38D, RFC 3394, IEEE 802.1X derivation | reference definitions, written from the standards |
| `CryptoBench` | the cryptography at work | jobs for the primitives; two stations that share keys |
| `MCCrypto` | | tables, jobs and keys of the run |

`FrameService`, `KeyAgreement`, `Fips197` and `CryptoStandards` translate no
code: they are what the code is compared with.

An operator stands for a whole C function, with its early returns in their
order and the context exactly as an error path leaves it (a malformed SAK Use,
for example, is refused after the peer and the SAK slots have already been
updated). `MacsecNode` has one action per public call: `ReceiveMkpdu` and
`ReceiveRejected` (`macsec_input` on MKPDUs that do and do not authenticate or
parse), `ReceiveData`, `SendData` (`macsec_output`), `AdvanceClock`
(`macsec_tick`), `BuildMkpdu`, `TxSucceeded`, `TxFailed`, `Restart`. Every one
includes the trailing `macsec_service_mka` where the code has it.

`MacsecLink` composes two `Macsec` contexts. The action of a bridge is a part of
its loop: `Poll` (poll returns, with or without a frame to read), `Service` (the
whole of `linux_tap_macsec_control_service`: tick, build, send, report) and
`Receive` (`linux_tap_process_physical`). `ServiceUnsent` is `Service` when
`sendto` returns EAGAIN (reported as a failure, the loop goes on) or another
error (the loop ends in `macsec_clear`). `Lose`, `Damage` and `Restart` are the
remaining faults; each fault of the constant `Faults` happens at most once, at
any moment and in any order, or never. `Elapse` lets one transmit interval pass
and is enabled only when neither loop has anything to do.

In the protocol modules data is abstracted: a key is an opaque value including
its length, a Member Identifier a number, an MKPDU a record of what its parameter sets say (or that
they are absent or refused by the parser), time the age of a timestamp in
transmit intervals. Authentication and key unwrapping are outcomes, not
computations. The peer's message numbers are left out because the code only
logs them. Of an MKPDU's length only the 90-byte threshold of the parameter
set scanners is kept (`macsec_mka_frame_contains_peer_entry` refuses less; an
MKPDU with nothing but a peer list has 86 bytes and the CKN). Logging, and event
flags nobody acts on, are left out.

The environment of `MacsecNode` is deliberately hostile to schedules and not
to keys: participants that hold the CAK may send any parameter-set combination
of their repertoire at any time, again and in any order, which covers loss,
repetition, delay and restarts of the peer. A SAK Use claims transmission only
with a key its sender also receives with, which is the order in which
`macsec.c` installs. `MacsecLink` has no such freedom: every MKPDU on its wires
was built by the other station.

The crypto modules abstract nothing but loops over bytes: a word is the tuple
of its bytes, a context the record of its fields, and a payload lies in a memory
in which input and output are places, so that what overlapping does is part of
the model. The modes are written over the constant operators `Encrypt` and
`Decrypt` of `BlockCipher`, as in C over `math_aes_encrypt`, and the run gives
them `Aes`.

History variables (`held`, `used`, `floor`, `got`, `protected`, `delivered`, `issued`,
`sent`, `onAir`, `late`, `confirmer`) are never read by a modelled function.
`confirmer` is the participant whose SAK Use last claimed the latest key in both
directions; an MKPDU that leaves that key unconfirmed resets it. The two counters
(`protected`, `delivered`) are there for the refinement: with the sets of packet
numbers alone, using or delivering a number again would look like a stuttering step of
the service.

## 3. Runs

| run | bounds | result |
|---|---|---|
| `frame_window` | 1 key, 1 association, 6 packet numbers, window 3 | `TypeOK`, `WindowExact`, refinement of `FrameService` hold |
| `frame_strict` | 2 keys, 2 associations, 2 packet numbers, window 0 | `WindowExact`, `NextPnFresh`, `CacheSound`, refinement hold |
| `node_server` | 3 generated keys, 2 successive peers, 2 boots, key number wraps at 2 | nine properties hold |
| `node_client` | 2 successive Key Servers, keys under rotating ANs; started in each of the three modes | four properties hold |
| `node_async` | calls between build and report, message number wraps at 2 | `NewReasonsOutliveReport` holds |
| `link` | two bridges; one MKPDU lost in each direction, one damaged on the way to the server, one full send queue of the server, one refused send of the client, one restart of the client | seven properties hold, five of them temporal |
| `crypto` | 160 jobs; 2 stations, 3 pre-shared keys, 4 set-up calls and 2 others or 2 set-up calls and 3 others | eight properties hold |
| `restarted_server` | a Key Server that restarts numbers keys from AN 0 | `SecuredBothWays` is violated |
| `link_lost` | two MKPDUs lost on the way to the client | `Converges` is violated |
| `key_reuse` | one restart of the client | `KeyPerIncarnation` is violated |
| `link_damaged` | one damaged MKPDU on the way to the server | `Converges` is violated |
| `stale_confirmation` | a client whose Key Server is replaced | `ConfirmationIsPeers` is violated |

Why the bounds suffice. Six packet numbers with a window of three let the
window be partly filled, shifted by less than, exactly and more than its size,
and pushed against the last number. Two keys and two associations are enough
to confuse the one-entry cache, strict mode needs only the last and the
next-to-last number. At a station three keys give the latest and old slots and
a refused third; two peers give a replacement; clock steps of three intervals
reach the peer timeout and the period at once, shorter steps only delay them.
One data packet number (`MaxPN = 1`) makes a reinstalled key visible at once.
A configured key has association number 2 (`StaticAn`), which no key of MKA has there.
`Drawn` takes generated keys in increasing order: they are interchangeable.
`ReplayProtect = FALSE` in the station runs keeps out receive state that the
frame runs already cover.

The runs `node_*` with `AsyncTx = FALSE` follow the discipline of
`linux_tap_macsec_control_service`, which reports each control frame before
any other call. The interface of `macsec.h` does not require it, so
`AsyncTx = TRUE` is checked as well.

The link. Each kind of fault once, at every moment, in every order and with
any of them left out, gives a fault in the middle of the exchange another one
provoked (387376 states). A peer is timed out after 6000 ms and MKPDUs go every
2000 ms, so one lost MKPDU never costs the peer, and two in a row do, because the third is read
after the tick of its own moment: in the `link` run it takes a loss and the
damaged frame to reach that threshold, and only at the server; `link_lost` crosses
it at the client. A damaged frame stops the data (`link_damaged`), so `ConvergesIfIntact` asks for a
link that lets data pass, `Converges`, of the behaviours in which no MKPDU is damaged,
and `KeysMeet`, that both frame layers end up with each other's key, of all of them,
as the other properties do. A client's restart replaces keys, so both ends
also go through a rekey with the old key in its slot. `CknLen = 4` makes the
shortest MKPDU with a peer list exactly 90 bytes long, the limit of the
scanners. No behaviour draws more than three of the six keys, so no step is cut
off by that bound. The priorities of `Prio` are one per start of a bridge, and their number
bounds its restarts (two starts each in the runs). `MnMax = 1` keeps the message number, which no receiver looks at, at one value. The data side is
left to `MacsecNode`: what it needs from the link are the keys of the two frame
layers, which are part of the state.

The cryptography. AES: all three key sizes, two keys each. CMAC: lengths of one
byte, one short of a block, a block, a block and a byte, two blocks, two blocks
and a byte, for both key sizes, on a context that has just served a message with
or without a partial last block under the same key or another. GCM: payloads of
0, 1, 16, 20 and 33 bytes (an empty one, one that fits exactly, partial last
blocks), associated data of 28 bytes as in a frame (a whole and a partial
block), ten placements of input and output from apart to every kind of overlap,
and one damaged field at a time. The two stations hold a 16-byte CAK under two
CKNs with one KeyID, and a 32-byte CAK; four set-up calls are those both stations need, or those of one station and a change
of its key, two calls are the production and the check of
one paper, with the key changes and the damage before, between and after them.
`MaxWork` counts a call as two set-ups, so that a third call takes the place of two
of them: it comes after the two set-up calls of one station, whose context then wraps after it has
unwrapped (`WrapIsRfc3394` fails there if the schedule of the unwrap is kept) or checks a
second time. The PDU has 17 bytes, a whole and a partial block; other lengths
are left to the CMAC jobs.
Known answers of FIPS 197, Appendix C, hold the reference definitions down
(`ASSUME Fips197AppendixC`).

### Fairness

Only `MacsecLink` has temporal properties. `WF_vars(Elapse)` says that time
passes when nothing else happens. `WF_pc(LoopMoves(n))` says that a running
bridge with something to do does it: `main` calls `poll` with a timeout of
100 ms, everything else in the loop is non-blocking (the sockets are opened so
and EAGAIN is handled), so that a loop round takes a small part of the 2000 ms
after which `Elapse` lets the next interval begin. That is also why `Elapse`
waits for both loops to come to rest. A step of the loop that a fault may take
the place of (`ServiceUnsent` for `Service`) counts as a move; `Lose`,
`Damage`, `Restart` and the two send failures are never required to happen.
`Settles` is not implied by the model: two stations that answered each other's
answers for ever would keep `Elapse` disabled and satisfy both conditions.

The passing runs check for deadlock, except `crypto`, whose calls are bounded and whose jobs are over after one step. In the others the clock can always
advance or a frame arrive.

### The abstract key agreement

`KeyAgreement` has two variables, the key each station sends with and the keys
it receives with, and five steps: the Key Server issues a fresh key, the client
adopts a newer one that the server can read already, either gives up a key that
neither it nor the other station sends with, the client forgets everything.
`ImplementsKeyAgreement` maps the two frame layers of `MacsecLink` to it. It
covers installation, confirmation and retirement at both ends together with the
MKPDUs and their loss in between; what it forbids is a server that drops the
old key while the client sends with it, a client that adopts a key early, and
anyone who returns to an older key.

### What the violated runs show

* `restarted_server`: after the Key Server restarts, its new key has AN 0 like
  the old one. Installing it overwrites receive slot 0; retiring the old key
  then clears slot 0. The station stays SECURED and can receive nothing.
* `link_lost`: the link is secured; two MKPDUs on the way to the client are
  lost. After 6000 ms the client's tick expires the peer and the stack is
  WAIT_MKA. The next MKPDU arrives in the same round of the loop; the peer is
  live again, but its key is ACTIVE already, nothing is installed and no
  SAK_ACTIVE is raised. The server has noticed nothing and never rekeys. The
  client refuses to send for good (`macsec_output` asks for SECURED). With the
  losses in the other direction the server takes the returned client for a new
  peer (mka.c 1624, 1770), rekeys, and the link recovers.
* `key_reuse`: the client restarts while an MKPDU of the Key Server that carries
  the current key is on its way, or before the server has heard of the restart.
  The new incarnation does not see its own MI in it, and yet takes the key and
  sends with it from packet number 1, under the same SCI as before.
* `link_damaged`: the server is SECURED; one MKPDU of the client reaches it with a wrong
  ICV, or does not parse. `macsec_mka_input` refuses it and leaves the
  participant as it was, but `macsec_input` makes the stack ERROR (macsec.c 622-626),
  in which it refuses data in both directions (650-655, 716-720). The MKPDUs go
  on, the peer stays live and the key is ACTIVE already: neither PEER_LOST nor
  SAK_ACTIVE, the only ways out of ERROR, comes again. mka.c 1567-1568: "A
  malformed received packet is not an unrecoverable participant error."
* `stale_confirmation`: the peer reports the client's key as used in both
  directions, and the client's latest SAK is CONFIRMED. Another participant takes
  the peer's place; its identity is copied over the old one (mka.c 1665-1672), the
  slots are left alone, because only a Key Server rekeys for a new peer (mka.c
  1770-1778), and CONFIRMED now stands for a participant that has said nothing of
  the key. mka.c 1780-1783: "This prevents confirmation belonging to an old peer
  from surviving a participant restart." No old key goes on that word:
  `RetiresOnlyWhenConfirmed` holds in `node_client`. A Key Server drops the
  confirmation by the rekey (`ConfirmationIsPeers` holds in `node_server`); only
  when both slots are in use, so that the rekey is refused, may what the old peer
  said of reception alone survive there too, of a key that is not CONFIRMED yet.

More behaviours were met that no run of the project repeats; each is named with the
change of a run that shows it.

* Equal priorities: `macsec_compare` returns 0 or a positive number, so that
  `macsec_compare(...) < 0` is false at both ends and neither
  generates a key. mka.c 407-410: "Lower SCI wins." (`link` with `<<200, 200>>` for both
  hosts violates `OneKeyServer`.)
* A delayed key: the client has moved from K1 to K2 and retired K1. An MKPDU
  that carries K1 arrives again; it differs from the latest key, so K1 is
  installed once more and starts at packet number 1. doc/README.md:206: "never
  reused with the same Secure Association." (`node_client`, in MKA_PSK mode
  with one Key Server, violates `NonceOnce`.)
* A late report: an MKPDU with K1 is built and handed to the driver; before the
  driver reports, an MKPDU of another participant makes the Key Server replace K1,
  which nobody has, by K2. Key number and AN advance only with a first successful
  transmission (mka.c 2486), so K2 has those of K1, and the report, which compares
  nothing else (mka.c 2467-2469), makes K2 count as distributed: it is installed
  and sent with while no peer can have it. macsec.h 303-312 only forbids a second
  build before the report. (`node_server` with `AsyncTx = TRUE` violates
  `DistributedBeforeInstalled`.)
* When the Key Server restarts while both SAK slots of
  its client are in use, `macsec_mka_move_latest_to_old` returns BUSY and the
  latest key stays; if the new incarnation has the worse priority, the client is
  now Key Server with a latest key of remote origin, `macsec_mka_key_server_ensure_sak`
  (mka.c 2044) refuses, no MKPDU can be built and the bridge leaves its loop
  (`link` with a restart of each station and `<<10, 250>>` for the server
  violates `BridgeSurvives`).
* One restart of the Key Server at an unchanged priority violates `Converges`, for
  the reason `restarted_server` shows, which is why the runs of `MacsecLink` have none.

`SecuredBothWays`, `NonceOnce` and `DistributedBeforeInstalled` therefore hold
under the stated conditions (rotating association numbers; the station
generates the keys itself; reports come before other calls), fail without
them, and are proved under just these conditions in section 4.

## 4. Proofs

### The frame layer and the abstract key agreement

`FrameCryptoProofs` proves for every set of keys, every number of
associations, every packet-number range and every window from 0 to 64:

| theorem | statement |
|---|---|
| `TypeCorrect` | `Spec => []TypeOK` |
| `CacheCorrect` | `Spec => []CacheSound` |
| `NextPnCorrect` | `Spec => []NextPnFresh` |
| `WindowCorrect` | with replay protection on, `Spec => []WindowExact` |
| `ServiceCorrect` | with replay protection on, `Spec => ImplementsService` |

`KeyAgreementProofs` proves, for any two different stations and any keys,

| theorem | statement |
|---|---|
| `AlwaysReadable` | `KeyAgreement!Spec => []Readable`: both ends can receive with the key the client sends with, and the server with its own |

`Readable` is inductive together with the domains of the two variables: issuing
adds to what the server reads, adopting chooses among it, and giving up a key
spares the two that are sent with. `BridgesAgree` carries it
over to the two frame layers of the link (`ClientIsRead`).

Assumptions of the theorems about the frame layer: `NoKey` is not a key, `MaxPN`
and `MaxSA` are positive naturals, `Window` is at most 64 (`macsec_frame_replay_check` refuses more); and the
caller's contract in `SetTx`, that a key installed for transmission has
protected nothing yet. Whether `macsec.c` keeps that contract is what
`NonceOnce` asks of the composed model; the delayed key of section 3 breaks it, and a station that generates its keys keeps it.

The argument has three layers of inductive invariants.

* `BaseInv`: types, `SakKeyed` (an association is valid exactly when it has a
  key) and `CacheSound`. Types alone are not inductive: a successful encryption
  records the packet number under the key GCM holds, which must be a key.
* `TxInv` adds `NextPnFresh`. It needs the cache's soundness, because the number
  is checked against the key in `tx_sak` and used with the key in GCM.
* `RxInv` adds, for every association, that its replay state is an exact summary
  of what it delivered: `StrictExact` (highest is the maximum delivered, lowest
  its successor, exhaustion means the last number came) or `WindowedExact` (bit d
  is set exactly when highest - d was delivered, lowest is the larger of the
  installation's floor and the window's end). `WindowExact` itself is not
  inductive: what the check accepts now says nothing about bits that a later
  shift brings to bear.

`ServiceCorrect` follows: each call maps to one step of `FrameService` or to
none, with `RxInv` giving the guard of `Deliver` and `TxInv` that of `Protect`.

### A station in an arbitrary environment

`MacsecNodeProofs` proves, for every set of keys, peers, SAK Use contents and
received frames, every number of restarts, every range of packet, message and
key numbers, every window and every CKN length,

| theorem | assuming | statement |
|---|---|---|
| `NodeInvariant` | | `Spec => []NodeInv` |
| `TypeCorrect` | | `Spec => []TypeOK` |
| `StateFollowsPeer` | | `Spec => []StateMatchesPeer` |
| `SlotsAgree` | | `Spec => []SlotsMatchFrameLayer` |
| `NumbersSkipZero` | | `Spec => []NumbersNeverZero` |
| `RetirementJustified` | | `Spec /\ []SlotsApart => RetiresOnlyWhenConfirmed` |
| `SecuredWhileApart` | | `Spec /\ []SlotsApart => []SecuredBothWays` |
| `ServerSlotsApart` | `SoleKeyServer` | `Spec => []SlotsApart` |
| `ServerSecured` | `SoleKeyServer` | `Spec => []SecuredBothWays` |
| `ServerRetirement` | `SoleKeyServer` | `Spec => RetiresOnlyWhenConfirmed` |
| `DistributionFirst` | `~AsyncTx` | `Spec => []DistributedBeforeInstalled` |
| `ServerNonceOnce` | `SoleKeyServer`, `StaticKeyServesOnce` | `Spec => []NonceOnce` |
| `ReasonsOutlive` | | `Spec => NewReasonsOutliveReport` |

Standing assumptions are those of the modules (`NodeAssumption`, `MkaAssumption`,
`FrameAssumption` and so on): the fields of an MKPDU have their widths, a Distributed SAK that was
unwrapped is a key, generated keys are numbered. The theorems hold in all three
modes of the configuration. The conditions in the second column:

* `SoleKeyServer`: no peer's repertoire has a Distributed SAK. This is the station
  that is Key Server for as long as it runs. Without it two keys may meet in the
  slots under one association number (`restarted_server`) and a used key may come back (section 3, a delayed key), so the condition cannot go; `SecuredWhileApart` says precisely what
  a client needs of its Key Server instead.
* `~AsyncTx`: a control frame is reported before the next call, as in
  `linux_tap_macsec_control_service`. Section 3 has the counterexample without it, a late report.
* `StaticKeyServesOnce`: with a configured key there is one incarnation only; a
  restarted station would begin with packet number 1 of the same key again.

The proof follows the layers of the code. Each operator of `FrameSa`, `Mka` and
`Macsec` gets a lemma that is a contract: what holds of the context before, what it
returns, which fields it leaves alone, and what holds after. The lemma about a caller
uses those about its callees and never their definitions, so that the order of
calls and early returns of a C function is followed once and at its own level.

* `MkaProofs`. `MkaOK` is the invariant of the participant: types, and for each
  slot what its lifecycle state says of its origin and its flags (`LatestOK`,
  `OldOK`), and that the participant's state is the one its peer record and its
  keys call for. Error paths keep it too: what `MkaInput` leaves behind when it
  refuses a parameter set in the middle is covered like its success.
* `MacsecProofs`. `Sound` adds the frame layer: the transmit association is the
  key whose slot says it is installed, every receive association belongs to a
  slot. It is no invariant between the stages of one call, while a key is half
  moved; `Prepared` says what the participant's part of a call leaves to be served, `Served`
  what `macsec_service_mka` makes of it (installed, confirmed, retired, stopped with an
  error), and `Called` what the two give together. `Rested` is what holds
  between two calls: no event is pending and no key waits for its installation except in
  ERROR.
* `NodeInv` is `Rested` in MKA_PSK mode and its counterparts in the two modes
  without a participant, with the types of the history variables. It implies
  `TypeOK`, `StateMatchesPeer` and `SlotsMatchFrameLayer`; none of these is
  inductive, `SlotsMatchFrameLayer` for one because a rekey moves flags from
  one slot to the other according to their lifecycle states. It needs
  `KeyKnown`, that a key in a slot is a key: `macsec_random` may fail.
* `RxInv`, for `SecuredWhileApart`: each slot that says it is received with has its
  receive association. Retiring a slot preserves this exactly if the other slot
  has another AN, hence the hypothesis.
* `RetirementStep`, for `RetirementJustified`: only a received MKPDU retires a key. The old
  slot was in use before (`OldSakServed`), so `macsec_mka_input` confirmed the latest key in
  this very call, which it does for claims of this MKPDU and its sender alone (`Confirmation`
  in `MkaProofs`, `InputMkpduStep` in `MacsecProofs`), and the sender is the peer by then. That
  the receive association of the latest key outlives the removal is `RxInv` after the step,
  hence again `SlotsApart`, which a station that generates its keys has for itself.
* `NumbersInv`, for `ServerSlotsApart`: `next_an` is the AN of a key before its
  distribution and the following one after it, and the old slot has the one
  before. It takes the lifecycle states in both slots to say which.
* `DistInv`, for `DistributionFirst`: `Shared`, that every key generated here and
  past its distribution was sent, and `CarriesLatest`, that the MKPDU that awaits its report
  carries the key still in the latest slot. The second is what fails when calls
  come in between.
* `NonceInv`, for `ServerNonceOnce`: the keys in the slots were drawn and differ
  (`SlotsFresh`), a key that is not installed has sent nothing, only drawn keys
  have (`OnlyIssued`), and the next packet number of the transmit association
  is beyond those sent with its key, or 0 when they are used up (`TxAhead`).
  So the contract of `SetTx` that the theorems about the frame layer assume is
  discharged for a station that generates its keys.
* `LateInv`, for `ReasonsOutlive`: while an MKPDU awaits its report, each reason
  scheduled since it was built is pending, or one the MKPDU stands for as well. Which
  reasons a call schedules is defined by the same call on a context with none pending
  (`Forgetful`), so the proof needs that no operation on the way looks at them:
  every operator of `Mka` and `Macsec` but the builders, the reports and the clock commutes with
  `ScheduleTx` (the lemmas `...Also` and `...Alike`).

### Two bridges on a cable

`MacsecLinkProofs` proves, for every set of faults, every number of keys, any number of
restarts of either bridge and every range of the counters,

| theorem | assuming | statement |
|---|---|---|
| `LinkInvariant` | `KeySupply` | `Spec => []LinkInv` |
| `OneServer` | `KeySupply`, `PrioritiesDiffer` | `Spec => []OneKeyServer` |
| `BridgesSurvive` | `KeySupply`, `ServerWins` | `Spec => []BridgeSurvives` |

* `KeySupply`: every number is a key, that is, `macsec_random` does not come to an
  end. Only the runs have a last key.
* `PrioritiesDiffer`: no start of one bridge has the configured priority of a start of the
  other. With equal ones there is no Key Server (section 3).
* `ServerWins`: one bridge has the better priority at all its starts. If the roles
  change, `BridgeSurvives` is wrong: section 3 has the behaviour.

The `link` run has one client restart and no restart of the Key Server; the theorems
cover both, in any number and at any moment.

`LinkInv` says of each host (`NodeOK`) where its loop is and of its context that it is a
`Bridge`: `Rested`, with no MKPDU awaiting its report, and one of the
`Mates`: its SCI, MI and priority are those of its incarnation, a peer it knows is some
incarnation of the other host, and the Server that always wins has no key of another in
its latest slot. The last is what `ensure_sak` would refuse over, and cannot be shown of one
station alone: it needs that nothing on the way to the Server distributes a key, hence
`Letters`, what the wires may carry. A letter is written from a `Built` context, the one
the report will find, and distributes a key only if its writer took itself for Key Server
while it knew a peer, which the Client does not, because that peer is an incarnation of
the Server and the election compares the two priorities (`ServerIsElected`). The contracts of
`MacsecProofs` carry this over each call: whom an MKPDU makes the peer, that the clock
only forgets it, why a build can fail, and that the report of what was built last is
accepted (`NotifyTxSuccessOfBuilt`), from which it follows that no report ever ends the loop.
`OneServer` adds that a Member Identifier names one incarnation: if both know the
other's present MI, both compare the same two priorities.

### The bridges implement the key agreement

`LinkAgreementProofs` proves, again for any number of keys and of client restarts,

| theorem | assuming | statement |
|---|---|---|
| `NothingMisleads` | `KeySupply`, `ServerWins`, `ServerStays` | `Spec => []AgreeInv` |
| `BridgesAgree` | the same | `Spec => ImplementsKeyAgreement` |
| `ClientIsRead` | the same | `Spec => []KA!Readable` |

`ServerStays` says that no fault restarts the Key Server's bridge and none makes its socket
refuse a frame, over which the bridge would leave its loop. Its MKPDUs may be lost in any
number, and its send queue may be full. The condition
cannot go: `KeyAgreement` has no step by which the server forgets its keys, and a
restarted server numbers them from AN 0 again, with the consequences `restarted_server`
shows. The faults of the `link` run meet it.

The difficulty is what is under way. An MKPDU that distributes a key, or says that
its sender uses one, was true when it was written; by the time it is read keys may have
changed, others may have been lost before it, and the client may have started again.
The slots alone are therefore not inductive. `AgreeInv` adds the wires:

* `Serving`: the server's keys are drawn in rising order, and its AN counts them, so that
  the two slots never share one.
* `Following`: a client's latest key came from the server, and the server receives with it;
  its old key is an older one.
* `WireOK`: everything under way is `Timely`, that is, it speaks only of keys the server still
  receives with; and on one wire nothing about the old key follows something about the
  latest. Here the order of the queues enters.
* `Passed`: once the client uses the latest key, or anything on its way says so, nothing on the
  way to it distributes the old one. Without this the server could retire the old key
  on a confirmation while an MKPDU takes the client back to it.
* `Exact`: the slots of both are what their frame layers do, in both directions, which
  turns a statement about `mka.c` into one about the keys `KeyAgreement` speaks of.

What a call of the stack may do to the slots is one of a few moves: `Holds` (the keys stay, a
confirmation may come or go), `Rotates` (the latest key made room, a
fresh one may wait for its distribution), `Issues` (the key sent first is installed),
`Retires`, and at a client `Adopts`. Each action of `MacsecLink` is taken to one of them, the move to
a step of `KeyAgreement` or a stutter, and the letter that is written, read, lost or damaged to
what it does to `WireOK` and `Passed`. `KeyAgreement` forgets
only at the client's restart or end.

### Only model-checked

`SecuredBothWays` and `RetiresOnlyWhenConfirmed` at a client, in the environment of `node_client`:
the theorems reduce them to `SlotsApart`, which is there a matter of the keys the peer holds.
`ConfirmationIsPeers`, which takes a Key Server that wins the election against every peer. Out of the prover's reach altogether are
liveness under fairness (`Converges`, `KeysMeet`, `Settles`, `OldSakGoes`) and what a
recursive definition computes for all inputs, hence the agreement of `Aes`,
`Cmac`, `Gcm` and `MkaCrypto` with their standards and the eight properties of `CryptoBench`.

## 5. Plan

1. Frame layer, its service and its proofs: done.
2. MKA, the stack interface and one station in an arbitrary environment: done,
   with the three modes.
3. Two bridges on a cable, liveness and the abstract key agreement: done.
4. The cryptography against its standards: done.
5. Theorems about one station, from the participant's operators up: done.
6. A theorem about the abstract key agreement: done.
7. Theorems about two bridges, `OneKeyServer` and `BridgeSurvives`: done.
8. That `MacsecLink` implements `KeyAgreement`, over `LinkInv`: done, without restarts and
   refused sends of the Key Server.

What could follow is a condition on a Key Server, weaker than being one's own, under which
`NonceOnce` holds at its client: that it never distributes a key again after its successor,
which `AgreeInv` says of two bridges between two restarts of the client.

## 6. Not modelled

* `math/`: the read-only copy of the AES tables (a compile-time choice with the
  same contents); IVs of other than 12 bytes, the limit of 2^36 - 32 bytes and the
  continuation of a CMAC over several updates, none of which any caller reaches;
  error returns for key lengths the callers have already refused.
* `macsec_init` on a configuration it refuses (macsec.c 524-528, 536-540, 549-553: a
  static key or association number the frame layer does not take, a pre-shared key
  of a wrong length, an unknown mode): it returns an error with the stack in ERROR,
  and `linux_tap`, its caller, ends. The stations of the model are those whose
  initialisation succeeded.
* `port/`: random numbers, time and logging of a platform. `macsec_random`
  appears as the draw of a fresh key or Member Identifier.
* `examples/linux_tap`: configuration parsing, statistics, and the TAP device,
  whose frames `MacsecNode` takes as calls of `macsec_output`.
* `macsec_common.c`: byte order, hexadecimal output, zeroisation. Only
  `macsec_compare` decides anything.
* `examples/mem_usage_stm32`, the self tests and the unit tests: programs that
  measure or test the modules above and add no behaviour.
