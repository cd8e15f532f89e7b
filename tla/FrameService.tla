----------------------------- MODULE FrameService -----------------------------
(***************************************************************************)
(* What the frame layer promises its caller, without bitmaps, watermarks   *)
(* or key caches: a frame is delivered only under the key of its Secure    *)
(* Association, at most once per installation of that association and only *)
(* inside the replay window; and no packet number is used twice with one   *)
(* transmit key, provided the caller never installs a used key again.      *)
(***************************************************************************)
EXTENDS Integers

CONSTANTS Key, NoKey, MaxPN, MaxSA, Window

VARIABLES tx,       \* the transmit key in use
          used,     \* used[k]: packet numbers protected with key k so far
          rx,       \* rx[an]: the key of receive association an
          floor,    \* floor[an]: lowest packet number it was installed with
          got,      \* got[an]: the <<key, pn>> delivered since installation
          protected,  \* protected[k]: how many frames used[k] stands for
          delivered   \* delivered[an]: how many frames got[an] stands for

\* The counts make a repetition visible: with the sets alone, using a packet
\* number again would look like doing nothing.
svars == <<tx, used, rx, floor, got, protected, delivered>>

SA == 0 .. MaxSA - 1
Numbers == 1 .. MaxPN

\* pn is new to association an and not older than its window.
Acceptable(an, pn) ==
    /\ pn >= floor[an]
    /\ \A g \in got[an] : IF Window = 0 THEN pn > g[2]
                          ELSE pn # g[2] /\ pn + Window > g[2]

Init ==
    /\ tx = NoKey
    /\ used = [k \in Key |-> {}]
    /\ rx = [an \in SA |-> NoKey]
    /\ floor = [an \in SA |-> 1]
    /\ got = [an \in SA |-> {}]
    /\ protected = [k \in Key |-> 0]
    /\ delivered = [an \in SA |-> 0]

InstallTx(k) ==
    /\ used[k] = {}
    /\ tx' = k
    /\ UNCHANGED <<used, rx, floor, got, protected, delivered>>

RemoveTx ==
    /\ tx' = NoKey
    /\ UNCHANGED <<used, rx, floor, got, protected, delivered>>

Protect(pn) ==
    /\ tx # NoKey
    /\ \A q \in used[tx] : pn > q
    /\ used' = [used EXCEPT ![tx] = @ \cup {pn}]
    /\ protected' = [protected EXCEPT ![tx] = @ + 1]
    /\ UNCHANGED <<tx, rx, floor, got, delivered>>

InstallRx(an, k, low) ==
    /\ rx' = [rx EXCEPT ![an] = k]
    /\ floor' = [floor EXCEPT ![an] = low]
    /\ got' = [got EXCEPT ![an] = {}]
    /\ delivered' = [delivered EXCEPT ![an] = 0]
    /\ UNCHANGED <<tx, used, protected>>

RemoveRx(an) ==
    /\ rx' = [rx EXCEPT ![an] = NoKey]
    /\ floor' = [floor EXCEPT ![an] = 1]
    /\ got' = [got EXCEPT ![an] = {}]
    /\ delivered' = [delivered EXCEPT ![an] = 0]
    /\ UNCHANGED <<tx, used, protected>>

Deliver(an, pn) ==
    /\ rx[an] # NoKey
    /\ Acceptable(an, pn)
    /\ got' = [got EXCEPT ![an] = @ \cup {<<rx[an], pn>>}]
    /\ delivered' = [delivered EXCEPT ![an] = @ + 1]
    /\ UNCHANGED <<tx, used, rx, floor, protected>>

Reset ==
    /\ tx' = NoKey
    /\ rx' = [an \in SA |-> NoKey]
    /\ floor' = [an \in SA |-> 1]
    /\ got' = [an \in SA |-> {}]
    /\ delivered' = [an \in SA |-> 0]
    /\ UNCHANGED <<used, protected>>

Next ==
    \/ \E k \in Key : InstallTx(k)
    \/ RemoveTx
    \/ \E pn \in Numbers : Protect(pn)
    \/ \E an \in SA, k \in Key, low \in Numbers : InstallRx(an, k, low)
    \/ \E an \in SA : RemoveRx(an)
    \/ \E an \in SA, pn \in Numbers : Deliver(an, pn)
    \/ Reset

Spec == Init /\ [][Next]_svars
=============================================================================
