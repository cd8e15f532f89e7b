---------------------------- MODULE KeyAgreement ----------------------------
(***************************************************************************)
(* What two stations owe each other while they change keys, with no MKPDUs *)
(* in between: the Key Server moves to fresh keys, the other station       *)
(* follows with keys the server can already read, and a key is given up    *)
(* only when the other side no longer sends with it.  Keys are numbered as *)
(* they are drawn, 0 is none.                                              *)
(***************************************************************************)
EXTENDS Naturals

CONSTANTS Server, Client

VARIABLES tx,   \* the key each station sends with
          rx    \* the keys each station can receive with

kvars == <<tx, rx>>

Init ==
    /\ tx = [n \in {Server, Client} |-> 0]
    /\ rx = [n \in {Server, Client} |-> {}]

\* Every earlier key the server receives with is older than the new one.
Issue(k) ==
    /\ k > tx[Server]
    /\ \A old \in rx[Server] : old < k
    /\ tx' = [tx EXCEPT ![Server] = k]
    /\ rx' = [rx EXCEPT ![Server] = @ \cup {k}]

\* The client never goes back to an older key.
Adopt(k) ==
    /\ k \in rx[Server]
    /\ k > tx[Client]
    /\ tx' = [tx EXCEPT ![Client] = k]
    /\ rx' = [rx EXCEPT ![Client] = @ \cup {k}]

\* A station keeps the key it sends with and every key the other one may
\* still send with.
Retire(n, o, k) ==
    /\ k \in rx[n]
    /\ k # tx[n] /\ k # tx[o]
    /\ rx' = [rx EXCEPT ![n] = @ \ {k}]
    /\ UNCHANGED tx

\* The client is stopped or started again.
Forget ==
    /\ tx' = [tx EXCEPT ![Client] = 0]
    /\ rx' = [rx EXCEPT ![Client] = {}]

Next ==
    \/ \E k \in {tx'[Server]} : Issue(k)
    \/ \E k \in rx[Server] : Adopt(k)
    \/ \E k \in rx[Server] : Retire(Server, Client, k)
    \/ \E k \in rx[Client] : Retire(Client, Server, k)
    \/ Forget

Spec == Init /\ [][Next]_kvars

\* Each station can receive with the key it sends with, and the server with
\* the client's: what the client sends is never lost on a missing key.
Readable ==
    /\ \A n \in {Server, Client} : tx[n] # 0 => tx[n] \in rx[n]
    /\ tx[Client] # 0 => tx[Client] \in rx[Server]
=============================================================================
