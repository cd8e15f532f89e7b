-------------------------- MODULE KeyAgreementProofs --------------------------
(***************************************************************************)
(* What follows from the promises of KeyAgreement for any two stations:    *)
(* no key is ever sent with that the other end has given up.               *)
(***************************************************************************)
EXTENDS KeyAgreement, TLAPS

\* The two variables keep their domains, without which the updates of one
\* station's entry say nothing.
Domains == DOMAIN tx = {Server, Client} /\ DOMAIN rx = {Server, Client}

\* Readable is inductive together with Domains.
KInv == Domains /\ Readable

LEMMA InitEstablishes ==
    ASSUME Init
    PROVE  KInv
  BY DEF Init, KInv, Domains, Readable

LEMMA StepPreserves ==
    ASSUME Server # Client, KInv, [Next]_kvars
    PROVE  KInv'
  <1> USE DEF KInv, Domains, Readable
  <1>1. ASSUME NEW k, Issue(k)
        PROVE  KInv'
    \* The new key is one of the server's, and the client's is still there.
    BY <1>1 DEF Issue
  <1>2. ASSUME NEW k \in rx[Server], Adopt(k)
        PROVE  KInv'
    BY <1>2 DEF Adopt
  <1>3. ASSUME NEW k \in rx[Server], Retire(Server, Client, k)
        PROVE  KInv'
    \* The guard spares the keys both stations send with.
    BY <1>3 DEF Retire
  <1>4. ASSUME NEW k \in rx[Client], Retire(Client, Server, k)
        PROVE  KInv'
    BY <1>4 DEF Retire
  <1>5. CASE Forget
    BY <1>5 DEF Forget
  <1>6. CASE UNCHANGED kvars
    BY <1>6 DEF kvars
  <1> QED
    BY <1>1, <1>2, <1>3, <1>4, <1>5, <1>6 DEF Next

\* Whatever keys are issued, adopted, given up and forgotten, both ends can
\* read what the client sends, and the server what it sends itself
\* (installation before transmission in macsec.c 263-321, retirement on
\* confirmation in mka.c 1421-1444).
THEOREM AlwaysReadable ==
    ASSUME Server # Client
    PROVE  Spec => []Readable
  <1>1. Init => KInv
    BY InitEstablishes
  <1>2. KInv /\ [Next]_kvars => KInv'
    BY StepPreserves
  <1>3. KInv => Readable
    BY DEF KInv
  <1> QED
    BY <1>1, <1>2, <1>3, PTL DEF Spec
===============================================================================
