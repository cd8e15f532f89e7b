----------------------------- MODULE MCMacsecLink -----------------------------
(* The hosts and the faults MacsecLink is checked with. *)
EXTENDS MacsecLink, TLC

\* The lower value wins the election; restarts do not change it.
Priorities == Server :> <<10, 10>> @@ Client :> <<200, 200>>

\* One fault of every kind, one lost MKPDU in each direction, at any moment and
\* in any order.  A restart of the Key Server is left to
\* MCMacsecNode_restarted: it breaks the link.
AllKinds == {<<"lose", Client, 1>>, <<"lose", Server, 1>>, <<"damage", Server, 1>>,
             <<"full", Server, 1>>, <<"refused", Client, 1>>, <<"restart", Client, 1>>}

\* The damaged MKPDU alone.
OneDamaged == {<<"damage", Server, 1>>}

\* Two MKPDUs to the same host.
TwoLost == {<<"lose", Client, 1>>, <<"lose", Client, 2>>}

OneRestart == {<<"restart", Client, 1>>}
=============================================================================
