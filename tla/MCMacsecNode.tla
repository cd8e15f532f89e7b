----------------------------- MODULE MCMacsecNode -----------------------------
(* The environments MacsecNode is checked in. *)
EXTENDS MacsecNode

Dist(kn, an, key) == [has |-> "dist", kn |-> kn, an |-> an, key |-> key]

Peer(mi, prio, dists) == [sci |-> 2, mi |-> mi, prio |-> prio, dists |-> dists]

\* Keys whose association numbers rotate, as one Key Server assigns them.
RotatingSaks == {NoDist, BadDist, Dist(1, 0, 1), Dist(2, 1, 2)}

\* Two participants that lose the election, the second the first restarted.
ClientPeers == {Peer(11, 9, {NoDist, BadDist}), Peer(12, 9, {NoDist, BadDist})}
\* Two participants that win it.
ServerPeers == {Peer(11, 1, RotatingSaks), Peer(12, 1, RotatingSaks)}
\* A Key Server that restarts counts from key number 1 and AN 0 again.
RestartedServer == {Peer(11, 1, {NoDist, Dist(1, 0, 1)}),
                    Peer(12, 1, {NoDist, Dist(1, 0, 2)})}

\* Key numbers and ANs of the first two keys a Key Server issues.
FirstTwo == {<<1, 0>>, <<2, 1>>}
FirstKey == {<<1, 0>>}

\* One data frame for each of the first two associations.
OneFrameEach ==
    {[an |-> a, pn |-> 1, key |-> a + 1, wellformed |-> TRUE] : a \in {0, 1}}
=============================================================================
