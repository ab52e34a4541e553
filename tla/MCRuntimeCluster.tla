--------------------------- MODULE MCRuntimeCluster ---------------------------
(* RuntimeCluster on one or two nodes with up to two ticks, one or two clients. *)
EXTENDS RuntimeCluster, TLC

CONSTANTS n1, n2, t1, t2, c1, c2, d1, d1x, d2, i1, i2

\* A tick is <<n>>, the only one its node has in flight; only n1 gossips.
MCOneTick == {<<n1>>}
MCOneTickCaller == MCOneTick \cup {c1}

MCHome == [c \in Caller |-> IF c \in Client THEN Outside ELSE c[1]]

\* Two ticks of n1 overlap; they are interchangeable, and so are the contents of an id.
MCOverlapHome == [c \in Caller |-> IF c \in Client THEN Outside ELSE n1]
OverlapSymmetry == Permutations({t1, t2}) \cup Permutations(Decision)

\* A node alone.
MCNoPeers == [n \in Node |-> <<>>]

\* n1 has the other node as its peer, which has none.
MCPeersOneWay == [n \in Node |-> IF n = n1 THEN <<n2>> ELSE <<>>]

\* The client posts to every node, or to n1 only.
MCContacts == [c \in Client |-> Node]
MCContactsN1 == [c \in Client |-> {n1}]

\* d1 and d1x share their id.
MCIdOf == [d \in Decision |-> IF d = d2 THEN i2 ELSE i1]
===============================================================================
