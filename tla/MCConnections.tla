--------------------------- MODULE MCConnections ---------------------------
(* Connections on a few nodes: one or two addresses, that can be dialled    *)
(* and can connect to us, and perhaps a name that resolves to the first.     *)
EXTENDS Connections, TLC

CONSTANTS a1, a2

MCAddr == {a1}
MCAddrs == {a1, a2}
MCAddressOf == [d \in Name |-> a1]

\* Nodes are alike, and so are the opening threads.
Alike == Permutations(Node) \cup Permutations(Opener)
=============================================================================
