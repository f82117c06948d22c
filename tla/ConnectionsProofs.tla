--------------------------- MODULE ConnectionsProofs ---------------------------
(***************************************************************************)
(* The lives of connections.  For any number of opening threads, as long   *)
(* as no two of them share a node: no unit of the semaphore is lost or     *)
(* made.  With one opening thread, which shares none: outbound connections *)
(* stay within the semaphore, and no node is deleted while it is used.     *)
(***************************************************************************)
EXTENDS Connections, FiniteSetTheorems, TLAPS

Releasing == IF Disconnecting THEN {socket.node} ELSE {}
Held == vNodes \cup vNodesDisconnected \cup Releasing

Granted == {n \in Node : node[n].grant /\ ~ Posted(n)}
Holding == {o \in Opener : HasGrant(o)}

SocketState == [pc : {"disconnect", "post", "clear", "release", "accept", "copy",
                      "service"},
                node : Node \cup {NoNode}, vNodesCopy : SUBSET Node]
HandlerState == [pc : {"copy", "messages"}, vNodesCopy : SUBSET Node]
OpenerState == [pc : {"grant", "choose", "find", "dial", "addref", "write", "move",
                      "post", "clear", "set", "flag", "oneshot"},
                dest : Dest \cup {NoNode}, node : Node \cup {NoNode}, read : Int]

\* Where an opening thread holds a unit, uses a node, moves its unit to a new
\* node, and is only with a node that was there already.
HoldingPc == {"choose", "find", "dial", "addref", "write", "move", "post", "clear", "set"}
UsingPc == {"addref", "write", "move", "post", "clear", "set", "flag", "oneshot"}
MovingPc == {"move", "set"}
SharingPc == {"addref", "write", "post", "clear"}

\* The types.
Types ==
    /\ node \in [Node -> CNode]
    /\ vNodes \subseteq Node /\ vNodesDisconnected \subseteq Node
    /\ deleted \subseteq Node
    /\ semOutbound \in Nat /\ shared \in BOOLEAN
    /\ socket \in SocketState /\ handler \in HandlerState
    /\ opener \in [Opener -> OpenerState]

(* A node that was made is connected, about to be or being disconnected, or *)
(* deleted, and an opening thread works on such a node only.               *)
Places ==
    /\ vNodes \cap vNodesDisconnected = {} /\ vNodes \cap deleted = {}
    /\ vNodesDisconnected \cap deleted = {}
    /\ Releasing \subseteq Node \ (vNodes \cup vNodesDisconnected \cup deleted)
    /\ \A o \in Opener :
          /\ opener[o].pc \in {"find", "dial"} => opener[o].dest \in Dest
          /\ opener[o].pc \in UsingPc => opener[o].node \in Held \cup deleted

(* Opening threads that share no node move their units to nodes of their    *)
(* own, which have none yet; and what the socket handler posts is there.    *)
MovesApart ==
    \A o \in Opener :
       /\ opener[o].pc \notin SharingPc
       /\ opener[o].pc \in MovingPc =>
             /\ ~ node[opener[o].node].grant
             /\ \A p \in Opener \ {o} :
                   opener[p].pc \in MovingPc => opener[p].node # opener[o].node
PostsOwn == socket.pc \in {"post", "clear"} => node[socket.node].grant

\* A connection of ours has a unit or is about to get it.
OursGranted ==
    \A n \in vNodes :
       \/ node[n].fInbound \/ node[n].grant
       \/ \E o \in Opener : opener[o].pc \in MovingPc /\ opener[o].node = n

(* The units of the semaphore, where each one is; a node that is not made   *)
(* has none.                                                                *)
GrantInv ==
    /\ semOutbound + Cardinality(Holding) + Cardinality(Granted) = nMaxOutbound
    /\ \A n \in Node \ (Held \cup deleted) : ~ node[n].grant
    /\ MovesApart /\ PostsOwn /\ OursGranted

ConnInv == Types /\ Places /\ (shared \/ GrantInv)

-----------------------------------------------------------------------------
\* What references and their release write.
LEMMA AddRefIs ==
    ASSUME node \in [Node -> CNode], NEW S \in SUBSET Node
    PROVE  /\ AddRef(S) \in [Node -> CNode]
           /\ \A n \in Node :
                 /\ AddRef(S)[n].nRefCount =
                       node[n].nRefCount + (IF n \in S THEN 1 ELSE 0)
                 /\ AddRef(S)[n].grant = node[n].grant
                 /\ AddRef(S)[n].fInbound = node[n].fInbound
                 /\ AddRef(S)[n].fNetworkNode = node[n].fNetworkNode
                 /\ AddRef(S)[n].addr = node[n].addr
<1>1. \A n \in Node : node[n] \in CNode /\ node[n].nRefCount \in Int
  BY DEF CNode
<1>2. \A n \in Node : [node[n] EXCEPT !.nRefCount = @ + 1] \in CNode
  BY <1>1 DEF CNode
<1>3. \A n \in Node : AddRef(S)[n] =
        IF n \in S THEN [node[n] EXCEPT !.nRefCount = @ + 1] ELSE node[n]
  BY DEF AddRef
<1>4. AddRef(S) \in [Node -> CNode]
  BY <1>1, <1>2 DEF AddRef
<1>5. QED
  BY <1>1, <1>3, <1>4 DEF CNode

\* What the release of references writes.
LEMMA ReleaseIs ==
    ASSUME node \in [Node -> CNode], NEW S \in SUBSET Node
    PROVE  /\ Release(S) \in [Node -> CNode]
           /\ \A n \in Node :
                 /\ Release(S)[n].nRefCount =
                       node[n].nRefCount - (IF n \in S THEN 1 ELSE 0)
                 /\ Release(S)[n].grant = node[n].grant
                 /\ Release(S)[n].fInbound = node[n].fInbound
                 /\ Release(S)[n].fNetworkNode = node[n].fNetworkNode
                 /\ Release(S)[n].addr = node[n].addr
<1>1. \A n \in Node : node[n] \in CNode /\ node[n].nRefCount \in Int
  BY DEF CNode
<1>2. \A n \in Node : [node[n] EXCEPT !.nRefCount = @ - 1] \in CNode
  BY <1>1 DEF CNode
<1>3. \A n \in Node : Release(S)[n] =
        IF n \in S THEN [node[n] EXCEPT !.nRefCount = @ - 1] ELSE node[n]
  BY DEF Release
<1>4. Release(S) \in [Node -> CNode]
  BY <1>1, <1>2 DEF Release
<1>5. QED
  BY <1>1, <1>3, <1>4 DEF CNode

\* A new node: of our making or a peer's, with one reference and no grant.
LEMMA NewNodeIs ==
    ASSUME NEW d \in Dest, NEW inbound \in BOOLEAN
    PROVE  /\ NewNode(d, inbound) \in CNode
           /\ NewNode(d, inbound).fInbound = inbound
           /\ NewNode(d, inbound).fNetworkNode = FALSE
           /\ NewNode(d, inbound).grant = FALSE
           /\ NewNode(d, inbound).nRefCount = 1
           /\ NewNode(d, inbound).addr = AddrOf(d)
<1>1. AddrOf(d) \in Addr
  BY ConnectionsAssumption DEF AddrOf, Dest
<1>2. QED
  BY <1>1 DEF NewNode, CNode

\* One field of a node written.
LEMMA FlagDisconnect ==
    ASSUME node \in [Node -> CNode], NEW n \in Node,
           node' = [node EXCEPT ![n].fDisconnect = TRUE]
    PROVE  /\ node' \in [Node -> CNode]
           /\ \A m \in Node :
                 /\ node'[m].nRefCount = node[m].nRefCount
                 /\ node'[m].grant = node[m].grant
                 /\ node'[m].fInbound = node[m].fInbound
                 /\ node'[m].fNetworkNode = node[m].fNetworkNode
                 /\ node'[m].addr = node[m].addr
BY DEF CNode

\* The node marked as one of ours.
LEMMA FlagNetwork ==
    ASSUME node \in [Node -> CNode], NEW n \in Node,
           node' = [node EXCEPT ![n].fNetworkNode = TRUE]
    PROVE  /\ node' \in [Node -> CNode]
           /\ \A m \in Node :
                 /\ node'[m].nRefCount = node[m].nRefCount
                 /\ node'[m].grant = node[m].grant
                 /\ node'[m].fInbound = node[m].fInbound
                 /\ node'[m].fNetworkNode = IF m = n THEN TRUE ELSE node[m].fNetworkNode
                 /\ node'[m].addr = node[m].addr
BY DEF CNode

\* What a thread without the lock writes back.
LEMMA CountWritten ==
    ASSUME node \in [Node -> CNode], NEW n \in Node, NEW k \in Int,
           node' = [node EXCEPT ![n].nRefCount = k]
    PROVE  /\ node' \in [Node -> CNode]
           /\ \A m \in Node :
                 /\ node'[m].grant = node[m].grant
                 /\ node'[m].fInbound = node[m].fInbound
                 /\ node'[m].fNetworkNode = node[m].fNetworkNode
                 /\ node'[m].addr = node[m].addr
BY DEF CNode

\* A unit moved to a node.
LEMMA GrantMoved ==
    ASSUME node \in [Node -> CNode], NEW n \in Node,
           node' = [node EXCEPT ![n].grant = TRUE]
    PROVE  /\ node' \in [Node -> CNode]
           /\ \A m \in Node :
                 /\ node'[m].nRefCount = node[m].nRefCount
                 /\ node'[m].grant = IF m = n THEN TRUE ELSE node[m].grant
                 /\ node'[m].fInbound = node[m].fInbound
                 /\ node'[m].fNetworkNode = node[m].fNetworkNode
                 /\ node'[m].addr = node[m].addr
BY DEF CNode

\* A node's unit gone.
LEMMA GrantCleared ==
    ASSUME node \in [Node -> CNode], NEW n \in Node,
           node' = [node EXCEPT ![n].grant = FALSE]
    PROVE  /\ node' \in [Node -> CNode]
           /\ \A m \in Node :
                 /\ node'[m].nRefCount = node[m].nRefCount
                 /\ node'[m].grant = IF m = n THEN FALSE ELSE node[m].grant
                 /\ node'[m].fInbound = node[m].fInbound
                 /\ node'[m].fNetworkNode = node[m].fNetworkNode
                 /\ node'[m].addr = node[m].addr
BY DEF CNode

\* A closed connection: what stays as it was.
LEMMA ClosedFields ==
    ASSUME NEW R \in [Node -> CNode], NEW n \in Node, NEW Q,
           Q = [R EXCEPT ![n].fDisconnect = TRUE]
    PROVE  /\ Q \in [Node -> CNode]
           /\ \A m \in Node :
                 /\ Q[m].nRefCount = R[m].nRefCount
                 /\ Q[m].grant = R[m].grant
                 /\ Q[m].fInbound = R[m].fInbound
                 /\ Q[m].fNetworkNode = R[m].fNetworkNode
                 /\ Q[m].addr = R[m].addr
BY DEF CNode

\* A closed connection, with the references released at its end.
LEMMA ClosedIs ==
    ASSUME node \in [Node -> CNode], NEW S \in SUBSET Node, NEW n \in Node,
           node' = [Release(S) EXCEPT ![n].fDisconnect = TRUE]
    PROVE  /\ node' \in [Node -> CNode]
           /\ \A m \in Node :
                 /\ node'[m].nRefCount = node[m].nRefCount - (IF m \in S THEN 1 ELSE 0)
                 /\ node'[m].grant = node[m].grant
                 /\ node'[m].fInbound = node[m].fInbound
                 /\ node'[m].fNetworkNode = node[m].fNetworkNode
                 /\ node'[m].addr = node[m].addr
<1> DEFINE R == Release(S)
<1>1. /\ R \in [Node -> CNode]
      /\ \A m \in Node :
            /\ R[m].nRefCount = node[m].nRefCount - (IF m \in S THEN 1 ELSE 0)
            /\ R[m].grant = node[m].grant
            /\ R[m].fInbound = node[m].fInbound
            /\ R[m].fNetworkNode = node[m].fNetworkNode
            /\ R[m].addr = node[m].addr
  BY ReleaseIs
<1>2. node' = [R EXCEPT ![n].fDisconnect = TRUE]
  OBVIOUS
<1> HIDE DEF R
<1>3. /\ node' \in [Node -> CNode]
      /\ \A m \in Node :
            /\ node'[m].nRefCount = R[m].nRefCount
            /\ node'[m].grant = R[m].grant
            /\ node'[m].fInbound = R[m].fInbound
            /\ node'[m].fNetworkNode = R[m].fNetworkNode
            /\ node'[m].addr = R[m].addr
  <2>1. R \in [Node -> CNode]
    BY <1>1
  <2>2. QED
    BY <1>2, <2>1, ClosedFields
<1>4. QED
  BY <1>1, <1>3

\* The units of deleted nodes.
LEMMA GrantsGone ==
    ASSUME node \in [Node -> CNode], NEW gone \in SUBSET Node,
           node' = [n \in Node |-> IF n \in gone THEN [node[n] EXCEPT !.grant = FALSE]
                                   ELSE node[n]]
    PROVE  /\ node' \in [Node -> CNode]
           /\ \A m \in Node :
                 /\ node'[m].nRefCount = node[m].nRefCount
                 /\ node'[m].grant = IF m \in gone THEN FALSE ELSE node[m].grant
                 /\ node'[m].fInbound = node[m].fInbound
                 /\ node'[m].fNetworkNode = node[m].fNetworkNode
                 /\ node'[m].addr = node[m].addr
BY DEF CNode

\* A node made.
LEMMA NodeMade ==
    ASSUME node \in [Node -> CNode], NEW n \in Node, NEW r \in CNode,
           node' = [node EXCEPT ![n] = r]
    PROVE  /\ node' \in [Node -> CNode]
           /\ \A m \in Node : node'[m] = IF m = n THEN r ELSE node[m]
OBVIOUS

\* One opening thread moved on.
LEMMA OpenerMoved ==
    ASSUME opener \in [Opener -> OpenerState], NEW o \in Opener, NEW s \in OpenerState,
           opener' = [opener EXCEPT ![o] = s]
    PROVE  /\ opener' \in [Opener -> OpenerState]
           /\ \A p \in Opener : opener'[p] = IF p = o THEN s ELSE opener[p]
OBVIOUS

\* Where an opening thread rests.
LEMMA RestingIs ==
    Resting \in OpenerState /\ Resting.pc = "grant"
BY DEF Resting, OpenerState

(* Finitely many nodes and threads have grants.                             *)
LEMMA GrantsFinite ==
    /\ IsFiniteSet(Holding) /\ Cardinality(Holding) \in Nat
    /\ IsFiniteSet(Granted) /\ Cardinality(Granted) \in Nat
<1>1. Holding \in SUBSET Opener /\ Granted \in SUBSET Node
  BY DEF Holding, Granted
<1>2. QED
  BY <1>1, ConnectionsAssumption, FS_Subset, FS_CardinalityType

(* A step that moves no grant.                                              *)
LEMMA GrantsStay ==
    ASSUME ConnInv, Types', Places', semOutbound' = semOutbound, shared' = shared,
           \A n \in Node : node'[n].grant = node[n].grant,
           \A n \in Node : Posted(n)' <=> Posted(n),
           \A o \in Opener : HasGrant(o)' <=> HasGrant(o),
           Held \cup deleted \subseteq Held' \cup deleted',
           shared \/ (MovesApart' /\ PostsOwn' /\ OursGranted')
    PROVE  ConnInv'
<1>1. Granted' = Granted /\ Holding' = Holding
  BY DEF Granted, Holding
<1>2. shared \/ GrantInv'
  BY <1>1 DEF ConnInv, GrantInv
<1>3. QED
  BY <1>2 DEF ConnInv

\* The opening threads, when others write no grant.
LEMMA ApartStay ==
    ASSUME ConnInv, opener' = opener, \A n \in Node : node'[n].grant = node[n].grant
    PROVE  /\ shared \/ MovesApart'
           /\ \A o \in Opener : HasGrant(o)' <=> HasGrant(o)
<1>1. Held \cup deleted \subseteq Node
  BY DEF ConnInv, Places, Types, Held
<1>2. \A o \in Opener : opener[o].pc \in MovingPc => opener[o].node \in Node
  BY <1>1 DEF ConnInv, Places, MovingPc, UsingPc
<1>3. QED
  BY <1>2 DEF ConnInv, GrantInv, MovesApart, HasGrant

-----------------------------------------------------------------------------
\* At the start there are no nodes, and all units are free.
LEMMA ConnInit == Init => ConnInv
<1> SUFFICES ASSUME Init PROVE ConnInv
  OBVIOUS
<1> DEFINE a == CHOOSE a \in Addr : TRUE
<1>1. a \in Dest
  BY ConnectionsAssumption DEF Dest
<1> HIDE DEF a
<1>2. NewNode(a, FALSE) \in CNode /\ NewNode(a, FALSE).grant = FALSE
  BY <1>1, NewNodeIs
<1>3. node = [n \in Node |-> NewNode(a, FALSE)]
  BY DEF Init, a
<1>4. Types
  BY <1>2, <1>3, RestingIs, ConnectionsAssumption
     DEF Init, Types, SocketState, HandlerState
<1>5. Places
  BY RestingIs DEF Init, Places, Releasing, Disconnecting, UsingPc
<1>6. Holding = {} /\ Granted = {}
  <2>1. \A o \in Opener : ~ HasGrant(o)
    BY RestingIs DEF Init, HasGrant
  <2>2. \A n \in Node : ~ node[n].grant
    BY <1>2, <1>3
  <2>3. QED
    BY <2>1, <2>2 DEF Holding, Granted
<1>7. GrantInv
  <2>1. Cardinality(Holding) = 0 /\ Cardinality(Granted) = 0
    BY <1>6, FS_EmptySet
  <2>2. \A n \in Node : ~ node[n].grant
    BY <1>2, <1>3
  <2>3. semOutbound = nMaxOutbound /\ nMaxOutbound \in Nat /\ vNodes = {}
    BY ConnectionsAssumption DEF Init
  <2>4. semOutbound + Cardinality(Holding) + Cardinality(Granted) = nMaxOutbound
    BY <2>1, <2>3
  <2>5. MovesApart /\ PostsOwn /\ OursGranted
    BY <2>3, RestingIs
       DEF Init, MovesApart, PostsOwn, OursGranted, SharingPc, MovingPc
  <2>6. QED
    BY <2>2, <2>4, <2>5 DEF GrantInv
<1>8. QED
  BY <1>4, <1>5, <1>7 DEF ConnInv

\* A node leaves vNodes, with its grant.
LEMMA DisconnectNodeConn ==
    ASSUME ConnInv, NEW n \in Node, DisconnectNode(n)
    PROVE  ConnInv'
<1> USE DEF ConnInv
<1>1. /\ socket.pc = "disconnect" /\ n \in vNodes
      /\ vNodes' = vNodes \ {n}
      /\ socket' = [socket EXCEPT !.pc = IF node[n].grant THEN "post" ELSE "release",
                                  !.node = n]
      /\ UNCHANGED <<node, vNodesDisconnected, deleted, semOutbound, handler, opener, shared>>
  BY DEF DisconnectNode, Releases
<1>2. /\ socket' \in SocketState /\ socket'.node = n
      /\ socket'.pc = IF node[n].grant THEN "post" ELSE "release"
  BY <1>1 DEF Types, SocketState
<1>3. Releasing = {} /\ Releasing' = {n}
  BY <1>1, <1>2 DEF Releasing, Disconnecting
<1>4. Held' = Held
  BY <1>1, <1>3 DEF Held
<1>5. Types'
  BY <1>1, <1>2 DEF Types
<1>6. Places'
  BY <1>1, <1>3, <1>4 DEF Places
<1>7. \A m \in Node : Posted(m)' <=> Posted(m)
  BY <1>1, <1>2 DEF Posted
<1>8. shared \/ (PostsOwn' /\ OursGranted')
  BY <1>1, <1>2 DEF GrantInv, PostsOwn, OursGranted
<1>9. QED
  BY <1>1, <1>4, <1>5, <1>6, <1>7, <1>8, ApartStay, GrantsStay

\* The unit of the node is free again, when it is posted.
LEMMA PostDisconnectedConn ==
    ASSUME ConnInv, PostDisconnected
    PROVE  ConnInv'
<1> USE DEF ConnInv
<1> DEFINE n == socket.node
<1>1. /\ socket.pc = "post"
      /\ semOutbound' = semOutbound + 1
      /\ socket' = [socket EXCEPT !.pc = "clear"]
      /\ UNCHANGED <<node, vNodes, vNodesDisconnected, deleted, handler, opener, shared>>
  BY DEF PostDisconnected
<1>2. socket' \in SocketState /\ socket'.pc = "clear" /\ socket'.node = n
  BY <1>1 DEF Types, SocketState
<1>3. Releasing' = Releasing /\ Releasing = {n}
  BY <1>1, <1>2 DEF Releasing, Disconnecting
<1>4. Held' = Held /\ n \in Node
  BY <1>1, <1>3 DEF Held, Places
<1>5. Types' /\ Places'
  BY <1>1, <1>2, <1>3, <1>4 DEF Types, Places
<1>6. shared \/ GrantInv'
  <2> SUFFICES ASSUME ~ shared PROVE GrantInv'
    OBVIOUS
  <2>1. GrantInv /\ node[n].grant
    BY <1>1 DEF GrantInv, PostsOwn
  <2> HIDE DEF n
  <2>2. Granted' = Granted \ {n} /\ n \in Granted
    BY <1>1, <1>2, <1>4, <2>1 DEF Granted, Posted
  <2>3. Holding' = Holding
    BY <1>1 DEF Holding, HasGrant
  <2>4. Cardinality(Granted') = Cardinality(Granted) - 1
    BY <2>2, GrantsFinite, FS_RemoveElement
  <2>5. semOutbound \in Nat /\ nMaxOutbound \in Nat
    BY ConnectionsAssumption DEF Types
  <2>6. semOutbound' + Cardinality(Holding') + Cardinality(Granted') = nMaxOutbound
    BY <1>1, <2>1, <2>3, <2>4, <2>5, GrantsFinite DEF GrantInv
  <2>7. MovesApart' /\ PostsOwn' /\ OursGranted'
    BY <1>1, <1>2, <2>1 DEF GrantInv, MovesApart, PostsOwn, OursGranted
  <2>8. QED
    BY <1>1, <1>4, <2>1, <2>6, <2>7 DEF GrantInv
<1>7. QED
  BY <1>1, <1>5, <1>6

\* The node has no unit any more, as was counted when it was posted.
LEMMA ClearDisconnectedConn ==
    ASSUME ConnInv, ClearDisconnected
    PROVE  ConnInv'
<1> USE DEF ConnInv
<1> DEFINE n == socket.node
<1>1. /\ socket.pc = "clear"
      /\ node' = [node EXCEPT ![n].grant = FALSE]
      /\ socket' = [socket EXCEPT !.pc = "release"]
      /\ UNCHANGED <<vNodes, vNodesDisconnected, deleted, semOutbound, handler, opener, shared>>
  BY DEF ClearDisconnected
<1>2. socket' \in SocketState /\ socket'.pc = "release" /\ socket'.node = n
  BY <1>1 DEF Types, SocketState
<1>3. Releasing' = Releasing /\ Releasing = {n}
  BY <1>1, <1>2 DEF Releasing, Disconnecting
<1>4. Held' = Held /\ n \in Node \ vNodes
  BY <1>1, <1>3 DEF Held, Places
<1>5. Posted(n) /\ \A m \in Node : ~ Posted(m)' /\ (Posted(m) => m = n)
  BY <1>1, <1>2 DEF Posted
<1> HIDE DEF n
<1>6. /\ node' \in [Node -> CNode]
      /\ \A m \in Node :
            /\ node'[m].grant = IF m = n THEN FALSE ELSE node[m].grant
            /\ node'[m].fInbound = node[m].fInbound
  BY <1>1, <1>4, GrantCleared DEF Types
<1>7. Types' /\ Places'
  BY <1>1, <1>2, <1>3, <1>4, <1>6 DEF Types, Places
<1>8. Granted' = Granted /\ Holding' = Holding
  BY <1>1, <1>5, <1>6 DEF Granted, Holding, HasGrant
<1>9. shared \/ MovesApart'
  <2>1. Held \cup deleted \subseteq Node
    BY DEF Places, Types, Held
  <2>2. \A o \in Opener : opener[o].pc \in MovingPc => opener[o].node \in Node
    BY <2>1 DEF Places, MovingPc, UsingPc
  <2>3. QED
    BY <1>1, <1>6, <2>2 DEF GrantInv, MovesApart
<1>10. shared \/ (PostsOwn' /\ OursGranted')
  BY <1>1, <1>2, <1>4, <1>6 DEF GrantInv, PostsOwn, OursGranted, Types
<1>11. shared \/ GrantInv'
  BY <1>1, <1>4, <1>6, <1>8, <1>9, <1>10 DEF GrantInv
<1>12. QED
  BY <1>1, <1>7, <1>11

\* The socket handler's steps that move no grant.
LEMMA HoldDisconnectedConn ==
    ASSUME ConnInv, HoldDisconnected
    PROVE  ConnInv'
<1> USE DEF ConnInv
<1> DEFINE S == {n \in {socket.node} : ReleasesOwn(n)}
<1>1. /\ socket.pc = "release"
      /\ node' = [Release(S) EXCEPT ![socket.node].fDisconnect = TRUE]
      /\ vNodesDisconnected' = vNodesDisconnected \cup {socket.node}
      /\ socket' = [socket EXCEPT !.pc = "disconnect", !.node = NoNode]
      /\ UNCHANGED <<vNodes, deleted, semOutbound, handler, opener, shared>>
  BY DEF HoldDisconnected
<1>2. socket.node \in Node \ (vNodes \cup vNodesDisconnected \cup deleted)
      /\ Releasing = {socket.node}
  BY <1>1 DEF Places, Releasing, Disconnecting
<1>3. S \in SUBSET Node
  BY <1>2
<1> HIDE DEF S
<1>4. /\ node' \in [Node -> CNode]
      /\ \A m \in Node : /\ node'[m].grant = node[m].grant
                         /\ node'[m].fInbound = node[m].fInbound
  BY <1>1, <1>2, <1>3, ClosedIs DEF Types
<1>5. socket' \in SocketState /\ Releasing' = {} /\ socket'.pc = "disconnect"
  BY <1>1 DEF Types, SocketState, Releasing, Disconnecting
<1>6. Held' = Held
  BY <1>1, <1>2, <1>5 DEF Held
<1>7. Types'
  BY <1>1, <1>2, <1>4, <1>5 DEF Types
<1>8. Places'
  BY <1>1, <1>2, <1>5, <1>6 DEF Places
<1>9. \A m \in Node : Posted(m)' <=> Posted(m)
  BY <1>1, <1>5 DEF Posted
<1>10. shared \/ (PostsOwn' /\ OursGranted')
  BY <1>1, <1>4, <1>5 DEF GrantInv, PostsOwn, OursGranted, Types
<1>11. QED
  BY <1>1, <1>4, <1>6, <1>7, <1>8, <1>9, <1>10, ApartStay, GrantsStay

\* A deleted node posts the grant it still has.
LEMMA DeleteNodesConn ==
    ASSUME ConnInv, DeleteNodes
    PROVE  ConnInv'
<1> USE DEF ConnInv
<1> DEFINE gone == {n \in Node : Deletable(n)}
           posted == {n \in gone : node[n].grant}
<1>1. /\ socket.pc = "disconnect"
      /\ vNodesDisconnected' = vNodesDisconnected \ gone
      /\ deleted' = deleted \cup gone
      /\ semOutbound' = semOutbound + Cardinality(posted)
      /\ node' = [n \in Node |-> IF n \in gone THEN [node[n] EXCEPT !.grant = FALSE]
                                 ELSE node[n]]
      /\ socket' = [socket EXCEPT !.pc = "accept"]
      /\ UNCHANGED <<vNodes, handler, opener, shared>>
  BY DEF DeleteNodes
<1>2. gone \in SUBSET Node /\ gone \subseteq vNodesDisconnected
  BY DEF Deletable
<1>3. posted = Granted \cap gone
  BY <1>1, <1>2 DEF Granted, Posted
<1> HIDE DEF gone, posted
<1>4. /\ node' \in [Node -> CNode]
      /\ \A m \in Node :
            /\ node'[m].grant = IF m \in gone THEN FALSE ELSE node[m].grant
            /\ node'[m].fInbound = node[m].fInbound
  BY <1>1, <1>2, GrantsGone DEF Types
<1>5. socket' \in SocketState /\ Releasing' = {} /\ Releasing = {} /\ socket'.pc = "accept"
  BY <1>1 DEF Types, SocketState, Releasing, Disconnecting
<1>6. Held' \cup deleted' = Held \cup deleted
  BY <1>1, <1>2, <1>5 DEF Held
<1>7. Cardinality(posted) \in Nat
  BY <1>2, <1>3, GrantsFinite, FS_Intersection, FS_CardinalityType
<1>8. Types'
  <2>1. semOutbound' \in Nat
    BY <1>1, <1>7 DEF Types
  <2>2. QED
    BY <1>1, <1>2, <1>4, <1>5, <2>1 DEF Types
<1>9. Places'
  BY <1>1, <1>2, <1>5, <1>6 DEF Places
<1>10. Granted' = Granted \ gone /\ Holding' = Holding
  BY <1>1, <1>4, <1>5 DEF Granted, Holding, HasGrant, Posted
<1>11. shared \/ semOutbound' + Cardinality(Holding') + Cardinality(Granted') = nMaxOutbound
  <2>1. Cardinality(Granted') = Cardinality(Granted) - Cardinality(posted)
    BY <1>3, <1>10, GrantsFinite, FS_Difference
  <2>2. semOutbound \in Nat /\ nMaxOutbound \in Nat
    BY ConnectionsAssumption DEF Types
  <2>3. QED
    BY <1>1, <1>7, <1>10, <2>1, <2>2, GrantsFinite DEF GrantInv
<1>12. shared \/ MovesApart'
  <2>1. Held \cup deleted \subseteq Node
    BY DEF Places, Types, Held
  <2>2. \A o \in Opener : opener[o].pc \in MovingPc => opener[o].node \in Node
    BY <2>1 DEF Places, MovingPc, UsingPc
  <2>3. QED
    BY <1>1, <1>4, <2>2 DEF GrantInv, MovesApart
<1>13. shared \/ (PostsOwn' /\ OursGranted')
  BY <1>1, <1>2, <1>4, <1>5 DEF GrantInv, PostsOwn, OursGranted, Types, Places
<1>14. shared \/ GrantInv'
  BY <1>1, <1>4, <1>6, <1>11, <1>12, <1>13 DEF GrantInv
<1>15. QED
  BY <1>1, <1>8, <1>9, <1>14

\* A connection accepted has no unit and needs none.
LEMMA AcceptNodeConn ==
    ASSUME ConnInv, NEW n \in Node, NEW a \in Addr, AcceptNode(n, a)
    PROVE  ConnInv'
<1> USE DEF ConnInv
<1> DEFINE r == NewNode(a, TRUE)
<1>1. /\ socket.pc = "accept" /\ n \in Unmade
      /\ node' = [node EXCEPT ![n] = r]
      /\ vNodes' = vNodes \cup {n}
      /\ socket' = [socket EXCEPT !.pc = "copy"]
      /\ UNCHANGED <<vNodesDisconnected, deleted, semOutbound, handler, opener, shared>>
  BY DEF AcceptNode
<1>2. n \notin Held \cup deleted
  BY <1>1 DEF Unmade, Made, Held, Releasing, Disconnecting
<1>3. r \in CNode /\ r.grant = FALSE /\ r.fInbound = TRUE
  BY NewNodeIs DEF Dest
<1> HIDE DEF r
<1>4. /\ node' \in [Node -> CNode]
      /\ \A m \in Node : node'[m] = IF m = n THEN r ELSE node[m]
  BY <1>1, <1>3, NodeMade DEF Types
<1>5. socket' \in SocketState /\ Releasing' = {} /\ Releasing = {} /\ socket'.pc = "copy"
  BY <1>1 DEF Types, SocketState, Releasing, Disconnecting
<1>6. Held' = Held \cup {n}
  BY <1>1, <1>5 DEF Held
<1>7. Types'
  BY <1>1, <1>4, <1>5 DEF Types
<1>8. Places'
  BY <1>1, <1>2, <1>5, <1>6 DEF Places, Held
<1>9. shared \/ \A m \in Node : node'[m].grant = node[m].grant
  <2>1. node[n] \in CNode /\ (shared \/ ~ node[n].grant)
    BY <1>2 DEF GrantInv, Types
  <2>2. shared \/ node[n].grant = FALSE
    BY <2>1 DEF CNode
  <2>3. QED
    BY <1>3, <1>4, <2>2
<1>10. \A m \in Node : Posted(m)' <=> Posted(m)
  BY <1>1, <1>5 DEF Posted
<1>11. shared \/ (PostsOwn' /\ OursGranted')
  BY <1>1, <1>3, <1>4, <1>5 DEF GrantInv, PostsOwn, OursGranted, Types
<1>12. CASE shared
  BY <1>1, <1>7, <1>8, <1>12
<1>13. CASE ~ shared
  BY <1>1, <1>6, <1>7, <1>8, <1>9, <1>10, <1>11, <1>13, ApartStay, GrantsStay
<1>14. QED
  BY <1>12, <1>13

\* Copies and their release change counts only.
LEMMA CountsConn ==
    ASSUME ConnInv, NEW S \in SUBSET Node,
           node' = AddRef(S) \/ node' = Release(S),
           UNCHANGED <<vNodes, vNodesDisconnected, deleted, semOutbound, opener, shared>>,
           ~ Disconnecting, ~ Disconnecting',
           socket' \in SocketState, handler' \in HandlerState
    PROVE  ConnInv'
<1> USE DEF ConnInv
<1>1. /\ node' \in [Node -> CNode]
      /\ \A m \in Node : /\ node'[m].grant = node[m].grant
                         /\ node'[m].fInbound = node[m].fInbound
  BY AddRefIs, ReleaseIs DEF Types
<1>2. Releasing' = {} /\ Releasing = {}
  BY DEF Releasing
<1>3. Held' = Held
  BY <1>2 DEF Held
<1>4. Types' /\ Places'
  BY <1>1, <1>2, <1>3 DEF Types, Places
<1>5. \A m \in Node : Posted(m)' <=> Posted(m)
  BY DEF Posted, Disconnecting
<1>6. shared \/ (PostsOwn' /\ OursGranted')
  BY <1>1 DEF GrantInv, PostsOwn, OursGranted, Types, Disconnecting
<1>7. QED
  BY <1>1, <1>3, <1>4, <1>5, <1>6, ApartStay, GrantsStay

\* The copies of both handlers, taken and released.
LEMMA CopiesConn ==
    ASSUME ConnInv,
           CopyNodes \/ ReleaseNodes \/ CopyForMessages \/ ReleaseFromMessages
    PROVE  ConnInv'
<1> USE DEF ConnInv
<1>1. CASE CopyNodes
  <2>1. socket' \in SocketState /\ ~ Disconnecting /\ ~ Disconnecting'
    BY <1>1 DEF CopyNodes, Types, SocketState, Disconnecting
  <2>2. node' = AddRef(vNodes) /\ handler' \in HandlerState
        /\ UNCHANGED <<vNodes, vNodesDisconnected, deleted, semOutbound, opener, shared>>
    BY <1>1 DEF CopyNodes, Refer, Types
  <2>3. QED
    BY <2>1, <2>2, CountsConn DEF Types
<1>2. CASE ReleaseNodes
  <2>1. socket' \in SocketState /\ ~ Disconnecting /\ ~ Disconnecting'
    BY <1>2 DEF ReleaseNodes, Types, SocketState, Disconnecting
  <2>2. node' = Release(socket.vNodesCopy) /\ handler' \in HandlerState
        /\ UNCHANGED <<vNodes, vNodesDisconnected, deleted, semOutbound, opener, shared>>
        /\ socket.vNodesCopy \in SUBSET Node
    BY <1>2 DEF ReleaseNodes, Types, SocketState
  <2>3. QED
    BY <2>1, <2>2, CountsConn
<1>3. CASE CopyForMessages
  <2>1. socket' \in SocketState /\ ~ Disconnecting /\ ~ Disconnecting'
    BY <1>3 DEF CopyForMessages, Types, Unlocked, Disconnecting
  <2>2. node' = AddRef(vNodes) /\ handler' \in HandlerState
        /\ UNCHANGED <<vNodes, vNodesDisconnected, deleted, semOutbound, opener, shared>>
    BY <1>3 DEF CopyForMessages, Refer, Types, HandlerState
  <2>3. QED
    BY <2>1, <2>2, CountsConn DEF Types
<1>4. CASE ReleaseFromMessages
  <2>1. socket' \in SocketState /\ ~ Disconnecting /\ ~ Disconnecting'
    BY <1>4 DEF ReleaseFromMessages, Types, Unlocked, Disconnecting
  <2>2. node' = Release(handler.vNodesCopy) /\ handler' \in HandlerState
        /\ UNCHANGED <<vNodes, vNodesDisconnected, deleted, semOutbound, opener, shared>>
        /\ handler.vNodesCopy \in SUBSET Node
    BY <1>4 DEF ReleaseFromMessages, Types, HandlerState
  <2>3. QED
    BY <2>1, <2>2, CountsConn
<1>5. QED
  BY <1>1, <1>2, <1>3, <1>4

\* A mark for disconnection.
LEMMA LoseConn ==
    ASSUME ConnInv, NEW n \in Node, LoseNode(n) \/ DropPeer(n)
    PROVE  ConnInv'
<1> USE DEF ConnInv
<1>1. /\ node' = [node EXCEPT ![n].fDisconnect = TRUE]
      /\ UNCHANGED <<vNodes, vNodesDisconnected, deleted, semOutbound, socket, handler,
                     opener, shared>>
  BY DEF LoseNode, DropPeer
<1>2. /\ node' \in [Node -> CNode]
      /\ \A m \in Node : /\ node'[m].grant = node[m].grant
                         /\ node'[m].fInbound = node[m].fInbound
  BY <1>1, FlagDisconnect DEF Types
<1>3. Releasing' = Releasing /\ Held' = Held
  BY <1>1 DEF Releasing, Held, Disconnecting
<1>4. Types' /\ Places'
  BY <1>1, <1>2, <1>3 DEF Types, Places
<1>5. \A m \in Node : Posted(m)' <=> Posted(m)
  BY <1>1 DEF Posted
<1>6. shared \/ (PostsOwn' /\ OursGranted')
  <2>1. socket.pc \in {"post", "clear"} => socket.node \in Node
    BY DEF Places, Releasing, Disconnecting
  <2>2. QED
    BY <1>1, <1>2, <2>1 DEF GrantInv, PostsOwn, OursGranted, Types
<1>7. QED
  BY <1>1, <1>2, <1>3, <1>4, <1>5, <1>6, ApartStay, GrantsStay

-----------------------------------------------------------------------------
(* An opening thread goes on.  Unless it shares a node, its unit stays      *)
(* where it is, and it moves it to the node it has made.                    *)
LEMMA OpenerConn ==
    ASSUME ConnInv, NEW o \in Opener, NEW s \in OpenerState,
           opener' = [opener EXCEPT ![o] = s],
           UNCHANGED <<vNodes, vNodesDisconnected, deleted, socket, handler>>,
           node' \in [Node -> CNode], semOutbound' \in Nat, shared' \in BOOLEAN,
           s.pc \in {"find", "dial"} => s.dest \in Dest,
           s.pc \in UsingPc => s.node \in Held \cup deleted,
           \/ shared'
           \/ /\ shared' = shared /\ semOutbound' = semOutbound
              /\ \A m \in Node : /\ node'[m].grant = node[m].grant
                                 /\ node'[m].fInbound = node[m].fInbound
              /\ opener[o].pc \in HoldingPc <=> s.pc \in HoldingPc
              /\ s.pc \notin SharingPc
              /\ opener[o].pc \in MovingPc <=> s.pc \in MovingPc
              /\ s.pc \in MovingPc => s.node = opener[o].node
    PROVE  ConnInv'
<1> USE DEF ConnInv
<1>1. /\ opener' \in [Opener -> OpenerState]
      /\ \A p \in Opener : opener'[p] = IF p = o THEN s ELSE opener[p]
  BY OpenerMoved DEF Types
<1>2. Releasing' = Releasing /\ Held' = Held
  BY DEF Releasing, Held, Disconnecting
<1>3. Types'
  BY <1>1 DEF Types
<1>4. Places'
  BY <1>1, <1>2 DEF Places
<1>5. CASE shared'
  BY <1>3, <1>4, <1>5
<1>6. CASE ~ shared'
  <2>1. shared' = shared /\ ~ shared /\ GrantInv
    BY <1>6
  <2>2. \A p \in Opener : HasGrant(p)' <=> HasGrant(p)
    BY <1>1, <1>6 DEF HasGrant, HoldingPc
  <2>3. \A m \in Node : Posted(m)' <=> Posted(m)
    BY DEF Posted
  <2>4. \A p \in Opener : opener[p].pc \in MovingPc => opener[p].node \in Node
    <3>1. Held \cup deleted \subseteq Node
      BY DEF Places, Types, Held
    <3>2. QED
      BY <3>1 DEF Places, MovingPc, UsingPc
  <2>5. \A p \in Opener : /\ opener'[p].pc \in MovingPc <=> opener[p].pc \in MovingPc
                         /\ opener'[p].pc \in MovingPc => opener'[p].node = opener[p].node
                         /\ opener'[p].pc \notin SharingPc
    BY <1>1, <1>6, <2>1 DEF GrantInv, MovesApart
  <2>6. MovesApart'
    BY <1>6, <2>1, <2>4, <2>5 DEF GrantInv, MovesApart
  <2>7. PostsOwn'
    <3>1. socket.pc \in {"post", "clear"} => socket.node \in Node
      BY DEF Places, Releasing, Disconnecting
    <3>2. QED
      BY <1>6, <2>1, <3>1 DEF GrantInv, PostsOwn
  <2>8. OursGranted'
    BY <1>6, <2>1, <2>5 DEF GrantInv, OursGranted, Types
  <2>9. QED
    BY <1>2, <1>3, <1>4, <1>6, <2>1, <2>2, <2>3, <2>6, <2>7, <2>8, GrantsStay
<1>7. QED
  BY <1>5, <1>6

\* A thread takes a unit, or gives it up.
LEMMA AcquireConn ==
    ASSUME ConnInv, NEW o \in Opener, AcquireGrant(o) \/ GiveUp(o)
    PROVE  ConnInv'
<1> USE DEF ConnInv
<1>1. UNCHANGED <<node, vNodes, vNodesDisconnected, deleted, socket, handler, shared>>
  BY DEF AcquireGrant, GiveUp
<1>2. semOutbound \in Nat /\ nMaxOutbound \in Nat
  BY ConnectionsAssumption DEF Types
<1>3. Releasing' = Releasing /\ Held' = Held /\ Granted' = Granted
  BY <1>1 DEF Releasing, Held, Granted, Posted, Disconnecting
<1>4. opener[o] \in OpenerState
  BY DEF Types
<1>5. /\ opener' \in [Opener -> OpenerState]
      /\ opener'[o].pc \in {"grant", "choose"}
      /\ \A p \in Opener \ {o} : opener'[p] = opener[p]
  <2>1. CASE AcquireGrant(o)
    BY <1>4, <2>1 DEF AcquireGrant, Types, OpenerState
  <2>2. CASE GiveUp(o)
    BY <2>2, RestingIs, OpenerMoved DEF GiveUp, Types
  <2>3. QED
    BY <2>1, <2>2
<1>6. /\ semOutbound' \in Nat
      /\ semOutbound' + Cardinality(Holding') = semOutbound + Cardinality(Holding)
  <2>1. CASE AcquireGrant(o)
    <3>1. /\ opener[o].pc = "grant" /\ opener'[o].pc = "choose"
          /\ semOutbound' = semOutbound - 1 /\ semOutbound' \in Nat
      BY <1>2, <1>4, <2>1 DEF AcquireGrant, Available, Types, OpenerState
    <3>2. Holding' = Holding \cup {o} /\ o \notin Holding
      BY <1>5, <3>1 DEF Holding, HasGrant
    <3>3. Cardinality(Holding') = Cardinality(Holding) + 1
      BY <3>2, GrantsFinite, FS_AddElement
    <3>4. QED
      BY <1>2, <3>1, <3>3, GrantsFinite
  <2>2. CASE GiveUp(o)
    <3>1. /\ opener[o].pc \in {"choose", "dial"} /\ opener'[o].pc = "grant"
          /\ semOutbound' = semOutbound + 1
      BY <2>2, RestingIs DEF GiveUp, Types
    <3>2. Holding' = Holding \ {o} /\ o \in Holding
      BY <1>5, <3>1 DEF Holding, HasGrant
    <3>3. Cardinality(Holding') = Cardinality(Holding) - 1
      BY <3>2, GrantsFinite, FS_RemoveElement
    <3>4. QED
      BY <1>2, <3>1, <3>3, GrantsFinite
  <2>3. QED
    BY <2>1, <2>2
<1>7. Types'
  BY <1>1, <1>5, <1>6 DEF Types
<1>8. Places'
  BY <1>1, <1>3, <1>5 DEF Places, UsingPc
<1>9. shared \/ GrantInv'
  <2> SUFFICES ASSUME ~ shared PROVE GrantInv'
    OBVIOUS
  <2>1. opener[o].pc \notin MovingPc
    BY DEF AcquireGrant, GiveUp, MovingPc
  <2>2. MovesApart' /\ PostsOwn' /\ OursGranted'
    BY <1>1, <1>5, <2>1
       DEF GrantInv, MovesApart, PostsOwn, OursGranted, MovingPc, SharingPc
  <2>3. semOutbound' + Cardinality(Holding') + Cardinality(Granted') = nMaxOutbound
    <3>1. Cardinality(Holding') \in Nat
      <4>1. Holding' \in SUBSET Opener
        BY DEF Holding
      <4>2. QED
        BY <4>1, ConnectionsAssumption, FS_Subset, FS_CardinalityType
    <3>2. QED
      BY <1>2, <1>3, <1>6, <3>1, GrantsFinite DEF GrantInv
  <2>4. QED
    BY <1>1, <1>3, <2>2, <2>3 DEF GrantInv
<1>10. QED
  BY <1>1, <1>7, <1>8, <1>9

\* The steps before a connection is made.
LEMMA ChooseConn ==
    ASSUME ConnInv, NEW o \in Opener, NEW d \in Dest, Choose(o, d)
    PROVE  ConnInv'
<1> USE DEF ConnInv
<1> DEFINE s == [opener[o] EXCEPT !.dest = d, !.pc = IF d \in Name THEN "dial" ELSE "find"]
<1>1. opener[o] \in OpenerState
  BY DEF Types
<1>2. /\ s \in OpenerState /\ s.pc \in {"dial", "find"} /\ s.dest = d
      /\ opener[o].pc = "choose"
      /\ opener' = [opener EXCEPT ![o] = s]
      /\ UNCHANGED <<node, vNodes, vNodesDisconnected, deleted, semOutbound, socket, handler,
                     shared>>
  BY <1>1 DEF Choose, OpenerState, Types
<1> HIDE DEF s
<1>3. QED
  BY <1>2, OpenerConn DEF HoldingPc, UsingPc, MovingPc, SharingPc, Types

\* A node is found, or the thread goes on to connect.
LEMMA FindNodeConn ==
    ASSUME ConnInv, NEW o \in Opener, FindNode(o)
    PROVE  ConnInv'
<1> USE DEF ConnInv
<1>1. opener[o] \in OpenerState
  BY DEF Types
<1>2. /\ opener[o].pc = "find"
      /\ UNCHANGED <<node, vNodes, vNodesDisconnected, deleted, semOutbound, socket, handler>>
  BY DEF FindNode
<1>3. CASE opener' = [opener EXCEPT ![o].pc = "dial"] /\ UNCHANGED shared
  <2> DEFINE s == [opener[o] EXCEPT !.pc = "dial"]
  <2>1. s \in OpenerState /\ s.pc = "dial" /\ s.dest = opener[o].dest
        /\ opener' = [opener EXCEPT ![o] = s]
    BY <1>1, <1>3 DEF OpenerState, Types
  <2>2. s.dest \in Dest
    BY <1>2, <2>1 DEF Places
  <2> HIDE DEF s
  <2>3. QED
    BY <1>2, <1>3, <2>1, <2>2, OpenerConn
       DEF HoldingPc, UsingPc, MovingPc, SharingPc, Types
<1>4. CASE \E n \in SameService(opener[o].dest) :
                /\ opener' = [opener EXCEPT ![o].pc = "addref", ![o].node = n]
                /\ shared' = TRUE
  <2>1. PICK n \in vNodes : /\ opener' = [opener EXCEPT ![o].pc = "addref", ![o].node = n]
                            /\ shared' = TRUE
    BY <1>4 DEF SameService
  <2> DEFINE s == [opener[o] EXCEPT !.pc = "addref", !.node = n]
  <2>2. n \in Node
    BY DEF Types
  <2>3. s \in OpenerState /\ s.pc = "addref" /\ s.node = n
        /\ opener' = [opener EXCEPT ![o] = s]
    BY <1>1, <2>1, <2>2 DEF OpenerState, Types
  <2> HIDE DEF s
  <2>4. n \in Held
    BY DEF Held
  <2>5. QED
    BY <1>2, <2>1, <2>3, <2>4, OpenerConn DEF Types
<1>5. QED
  BY <1>3, <1>4 DEF FindNode

\* The node an opening thread works on.
LEMMA NodeUsed ==
    ASSUME ConnInv, NEW o \in Opener, opener[o].pc \in UsingPc
    PROVE  opener[o].node \in Held \cup deleted /\ opener[o].node \in Node
<1>1. opener[o].node \in Held \cup deleted
  BY DEF ConnInv, Places, UsingPc
<1>2. Held \cup deleted \subseteq Node
  BY DEF ConnInv, Places, Types, Held
<1>3. QED
  BY <1>1, <1>2

\* A reference taken without the lock.
LEMMA CountConn ==
    ASSUME ConnInv, NEW o \in Opener, ReadRefCount(o) \/ WriteRefCount(o)
    PROVE  ConnInv'
<1> USE DEF ConnInv
<1>1. /\ opener[o] \in OpenerState /\ opener[o].read \in Int
      /\ opener[o].pc \in {"addref", "write"}
      /\ UNCHANGED <<vNodes, vNodesDisconnected, deleted, semOutbound, socket, handler, shared>>
  BY DEF Types, OpenerState, ReadRefCount, WriteRefCount
<1>2. opener[o].node \in Held \cup deleted /\ opener[o].node \in Node
  BY <1>1, NodeUsed DEF UsingPc
<1>0. shared
  BY <1>1 DEF GrantInv, MovesApart, SharingPc
<1>3. CASE ReadRefCount(o)
  <2> DEFINE k == node[opener[o].node].nRefCount
             s == [opener[o] EXCEPT !.pc = "write", !.read = k]
  <2>1. k \in Int
    BY <1>2 DEF Types, CNode
  <2> HIDE DEF k
  <2>2. s \in OpenerState /\ s.pc = "write" /\ s.node = opener[o].node
    BY <1>1, <2>1 DEF OpenerState
  <2>3. opener' = [opener EXCEPT ![o] = s] /\ node' = node
    BY <1>3 DEF ReadRefCount, Types, k
  <2> HIDE DEF s
  <2>4. QED
    BY <1>0, <1>1, <1>2, <2>2, <2>3, OpenerConn DEF Types
<1>4. CASE WriteRefCount(o)
  <2> DEFINE s == [opener[o] EXCEPT !.pc = "move", !.read = 0]
  <2>1. s \in OpenerState /\ s.pc = "move" /\ s.node = opener[o].node
    <3>1. 0 \in Int
      OBVIOUS
    <3>2. QED
      BY <1>1, <3>1 DEF OpenerState
  <2>2. opener' = [opener EXCEPT ![o] = s]
    BY <1>4 DEF WriteRefCount, Types
  <2> HIDE DEF s
  <2>3. /\ node' \in [Node -> CNode]
        /\ \A m \in Node : /\ node'[m].grant = node[m].grant
                           /\ node'[m].fInbound = node[m].fInbound
    <3>1. opener[o].read + 1 \in Int
      BY <1>1
    <3>2. node' = [node EXCEPT ![opener[o].node].nRefCount = opener[o].read + 1]
      BY <1>4 DEF WriteRefCount
    <3>3. QED
      BY <1>2, <3>1, <3>2, CountWritten DEF Types
  <2>4. QED
    BY <1>0, <1>1, <1>2, <2>1, <2>2, <2>3, OpenerConn DEF Types
<1>5. QED
  BY <1>3, <1>4

\* The thread marks its node, and leaves.
LEMMA SetConn ==
    ASSUME ConnInv, NEW o \in Opener, SetNetworkNode(o) \/ SetOneShot(o)
    PROVE  ConnInv'
<1> USE DEF ConnInv
<1>1. /\ opener[o] \in OpenerState
      /\ opener[o].pc \in {"flag", "oneshot"}
      /\ UNCHANGED <<vNodes, vNodesDisconnected, deleted, semOutbound, socket, handler, shared>>
  BY DEF Types, SetNetworkNode, SetOneShot
<1>2. opener[o].node \in Held \cup deleted /\ opener[o].node \in Node
  BY <1>1, NodeUsed DEF UsingPc
<1>3. /\ node' \in [Node -> CNode]
      /\ \A m \in Node : /\ node'[m].grant = node[m].grant
                         /\ node'[m].fInbound = node[m].fInbound
  BY <1>2, FlagNetwork DEF SetNetworkNode, SetOneShot, Types
<1>4. PICK s \in OpenerState :
        /\ opener' = [opener EXCEPT ![o] = s]
        /\ s.pc \in {"grant", "oneshot"}
        /\ s.pc = "oneshot" => s.node = opener[o].node
  <2>1. CASE opener' = [opener EXCEPT ![o] = Resting]
    BY <2>1, RestingIs
  <2>2. CASE opener' = [opener EXCEPT ![o] = [opener[o] EXCEPT !.pc = "oneshot"]]
    <3>1. [opener[o] EXCEPT !.pc = "oneshot"] \in OpenerState
          /\ [opener[o] EXCEPT !.pc = "oneshot"].node = opener[o].node
          /\ [opener[o] EXCEPT !.pc = "oneshot"].pc = "oneshot"
      BY <1>1 DEF OpenerState
    <3>2. QED
      BY <2>2, <3>1
  <2>3. QED
    BY <2>1, <2>2 DEF SetNetworkNode, SetOneShot, Types
<1>5. QED
  BY <1>1, <1>2, <1>3, <1>4, OpenerConn
     DEF HoldingPc, UsingPc, MovingPc, SharingPc, Types

\* A new connection of ours: its node is about to get the thread's unit.
LEMMA ConnectConn ==
    ASSUME ConnInv, NEW o \in Opener, NEW n \in Node, ConnectNode(o, n)
    PROVE  ConnInv'
<1> USE DEF ConnInv
<1> DEFINE r == NewNode(opener[o].dest, FALSE)
           s == [opener[o] EXCEPT !.pc = "move", !.node = n]
<1>1. /\ opener[o].pc = "dial" /\ n \in Unmade
      /\ node' = [node EXCEPT ![n] = r]
      /\ vNodes' = vNodes \cup {n}
      /\ opener' = [opener EXCEPT ![o] = s]
      /\ UNCHANGED <<vNodesDisconnected, deleted, semOutbound, socket, handler, shared>>
  BY DEF ConnectNode, Types
<1>2. n \notin Held \cup deleted
  BY <1>1 DEF Unmade, Made, Held, Releasing, Disconnecting
<1>3. opener[o] \in OpenerState /\ opener[o].dest \in Dest
  BY <1>1 DEF Types, Places
<1>4. r \in CNode /\ r.grant = FALSE
  BY <1>3, NewNodeIs
<1>5. s \in OpenerState /\ s.pc = "move" /\ s.node = n
  BY <1>3 DEF OpenerState
<1> HIDE DEF r, s
<1>6. /\ node' \in [Node -> CNode]
      /\ \A m \in Node : node'[m] = IF m = n THEN r ELSE node[m]
  BY <1>1, <1>4, NodeMade DEF Types
<1>7. /\ opener' \in [Opener -> OpenerState]
      /\ \A p \in Opener : opener'[p] = IF p = o THEN s ELSE opener[p]
  BY <1>1, <1>5, OpenerMoved DEF Types
<1>8. Releasing' = Releasing /\ Held' = Held \cup {n}
  BY <1>1 DEF Releasing, Held, Disconnecting
<1>9. Types'
  BY <1>1, <1>6, <1>7 DEF Types
<1>10. Places'
  BY <1>1, <1>2, <1>5, <1>7, <1>8 DEF Places, Held, UsingPc
<1>11. shared \/ \A m \in Node : node'[m].grant = node[m].grant
  <2>1. node[n] \in CNode /\ (shared \/ ~ node[n].grant)
    BY <1>2 DEF GrantInv, Types
  <2>2. shared \/ node[n].grant = FALSE
    BY <2>1 DEF CNode
  <2>3. QED
    BY <1>4, <1>6, <2>2
<1>12. \A p \in Opener : HasGrant(p)' <=> HasGrant(p)
  BY <1>1, <1>5, <1>7 DEF HasGrant
<1>13. \A m \in Node : Posted(m)' <=> Posted(m)
  BY <1>1 DEF Posted
<1>14. shared \/ MovesApart'
  <2>1. \A p \in Opener : opener[p].pc \in MovingPc =>
            opener[p].node \in Node \ {n}
    <3>1. Held \cup deleted \subseteq Node
      BY DEF Places, Types, Held
    <3>2. QED
      BY <1>2, <3>1 DEF Places, MovingPc, UsingPc
  <2>2. ~ node'[n].grant
    BY <1>4, <1>6
  <2>3. QED
    BY <1>5, <1>7, <1>11, <2>1, <2>2 DEF GrantInv, MovesApart, MovingPc, SharingPc
<1>15. shared \/ (PostsOwn' /\ OursGranted')
  <2>1. opener'[o].pc = "move" /\ opener'[o].node = n
    BY <1>5, <1>7
  <2>2. \A m \in vNodes \ {n} : node'[m] = node[m]
    BY <1>6 DEF Types
  <2>3. \A p \in Opener : opener[p].pc \in MovingPc => opener'[p] = opener[p]
    BY <1>1, <1>7 DEF MovingPc
  <2>4. socket.pc \in {"post", "clear"} => socket.node \in Node \ {n}
    BY <1>2 DEF Places, Releasing, Disconnecting, Held
  <2>5. QED
    BY <1>1, <1>6, <2>1, <2>2, <2>3, <2>4
       DEF GrantInv, PostsOwn, OursGranted, MovingPc
<1>16. CASE shared
  BY <1>1, <1>9, <1>10, <1>16
<1>17. CASE ~ shared
  BY <1>1, <1>8, <1>9, <1>10, <1>11, <1>12, <1>13, <1>14, <1>15, <1>17, GrantsStay
<1>18. QED
  BY <1>16, <1>17

(* MoveTo first releases the grant of its target: a new node has none, and  *)
(* only with a node that two threads share is there anything to do.         *)
LEMMA ReleaseConn ==
    ASSUME ConnInv, NEW o \in Opener, TestGrant(o) \/ PostMoved(o) \/ ClearMoved(o)
    PROVE  ConnInv'
<1> USE DEF ConnInv
<1>1. /\ opener[o] \in OpenerState
      /\ opener[o].pc \in {"move", "post", "clear"}
      /\ UNCHANGED <<vNodes, vNodesDisconnected, deleted, socket, handler, shared>>
  BY DEF Types, TestGrant, PostMoved, ClearMoved
<1>2. opener[o].node \in Held \cup deleted /\ opener[o].node \in Node
  BY <1>1, NodeUsed DEF UsingPc
<1>3. CASE TestGrant(o)
  <2> DEFINE s == [opener[o] EXCEPT !.pc =
                     IF node[opener[o].node].grant THEN "post" ELSE "set"]
  <2>1. /\ opener[o].pc = "move" /\ opener' = [opener EXCEPT ![o] = s]
        /\ UNCHANGED <<node, semOutbound>>
    BY <1>3 DEF TestGrant, Releases, Types
  <2>2. /\ s \in OpenerState /\ s.node = opener[o].node
        /\ s.pc = IF node[opener[o].node].grant THEN "post" ELSE "set"
    BY <1>1 DEF OpenerState
  <2> HIDE DEF s
  <2>3. shared \/ s.pc = "set"
    BY <2>1, <2>2 DEF GrantInv, MovesApart, MovingPc
  <2>4. QED
    BY <1>1, <1>2, <2>1, <2>2, <2>3, OpenerConn
       DEF HoldingPc, UsingPc, MovingPc, SharingPc, Types
<1>4. CASE PostMoved(o) \/ ClearMoved(o)
  <2>1. shared
    BY <1>4 DEF GrantInv, MovesApart, SharingPc, PostMoved, ClearMoved
  <2>2. PICK s \in OpenerState : /\ opener' = [opener EXCEPT ![o] = s]
                                 /\ s.pc \in {"clear", "set"} /\ s.node = opener[o].node
    <3>1. \A pc \in {"clear", "set"} :
             /\ [opener[o] EXCEPT !.pc = pc] \in OpenerState
             /\ [opener[o] EXCEPT !.pc = pc].pc = pc
             /\ [opener[o] EXCEPT !.pc = pc].node = opener[o].node
      BY <1>1 DEF OpenerState
    <3>2. \E pc \in {"clear", "set"} :
             opener' = [opener EXCEPT ![o] = [opener[o] EXCEPT !.pc = pc]]
      BY <1>4 DEF PostMoved, ClearMoved, Types
    <3>3. QED
      BY <3>1, <3>2
  <2>3. semOutbound' \in Nat
    BY <1>4 DEF PostMoved, ClearMoved, Types
  <2>4. node' \in [Node -> CNode]
    BY <1>2, <1>4, GrantCleared DEF PostMoved, ClearMoved, Types
  <2>5. QED
    BY <1>1, <1>2, <2>1, <2>2, <2>3, <2>4, OpenerConn DEF Types
<1>5. QED
  BY <1>3, <1>4

(* The end of MoveTo: the node gets the thread's unit.                      *)
LEMMA MoveConn ==
    ASSUME ConnInv, NEW o \in Opener, MoveGrant(o)
    PROVE  ConnInv'
<1> USE DEF ConnInv
<1> DEFINE n == opener[o].node
           s == [opener[o] EXCEPT !.pc = "flag"]
<1>1. /\ opener[o].pc = "set"
      /\ node' = [node EXCEPT ![n].grant = TRUE]
      /\ opener' = [opener EXCEPT ![o] = s]
      /\ UNCHANGED <<vNodes, vNodesDisconnected, deleted, semOutbound, socket, handler, shared>>
  BY DEF MoveGrant, Types
<1>2. n \in Held \cup deleted /\ n \in Node
  BY <1>1, NodeUsed DEF UsingPc
<1>3. s \in OpenerState /\ s.pc = "flag" /\ s.node = n
  <2>1. opener[o] \in OpenerState
    BY DEF Types
  <2>2. QED
    BY <2>1 DEF OpenerState
<1>4. shared \/ (/\ ~ node[n].grant
                 /\ \A p \in Opener \ {o} :
                       opener[p].pc \in MovingPc => opener[p].node # n)
  BY <1>1 DEF GrantInv, MovesApart, MovingPc
<1>5. /\ opener' \in [Opener -> OpenerState]
      /\ \A p \in Opener : opener'[p] = IF p = o THEN s ELSE opener[p]
  BY <1>1, <1>3, OpenerMoved DEF Types
<1> HIDE DEF n, s
<1>6. /\ node' \in [Node -> CNode]
      /\ \A m \in Node :
            /\ node'[m].grant = IF m = n THEN TRUE ELSE node[m].grant
            /\ node'[m].fInbound = node[m].fInbound
  BY <1>1, <1>2, GrantMoved DEF Types
<1>7. Releasing' = Releasing /\ Held' = Held
  BY <1>1 DEF Releasing, Held, Disconnecting
<1>8. Types'
  BY <1>1, <1>5, <1>6 DEF Types
<1>9. Places'
  BY <1>1, <1>2, <1>3, <1>5, <1>7 DEF Places
<1>10. shared \/ GrantInv'
  <2> SUFFICES ASSUME ~ shared PROVE GrantInv'
    OBVIOUS
  <2>1. GrantInv /\ ~ node[n].grant
    BY <1>4
  <2>2. ~ Posted(n) /\ \A m \in Node : Posted(m)' <=> Posted(m)
    BY <1>1, <2>1 DEF GrantInv, PostsOwn, Posted
  <2>3. /\ Granted' = Granted \cup {n} /\ n \notin Granted
        /\ Holding' = Holding \ {o} /\ o \in Holding
    BY <1>1, <1>2, <1>3, <1>5, <1>6, <2>1, <2>2 DEF Granted, Holding, HasGrant
  <2>4. Cardinality(Holding') = Cardinality(Holding) - 1
    BY <2>3, GrantsFinite, FS_RemoveElement
  <2>5. Cardinality(Granted') = Cardinality(Granted) + 1
    BY <2>3, GrantsFinite, FS_AddElement
  <2>6. semOutbound \in Nat /\ nMaxOutbound \in Nat
    BY ConnectionsAssumption DEF Types
  <2>7. semOutbound' + Cardinality(Holding') + Cardinality(Granted') = nMaxOutbound
    BY <1>1, <2>1, <2>4, <2>5, <2>6, GrantsFinite DEF GrantInv
  <2>8. MovesApart'
    <3>1. \A p \in Opener : opener[p].pc \in MovingPc => opener[p].node \in Node
      <4>1. Held \cup deleted \subseteq Node
        BY DEF Places, Types, Held
      <4>2. QED
        BY <4>1 DEF Places, MovingPc, UsingPc
    <3>2. \A p \in Opener : opener'[p].pc \in MovingPc => p # o /\ opener'[p] = opener[p]
      BY <1>3, <1>5 DEF MovingPc
    <3>3. \A p \in Opener : opener'[p].pc \notin SharingPc
      BY <1>3, <1>5, <2>1 DEF SharingPc, GrantInv, MovesApart
    <3>4. \A p \in Opener : opener'[p].pc \in MovingPc =>
             /\ opener'[p] = opener[p] /\ opener[p].node \in Node \ {n}
             /\ ~ node[opener[p].node].grant
      BY <1>4, <2>1, <3>1, <3>2 DEF GrantInv, MovesApart
    <3>5. \A p \in Opener : opener'[p].pc \in MovingPc => ~ node'[opener'[p].node].grant
      BY <1>6, <3>4
    <3>6. \A p, q \in Opener :
             p # q /\ opener'[p].pc \in MovingPc /\ opener'[q].pc \in MovingPc =>
                opener'[q].node # opener'[p].node
      BY <2>1, <3>4 DEF GrantInv, MovesApart
    <3>7. QED
      BY <3>3, <3>5, <3>6 DEF MovesApart
  <2>9. PostsOwn'
    <3>1. socket.pc \in {"post", "clear"} => socket.node \in Node
      BY DEF Places, Releasing, Disconnecting
    <3>2. QED
      BY <1>1, <1>6, <2>1, <3>1 DEF GrantInv, PostsOwn
  <2>10. OursGranted'
    <3>1. \A p \in Opener : opener[p].node # n => opener'[p] = opener[p]
      BY <1>5 DEF n
    <3>2. \A m \in vNodes : m \in Node
      BY DEF Types
    <3>3. QED
      BY <1>1, <1>6, <2>1, <3>1, <3>2 DEF GrantInv, OursGranted
  <2>11. \A m \in Node \ (Held' \cup deleted') : ~ node'[m].grant
    BY <1>1, <1>2, <1>6, <1>7, <2>1 DEF GrantInv
  <2>12. QED
    BY <2>7, <2>8, <2>9, <2>10, <2>11 DEF GrantInv
<1>11. QED
  BY <1>1, <1>8, <1>9, <1>10

\* Every step of the program.
LEMMA ConnStep ==
    ASSUME ConnInv, [Next]_vars
    PROVE  ConnInv'
<1>1. CASE UNCHANGED vars
  BY <1>1 DEF vars, ConnInv, Types, Places, GrantInv, MovesApart, PostsOwn, OursGranted,
              Held, Releasing, Disconnecting, Granted, Posted, Holding, HasGrant
<1>2. CASE SocketHandler
  BY <1>2, DisconnectNodeConn, PostDisconnectedConn, ClearDisconnectedConn,
     HoldDisconnectedConn, DeleteNodesConn, CopiesConn
     DEF SocketHandler
<1>3. CASE \E n \in Node, a \in Addr : AcceptNode(n, a)
  BY <1>3, AcceptNodeConn
<1>4. CASE \E n \in Node : LoseNode(n) \/ DropPeer(n)
  BY <1>4, LoseConn
<1>5. CASE MessageHandler
  BY <1>5, CopiesConn DEF MessageHandler
<1>6. CASE \E o \in Opener : AcquireGrant(o) \/ GiveUp(o)
  BY <1>6, AcquireConn
<1>7. CASE \E o \in Opener : OpenConnection(o)
  BY <1>7, FindNodeConn, CountConn, ReleaseConn, MoveConn, SetConn DEF OpenConnection
<1>8. CASE \E o \in Opener : \E d \in Dest : Choose(o, d)
  BY <1>8, ChooseConn
<1>9. CASE \E o \in Opener : \E n \in Node : ConnectNode(o, n)
  BY <1>9, ConnectConn
<1>10. QED
  BY <1>1, <1>2, <1>3, <1>4, <1>5, <1>6, <1>7, <1>8, <1>9 DEF Next

(* Whatever the order in which the handlers and any number of opening       *)
(* threads take, move and release units of the semaphore: where each is, as *)
(* long as no two threads share a node.                                     *)
THEOREM ConnInvariant == Spec => []ConnInv
<1>1. Init => ConnInv
  BY ConnInit
<1>2. ConnInv /\ [Next]_vars => ConnInv'
  BY ConnStep
<1>3. QED
  BY <1>1, <1>2, PTL DEF Spec

\* The types of the program's variables.
LEMMA TypesSuffice ==
    ASSUME ConnInv PROVE TypeOK
BY DEF ConnInv, Types, TypeOK, SocketState, HandlerState, OpenerState

(* No unit of semOutbound is lost or made, whenever a connection is dropped *)
(* while its grant is on the way to its node, by any number of threads that *)
(* open connections to different peers: none finds another's node.          *)
THEOREM GrantsAlwaysConserved == Spec => []GrantsConserved
<1>1. ConnInv => GrantsConserved
  BY TypesSuffice DEF ConnInv, GrantInv, GrantsConserved, Holding, Granted
<1>2. QED
  BY <1>1, ConnInvariant, PTL

(* The connections of ours have a unit each, or the thread that made one    *)
(* still holds it: there are no more of them than units.                   *)
LEMMA OutboundCounted ==
    ASSUME ConnInv, ~ shared
    PROVE  OutboundWithinLimit
<1> DEFINE Out == {n \in vNodes : ~ node[n].fInbound}
           Moving == {o \in Opener : opener[o].pc \in MovingPc}
           f == [o \in Moving |-> opener[o].node]
           Target == {f[o] : o \in Moving}
<1>1. Moving \in SUBSET Holding
  BY DEF Holding, HasGrant, MovingPc
<1>2. IsFiniteSet(Moving) /\ Cardinality(Moving) <= Cardinality(Holding)
      /\ Cardinality(Moving) \in Nat
  BY <1>1, GrantsFinite, FS_Subset, FS_CardinalityType
<1>3. f \in Surjection(Moving, Target)
  BY DEF Surjection
<1>4. IsFiniteSet(Target) /\ Cardinality(Target) <= Cardinality(Moving)
      /\ Cardinality(Target) \in Nat
  <2> HIDE DEF f, Target, Moving
  <2>1. QED
    BY <1>2, <1>3, FS_Surjection, FS_CardinalityType
<1>5. Out \in SUBSET (Granted \cup Target)
  <2>1. \A n \in vNodes : n \in Node /\ ~ Posted(n)
    BY DEF ConnInv, Types, Places, Releasing, Disconnecting, Posted
  <2>2. \A n \in Out : node[n].grant \/ n \in Target
    BY DEF ConnInv, GrantInv, OursGranted
  <2>3. QED
    BY <2>1, <2>2 DEF Granted
<1> HIDE DEF Out, Moving, f, Target
<1>6. IsFiniteSet(Granted \cup Target)
      /\ Cardinality(Granted \cup Target)
            = Cardinality(Granted) + Cardinality(Target) - Cardinality(Granted \cap Target)
      /\ Cardinality(Granted \cap Target) \in Nat
      /\ Cardinality(Granted \cup Target) \in Nat
  BY <1>4, GrantsFinite, FS_Union, FS_Intersection, FS_CardinalityType
<1>7. Cardinality(Out) <= Cardinality(Granted \cup Target) /\ Cardinality(Out) \in Nat
  BY <1>5, <1>6, FS_Subset, FS_CardinalityType
<1>8. Cardinality(Out) <= Cardinality(Granted) + Cardinality(Holding)
  BY <1>2, <1>4, <1>6, <1>7, GrantsFinite
<1>9. semOutbound \in Nat /\ nMaxOutbound \in Nat
      /\ semOutbound + Cardinality(Holding) + Cardinality(Granted) = nMaxOutbound
  BY ConnectionsAssumption DEF ConnInv, Types, GrantInv
<1>10. Cardinality(Out) <= nMaxOutbound
  BY <1>7, <1>8, <1>9, GrantsFinite
<1>11. QED
  BY <1>10 DEF OutboundWithinLimit, Out

-----------------------------------------------------------------------------
(* With one opening thread.                                                 *)

\* The copies that hold n, and n's own reference, while it is still to go.
Used(n) == (IF n \in socket.vNodesCopy THEN 1 ELSE 0)
               + (IF n \in handler.vNodesCopy THEN 1 ELSE 0)
OwnRef(n) == IF n \in vNodes \cup Releasing \/ ~ ReleasesOwn(n) THEN 1 ELSE 0

(* The thread never finds, under FindNode, what it did not find when it     *)
(* chose: no other makes connections of ours.  So its node is a new one,    *)
(* not marked yet, which keeps the reference it was made with.             *)
OpenerRefs(o) ==
    /\ opener[o].pc = "find" => SameService(opener[o].dest) = {}
    /\ opener[o].pc \in {"move", "set", "flag"} =>
          opener[o].node \in Held /\ ~ ReleasesOwn(opener[o].node)

Copied == socket.vNodesCopy \cup handler.vNodesCopy

RefInv ==
    /\ ~ shared
    /\ socket.pc # "service" => socket.vNodesCopy = {}
    /\ handler.pc = "copy" => handler.vNodesCopy = {}
    /\ Copied \subseteq Held
    /\ \A n \in Held : node[n].nRefCount >= Used(n) + OwnRef(n)
    /\ \A o \in Opener : OpenerRefs(o)

\* Counts and fields of a node in these terms.
LEMMA NodeFields ==
    ASSUME Types, NEW n \in Node
    PROVE  /\ node[n].nRefCount \in Int /\ Used(n) \in 0 .. 2 /\ OwnRef(n) \in 0 .. 1
           /\ node[n].fInbound \in BOOLEAN /\ node[n].fNetworkNode \in BOOLEAN
BY DEF Types, CNode, Used, OwnRef

(* A step that takes and releases no copies: it may make nodes, and takes   *)
(* from a count no more than the node's own reference, when that goes.      *)
LEMMA RefsStay ==
    ASSUME RefInv, Types, Types', shared' = shared, Held \subseteq Node, Held' \subseteq Node,
           socket'.vNodesCopy = socket.vNodesCopy,
           handler'.vNodesCopy = handler.vNodesCopy,
           socket'.pc = "service" <=> socket.pc = "service",
           handler'.pc = handler.pc,
           Copied \subseteq Held',
           \A n \in Held' :
              IF n \in Held
                THEN node'[n].nRefCount - OwnRef(n)' >= node[n].nRefCount - OwnRef(n)
                ELSE node'[n].nRefCount >= 1,
           \A o \in Opener : OpenerRefs(o)'
    PROVE  RefInv'
<1>1. \A n \in Held' : node'[n].nRefCount >= Used(n)' + OwnRef(n)'
  <2> SUFFICES ASSUME NEW n \in Held' PROVE node'[n].nRefCount >= Used(n)' + OwnRef(n)'
    OBVIOUS
  <2>1. Used(n)' = Used(n)
    BY DEF Used
  <2>2. /\ node[n].nRefCount \in Int /\ node'[n].nRefCount \in Int
        /\ Used(n) \in 0 .. 2 /\ OwnRef(n) \in 0 .. 1 /\ OwnRef(n)' \in 0 .. 1
    <3>1. node'[n].nRefCount \in Int
      BY DEF Types, CNode
    <3>2. OwnRef(n)' \in 0 .. 1
      BY DEF OwnRef
    <3>3. n \in Node
      OBVIOUS
    <3>4. QED
      BY <3>1, <3>2, <3>3, NodeFields
  <2>3. CASE n \in Held
    <3>1. node[n].nRefCount >= Used(n) + OwnRef(n)
      BY <2>3 DEF RefInv
    <3>2. QED
      BY <2>1, <2>2, <2>3, <3>1
  <2>4. CASE n \notin Held
    <3>1. Used(n) = 0
      BY <2>4 DEF RefInv, Used, Copied
    <3>2. QED
      BY <2>1, <2>2, <2>4, <3>1
  <2>5. QED
    BY <2>3, <2>4
<1>2. QED
  BY <1>1 DEF RefInv, Copied

\* What an opening thread relies on is what others leave alone.
LEMMA OpenerKept ==
    ASSUME RefInv, Types, NEW o \in Opener, opener'[o] = opener[o],
           \A n \in vNodes' :
              \/ node'[n].fInbound
              \/ /\ n \in vNodes /\ node'[n].addr = node[n].addr
                 /\ node'[n].fInbound = node[n].fInbound,
           \A n \in Held : ~ ReleasesOwn(n) => n \in Held' /\ ~ ReleasesOwn(n)'
    PROVE  OpenerRefs(o)'
<1>1. OpenerRefs(o)
  BY DEF RefInv
<1>2. opener[o].pc = "find" => SameService(opener[o].dest)' = {}
  BY <1>1 DEF OpenerRefs, SameService
<1>3. QED
  BY <1>1, <1>2 DEF OpenerRefs, SameService, ReleasesOwn

\* Nodes that are held are nodes.
LEMMA HeldNodes ==
    ASSUME ConnInv PROVE Held \subseteq Node
BY DEF ConnInv, Types, Places, Held

\* At the start nothing is referred to.
LEMMA RefInit ==
    ASSUME Init PROVE RefInv
<1>1. Held = {} /\ Copied = {}
  BY DEF Init, Held, Releasing, Disconnecting, Copied
<1>2. \A o \in Opener : OpenerRefs(o)
  BY DEF Init, OpenerRefs, Resting
<1>3. QED
  BY <1>1, <1>2 DEF Init, RefInv

\* A node leaves vNodes with all its references.
LEMMA DisconnectNodeRef ==
    ASSUME ConnInv, ConnInv', RefInv, NEW n \in Node, DisconnectNode(n)
    PROVE  RefInv'
<1>1. /\ socket.pc = "disconnect" /\ n \in vNodes
      /\ vNodes' = vNodes \ {n}
      /\ socket' = [socket EXCEPT !.pc = IF Releases(n) THEN "post" ELSE "release",
                                  !.node = n]
      /\ UNCHANGED <<node, vNodesDisconnected, deleted, handler, opener, shared>>
  BY DEF DisconnectNode
<1>3. socket'.pc \in {"post", "release"} /\ socket'.node = n /\ socket'.vNodesCopy = socket.vNodesCopy
  BY <1>1 DEF ConnInv, Types, SocketState
<1>4. Releasing = {} /\ Releasing' = {n}
  BY <1>1, <1>3 DEF Releasing, Disconnecting
<1>5. Held' = Held /\ Held \subseteq Node
  BY <1>1, <1>4, HeldNodes DEF Held
<1>6. \A m \in Node : OwnRef(m)' = OwnRef(m) /\ (ReleasesOwn(m)' <=> ReleasesOwn(m))
  BY <1>1, <1>4 DEF OwnRef, ReleasesOwn
<1>7. \A o \in Opener : OpenerRefs(o)'
  BY <1>1, <1>5, <1>6, OpenerKept DEF ConnInv, Types
<1>8. \A m \in Held : node'[m].nRefCount - OwnRef(m)' >= node[m].nRefCount - OwnRef(m)
  BY <1>1, <1>5, <1>6, NodeFields DEF ConnInv
<1>9. QED
  BY <1>1, <1>3, <1>5, <1>7, <1>8, RefsStay DEF ConnInv, RefInv

\* The release of the grant: no reference goes, and no node.
LEMMA ReleaseGrantRef ==
    ASSUME ConnInv, ConnInv', RefInv, PostDisconnected \/ ClearDisconnected
    PROVE  RefInv'
<1>1. /\ socket.pc \in {"post", "clear"} /\ socket'.pc \in {"clear", "release"}
      /\ socket'.node = socket.node /\ socket'.vNodesCopy = socket.vNodesCopy
      /\ UNCHANGED <<vNodes, vNodesDisconnected, deleted, handler, opener, shared>>
  BY DEF PostDisconnected, ClearDisconnected, ConnInv, Types, SocketState
<1>2. Releasing' = Releasing /\ Held' = Held /\ Held \subseteq Node
  BY <1>1, HeldNodes DEF Releasing, Disconnecting, Held
<1>3. socket.node \in Node
  BY <1>1 DEF ConnInv, Places, Releasing, Disconnecting
<1>4. \A m \in Node :
         /\ node'[m].nRefCount = node[m].nRefCount
         /\ node'[m].fInbound = node[m].fInbound
         /\ node'[m].fNetworkNode = node[m].fNetworkNode
         /\ node'[m].addr = node[m].addr
  BY <1>3, GrantCleared DEF PostDisconnected, ClearDisconnected, ConnInv, Types
<1>5. \A m \in Node : OwnRef(m)' = OwnRef(m) /\ (ReleasesOwn(m)' <=> ReleasesOwn(m))
  BY <1>1, <1>2, <1>4 DEF OwnRef, ReleasesOwn
<1>6. \A o \in Opener : OpenerRefs(o)'
  BY <1>1, <1>2, <1>4, <1>5, OpenerKept DEF ConnInv, Types
<1>7. \A m \in Held : node'[m].nRefCount - OwnRef(m)' >= node[m].nRefCount - OwnRef(m)
  BY <1>2, <1>4, <1>5, NodeFields DEF ConnInv
<1>8. QED
  BY <1>1, <1>2, <1>6, <1>7, RefsStay DEF ConnInv, RefInv

\* Its own reference goes, if it has one that is known of.
LEMMA HoldDisconnectedRef ==
    ASSUME ConnInv, ConnInv', RefInv, HoldDisconnected
    PROVE  RefInv'
<1> DEFINE S == {n \in {socket.node} : ReleasesOwn(n)}
<1>1. /\ socket.pc = "release"
      /\ node' = [Release(S) EXCEPT ![socket.node].fDisconnect = TRUE]
      /\ vNodesDisconnected' = vNodesDisconnected \cup {socket.node}
      /\ socket' = [socket EXCEPT !.pc = "disconnect", !.node = NoNode]
      /\ UNCHANGED <<vNodes, deleted, semOutbound, handler, opener, shared>>
  BY DEF HoldDisconnected
<1>2. socket.node \in Node \ (vNodes \cup vNodesDisconnected \cup deleted)
      /\ Releasing = {socket.node}
  BY <1>1 DEF ConnInv, Places, Releasing, Disconnecting
<1>3. S \in SUBSET Node /\ \A m \in Node : m \in S <=> m \in Releasing /\ ReleasesOwn(m)
  BY <1>2
<1> HIDE DEF S
<1>4. \A m \in Node :
         /\ node'[m].nRefCount = node[m].nRefCount - (IF m \in S THEN 1 ELSE 0)
         /\ node'[m].fInbound = node[m].fInbound
         /\ node'[m].fNetworkNode = node[m].fNetworkNode
         /\ node'[m].addr = node[m].addr
  <2>1. node \in [Node -> CNode] /\ socket.node \in Node
    BY <1>2 DEF ConnInv, Types
  <2>2. QED
    BY <1>1, <1>3, <2>1, ClosedIs
<1>5. /\ Releasing' = {} /\ socket'.vNodesCopy = socket.vNodesCopy
      /\ socket'.pc = "disconnect"
  BY <1>1 DEF ConnInv, Types, SocketState, Releasing, Disconnecting
<1>6. Held' = Held /\ Held \subseteq Node
  BY <1>1, <1>2, <1>5, HeldNodes DEF Held
<1>7. \A m \in Node : ReleasesOwn(m)' <=> ReleasesOwn(m)
  BY <1>4 DEF ReleasesOwn
<1>8. \A m \in Node : OwnRef(m)' = OwnRef(m) - (IF m \in S THEN 1 ELSE 0)
  BY <1>1, <1>2, <1>3, <1>5, <1>7 DEF OwnRef
<1>9. \A o \in Opener : OpenerRefs(o)'
  BY <1>1, <1>4, <1>6, <1>7, OpenerKept DEF ConnInv, Types
<1>10. \A m \in Held : node'[m].nRefCount - OwnRef(m)' >= node[m].nRefCount - OwnRef(m)
  BY <1>4, <1>6, <1>8, NodeFields DEF ConnInv
<1>11. QED
  BY <1>1, <1>5, <1>6, <1>9, <1>10, RefsStay DEF ConnInv, RefInv

(* A deleted node has no references: none of a copy, and not its own, which *)
(* the node the opening thread works on still has.                          *)
LEMMA DeleteNodesRef ==
    ASSUME ConnInv, ConnInv', RefInv, DeleteNodes
    PROVE  RefInv'
<1> DEFINE gone == {n \in Node : Deletable(n)}
<1>1. /\ socket.pc = "disconnect"
      /\ vNodesDisconnected' = vNodesDisconnected \ gone
      /\ deleted' = deleted \cup gone
      /\ node' = [n \in Node |-> IF n \in gone THEN [node[n] EXCEPT !.grant = FALSE]
                                 ELSE node[n]]
      /\ socket' = [socket EXCEPT !.pc = "accept"]
      /\ UNCHANGED <<vNodes, handler, opener, shared>>
  BY DEF DeleteNodes
<1>2. gone \in SUBSET Node /\ gone \subseteq vNodesDisconnected
      /\ \A n \in gone : node[n].nRefCount <= 0
  BY DEF Deletable
<1> HIDE DEF gone
<1>3. \A m \in Node :
         /\ node'[m].nRefCount = node[m].nRefCount
         /\ node'[m].fInbound = node[m].fInbound
         /\ node'[m].fNetworkNode = node[m].fNetworkNode
         /\ node'[m].addr = node[m].addr
  BY <1>1, <1>2, GrantsGone DEF ConnInv, Types
<1>4. /\ Releasing' = {} /\ Releasing = {} /\ socket'.vNodesCopy = socket.vNodesCopy
      /\ socket'.pc = "accept"
  BY <1>1 DEF ConnInv, Types, SocketState, Releasing, Disconnecting
<1>5. Held' = Held \ gone /\ Held \subseteq Node
  BY <1>1, <1>2, <1>4, HeldNodes DEF Held, ConnInv, Places
<1>6. \A n \in gone : Used(n) = 0 /\ OwnRef(n) = 0
  <2> SUFFICES ASSUME NEW n \in gone PROVE Used(n) = 0 /\ OwnRef(n) = 0
    OBVIOUS
  <2>1. n \in Node /\ n \in Held
    BY <1>2 DEF Held
  <2>2. node[n].nRefCount >= Used(n) + OwnRef(n) /\ node[n].nRefCount <= 0
    BY <1>2, <2>1 DEF RefInv
  <2>3. QED
    BY <2>1, <2>2, NodeFields DEF ConnInv
<1>7. Copied \subseteq Held'
  <2>1. \A n \in Copied : n \notin gone
    BY <1>6 DEF Copied, Used
  <2>2. QED
    BY <1>5, <2>1 DEF RefInv
<1>8. \A m \in Node : OwnRef(m)' = OwnRef(m) /\ (ReleasesOwn(m)' <=> ReleasesOwn(m))
  BY <1>1, <1>3, <1>4 DEF OwnRef, ReleasesOwn
<1>9. \A n \in Held : ~ ReleasesOwn(n) => n \in Held' /\ ~ ReleasesOwn(n)'
  BY <1>5, <1>6, <1>8 DEF OwnRef
<1>10. \A o \in Opener : OpenerRefs(o)'
  <2>1. \A n \in vNodes' : n \in Node
    BY DEF ConnInv, Types
  <2>2. QED
    BY <1>1, <1>3, <1>9, <2>1, OpenerKept DEF ConnInv
<1>11. \A m \in Held : node'[m].nRefCount - OwnRef(m)' >= node[m].nRefCount - OwnRef(m)
  BY <1>3, <1>5, <1>8, NodeFields DEF ConnInv
<1>12. QED
  BY <1>1, <1>4, <1>5, <1>7, <1>10, <1>11, RefsStay DEF ConnInv, RefInv

\* A peer's new node is not one of ours.
LEMMA AcceptNodeRef ==
    ASSUME ConnInv, ConnInv', RefInv, NEW n \in Node, NEW a \in Addr, AcceptNode(n, a)
    PROVE  RefInv'
<1> DEFINE r == NewNode(a, TRUE)
<1>1. /\ socket.pc = "accept" /\ n \in Unmade
      /\ node' = [node EXCEPT ![n] = r]
      /\ vNodes' = vNodes \cup {n}
      /\ socket' = [socket EXCEPT !.pc = "copy"]
      /\ UNCHANGED <<vNodesDisconnected, deleted, semOutbound, handler, opener, shared>>
  BY DEF AcceptNode
<1>2. n \notin Held \cup deleted
  BY <1>1 DEF Unmade, Made, Held, Releasing, Disconnecting
<1>3. r \in CNode /\ r.fInbound = TRUE /\ r.nRefCount = 1
  BY NewNodeIs DEF Dest
<1> HIDE DEF r
<1>4. \A m \in Node : node'[m] = IF m = n THEN r ELSE node[m]
  BY <1>1, <1>3, NodeMade DEF ConnInv, Types
<1>5. /\ Releasing' = {} /\ Releasing = {} /\ socket'.vNodesCopy = socket.vNodesCopy
      /\ socket'.pc = "copy"
  BY <1>1 DEF ConnInv, Types, SocketState, Releasing, Disconnecting
<1>6. Held' = Held \cup {n} /\ Held \subseteq Node
  BY <1>1, <1>5, HeldNodes DEF Held
<1>7. \A m \in Held : /\ node'[m] = node[m] /\ OwnRef(m)' = OwnRef(m)
                      /\ ReleasesOwn(m)' <=> ReleasesOwn(m)
  BY <1>1, <1>2, <1>4, <1>5, <1>6 DEF OwnRef, ReleasesOwn
<1>8. \A o \in Opener : OpenerRefs(o)'
  <2>1. \A m \in vNodes' : m = n \/ (m \in vNodes /\ m \in Held)
    BY <1>1 DEF Held
  <2>2. \A m \in vNodes' :
           \/ node'[m].fInbound
           \/ /\ m \in vNodes /\ node'[m].addr = node[m].addr
              /\ node'[m].fInbound = node[m].fInbound
    BY <1>3, <1>4, <1>7, <2>1
  <2>3. QED
    BY <1>1, <1>6, <1>7, <2>2, OpenerKept DEF ConnInv
<1>9. \A m \in Held' :
         IF m \in Held
           THEN node'[m].nRefCount - OwnRef(m)' >= node[m].nRefCount - OwnRef(m)
           ELSE node'[m].nRefCount >= 1
  BY <1>3, <1>4, <1>6, <1>7, NodeFields DEF ConnInv
<1>10. QED
  BY <1>1, <1>5, <1>6, <1>8, <1>9, RefsStay DEF ConnInv, RefInv

\* A lost connection or a dropped peer: a mark, and no count.
LEMMA LoseRef ==
    ASSUME ConnInv, ConnInv', RefInv, NEW n \in Node, LoseNode(n) \/ DropPeer(n)
    PROVE  RefInv'
<1>1. /\ node' = [node EXCEPT ![n].fDisconnect = TRUE]
      /\ UNCHANGED <<vNodes, vNodesDisconnected, deleted, semOutbound, socket, handler,
                     opener, shared>>
  BY DEF LoseNode, DropPeer
<1>2. \A m \in Node :
         /\ node'[m].nRefCount = node[m].nRefCount
         /\ node'[m].fInbound = node[m].fInbound
         /\ node'[m].fNetworkNode = node[m].fNetworkNode
         /\ node'[m].addr = node[m].addr
  BY <1>1, FlagDisconnect DEF ConnInv, Types
<1>3. Releasing' = Releasing /\ Held' = Held /\ Held \subseteq Node
  BY <1>1, HeldNodes DEF Releasing, Disconnecting, Held
<1>4. \A m \in Node : OwnRef(m)' = OwnRef(m) /\ (ReleasesOwn(m)' <=> ReleasesOwn(m))
  BY <1>1, <1>2, <1>3 DEF OwnRef, ReleasesOwn
<1>5. \A o \in Opener : OpenerRefs(o)'
  BY <1>1, <1>2, <1>3, <1>4, OpenerKept DEF ConnInv, Types
<1>6. \A m \in Held : node'[m].nRefCount - OwnRef(m)' >= node[m].nRefCount - OwnRef(m)
  BY <1>2, <1>3, <1>4, NodeFields DEF ConnInv
<1>7. QED
  BY <1>1, <1>3, <1>5, <1>6, RefsStay DEF ConnInv, RefInv

(* A copy is taken with a reference to each node, or released with them.    *)
LEMMA CountsRef ==
    ASSUME ConnInv, ConnInv', RefInv,
           NEW S \in SUBSET Node, NEW k \in {1, -1},
           \/ k = 1 /\ node' = AddRef(S)
           \/ k = -1 /\ node' = Release(S),
           UNCHANGED <<vNodes, vNodesDisconnected, deleted, opener, shared>>,
           ~ Disconnecting, ~ Disconnecting',
           socket'.pc # "service" => socket'.vNodesCopy = {},
           handler'.pc = "copy" => handler'.vNodesCopy = {},
           Copied' \subseteq Held,
           \A n \in Node : Used(n)' = Used(n) + (IF n \in S THEN k ELSE 0)
    PROVE  RefInv'
<1>1. \A m \in Node :
         /\ node'[m].nRefCount = node[m].nRefCount + (IF m \in S THEN k ELSE 0)
         /\ node'[m].fInbound = node[m].fInbound
         /\ node'[m].fNetworkNode = node[m].fNetworkNode
         /\ node'[m].addr = node[m].addr
  <2>1. CASE k = 1 /\ node' = AddRef(S)
    BY <2>1, AddRefIs DEF ConnInv, Types
  <2>2. CASE k = -1 /\ node' = Release(S)
    <3>1. \A m \in Node : node[m].nRefCount \in Int
      BY NodeFields DEF ConnInv
    <3>2. QED
      BY <2>2, <3>1, ReleaseIs DEF ConnInv, Types
  <2>3. QED
    BY <2>1, <2>2
<1>2. Releasing' = {} /\ Releasing = {}
  BY DEF Releasing
<1>3. Held' = Held /\ Held \subseteq Node
  BY <1>2, HeldNodes DEF Held
<1>4. \A m \in Node : OwnRef(m)' = OwnRef(m) /\ (ReleasesOwn(m)' <=> ReleasesOwn(m))
  BY <1>1, <1>2 DEF OwnRef, ReleasesOwn
<1>5. \A o \in Opener : OpenerRefs(o)'
  BY <1>1, <1>3, <1>4, OpenerKept DEF ConnInv, Types
<1>6. \A m \in Held' : node'[m].nRefCount >= Used(m)' + OwnRef(m)'
  <2> SUFFICES ASSUME NEW m \in Held PROVE node'[m].nRefCount >= Used(m)' + OwnRef(m)'
    BY <1>3
  <2>1. m \in Node /\ node[m].nRefCount >= Used(m) + OwnRef(m)
    BY <1>3 DEF RefInv
  <2>2. node[m].nRefCount \in Int /\ Used(m) \in 0 .. 2 /\ OwnRef(m) \in 0 .. 1
    BY <2>1, NodeFields DEF ConnInv
  <2>3. QED
    BY <1>1, <1>4, <2>1, <2>2
<1>7. QED
  BY <1>3, <1>5, <1>6 DEF RefInv

\* The copies of both handlers, taken and released with their references.
LEMMA CopiesRef ==
    ASSUME ConnInv, ConnInv', RefInv,
           CopyNodes \/ ReleaseNodes \/ CopyForMessages \/ ReleaseFromMessages
    PROVE  RefInv'
<1>0. vNodes \subseteq Held /\ vNodes \in SUBSET Node
      /\ socket.vNodesCopy \in SUBSET Node /\ handler.vNodesCopy \in SUBSET Node
      /\ Copied \subseteq Held
  BY DEF ConnInv, Types, Held, SocketState, HandlerState, RefInv
<1>1. CASE CopyNodes
  <2>1. /\ node' = AddRef(vNodes) /\ socket.pc \in {"accept", "copy"}
        /\ socket'.pc = "service" /\ socket'.vNodesCopy = vNodes
        /\ UNCHANGED <<vNodes, vNodesDisconnected, deleted, handler, opener, shared>>
    BY <1>1 DEF CopyNodes, Refer, ConnInv, Types, SocketState
  <2>2. socket.vNodesCopy = {}
    BY <2>1 DEF RefInv
  <2>3. \A n \in Node : Used(n)' = Used(n) + (IF n \in vNodes THEN 1 ELSE 0)
    BY <2>1, <2>2 DEF Used
  <2>4. Copied' \subseteq Held
    BY <1>0, <2>1 DEF Copied
  <2>5. QED
    BY <1>0, <2>1, <2>3, <2>4, CountsRef DEF RefInv, Disconnecting
<1>2. CASE ReleaseNodes
  <2>1. /\ node' = Release(socket.vNodesCopy) /\ socket.pc = "service"
        /\ socket'.pc = "disconnect" /\ socket'.vNodesCopy = {}
        /\ UNCHANGED <<vNodes, vNodesDisconnected, deleted, handler, opener, shared>>
    BY <1>2 DEF ReleaseNodes
  <2>2. \A n \in Node : Used(n)' = Used(n) + (IF n \in socket.vNodesCopy THEN -1 ELSE 0)
    BY <2>1 DEF Used
  <2>3. Copied' \subseteq Held
    BY <1>0, <2>1 DEF Copied
  <2>4. QED
    BY <1>0, <2>1, <2>2, <2>3, CountsRef DEF RefInv, Disconnecting
<1>3. CASE CopyForMessages
  <2>1. /\ node' = AddRef(vNodes) /\ handler.pc = "copy"
        /\ ~ Disconnecting /\ handler'.pc = "messages" /\ handler'.vNodesCopy = vNodes
        /\ UNCHANGED <<vNodes, vNodesDisconnected, deleted, socket, opener, shared>>
    BY <1>3 DEF CopyForMessages, Refer, Unlocked
  <2>2. handler.vNodesCopy = {}
    BY <2>1 DEF RefInv
  <2>3. \A n \in Node : Used(n)' = Used(n) + (IF n \in vNodes THEN 1 ELSE 0)
    BY <2>1, <2>2 DEF Used
  <2>4. Copied' \subseteq Held
    BY <1>0, <2>1 DEF Copied
  <2>5. QED
    BY <1>0, <2>1, <2>3, <2>4, CountsRef DEF RefInv, Disconnecting
<1>4. CASE ReleaseFromMessages
  <2>1. /\ node' = Release(handler.vNodesCopy) /\ handler.pc = "messages"
        /\ ~ Disconnecting /\ handler'.pc = "copy" /\ handler'.vNodesCopy = {}
        /\ UNCHANGED <<vNodes, vNodesDisconnected, deleted, socket, opener, shared>>
    BY <1>4 DEF ReleaseFromMessages, Unlocked
  <2>2. \A n \in Node : Used(n)' = Used(n) + (IF n \in handler.vNodesCopy THEN -1 ELSE 0)
    BY <2>1 DEF Used
  <2>3. Copied' \subseteq Held
    BY <1>0, <2>1 DEF Copied
  <2>4. QED
    BY <1>0, <2>1, <2>2, <2>3, CountsRef DEF RefInv, Disconnecting
<1>5. QED
  BY <1>1, <1>2, <1>3, <1>4

(* A step of the thread that makes no node and touches no count: it may     *)
(* mark its own as a node of ours.                                          *)
LEMMA OpenerRef ==
    ASSUME ConnInv, ConnInv', RefInv,
           UNCHANGED <<vNodes, vNodesDisconnected, deleted, socket, handler, shared>>,
           \A n \in Node : /\ node'[n].nRefCount = node[n].nRefCount
                           /\ node'[n].fInbound = node[n].fInbound
                           /\ node[n].fNetworkNode => node'[n].fNetworkNode,
           \A o \in Opener : OpenerRefs(o)'
    PROVE  RefInv'
<1>1. Releasing' = Releasing /\ Held' = Held /\ Held \subseteq Node
  BY HeldNodes DEF Releasing, Disconnecting, Held
<1>2. \A n \in Node : OwnRef(n)' <= OwnRef(n) /\ OwnRef(n)' \in 0 .. 1
  BY <1>1 DEF OwnRef, ReleasesOwn
<1>3. \A n \in Held : node'[n].nRefCount - OwnRef(n)' >= node[n].nRefCount - OwnRef(n)
  <2> SUFFICES ASSUME NEW n \in Held
               PROVE  node'[n].nRefCount - OwnRef(n)' >= node[n].nRefCount - OwnRef(n)
    OBVIOUS
  <2>1. n \in Node
    BY <1>1
  <2>2. node[n].nRefCount \in Int /\ OwnRef(n) \in 0 .. 1
    BY <2>1, NodeFields DEF ConnInv
  <2>3. QED
    BY <1>2, <2>1, <2>2
<1>4. QED
  BY <1>1, <1>3, RefsStay DEF ConnInv, RefInv

\* Up to the connection: an address of which there is no node of ours stays so.
LEMMA ChooseRef ==
    ASSUME \A p, q \in Opener : p = q, ConnInv, ConnInv', RefInv, NEW o \in Opener,
           \/ AcquireGrant(o) \/ GiveUp(o) \/ FindNode(o)
           \/ \E d \in Dest : Choose(o, d)
    PROVE  RefInv'
<1>1. UNCHANGED <<node, vNodes, vNodesDisconnected, deleted, socket, handler>>
  BY DEF AcquireGrant, GiveUp, FindNode, Choose
<1>0. UNCHANGED shared
  BY DEF AcquireGrant, GiveUp, FindNode, Choose, RefInv, OpenerRefs
<1>2. opener[o] \in OpenerState /\ opener \in [Opener -> OpenerState]
  BY DEF ConnInv, Types
<1>3. OpenerRefs(o)'
  <2>1. CASE AcquireGrant(o) \/ GiveUp(o)
    <3>1. opener'[o].pc \in {"grant", "choose"}
      BY <1>2, <2>1, RestingIs DEF AcquireGrant, GiveUp, OpenerState
    <3>2. QED
      BY <3>1 DEF OpenerRefs
  <2>2. CASE FindNode(o)
    <3>1. SameService(opener[o].dest) = {}
      BY <2>2 DEF FindNode, RefInv, OpenerRefs
    <3>2. opener'[o].pc = "dial"
      BY <1>2, <2>2, <3>1 DEF FindNode, OpenerState
    <3>3. QED
      BY <3>2 DEF OpenerRefs
  <2>3. CASE \E d \in Dest : Choose(o, d)
    <3>1. PICK d \in Dest : Choose(o, d)
      BY <2>3
    <3>2. opener'[o].dest = d /\ opener'[o].pc = IF d \in Name THEN "dial" ELSE "find"
      BY <1>2, <3>1 DEF Choose, OpenerState
    <3>3. d \in Addr => SameService(d) = {}
      BY <3>1 DEF Choose, AlreadyConnected, SameService
    <3>4. SameService(d)' = SameService(d)
      BY <1>1 DEF SameService
    <3>5. QED
      BY <3>2, <3>3, <3>4 DEF OpenerRefs, Dest, SameService
  <2>4. QED
    BY <2>1, <2>2, <2>3
<1>4. \A p \in Opener : OpenerRefs(p)'
  BY <1>3
<1>5. QED
  BY <1>0, <1>1, <1>4, OpenerRef DEF ConnInv

\* The thread's node is new: it has the reference it was made with.
LEMMA ConnectRef ==
    ASSUME \A p, q \in Opener : p = q, ConnInv, ConnInv', RefInv,
           NEW o \in Opener, NEW n \in Node, ConnectNode(o, n)
    PROVE  RefInv'
<1> DEFINE r == NewNode(opener[o].dest, FALSE)
<1>1. /\ opener[o].pc = "dial" /\ n \in Unmade
      /\ node' = [node EXCEPT ![n] = r]
      /\ vNodes' = vNodes \cup {n}
      /\ opener' = [opener EXCEPT ![o].pc = "move", ![o].node = n]
      /\ UNCHANGED <<vNodesDisconnected, deleted, semOutbound, socket, handler, shared>>
  BY DEF ConnectNode
<1>2. n \notin Held \cup deleted
  BY <1>1 DEF Unmade, Made, Held, Releasing, Disconnecting
<1>3. opener[o] \in OpenerState /\ opener[o].dest \in Dest
  BY <1>1 DEF ConnInv, Types, Places
<1>4. r \in CNode /\ r.fInbound = FALSE /\ r.fNetworkNode = FALSE /\ r.nRefCount = 1
  BY <1>3, NewNodeIs
<1> HIDE DEF r
<1>5. \A m \in Node : node'[m] = IF m = n THEN r ELSE node[m]
  BY <1>1, <1>4, NodeMade DEF ConnInv, Types
<1>6. Releasing' = Releasing /\ Held' = Held \cup {n} /\ Held \subseteq Node
  BY <1>1, HeldNodes DEF Releasing, Disconnecting, Held
<1>7. \A m \in Held : node'[m] = node[m] /\ OwnRef(m)' = OwnRef(m)
  BY <1>1, <1>2, <1>5, <1>6 DEF OwnRef, ReleasesOwn
<1>8. opener'[o].pc = "move" /\ opener'[o].node = n
  BY <1>1, <1>3 DEF ConnInv, Types, OpenerState
<1>9. ~ ReleasesOwn(n)'
  BY <1>4, <1>5 DEF ReleasesOwn
<1>10. \A p \in Opener : OpenerRefs(p)'
  BY <1>6, <1>8, <1>9 DEF OpenerRefs, ReleasesOwn
<1>11. \A m \in Held' :
         IF m \in Held
           THEN node'[m].nRefCount - OwnRef(m)' >= node[m].nRefCount - OwnRef(m)
           ELSE node'[m].nRefCount >= 1
  BY <1>4, <1>5, <1>6, <1>7, NodeFields DEF ConnInv
<1>12. QED
  BY <1>1, <1>6, <1>10, <1>11, RefsStay DEF ConnInv, RefInv

\* The node found is never one already there: no count is raised without a lock.
LEMMA OpenRef ==
    ASSUME \A p, q \in Opener : p = q, ConnInv, ConnInv', RefInv,
           NEW o \in Opener, OpenConnection(o)
    PROVE  RefInv'
<1>1. OpenerRefs(o) /\ opener[o] \in OpenerState /\ opener \in [Opener -> OpenerState]
  BY DEF RefInv, ConnInv, Types
<1>2. CASE FindNode(o)
  BY <1>2, ChooseRef
<1>3. CASE ReadRefCount(o) \/ WriteRefCount(o) \/ PostMoved(o) \/ ClearMoved(o)
  BY <1>3 DEF ReadRefCount, WriteRefCount, PostMoved, ClearMoved, ConnInv, RefInv,
              GrantInv, MovesApart, SharingPc
<1>4. CASE TestGrant(o) \/ MoveGrant(o)
  <2>1. /\ opener[o].pc \in {"move", "set"} /\ opener'[o].pc \in {"post", "set", "flag"}
        /\ opener'[o].node = opener[o].node
        /\ UNCHANGED <<vNodes, vNodesDisconnected, deleted, socket, handler, shared>>
    BY <1>1, <1>4 DEF TestGrant, MoveGrant, OpenerState
  <2>2. opener[o].node \in Held /\ ~ ReleasesOwn(opener[o].node) /\ opener[o].node \in Node
    BY <1>1, <2>1, HeldNodes DEF OpenerRefs
  <2>3. \A m \in Node : /\ node'[m].nRefCount = node[m].nRefCount
                        /\ node'[m].fInbound = node[m].fInbound
                        /\ node'[m].fNetworkNode = node[m].fNetworkNode
    BY <1>4, <2>2, GrantMoved DEF TestGrant, MoveGrant, ConnInv, Types
  <2>4. OpenerRefs(o)'
    BY <2>1, <2>2, <2>3 DEF OpenerRefs, ReleasesOwn, Held, Releasing, Disconnecting
  <2>5. \A p \in Opener : OpenerRefs(p)'
    BY <2>4
  <2>6. QED
    BY <2>1, <2>3, <2>5, OpenerRef
<1>5. CASE SetNetworkNode(o)
  <2>1. /\ opener[o].pc = "flag" /\ opener'[o].pc \in {"oneshot", "grant"}
        /\ UNCHANGED <<vNodes, vNodesDisconnected, deleted, socket, handler, shared>>
    BY <1>1, <1>5, RestingIs DEF SetNetworkNode, OpenerState
  <2>2. opener[o].node \in Node
    BY <1>1, <2>1, HeldNodes DEF OpenerRefs
  <2>3. \A m \in Node : /\ node'[m].nRefCount = node[m].nRefCount
                        /\ node'[m].fInbound = node[m].fInbound
                        /\ node[m].fNetworkNode => node'[m].fNetworkNode
    BY <1>5, <2>2, FlagNetwork DEF SetNetworkNode, ConnInv, Types
  <2>4. \A p \in Opener : OpenerRefs(p)'
    BY <2>1 DEF OpenerRefs
  <2>5. QED
    BY <2>1, <2>3, <2>4, OpenerRef
<1>6. CASE SetOneShot(o)
  <2>1. /\ opener'[o].pc = "grant"
        /\ UNCHANGED <<node, vNodes, vNodesDisconnected, deleted, socket, handler, shared>>
    BY <1>1, <1>6, RestingIs DEF SetOneShot
  <2>2. \A p \in Opener : OpenerRefs(p)'
    BY <2>1 DEF OpenerRefs
  <2>3. QED
    BY <2>1, <2>2, OpenerRef
<1>7. QED
  BY <1>2, <1>3, <1>4, <1>5, <1>6 DEF OpenConnection

\* Every step of the program, with one opening thread.
LEMMA RefStep ==
    ASSUME \A p, q \in Opener : p = q, ConnInv, ConnInv', RefInv, [Next]_vars
    PROVE  RefInv'
<1>1. CASE UNCHANGED vars
  BY <1>1 DEF vars, RefInv, Copied, Held, Releasing, Disconnecting, Used, OwnRef,
              OpenerRefs, SameService, ReleasesOwn
<1>2. CASE SocketHandler
  BY <1>2, DisconnectNodeRef, ReleaseGrantRef, HoldDisconnectedRef, DeleteNodesRef, CopiesRef
     DEF SocketHandler
<1>3. CASE \E n \in Node, a \in Addr : AcceptNode(n, a)
  BY <1>3, AcceptNodeRef
<1>4. CASE \E n \in Node : LoseNode(n) \/ DropPeer(n)
  BY <1>4, LoseRef
<1>5. CASE MessageHandler
  BY <1>5, CopiesRef DEF MessageHandler
<1>6. CASE \E o \in Opener : AcquireGrant(o) \/ GiveUp(o)
  BY <1>6, ChooseRef
<1>7. CASE \E o \in Opener : OpenConnection(o)
  BY <1>7, OpenRef
<1>8. CASE \E o \in Opener : \E d \in Dest : Choose(o, d)
  BY <1>8, ChooseRef
<1>9. CASE \E o \in Opener : \E n \in Node : ConnectNode(o, n)
  BY <1>9, ConnectRef
<1>10. QED
  BY <1>1, <1>2, <1>3, <1>4, <1>5, <1>6, <1>7, <1>8, <1>9 DEF Next

\* The uses that the property counts are those of the invariant.
LEMMA UsesAreUsed ==
    ASSUME NEW n
    PROVE  Uses(n) = Used(n)
<1> DEFINE C == {c \in {"socket", "handler"} :
                    n \in (IF c = "socket" THEN socket ELSE handler).vNodesCopy}
<1>1. C = (IF n \in socket.vNodesCopy THEN {"socket"} ELSE {})
             \cup (IF n \in handler.vNodesCopy THEN {"handler"} ELSE {})
  OBVIOUS
<1>2. /\ Cardinality({"socket"} \cup {"handler"}) = 2
      /\ Cardinality({"socket"}) = 1 /\ Cardinality({"handler"}) = 1
      /\ Cardinality({}) = 0
  <2>1. IsFiniteSet({"socket"}) /\ Cardinality({"socket"}) = 1 /\ Cardinality({"handler"}) = 1
    BY FS_Singleton
  <2>2. Cardinality({"socket"} \cup {"handler"}) = 2
    BY <2>1, FS_AddElement
  <2>3. QED
    BY <2>1, <2>2, FS_EmptySet
<1>3. Cardinality(C) = Used(n)
  <2>1. CASE n \in socket.vNodesCopy /\ n \in handler.vNodesCopy
    <3>1. C = {"socket"} \cup {"handler"} /\ Used(n) = 2
      BY <1>1, <2>1 DEF Used
    <3>2. QED
      BY <1>2, <3>1
  <2>2. CASE n \in socket.vNodesCopy /\ n \notin handler.vNodesCopy
    <3>1. C = {"socket"} /\ Used(n) = 1
      BY <1>1, <2>2 DEF Used
    <3>2. QED
      BY <1>2, <3>1
  <2>3. CASE n \notin socket.vNodesCopy /\ n \in handler.vNodesCopy
    <3>1. C = {"handler"} /\ Used(n) = 1
      BY <1>1, <2>3 DEF Used
    <3>2. QED
      BY <1>2, <3>1
  <2>4. CASE n \notin socket.vNodesCopy /\ n \notin handler.vNodesCopy
    <3>1. C = {} /\ Used(n) = 0
      BY <1>1, <2>4 DEF Used
    <3>2. QED
      BY <1>2, <3>1
  <2>5. QED
    BY <2>1, <2>2, <2>3, <2>4
<1>4. QED
  BY <1>3 DEF Uses

\* The counts are what the property asks of them.
LEMMA RefsSuffice ==
    ASSUME ConnInv, RefInv PROVE NodesSurviveUse
<1>1. TypeOK
  BY TypesSuffice
<1>2. ReferencesCoverUses
  <2> SUFFICES ASSUME NEW n \in vNodes \cup vNodesDisconnected
               PROVE  node[n].nRefCount >= Uses(n) + IF n \in vNodes THEN 1 ELSE 0
    BY DEF ReferencesCoverUses
  <2>1. n \in Held /\ n \in Node
    BY HeldNodes DEF Held
  <2>2. node[n].nRefCount >= Used(n) + OwnRef(n)
    BY <2>1 DEF RefInv
  <2>3. OwnRef(n) >= IF n \in vNodes THEN 1 ELSE 0
    BY DEF OwnRef
  <2>4. Uses(n) = Used(n)
    BY UsesAreUsed
  <2>5. QED
    BY <2>1, <2>2, <2>3, <2>4, NodeFields DEF ConnInv
<1>3. NodesInUseExist
  <2>1. Held \cap deleted = {}
    BY DEF ConnInv, Places, Held
  <2>2. QED
    BY <2>1 DEF NodesInUseExist, RefInv, Copied, OpenerRefs, ConnInv, GrantInv, MovesApart,
                SharingPc
<1>4. QED
  BY <1>1, <1>2, <1>3 DEF NodesSurviveUse

(* The invariant of one thread that opens connections.                      *)
LEMMA OneOpener ==
    ASSUME \A p, q \in Opener : p = q
    PROVE  Spec => [](ConnInv /\ RefInv)
<1>1. Init => ConnInv /\ RefInv
  BY ConnInit, RefInit
<1>2. ConnInv /\ RefInv /\ [Next]_vars => ConnInv' /\ RefInv'
  BY ConnStep, RefStep
<1>3. QED
  BY <1>1, <1>2, PTL DEF Spec

(* MAX_OUTBOUND_CONNECTIONS is kept by one thread that opens connections,   *)
(* however its steps and the release of grants interleave.  With two, a     *)
(* unit of a node they share may be posted twice.                           *)
THEOREM OutboundAlwaysWithinLimit ==
    ASSUME \A p, q \in Opener : p = q
    PROVE  Spec => []OutboundWithinLimit
<1>1. ConnInv /\ RefInv => OutboundWithinLimit
  BY OutboundCounted DEF RefInv
<1>2. QED
  BY <1>1, OneOpener, PTL

(* With one thread that opens connections, what the handlers iterate over   *)
(* and the node that thread has still to mark are not deleted: the counts   *)
(* say that they are used.  With two, FindNode's node is referred to        *)
(* without the lock, and a count can be lost.                              *)
THEOREM NodesAlwaysSurviveUse ==
    ASSUME \A p, q \in Opener : p = q
    PROVE  Spec => []NodesSurviveUse
<1>1. ConnInv /\ RefInv => NodesSurviveUse
  BY RefsSuffice
<1>2. QED
  BY <1>1, OneOpener, PTL
=============================================================================
