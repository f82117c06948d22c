----------------------------- MODULE Connections -----------------------------
(***************************************************************************)
(* The life of a connection (net.cpp): CNode objects counted by reference, *)
(* shared by the socket handler, the message handler and the threads that  *)
(* open outbound connections, and the semaphore that bounds the latter.    *)
(*                                                                         *)
(* A step is one access to what the threads share, or one critical section *)
(* of cs_vNodes; only the socket handler's "Disconnect nodes" section      *)
(* takes several, because the opening threads write fNetworkNode and       *)
(* grantOutbound, which it uses, without that lock.  A grant has no lock   *)
(* at all: Release tests it, posts, and clears it, each in a step.         *)
(*                                                                         *)
(* Refusals are always possible (banned and local addresses, no address to *)
(* try, a failed connect): no bans are kept.  Nodes are never reused, so   *)
(* that a deleted one stays recognisable, and their number is the bound on *)
(* the connections a behaviour makes.  A named destination (-seednode and  *)
(* the DNS seeds' one-shots) has an address of its own, known by           *)
(* addressOf.  Without grants (-connect) and at shutdown the protocol is   *)
(* another, not modelled.                                                  *)
(***************************************************************************)
EXTENDS Integers, FiniteSets

CONSTANTS
    Node,             \* the CNodes that can be made
    NoNode,
    Addr,             \* the addresses of peers
    Name, addressOf,  \* named destinations and what they resolve to
    Opener,           \* ThreadOpenConnections, ThreadOpenAddedConnections
    nMaxOutbound,     \* the semaphore's value
    nMaxInbound       \* -maxconnections less MAX_OUTBOUND_CONNECTIONS

ASSUME ConnectionsAssumption ==
    /\ IsFiniteSet(Node) /\ NoNode \notin Node /\ IsFiniteSet(Opener)
    /\ Addr # {} /\ Addr \cap Name = {} /\ addressOf \in [Name -> Addr]
    /\ nMaxOutbound \in Nat /\ nMaxInbound \in Nat

VARIABLES
    node,                \* the fields of each CNode
    vNodes,
    vNodesDisconnected,
    deleted,             \* nodes past "delete pnode"
    semOutbound,
    socket,              \* ThreadSocketHandler2: where it is, and its locals
    handler,             \* ThreadMessageHandler2
    opener,              \* OpenNetworkConnection in each opening thread
    shared               \* history: ConnectNode has found a node already there

vars == <<node, vNodes, vNodesDisconnected, deleted, semOutbound, socket,
          handler, opener, shared>>

Dest == Addr \cup Name

AddrOf(d) == IF d \in Name THEN addressOf[d] ELSE d

\* addr and addrName; grantOutbound.fHaveGrant is grant.
CNode == [addr : Addr, dest : Dest, fInbound : BOOLEAN, fNetworkNode : BOOLEAN,
          fDisconnect : BOOLEAN, grant : BOOLEAN, nRefCount : Int]

NewNode(d, inbound) ==
    [addr |-> AddrOf(d), dest |-> d, fInbound |-> inbound, fNetworkNode |-> FALSE,
     fDisconnect |-> FALSE, grant |-> FALSE, nRefCount |-> 1]

\* The socket handler is at a node that has left vNodes.
Disconnecting == socket.pc \in {"post", "clear", "release"}

Made == vNodes \cup vNodesDisconnected \cup deleted
            \cup IF Disconnecting THEN {socket.node} ELSE {}

Unmade == Node \ Made

\* cs_vNodes is free: the others take it for one step at a time.
Unlocked == socket.pc # "disconnect" /\ ~ Disconnecting

AddRef(S) ==
    [n \in Node |-> IF n \in S THEN [node[n] EXCEPT !.nRefCount = @ + 1] ELSE node[n]]

Release(S) ==
    [n \in Node |-> IF n \in S THEN [node[n] EXCEPT !.nRefCount = @ - 1] ELSE node[n]]

-----------------------------------------------------------------------------
(* ThreadSocketHandler2.                                                    *)

(* fDisconnect, or unused: a node of vNodes keeps a reference of its own,   *)
(* so that the emptiness of its buffers, which the code also asks of an     *)
(* unused one, is left open.                                                *)
Disconnects(n) == node[n].fDisconnect \/ node[n].nRefCount <= 0

\* Fault: Release posts a grant it does not have.
ReleasesAlways(n) == TRUE

\* CSemaphoreGrant::Release goes on when it has the grant.
Releases(n) == node[n].grant

\* A node leaves vNodes, and the release of its grant begins.
DisconnectNode(n) ==
    /\ socket.pc = "disconnect"
    /\ n \in vNodes /\ Disconnects(n)
    /\ vNodes' = vNodes \ {n}
    /\ socket' = [socket EXCEPT !.pc = IF Releases(n) THEN "post" ELSE "release",
                                !.node = n]
    /\ UNCHANGED <<node, vNodesDisconnected, deleted, semOutbound, handler, opener, shared>>

PostDisconnected ==
    /\ socket.pc = "post"
    /\ semOutbound' = semOutbound + 1
    /\ socket' = [socket EXCEPT !.pc = "clear"]
    /\ UNCHANGED <<node, vNodes, vNodesDisconnected, deleted, handler, opener, shared>>

ClearDisconnected ==
    /\ socket.pc = "clear"
    /\ node' = [node EXCEPT ![socket.node].grant = FALSE]
    /\ socket' = [socket EXCEPT !.pc = "release"]
    /\ UNCHANGED <<vNodes, vNodesDisconnected, deleted, semOutbound, handler, opener, shared>>

\* Fault: inbound nodes keep the reference they were made with.
ReleasesOutbound(n) == node[n].fNetworkNode

\* The node's own reference goes, if it is known to have one.
ReleasesOwn(n) == node[n].fNetworkNode \/ node[n].fInbound

\* CloseSocketDisconnect, and "hold in disconnected pool".
HoldDisconnected ==
    /\ socket.pc = "release"
    /\ node' = [Release({n \in {socket.node} : ReleasesOwn(n)})
                  EXCEPT ![socket.node].fDisconnect = TRUE]
    /\ vNodesDisconnected' = vNodesDisconnected \cup {socket.node}
    /\ socket' = [socket EXCEPT !.pc = "disconnect", !.node = NoNode]
    /\ UNCHANGED <<vNodes, deleted, semOutbound, handler, opener, shared>>

\* The locks of a node are free when no thread refers to it.
Deletable(n) == n \in vNodesDisconnected /\ node[n].nRefCount <= 0

(* "Delete disconnected nodes"; ~CSemaphoreGrant posts what a node still     *)
(* has.  It is one step, for nobody else may use an object being destroyed:  *)
(* an opening thread that does, because a reference was lost, has no defined *)
(* behaviour.                                                                *)
DeleteNodes ==
    /\ socket.pc = "disconnect"
    /\ \A n \in vNodes : ~ Disconnects(n)
    /\ LET gone == {n \in Node : Deletable(n)}
       IN  /\ vNodesDisconnected' = vNodesDisconnected \ gone
           /\ deleted' = deleted \cup gone
           /\ semOutbound' =
                semOutbound + Cardinality({n \in gone : node[n].grant})
           /\ node' = [n \in Node |-> IF n \in gone THEN [node[n] EXCEPT !.grant = FALSE]
                                      ELSE node[n]]
    /\ socket' = [socket EXCEPT !.pc = "accept"]
    /\ UNCHANGED <<vNodes, handler, opener, shared>>

\* "Accept new connections".
AcceptNode(n, a) ==
    /\ socket.pc = "accept"
    /\ n \in Unmade
    /\ Cardinality({m \in vNodes : node[m].fInbound}) < nMaxInbound
    /\ node' = [node EXCEPT ![n] = NewNode(a, TRUE)]
    /\ vNodes' = vNodes \cup {n}
    /\ socket' = [socket EXCEPT !.pc = "copy"]
    /\ UNCHANGED <<vNodesDisconnected, deleted, semOutbound, handler, opener, shared>>

\* Fault: the copies hold no references.
NoRef(S) == node

\* The references of a vNodesCopy.
Refer(S) == AddRef(S)

\* "Service each socket": a copy of vNodes, every node of it referred to.
CopyNodes ==
    /\ socket.pc \in {"accept", "copy"}
    /\ node' = Refer(vNodes)
    /\ socket' = [socket EXCEPT !.pc = "service", !.vNodesCopy = vNodes]
    /\ UNCHANGED <<vNodes, vNodesDisconnected, deleted, semOutbound, handler, opener,
                  shared>>

\* A closed socket, an error, too much unread data, or inactivity.
LoseNode(n) ==
    /\ socket.pc = "service" /\ n \in socket.vNodesCopy
    /\ ~ node[n].fDisconnect
    /\ node' = [node EXCEPT ![n].fDisconnect = TRUE]
    /\ UNCHANGED <<vNodes, vNodesDisconnected, deleted, semOutbound, socket,
                   handler, opener, shared>>

\* The copy is released, and the next round locks cs_vNodes again.
ReleaseNodes ==
    /\ socket.pc = "service"
    /\ node' = Release(socket.vNodesCopy)
    /\ socket' = [pc |-> "disconnect", node |-> NoNode, vNodesCopy |-> {}]
    /\ UNCHANGED <<vNodes, vNodesDisconnected, deleted, semOutbound, handler, opener,
                  shared>>

-----------------------------------------------------------------------------
(* ThreadMessageHandler2.                                                   *)

CopyForMessages ==
    /\ handler.pc = "copy" /\ Unlocked
    /\ node' = Refer(vNodes)
    /\ handler' = [pc |-> "messages", vNodesCopy |-> vNodes]
    /\ UNCHANGED <<vNodes, vNodesDisconnected, deleted, semOutbound, socket, opener,
                  shared>>

\* ProcessMessages: misbehaviour, an old version, ourselves, a one-shot's end.
DropPeer(n) ==
    /\ handler.pc = "messages" /\ n \in handler.vNodesCopy
    /\ ~ node[n].fDisconnect
    /\ node' = [node EXCEPT ![n].fDisconnect = TRUE]
    /\ UNCHANGED <<vNodes, vNodesDisconnected, deleted, semOutbound, socket,
                   handler, opener, shared>>

ReleaseFromMessages ==
    /\ handler.pc = "messages" /\ Unlocked
    /\ node' = Release(handler.vNodesCopy)
    /\ handler' = [pc |-> "copy", vNodesCopy |-> {}]
    /\ UNCHANGED <<vNodes, vNodesDisconnected, deleted, semOutbound, socket, opener,
                  shared>>

-----------------------------------------------------------------------------
(* OpenNetworkConnection in thread o; its grant is held from "choose" on    *)
(* until it is moved to the node.                                           *)

Resting == [pc |-> "grant", dest |-> NoNode, node |-> NoNode, read |-> 0]

HasGrant(o) == opener[o].pc \in {"choose", "find", "dial", "addref", "write", "move",
                                "post", "clear", "set"}

\* Fault: CSemaphore::wait lets one too many through.
OneMore == semOutbound >= 0

\* CSemaphore::wait.
Available == semOutbound > 0

\* CSemaphoreGrant grant(*semOutbound).
AcquireGrant(o) ==
    /\ opener[o].pc = "grant"
    /\ Available
    /\ semOutbound' = semOutbound - 1
    /\ opener' = [opener EXCEPT ![o].pc = "choose"]
    /\ UNCHANGED <<node, vNodes, vNodesDisconnected, deleted, socket, handler, shared>>

\* Nothing to connect to, or the connection failed: ~CSemaphoreGrant.
GiveUp(o) ==
    /\ opener[o].pc \in {"choose", "dial"}
    /\ semOutbound' = semOutbound + 1
    /\ opener' = [opener EXCEPT ![o] = Resting]
    /\ UNCHANGED <<node, vNodes, vNodesDisconnected, deleted, socket, handler, shared>>

\* FindNode(CNetAddr) and FindNode(addrName) before connecting.
AlreadyConnected(d) ==
    \E n \in vNodes : \/ node[n].dest = d /\ ~ node[n].fInbound
                      \/ d \in Addr /\ node[n].addr = d

Choose(o, d) ==
    /\ opener[o].pc = "choose" /\ Unlocked
    /\ ~ AlreadyConnected(d)
    /\ opener' = [opener EXCEPT ![o].dest = d,
                                ![o].pc = IF d \in Name THEN "dial" ELSE "find"]
    /\ UNCHANGED <<node, vNodes, vNodesDisconnected, deleted, semOutbound, socket, handler,
                  shared>>

\* "Look for an existing connection"; a peer that connected to us has another port.
SameService(d) == {n \in vNodes : node[n].addr = d /\ ~ node[n].fInbound}

FindNode(o) ==
    /\ opener[o].pc = "find" /\ Unlocked
    /\ LET found == SameService(opener[o].dest)
       IN  \/ /\ found = {}
              /\ opener' = [opener EXCEPT ![o].pc = "dial"]
              /\ UNCHANGED shared
           \/ \E n \in found :
                 /\ opener' = [opener EXCEPT ![o].pc = "addref", ![o].node = n]
                 /\ shared' = TRUE
    /\ UNCHANGED <<node, vNodes, vNodesDisconnected, deleted, semOutbound, socket, handler>>

(* AddRef of the node found, after cs_vNodes was unlocked: nRefCount++ reads *)
(* and writes, and loses what others do to the count in between.             *)
ReadRefCount(o) ==
    /\ opener[o].pc = "addref"
    /\ opener' = [opener EXCEPT ![o].pc = "write",
                                ![o].read = node[opener[o].node].nRefCount]
    /\ UNCHANGED <<node, vNodes, vNodesDisconnected, deleted, semOutbound, socket, handler,
                  shared>>

WriteRefCount(o) ==
    /\ opener[o].pc = "write"
    /\ node' = [node EXCEPT ![opener[o].node].nRefCount = opener[o].read + 1]
    /\ opener' = [opener EXCEPT ![o].pc = "move", ![o].read = 0]
    /\ UNCHANGED <<vNodes, vNodesDisconnected, deleted, semOutbound, socket, handler,
                  shared>>

\* "Connect" and "Add node".
ConnectNode(o, n) ==
    /\ opener[o].pc = "dial" /\ Unlocked
    /\ n \in Unmade
    /\ node' = [node EXCEPT ![n] = NewNode(opener[o].dest, FALSE)]
    /\ vNodes' = vNodes \cup {n}
    /\ opener' = [opener EXCEPT ![o].pc = "move", ![o].node = n]
    /\ UNCHANGED <<vNodesDisconnected, deleted, semOutbound, socket, handler, shared>>

(* grantOutbound->MoveTo(pnode->grantOutbound): the release of the target's *)
(* grant, in its three accesses, and then the move.                         *)
TestGrant(o) ==
    /\ opener[o].pc = "move"
    /\ opener' = [opener EXCEPT ![o].pc =
                     IF Releases(opener[o].node) THEN "post" ELSE "set"]
    /\ UNCHANGED <<node, vNodes, vNodesDisconnected, deleted, semOutbound, socket,
                   handler, shared>>

PostMoved(o) ==
    /\ opener[o].pc = "post"
    /\ semOutbound' = semOutbound + 1
    /\ opener' = [opener EXCEPT ![o].pc = "clear"]
    /\ UNCHANGED <<node, vNodes, vNodesDisconnected, deleted, socket, handler, shared>>

ClearMoved(o) ==
    /\ opener[o].pc = "clear"
    /\ node' = [node EXCEPT ![opener[o].node].grant = FALSE]
    /\ opener' = [opener EXCEPT ![o].pc = "set"]
    /\ UNCHANGED <<vNodes, vNodesDisconnected, deleted, semOutbound, socket, handler, shared>>

MoveGrant(o) ==
    /\ opener[o].pc = "set"
    /\ node' = [node EXCEPT ![opener[o].node].grant = TRUE]
    /\ opener' = [opener EXCEPT ![o].pc = "flag"]
    /\ UNCHANGED <<vNodes, vNodesDisconnected, deleted, semOutbound, socket, handler, shared>>

SetNetworkNode(o) ==
    /\ opener[o].pc = "flag"
    /\ node' = [node EXCEPT ![opener[o].node].fNetworkNode = TRUE]
    /\ opener' = [opener EXCEPT ![o] =
                    IF @.dest \in Name THEN [@ EXCEPT !.pc = "oneshot"] ELSE Resting]
    /\ UNCHANGED <<vNodes, vNodesDisconnected, deleted, semOutbound, socket, handler,
                  shared>>

\* pnode->fOneShot = true, the last use of pnode.
SetOneShot(o) ==
    /\ opener[o].pc = "oneshot"
    /\ opener' = [opener EXCEPT ![o] = Resting]
    /\ UNCHANGED <<node, vNodes, vNodesDisconnected, deleted, semOutbound, socket, handler,
                  shared>>

-----------------------------------------------------------------------------
Init ==
    /\ node = [n \in Node |-> NewNode(CHOOSE a \in Addr : TRUE, FALSE)]
    /\ vNodes = {} /\ vNodesDisconnected = {} /\ deleted = {}
    /\ semOutbound = nMaxOutbound
    /\ socket = [pc |-> "accept", node |-> NoNode, vNodesCopy |-> {}]
    /\ handler = [pc |-> "copy", vNodesCopy |-> {}]
    /\ opener = [o \in Opener |-> Resting]
    /\ shared = FALSE

SocketHandler ==
    \/ \E n \in Node : DisconnectNode(n)
    \/ PostDisconnected \/ ClearDisconnected \/ HoldDisconnected \/ DeleteNodes
    \/ CopyNodes \/ ReleaseNodes

MessageHandler == CopyForMessages \/ ReleaseFromMessages

OpenConnection(o) ==
    \/ FindNode(o) \/ ReadRefCount(o) \/ WriteRefCount(o)
    \/ TestGrant(o) \/ PostMoved(o) \/ ClearMoved(o) \/ MoveGrant(o)
    \/ SetNetworkNode(o) \/ SetOneShot(o)

Next ==
    \/ SocketHandler
    \/ \E n \in Node, a \in Addr : AcceptNode(n, a)
    \/ \E n \in Node : LoseNode(n) \/ DropPeer(n)
    \/ MessageHandler
    \/ \E o \in Opener :
          \/ AcquireGrant(o) \/ GiveUp(o) \/ OpenConnection(o)
          \/ \E d \in Dest : Choose(o, d)
          \/ \E n \in Node : ConnectNode(o, n)

(* The handlers go round their loops, and an opening thread leaves          *)
(* OpenNetworkConnection.  The message handler waits for cs_vNodes while    *)
(* the socket handler keeps taking it, hence its strong fairness: the       *)
(* mutex is free for most of a round.  Nothing must arrive, fail or be      *)
(* dialled.                                                                 *)
Spec ==
    /\ Init /\ [][Next]_vars
    /\ WF_vars(SocketHandler)
    /\ SF_vars(MessageHandler)
    /\ \A o \in Opener : SF_vars(OpenConnection(o))

-----------------------------------------------------------------------------
(* Properties.                                                              *)

\* Every variable keeps its type.
TypeOK ==
    /\ node \in [Node -> CNode]
    /\ vNodes \subseteq Node /\ vNodesDisconnected \subseteq Node
    /\ deleted \subseteq Node
    /\ semOutbound \in Nat /\ shared \in BOOLEAN
    /\ socket \in [pc : {"disconnect", "post", "clear", "release", "accept", "copy",
                         "service"},
                   node : Node \cup {NoNode}, vNodesCopy : SUBSET Node]
    /\ handler \in [pc : {"copy", "messages"}, vNodesCopy : SUBSET Node]
    /\ opener \in [Opener -> [pc : {"grant", "choose", "find", "dial", "addref",
                                    "write", "move", "post", "clear", "set", "flag",
                                    "oneshot"},
                              dest : Dest \cup {NoNode},
                              node : Node \cup {NoNode}, read : Int]]

\* How many threads hold n in a vNodesCopy.
Uses(n) == Cardinality({c \in {"socket", "handler"} :
                n \in (IF c = "socket" THEN socket ELSE handler).vNodesCopy})

(* A node's references are at least its uses, and one more while it is in   *)
(* vNodes: GetRefCount's assertion holds, and a connected node is never     *)
(* taken for unused.  With one opening thread no node is found by           *)
(* ConnectNode, and all changes to the counts are made under cs_vNodes.     *)
ReferencesCoverUses ==
    \A n \in vNodes \cup vNodesDisconnected :
        node[n].nRefCount >= Uses(n) + IF n \in vNodes THEN 1 ELSE 0

(* What the message handler and the socket handler iterate over outlives    *)
(* the iteration, however long it is after the node's disconnection; so     *)
(* does the node that one opening thread has still to mark as its own.      *)
NodesInUseExist ==
    /\ socket.vNodesCopy \cap deleted = {} /\ handler.vNodesCopy \cap deleted = {}
    /\ \A o \in Opener :
          opener[o].pc \in {"move", "post", "clear", "set", "flag"} =>
              opener[o].node \notin deleted

(* Nothing in use is deleted, because its references say that it is used.   *)
NodesSurviveUse == TypeOK /\ ReferencesCoverUses /\ NodesInUseExist

\* Release has posted n's unit and not yet cleared its grant.
Posted(n) == socket.pc = "clear" /\ socket.node = n

(* Every unit of the semaphore is in one place: free, held by an opening    *)
(* thread, or with a node, whichever of the threads moves it or releases it *)
(* when.  Grants have no lock, and this depends on no two threads using one *)
(* at a time: it says nothing once two opening threads share a node.        *)
GrantsConserved ==
    /\ TypeOK
    /\ ~ shared =>
          semOutbound + Cardinality({o \in Opener : HasGrant(o)})
                      + Cardinality({n \in Node : node[n].grant /\ ~ Posted(n)})
              = nMaxOutbound

(* Outbound connections never outnumber the semaphore                       *)
(* (MAX_OUTBOUND_CONNECTIONS), with one opening thread.                     *)
OutboundWithinLimit ==
    Cardinality({n \in vNodes : ~ node[n].fInbound}) <= nMaxOutbound

(* A peer that connected to us and is to go goes, and its memory with it,   *)
(* although the handlers may be using it.                                   *)
InboundDeleted ==
    \A n \in Node : (n \in vNodes /\ node[n].fInbound /\ node[n].fDisconnect)
                        ~> n \in deleted

(* assert(nRefCount >= 0) in GetRefCount (net.h:263), of the nodes it is    *)
(* called on: with two opening threads the code does not keep to it.        *)
RefCountNotNegative ==
    \A n \in vNodes \cup vNodesDisconnected : node[n].nRefCount >= 0

(* What comments of the source say and the code does not keep to, with one  *)
(* opening thread either; no run checks them.                               *)

\* "release outbound grant (if any)" (net.cpp:679): none stays with the node.
DisconnectedHoldNoGrant ==
    \A n \in vNodesDisconnected : ~ node[n].grant

\* "hold in disconnected pool until all refs are released" (net.cpp:686).
DisconnectedDeleted ==
    \A n \in Node : n \in vNodesDisconnected ~> n \in deleted

\* "wait until threads are done using it" (net.cpp:697).
ThreadsDoneBeforeDelete ==
    \A o \in Opener : opener[o].pc \in {"addref", "write", "move", "post", "clear", "set",
                           "flag", "oneshot"} =>
                        opener[o].node \notin deleted
=============================================================================
