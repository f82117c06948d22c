---------------------------- MODULE BlockDownload ----------------------------
(***************************************************************************)
(* How nodes learn blocks from each other (ProcessMessage and SendMessages *)
(* of main.cpp, AskFor and PushInventory of net.h): a node announces the   *)
(* blocks it has, asks for those it lacks, and asks for the next batch     *)
(* where one announcement did not hold all.  Every node runs this code.    *)
(*                                                                         *)
(* A locator is the block it was made for: GetBlockIndex finds the fork,   *)
(* exactly on branches as short as those of an instance.  All blocks are   *)
(* valid, and the heaviest branch is the best one (ChainState).  Times are *)
(* relative to the present: a request is due at 0, and one that is Retry   *)
(* or more ago is as good as none.                                         *)
(***************************************************************************)
EXTENDS BlockIndex, Sequences, SequencesExt

CONSTANTS
    Node,
    Worlds,           \* what an instance starts from, see World
    ProofOfStake,     \* the blocks that are proof-of-stake
    nTime, nStakeMinAge,
    Limit,            \* blocks announced for one getblocks: 500
    Retry,            \* two minutes, in ticks
    BlockEstimate,    \* GetTotalBlocksEstimate
    StartWindow, RelayWindow   \* 144 and 2000

(* Each node's first blocks, the blocks that reach a node from elsewhere,   *)
(* the pairs <<n, p>> of which n dials p, the nodes that announce blocks   *)
(* and do not send them, and how often a connection or a node is lost.     *)
World == [origin  : [Node -> SUBSET Block], arriving : SUBSET (Node \X Block),
          dials   : SUBSET (Node \X Node),  silent   : SUBSET Node,
          faults  : Nat]

ASSUME DownloadAssumption ==
    /\ Worlds \subseteq World
    /\ \A w \in Worlds, n \in Node :
          /\ Genesis \in w.origin[n] /\ DownClosed(w.origin[n])
          /\ \E b \in w.origin[n] : \A c \in w.origin[n] : nChainTrust[c] <= nChainTrust[b]
          /\ <<n, n>> \notin w.dials    \* nLocalHostNonce: a node hangs up on itself
    /\ ProofOfStake \subseteq Block \ {Genesis}
    /\ nTime \in [Block -> Int] /\ nStakeMinAge \in Nat
    /\ {Limit, Retry} \subseteq Nat \ {0}
    /\ {BlockEstimate, StartWindow, RelayWindow} \subseteq Nat

VARIABLES
    mapBlockIndex, mapOrphanBlocks, pindexBest,   \* of each node
    mapAlreadyAskedFor,  \* when each node's last request of a block is, or was, due
    nAskedForBlocks,     \* whether it has asked its first peer for blocks
    cnode,               \* cnode[n][p]: n's CNode for its peer p
    world                \* world.faults counts down

chain == <<mapBlockIndex, mapOrphanBlocks, pindexBest>>
vars  == <<chain, mapAlreadyAskedFor, nAskedForBlocks, cnode, world>>

\* A request waiting in mapAskFor, and what a node keeps for a peer.
Request == [due : Nat, inv : Block]
MsgVersion(h)      == [type |-> "version", height |-> h]
MsgInv(s)          == [type |-> "inv", v |-> s]
MsgGetData(s)      == [type |-> "getdata", v |-> s]
MsgGetBlocks(b, e) == [type |-> "getblocks", begin |-> b, stop |-> e]
MsgBlock(b)        == [type |-> "block", block |-> b]

NoCNode == [vRecv |-> <<"closed">>]
NewCNode(inbound) ==
    [fInbound |-> inbound, nStartingHeight |-> -1, vRecv |-> <<>>,
     setInventoryKnown |-> {}, vInventoryToSend |-> <<>>, mapAskFor |-> <<>>,
     lastBegin |-> NoBlock, lastEnd |-> NoBlock, hashContinue |-> NoBlock]

Connected(n, p) == cnode[n][p] # NoCNode
vNodes(n) == {p \in Node : Connected(n, p)}

\* The heaviest block of a set; the blocks of an instance differ in trust.
Heaviest(S) == CHOOSE b \in S : \A c \in S : nChainTrust[c] <= nChainTrust[b]

Init ==
    /\ world \in Worlds
    /\ mapBlockIndex = world.origin
    /\ mapOrphanBlocks = [n \in Node |-> {}]
    /\ pindexBest = [n \in Node |-> Heaviest(world.origin[n])]
    /\ mapAlreadyAskedFor = [n \in Node |-> [b \in Block |-> -Retry]]
    /\ nAskedForBlocks = [n \in Node |-> FALSE]
    /\ cnode = [n \in Node |-> [p \in Node |-> NoCNode]]

AlreadyHave(n, b) == b \in mapBlockIndex[n] \cup mapOrphanBlocks[n]

-----------------------------------------------------------------------------
(* What a handler does to its CNode, to mapAlreadyAskedFor and to the       *)
(* peer, as a value that its calls pass on.                                *)
Begin(n, p) ==
    [node |-> cnode[n][p], asked |-> mapAlreadyAskedFor[n], out |-> <<>>]

Push(s, msg) == [s EXCEPT !.out = Append(@, msg)]

AddInventoryKnown(s, b) == [s EXCEPT !.node.setInventoryKnown = @ \cup {b}]

\* Fault: what is queued counts as known, and SendMessages then leaves it out.
PushInventoryAsKnown(node, b) ==
    IF b \in node.setInventoryKnown THEN node
    ELSE [node EXCEPT !.vInventoryToSend = Append(@, b),
                      !.setInventoryKnown = @ \cup {b}]

\* A block queued twice is sent once (SendMessages), so it is queued once.
PushInventoryTo(node, b) ==
    IF b \in node.setInventoryKnown \cup ToSet(node.vInventoryToSend) THEN node
    ELSE [node EXCEPT !.vInventoryToSend = Append(@, b)]

PushInventory(s, b) == [s EXCEPT !.node = PushInventoryTo(@, b)]

PushInTurn(node, blocks) ==
    LET after[i \in 0..Len(blocks)] ==
            IF i = 0 THEN node ELSE PushInventoryTo(after[i - 1], blocks[i])
    IN after[Len(blocks)]

\* Fault: a block that another peer was asked for is not asked for again.
AskForOnce(s, b) ==
    IF s.asked[b] > -Retry THEN s
    ELSE [s EXCEPT !.asked[b] = 0,
                   !.node.mapAskFor = Append(@, [due |-> 0, inv |-> b])]

\* Those elements of s that are in S, in their order.
Among(s, S) ==
    LET select(t, x) == IF x \in S THEN Append(t, x) ELSE t
        after[i \in 0..Len(s)] == IF i = 0 THEN <<>> ELSE select(after[i - 1], s[i])
    IN after[Len(s)]

\* mapAskFor is a queue by due time, and first come first served within it.
AskFor(s, b) ==
    LET due == IF s.asked[b] + Retry > 0 THEN s.asked[b] + Retry ELSE 0
        later == {r \in ToSet(s.node.mapAskFor) : r.due > due}
    IN [s EXCEPT !.asked[b] = due,
                 !.node.mapAskFor = Among(@, ToSet(@) \ later)
                        \o <<[due |-> due, inv |-> b]>> \o Among(@, later)]

\* "Filter out duplicate requests"
PushGetBlocks(s, begin, end) ==
    IF begin = s.node.lastBegin /\ end = s.node.lastEnd THEN s
    ELSE Push([s EXCEPT !.node.lastBegin = begin, !.node.lastEnd = end],
              MsgGetBlocks(begin, end))

\* The first block of b's orphan chain, and the block that chain waits for.
WantedByOrphan(orphans, b) == Heaviest(Branch[b] \ orphans)
GetOrphanRoot(orphans, b) ==
    CHOOSE r \in Branch[b] : pprev[r] = WantedByOrphan(orphans, b)

\* s takes effect: n's CNode is replaced, and what it sent is on its way to p.
Commit(n, p, result) ==
    \E s \in {result} :
        /\ cnode' = [cnode EXCEPT ![n][p] = s.node, ![p][n].vRecv = @ \o s.out]
        /\ mapAlreadyAskedFor' = [mapAlreadyAskedFor EXCEPT ![n] = s.asked]

-----------------------------------------------------------------------------
(* AcceptBlock of blocks in turn: each may become the best, and is then     *)
(* announced to every peer, lest it is old news for a peer so far ahead.   *)
AcceptInTurn(best, order) ==
    LET one(r, b) == IF nChainTrust[b] > nChainTrust[r.best]
                     THEN [best |-> b, relayed |-> Append(r.relayed, b)] ELSE r
        after[i \in 0..Len(order)] ==
            IF i = 0 THEN [best |-> best, relayed |-> <<>>]
            ELSE one(after[i - 1], order[i])
    IN after[Len(order)]

RelayTo(node, blocks) ==
    LET height == IF node.nStartingHeight # -1
                  THEN node.nStartingHeight - RelayWindow ELSE BlockEstimate
    IN PushInTurn(node, Among(blocks, {b \in Block : nHeight[b] > height}))

\* ProcessBlock's order: b, then the orphans it sets free, breadth first.
Orders(n, b) ==
    LET freed == {o \in mapOrphanBlocks[n] :
                    /\ b \in Branch[o]
                    /\ Branch[o] \ Branch[b] \subseteq mapOrphanBlocks[n]}
    IN {<<b>> \o s : s \in {t \in SetToSeqs(freed) :
            \A i, j \in 1..Len(t) : i < j => nHeight[t[i]] <= nHeight[t[j]]}}

\* The block's parent is known: index', orphans', best and the relayed blocks.
Accept(n, order, r) ==
    /\ r = AcceptInTurn(pindexBest[n], order)
    /\ mapBlockIndex' = [mapBlockIndex EXCEPT ![n] = @ \cup ToSet(order)]
    /\ mapOrphanBlocks' = [mapOrphanBlocks EXCEPT ![n] = @ \ ToSet(order)]
    /\ pindexBest' = [pindexBest EXCEPT ![n] = r.best]

-----------------------------------------------------------------------------
(* ProcessMessage, by command: the message m has left the queue in s.       *)
HandleVersion(n, p, m, s) ==
    LET heard == [s EXCEPT !.node.nStartingHeight = m.height]
        shy == IF s.node.fInbound
               THEN Push(heard, MsgVersion(nHeight[pindexBest[n]])) ELSE heard
        asks == /\ m.height > nHeight[pindexBest[n]] - StartWindow
                /\ ~nAskedForBlocks[n] \/ vNodes(n) = {p}
    IN /\ m.type = "version" /\ s.node.nStartingHeight = -1
       /\ nAskedForBlocks' = [nAskedForBlocks EXCEPT ![n] = @ \/ asks]
       /\ Commit(n, p, IF asks THEN PushGetBlocks(shy, pindexBest[n], NoBlock)
                               ELSE shy)
       /\ UNCHANGED chain

HandleInv(n, p, m, s) ==
    LET orphans == mapOrphanBlocks[n]
        one(t, i) ==
            LET b == m.v[i]
                k == AddInventoryKnown(t, b)
            IN IF ~AlreadyHave(n, b) THEN AskFor(k, b)
               ELSE IF b \in orphans
                    THEN PushGetBlocks(k, pindexBest[n], GetOrphanRoot(orphans, b))
               ELSE IF i = Len(m.v) THEN PushGetBlocks(k, b, NoBlock)
               ELSE k
        after[i \in 0..Len(m.v)] == IF i = 0 THEN s ELSE one(after[i - 1], i)
    IN /\ m.type = "inv"
       /\ Commit(n, p, after[Len(m.v)])
       /\ UNCHANGED <<chain, nAskedForBlocks>>

\* GetLastBlockIndex(pindexBest, false)
LastProofOfWork(b) == Heaviest(Branch[b] \ ProofOfStake)

\* "Trigger them to send a getblocks request for the next batch of inventory"
HandleGetData(n, p, m, s) ==
    LET one(t, b) ==
            IF b \notin mapBlockIndex[n] \/ n \in world.silent THEN t
            ELSE IF b # t.node.hashContinue THEN Push(t, MsgBlock(b))
            ELSE [Push(Push(t, MsgBlock(b)),
                       MsgInv(<<LastProofOfWork(pindexBest[n])>>))
                    EXCEPT !.node.hashContinue = NoBlock]
        after[i \in 0..Len(m.v)] == IF i = 0 THEN s ELSE one(after[i - 1], m.v[i])
    IN /\ m.type = "getdata"
       /\ Commit(n, p, after[Len(m.v)])
       /\ UNCHANGED <<chain, nAskedForBlocks>>

\* Fault: the end of the batch is not remembered.
ForgetBatch(s, b) == s

\* The last block of a batch, whose request brings the next one.
EndBatchWith(s, b) == [s EXCEPT !.node.hashContinue = b]

\* The blocks of the main chain above b, upwards.
MainChainAbove(n, b) ==
    [i \in 1..(nHeight[pindexBest[n]] - nHeight[b]) |->
        TraceBack(pindexBest[n], nHeight[b] + i)]

HandleGetBlocks(n, p, m, s) ==
    LET best == pindexBest[n]
        ahead == MainChainAbove(n, ForkPoint(m.begin, best))
        stops == {i \in 1..Len(ahead) : i <= Limit /\ ahead[i] = m.stop}
        count == IF stops # {} THEN (CHOOSE i \in stops : TRUE) - 1
                 ELSE IF Len(ahead) < Limit THEN Len(ahead) ELSE Limit
        announced == [s EXCEPT !.node = PushInTurn(@, SubSeq(ahead, 1, count))]
        young == nTime[m.stop] + nStakeMinAge > nTime[best]
    IN /\ m.type = "getblocks"
       /\ Commit(n, p,
            IF stops # {}
            THEN IF m.stop # best /\ young THEN PushInventory(announced, best)
                 ELSE announced
            ELSE IF count = Limit
                 THEN EndBatchWith(announced, ahead[Limit])
            ELSE announced)
       /\ UNCHANGED <<chain, nAskedForBlocks>>

\* "block": a known one is refused, one without its parent waits, any other enters.
HandleBlock(n, p, m, s) ==
    LET b == m.block
        k == AddInventoryKnown(s, b)
        found(t) == [t EXCEPT !.asked[b] = -Retry]
        orphans == mapOrphanBlocks[n] \cup {b}
        fills == PushGetBlocks(k, pindexBest[n], GetOrphanRoot(orphans, b))
    IN /\ m.type = "block"
       /\ UNCHANGED nAskedForBlocks
       /\ \/ AlreadyHave(n, b) /\ Commit(n, p, k) /\ UNCHANGED chain
          \/ /\ ~AlreadyHave(n, b) /\ pprev[b] \notin mapBlockIndex[n]
             /\ mapOrphanBlocks' = [mapOrphanBlocks EXCEPT ![n] = orphans]
             /\ \E fInitialDownload \in BOOLEAN :
                   Commit(n, p, found(IF fInitialDownload THEN fills
                                      ELSE AskFor(fills, WantedByOrphan(orphans, b))))
             /\ UNCHANGED <<mapBlockIndex, pindexBest>>
          \/ /\ ~AlreadyHave(n, b) /\ pprev[b] \in mapBlockIndex[n]
             /\ \E order \in Orders(n, b) : \E r \in {AcceptInTurn(pindexBest[n], order)} :
                   /\ Accept(n, order, r)
                   /\ cnode' = [cnode EXCEPT ![n] =
                        [q \in Node |->
                            IF q = p THEN RelayTo(k.node, r.relayed)
                            ELSE IF Connected(n, q) THEN RelayTo(@[q], r.relayed)
                            ELSE NoCNode]]
             /\ mapAlreadyAskedFor' =
                   [mapAlreadyAskedFor EXCEPT ![n] = found(k).asked]

ProcessMessage(n, p) ==
    /\ Connected(n, p) /\ cnode[n][p].vRecv # <<>>
    /\ \E m \in {Head(cnode[n][p].vRecv)},
          s \in {[Begin(n, p) EXCEPT !.node.vRecv = Tail(@)]} :
          \/ HandleVersion(n, p, m, s)
          \/ HandleInv(n, p, m, s)
          \/ HandleGetData(n, p, m, s)
          \/ HandleGetBlocks(n, p, m, s)
          \/ HandleBlock(n, p, m, s)
    /\ UNCHANGED world

-----------------------------------------------------------------------------
\* Fault: a peer that has no block yet counts as one that has not said who it is.
HeardOfBlocks(node) == node.nStartingHeight > 0

\* "Don't send anything until we get their version message."
Heard(node) == node.nStartingHeight # -1

(* SendMessages: what is queued for the peer and not known to it is         *)
(* announced, and the requests that are due are sent, lest they are filled.*)
SendMessages(n, p) ==
    /\ Connected(n, p) /\ Heard(cnode[n][p])
    /\ LET node == cnode[n][p]
           requests == ToSet(node.mapAskFor)
           fresh == Block \ node.setInventoryKnown
           waiting == {r \in requests : r.due > 0}
           wanted == {r \in requests : r.due = 0 /\ ~AlreadyHave(n, r.inv)}
       IN \E vInv \in {Among(node.vInventoryToSend, fresh)},
             sent \in {Among(node.mapAskFor, wanted)} :
          LET vGetData == [i \in 1..Len(sent) |-> sent[i].inv]
          IN Commit(n, p,
                [node |-> [node EXCEPT !.setInventoryKnown = @ \cup ToSet(vInv),
                                       !.vInventoryToSend = <<>>,
                                       !.mapAskFor = Among(@, waiting)],
                 asked |-> [b \in Block |-> IF b \in ToSet(vGetData) THEN 0
                                            ELSE mapAlreadyAskedFor[n][b]],
                 out |-> (IF vInv = <<>> THEN <<>> ELSE <<MsgInv(vInv)>>)
                         \o IF sent = <<>> THEN <<>> ELSE <<MsgGetData(vGetData)>>])
    /\ UNCHANGED <<chain, nAskedForBlocks, world>>

\* Time passes for every request; one Retry ago is long enough.
Tick ==
    LET sooner(r) == [r EXCEPT !.due = IF @ > 0 THEN @ - 1 ELSE 0]
        older(t) == IF t > -Retry THEN t - 1 ELSE t
    IN /\ mapAlreadyAskedFor' = [n \in Node |->
            [b \in Block |-> older(mapAlreadyAskedFor[n][b])]]
       /\ cnode' = [n \in Node |-> [p \in Node |->
            IF Connected(n, p)
            THEN [cnode[n][p] EXCEPT !.mapAskFor =
                    [i \in 1..Len(@) |-> sooner(@[i])]]
            ELSE NoCNode]]
       /\ <<mapAlreadyAskedFor, cnode>>' # <<mapAlreadyAskedFor, cnode>>
       /\ UNCHANGED <<chain, nAskedForBlocks, world>>

-----------------------------------------------------------------------------
\* n dials p and says who it is; the version of p comes when it has heard.
Connect(n, p) ==
    /\ <<n, p>> \in world.dials /\ ~Connected(n, p)
    /\ cnode' = [cnode EXCEPT
            ![n][p] = NewCNode(FALSE),
            ![p][n] = [NewCNode(TRUE) EXCEPT
                !.vRecv = <<MsgVersion(nHeight[pindexBest[n]])>>]]
    /\ UNCHANGED <<chain, mapAlreadyAskedFor, nAskedForBlocks, world>>

\* The connection is lost with all that is on its way.
Disconnect(n, p) ==
    /\ Connected(n, p) /\ world.faults > 0
    /\ world' = [world EXCEPT !.faults = @ - 1]
    /\ cnode' = [cnode EXCEPT ![n][p] = NoCNode, ![p][n] = NoCNode]
    /\ UNCHANGED <<chain, mapAlreadyAskedFor, nAskedForBlocks>>

\* Only the index survives (LoadBlockIndex).
Restart(n) ==
    /\ world.faults > 0
    /\ world' = [world EXCEPT !.faults = @ - 1]
    /\ mapOrphanBlocks' = [mapOrphanBlocks EXCEPT ![n] = {}]
    /\ mapAlreadyAskedFor' = [mapAlreadyAskedFor EXCEPT ![n] = [b \in Block |-> -Retry]]
    /\ nAskedForBlocks' = [nAskedForBlocks EXCEPT ![n] = FALSE]
    /\ cnode' = [m \in Node |-> [p \in Node |->
                    IF n \in {m, p} THEN NoCNode ELSE cnode[m][p]]]
    /\ UNCHANGED <<mapBlockIndex, pindexBest>>

\* A block of its own (CheckWork), or of a peer that is not in the model.
Arrive(n) ==
    \E b \in Block :
        /\ <<n, b>> \in world.arriving
        /\ pprev[b] \in mapBlockIndex[n] /\ ~AlreadyHave(n, b)
        /\ \E order \in Orders(n, b) : \E r \in {AcceptInTurn(pindexBest[n], order)} :
              /\ Accept(n, order, r)
              /\ cnode' = [cnode EXCEPT ![n] =
                    [q \in Node |-> IF Connected(n, q) THEN RelayTo(@[q], r.relayed)
                                    ELSE NoCNode]]
        /\ UNCHANGED <<mapAlreadyAskedFor, nAskedForBlocks, world>>

\* ThreadMessageHandler2 of n, at one of its peers.
MessageHandler(n) ==
    \E p \in Node : ProcessMessage(n, p) \/ SendMessages(n, p)

Next ==
    \/ \E n \in Node : MessageHandler(n) \/ Restart(n) \/ Arrive(n)
    \/ \E n, p \in Node : Connect(n, p) \/ Disconnect(n, p)
    \/ Tick

(* ThreadMessageHandler2 visits every peer over and over, and time passes.  *)
(* A node that wants a peer dials it again (ThreadOpenConnections2).       *)
Fairness ==
    /\ \A n \in Node : WF_vars(MessageHandler(n))
    /\ WF_vars(\E n, p \in Node : Connect(n, p))
    /\ WF_vars(Tick)

Spec == Init /\ [][Next]_vars
FairSpec == Spec /\ Fairness

-----------------------------------------------------------------------------
TypeOK ==
    /\ mapBlockIndex \in [Node -> SUBSET Block]
    /\ mapOrphanBlocks \in [Node -> SUBSET Block]
    /\ pindexBest \in [Node -> Block]
    /\ mapAlreadyAskedFor \in [Node -> [Block -> Int]]
    /\ nAskedForBlocks \in [Node -> BOOLEAN]
    /\ world \in World
    /\ \A n, p \in Node : Connected(n, p) =>
          /\ ToSet(cnode[n][p].mapAskFor) \subseteq Request
          /\ cnode[n][p].setInventoryKnown \subseteq Block
          /\ {cnode[n][p].lastBegin, cnode[n][p].lastEnd,
              cnode[n][p].hashContinue} \subseteq Block \cup {NoBlock}

(* What a node believes its peer knows, and will never announce to it      *)
(* again, the peer has or will have: the announcement, the request or the  *)
(* block is still on its way.  PushInventory's filter relies on it.  It is *)
(* stated with the types, since requests and inventories mix both.         *)
OnItsWay(n, p, b) ==
    \/ \E i \in DOMAIN cnode[p][n].vRecv :
          LET m == cnode[p][n].vRecv[i]
          IN \/ m.type = "inv" /\ b \in ToSet(m.v)
             \/ m.type = "block" /\ m.block = b
    \/ \E i \in DOMAIN cnode[p][n].mapAskFor : cnode[p][n].mapAskFor[i].inv = b
    \/ \E i \in DOMAIN cnode[n][p].vRecv :
          LET m == cnode[n][p].vRecv[i]
          IN m.type = "getdata" /\ b \in ToSet(m.v)

AnnouncedNotForgotten ==
    /\ TypeOK
    /\ \A n \in Node \ world.silent, p \in Node : Connected(n, p) =>
          \A b \in cnode[n][p].setInventoryKnown :
              AlreadyHave(p, b) \/ OnItsWay(n, p, b)

(* Nothing is left to say: the exchange of inventories, getblocks and       *)
(* orphans that set each other off does not go on for ever.                *)
AtRest ==
    \A n, p \in Node : Connected(n, p) =>
        /\ cnode[n][p].vRecv = <<>> /\ cnode[n][p].mapAskFor = <<>>
        /\ cnode[n][p].vInventoryToSend = <<>>
ComesToRest == <>[]AtRest

(* Nodes that stay connected, and none of whose peers is silent, end with   *)
(* the same best chain.                                                    *)
Honest(n) == vNodes(n) \cap world.silent = {}
Converges ==
    <>[](\A n, p \in Node : Connected(n, p) /\ Honest(n) /\ Honest(p)
            => nChainTrust[pindexBest[n]] = nChainTrust[pindexBest[p]])

(* In the end a node has every block a peer has announced to it, whoever    *)
(* else announced it before and never sent it (AskFor), and not as an      *)
(* orphan: where batches stop, nothing is missing below.                   *)
AnnouncedArrives ==
    <>[](\A n \in Node \ world.silent, p \in Node : Connected(n, p) =>
            cnode[n][p].setInventoryKnown \subseteq mapBlockIndex[p])

(* "Trigger them to send a getblocks request for the next batch of         *)
(* inventory" (main.cpp): after the batch that ends in b another follows.  *)
(* The code does not keep to it: LastProofOfWork is a block the peer may   *)
(* have already, and its request is then one that PushGetBlocks filters    *)
(* out.  No run checks it.                                                 *)
NextBatchFollows ==
    \A n, p \in Node, b \in Block :
        (Connected(n, p) /\ cnode[n][p].hashContinue = b)
        ~> (\/ ~Connected(n, p)
            \/ \E c \in mapBlockIndex[p] \cap Branch[pindexBest[n]] :
                  nHeight[c] > nHeight[b])
=============================================================================
