-------------------------- MODULE OrphanBlocksProofs --------------------------
(***************************************************************************)
(* ProcessBlock's maps of orphans agree at every step of its loop, and the *)
(* order in which blocks arrive does not matter: proved for every tree of  *)
(* blocks, every assignment of stakes and every verdict of AcceptBlock.    *)
(***************************************************************************)
EXTENDS OrphanBlocks, BranchTheorems

Queued == {loop.vWorkQueue[i] : i \in DOMAIN loop.vWorkQueue}

(* The loop's locals: what it works on is indexed, what it has visited      *)
(* waited for the head of the queue.                                       *)
LoopInv ==
    /\ Genesis \in mapBlockIndex
    /\ Queued \subseteq mapBlockIndex
    /\ loop.vWorkQueue = <<>> => loop.visited = {}
    /\ \A b \in loop.visited : pprev[b] = Head(loop.vWorkQueue)

(* Where a block that was kept is, and why an orphan is still one although  *)
(* its parent is indexed: the loop will come to it, or AcceptBlock was     *)
(* false of the parent.                                                    *)
ArrivalInv ==
    /\ received \subseteq mapBlockIndex \cup mapOrphanBlocks \cup Rejected
    /\ \A b \in mapOrphanBlocks :
          pprev[b] \in mapBlockIndex => pprev[b] \in Queued \cup Unconnectable

OrphanInv == OrphansConsistent /\ LoopInv /\ ArrivalInv

-----------------------------------------------------------------------------
\* The stakes of the blocks of a set, and of one block more.
LEMMA StakesOfTypes ==
    ASSUME NEW S \in SUBSET Block
    PROVE  StakesOf(S) \in SUBSET Stake
BY OrphanBlocksAssumption DEF StakesOf, StakeOf

\* The stakes of one orphan more.
LEMMA StakesOfAdd ==
    ASSUME NEW S, NEW b
    PROVE  StakesOf(S \cup {b}) = StakesOf(S) \cup StakeOf(b)
BY DEF StakesOf

(* Releasing the stake of one orphan leaves stakes that other orphans use.  *)
LEMMA StakesOfRelease ==
    ASSUME NEW S, NEW b, NEW seen, seen \subseteq StakesOf(S)
    PROVE  seen \ StakeOf(b) \subseteq StakesOf(S \ {b})
BY DEF StakesOf

(* AcceptBlock keeps the index a tree and setStakeSeen in step with it.  If *)
(* it is false of a block whose parent is indexed, then the block was      *)
(* rejected, or could not be connected.                                    *)
LEMMA AcceptBlockStep ==
    ASSUME TypeOK, IndexIsTree, StakesInUse,
           NEW b \in Block, NEW result \in BOOLEAN,
           AcceptBlock(b, result)
    PROVE  /\ mapBlockIndex' \subseteq Block \ Rejected
           /\ mapBlockIndex \subseteq mapBlockIndex'
           /\ mapBlockIndex' \subseteq mapBlockIndex \cup {b}
           /\ \A c \in mapBlockIndex' \ {Genesis} : pprev[c] \in mapBlockIndex'
           /\ setStakeSeen' = StakesOf(mapBlockIndex')
           /\ setStakeSeen' \in SUBSET Stake
           /\ hashPendingCheckpoint' \in Block \cup {NoBlock}
           /\ result => b \in mapBlockIndex'
           /\ b \in mapBlockIndex' \ mapBlockIndex /\ ~ result
                => b \in Unconnectable
           /\ pprev[b] \in mapBlockIndex => b \in mapBlockIndex' \cup Rejected
<1>1. CASE Indexes(b) /\ result \in AcceptBlockResults(b)
             /\ mapBlockIndex' = mapBlockIndex \cup {b}
             /\ setStakeSeen' = setStakeSeen \cup StakeOf(b)
             /\ IF result
                THEN hashPendingCheckpoint' \in PendingAfter(mapBlockIndex')
                ELSE UNCHANGED hashPendingCheckpoint
  <2>1. mapBlockIndex' \in SUBSET (Block \ Rejected)
    BY <1>1 DEF TypeOK, Indexes
  <2>2. setStakeSeen' = StakesOf(mapBlockIndex')
    BY <1>1, StakesOfAdd DEF StakesInUse
  <2>3. setStakeSeen' \in SUBSET Stake
    BY <2>1, <2>2, StakesOfTypes
  <2>4. hashPendingCheckpoint' \in Block \cup {NoBlock}
    BY <1>1 DEF TypeOK, PendingAfter
  <2>5. \A c \in mapBlockIndex' \ {Genesis} : pprev[c] \in mapBlockIndex'
    BY <1>1 DEF IndexIsTree, Indexes
  <2>6. ~ result => b \in Unconnectable
    BY <1>1 DEF AcceptBlockResults
  <2>7. QED
    BY <1>1, <2>1, <2>2, <2>3, <2>4, <2>5, <2>6
<1>2. CASE ~ Indexes(b) /\ result = FALSE
             /\ UNCHANGED <<mapBlockIndex, setStakeSeen, hashPendingCheckpoint>>
  BY <1>2 DEF TypeOK, IndexIsTree, StakesInUse, Indexes
<1>3. QED
  BY <1>1, <1>2 DEF AcceptBlock

-----------------------------------------------------------------------------
\* Only the genesis block is known.
LEMMA OrphanInit == Init => OrphanInv
<1> SUFFICES ASSUME Init PROVE OrphanInv
  OBVIOUS
<1>1. loop \in Loop /\ Queued = {}
  BY DEF Init, Loop, Idle, Queued
<1>2. TypeOK
  BY <1>1, TreeAssumption, OrphanBlocksAssumption DEF Init, TypeOK
<1>3. StakesOf({Genesis}) = {}
  BY OrphanBlocksAssumption DEF StakesOf, StakeOf
<1>4. PointersLive /\ IndexIsTree /\ StakesInUse
  BY <1>3 DEF Init, Idle, PointersLive, IndexIsTree, StakesInUse
<1>5. LoopInv /\ ArrivalInv
  BY <1>1 DEF Init, Idle, LoopInv, ArrivalInv
<1>6. QED
  BY <1>2, <1>4, <1>5 DEF OrphanInv, OrphansConsistent

\* A block whose parent is known.
LEMMA ProcessBlockStep ==
    ASSUME OrphanInv, NEW b \in Block, ProcessBlock(b)
    PROVE  OrphanInv'
<1> USE DEF OrphanInv, OrphansConsistent
<1>1. PICK result \in BOOLEAN :
        /\ AcceptBlock(b, result)
        /\ loop' = IF result THEN [Idle EXCEPT !.vWorkQueue = <<b>>] ELSE Idle
  BY DEF ProcessBlock
<1>2. /\ loop = Idle
      /\ b \notin mapBlockIndex \cup mapOrphanBlocks
      /\ pprev[b] \in mapBlockIndex
      /\ received' = received \cup {b}
      /\ UNCHANGED <<mapOrphanBlocks, mapOrphanBlocksByPrev, setStakeSeenOrphan>>
  BY DEF ProcessBlock, New
<1>3. /\ mapBlockIndex' \subseteq Block \ Rejected
      /\ mapBlockIndex \subseteq mapBlockIndex'
      /\ mapBlockIndex' \subseteq mapBlockIndex \cup {b}
      /\ \A c \in mapBlockIndex' \ {Genesis} : pprev[c] \in mapBlockIndex'
      /\ setStakeSeen' = StakesOf(mapBlockIndex')
      /\ setStakeSeen' \in SUBSET Stake
      /\ hashPendingCheckpoint' \in Block \cup {NoBlock}
      /\ result => b \in mapBlockIndex'
      /\ b \in mapBlockIndex' /\ ~ result => b \in Unconnectable
      /\ b \in mapBlockIndex' \cup Rejected
  BY <1>1, <1>2, AcceptBlockStep
<1>4. loop' \in Loop /\ loop'.visited = {} /\ Queued' = IF result THEN {b} ELSE {}
  <2>1. CASE result
    <3>1. loop' = [vWorkQueue |-> <<b>>, visited |-> {}]
      BY <1>1, <2>1 DEF Idle
    <3>2. <<b>> \in Seq(Block) /\ {<<b>>[i] : i \in DOMAIN <<b>>} = {b}
      OBVIOUS
    <3>3. QED
      BY <2>1, <3>1, <3>2 DEF Loop, Queued
  <2>2. CASE ~ result
    BY <1>1, <2>2 DEF Idle, Loop, Queued
  <2>3. QED
    BY <2>1, <2>2
<1>5. TypeOK'
  BY <1>2, <1>3, <1>4 DEF TypeOK
<1>6. PointersLive'
  BY <1>2, <1>4 DEF PointersLive, Idle
<1>7. IndexIsTree'
  BY <1>2, <1>3 DEF IndexIsTree
<1>8. StakesInUse'
  BY <1>2, <1>3 DEF StakesInUse
<1>9. LoopInv'
  BY <1>3, <1>4 DEF LoopInv
<1>10. ArrivalInv'
  <2>1. received' \subseteq mapBlockIndex' \cup mapOrphanBlocks' \cup Rejected
    BY <1>2, <1>3 DEF ArrivalInv
  <2>2. \A c \in mapOrphanBlocks' :
          pprev[c] \in mapBlockIndex' => pprev[c] \in Queued' \cup Unconnectable
    BY <1>2, <1>3, <1>4 DEF ArrivalInv, Queued, Idle
  <2>3. QED
    BY <2>1, <2>2 DEF ArrivalInv
<1>11. QED
  BY <1>5, <1>6, <1>7, <1>8, <1>9, <1>10

\* A block whose parent is not known waits for it.
LEMMA ProcessOrphanStep ==
    ASSUME OrphanInv, NEW b \in Block, ProcessOrphan(b)
    PROVE  OrphanInv'
<1> USE DEF OrphanInv, OrphansConsistent
<1>1. /\ loop = Idle
      /\ b \notin mapBlockIndex \cup mapOrphanBlocks
      /\ pprev[b] \notin mapBlockIndex
      /\ mapOrphanBlocks' = mapOrphanBlocks \cup {b}
      /\ mapOrphanBlocksByPrev' = mapOrphanBlocksByPrev \cup {b}
      /\ setStakeSeenOrphan' = setStakeSeenOrphan \cup StakeOf(b)
      /\ received' = received \cup {b}
      /\ UNCHANGED <<mapBlockIndex, setStakeSeen, hashPendingCheckpoint, loop>>
  BY DEF ProcessOrphan, New
<1>2. StakeOf(b) \subseteq Stake
  BY OrphanBlocksAssumption DEF StakeOf
<1>3. TypeOK'
  BY <1>1, <1>2 DEF TypeOK
<1>4. PointersLive' /\ IndexIsTree'
  BY <1>1 DEF PointersLive, IndexIsTree, Idle
<1>5. StakesInUse'
  BY <1>1, StakesOfAdd DEF StakesInUse
<1>6. LoopInv' /\ ArrivalInv'
  BY <1>1 DEF LoopInv, ArrivalInv, Queued
<1>7. QED
  BY <1>3, <1>4, <1>5, <1>6

\* The queue as a set: its head and the rest, and one entry more.
LEMMA QueueSplits ==
    ASSUME NEW q \in Seq(Block), q # <<>>
    PROVE  /\ Head(q) \in Block /\ Tail(q) \in Seq(Block)
           /\ {q[i] : i \in DOMAIN q}
                = {Head(q)} \cup {Tail(q)[i] : i \in DOMAIN Tail(q)}
<1>1. /\ Head(q) = q[1] /\ 1 \in DOMAIN q
      /\ \A i \in DOMAIN Tail(q) : i + 1 \in DOMAIN q /\ Tail(q)[i] = q[i + 1]
  OBVIOUS
<1>2. \A i \in DOMAIN q : i = 1 \/ (i - 1 \in DOMAIN Tail(q) /\ Tail(q)[i - 1] = q[i])
  OBVIOUS
<1>3. QED
  BY <1>1, <1>2

\* A block put at the end of ProcessBlock's work queue.
LEMMA QueueGrows ==
    ASSUME NEW q \in Seq(Block), NEW b \in Block
    PROVE  /\ Append(q, b) \in Seq(Block) /\ Append(q, b) # <<>>
           /\ {Append(q, b)[i] : i \in DOMAIN Append(q, b)}
                = {q[i] : i \in DOMAIN q} \cup {b}
           /\ q # <<>> => Head(Append(q, b)) = Head(q)
<1>1. /\ \A i \in DOMAIN q : i \in DOMAIN Append(q, b) /\ Append(q, b)[i] = q[i]
      /\ Len(q) + 1 \in DOMAIN Append(q, b) /\ Append(q, b)[Len(q) + 1] = b
      /\ \A i \in DOMAIN Append(q, b) : i \in DOMAIN q \/ i = Len(q) + 1
  OBVIOUS
<1>2. {Append(q, b)[i] : i \in DOMAIN Append(q, b)}
        = {q[i] : i \in DOMAIN q} \cup {b}
  BY <1>1
<1>3. QED
  BY <1>2, SMTT(30)

\* The loop visits an orphan: accepted or not, it is one no longer.
LEMMA VisitOrphanStep ==
    ASSUME OrphanInv, NEW b \in Block, VisitOrphan(b)
    PROVE  OrphanInv'
<1> USE DEF OrphanInv, OrphansConsistent
<1> DEFINE q == loop.vWorkQueue
<1>1. PICK result \in BOOLEAN :
        /\ AcceptBlock(b, result)
        /\ loop' = [vWorkQueue |-> Enqueue(q, b, result),
                    visited |-> loop.visited \cup {b}]
  BY DEF VisitOrphan
<1>2. /\ q # <<>>
      /\ b \in mapOrphanBlocksByPrev /\ b \notin loop.visited
      /\ pprev[b] = Head(q)
      /\ mapOrphanBlocks' = mapOrphanBlocks \ {b}
      /\ setStakeSeenOrphan' = setStakeSeenOrphan \ StakeOf(b)
      /\ UNCHANGED <<mapOrphanBlocksByPrev, received>>
  BY DEF VisitOrphan, Waiting, EraseOrphan, ReleaseStake
<1>3. q \in Seq(Block) /\ loop.visited \subseteq Block
  BY DEF TypeOK, Loop
<1>4. b \in mapOrphanBlocks /\ b \notin mapBlockIndex
  BY <1>2 DEF PointersLive, IndexIsTree
<1>5. pprev[b] \in mapBlockIndex
  BY <1>2, <1>3, QueueSplits DEF LoopInv, Queued
<1>6. /\ mapBlockIndex' \subseteq Block \ Rejected
      /\ mapBlockIndex \subseteq mapBlockIndex'
      /\ mapBlockIndex' \subseteq mapBlockIndex \cup {b}
      /\ \A c \in mapBlockIndex' \ {Genesis} : pprev[c] \in mapBlockIndex'
      /\ setStakeSeen' = StakesOf(mapBlockIndex')
      /\ setStakeSeen' \in SUBSET Stake
      /\ hashPendingCheckpoint' \in Block \cup {NoBlock}
      /\ result => b \in mapBlockIndex'
      /\ b \in mapBlockIndex' /\ ~ result => b \in Unconnectable
      /\ b \in mapBlockIndex' \cup Rejected
  BY <1>1, <1>4, <1>5, AcceptBlockStep
<1>7. /\ loop'.vWorkQueue \in Seq(Block) /\ loop'.vWorkQueue # <<>>
      /\ Head(loop'.vWorkQueue) = Head(q)
      /\ Queued' = Queued \cup (IF result THEN {b} ELSE {})
  <2> HIDE DEF q
  <2>1. CASE result
    <3>1. loop'.vWorkQueue = Append(q, b)
      BY <1>1, <2>1 DEF Enqueue
    <3>2. QED
      BY <1>2, <1>3, <2>1, <3>1, QueueGrows, SMTT(30) DEF Queued, q
  <2>2. CASE ~ result
    <3>1. loop'.vWorkQueue = q
      BY <1>1, <2>2 DEF Enqueue
    <3>2. QED
      BY <1>2, <1>3, <2>2, <3>1 DEF Queued, q
  <2>3. QED
    BY <2>1, <2>2
<1>8. TypeOK'
  <2>1. loop' \in Loop
    BY <1>1, <1>3, <1>7 DEF Loop
  <2>2. QED
    BY <1>2, <1>6, <2>1 DEF TypeOK
<1>9. PointersLive'
  BY <1>1, <1>2, <1>4 DEF PointersLive
<1>10. IndexIsTree'
  BY <1>2, <1>6 DEF IndexIsTree
<1>11. StakesInUse'
  BY <1>2, <1>6, StakesOfRelease DEF StakesInUse
<1>12. LoopInv'
  BY <1>1, <1>2, <1>6, <1>7 DEF LoopInv
<1>13. ArrivalInv'
  <2>1. received' \subseteq mapBlockIndex' \cup mapOrphanBlocks' \cup Rejected
    BY <1>2, <1>6 DEF ArrivalInv
  <2>2. \A c \in mapOrphanBlocks' :
          pprev[c] \in mapBlockIndex' => pprev[c] \in Queued' \cup Unconnectable
    BY <1>2, <1>6, <1>7 DEF ArrivalInv
  <2>3. QED
    BY <2>1, <2>2 DEF ArrivalInv
<1>14. QED
  BY <1>8, <1>9, <1>10, <1>11, <1>12, <1>13

\* All orphans of the head are visited: none of them is left behind.
LEMMA NextWorkStep ==
    ASSUME OrphanInv, NextWork
    PROVE  OrphanInv'
<1> USE DEF OrphanInv, OrphansConsistent
<1> DEFINE q == loop.vWorkQueue
<1>1. /\ q # <<>>
      /\ Waiting(Head(q)) \subseteq loop.visited
      /\ mapOrphanBlocksByPrev' = {c \in mapOrphanBlocksByPrev : pprev[c] # Head(q)}
      /\ loop' = [vWorkQueue |-> Tail(q), visited |-> {}]
      /\ UNCHANGED <<mapBlockIndex, mapOrphanBlocks, setStakeSeen,
                     setStakeSeenOrphan, hashPendingCheckpoint, received>>
  BY DEF NextWork, ErasePrev, NextEntries
<1>2. q \in Seq(Block)
  BY DEF TypeOK, Loop
<1>3. Tail(q) \in Seq(Block) /\ Queued = {Head(q)} \cup Queued'
  <2> HIDE DEF q
  <2>1. Queued' = {Tail(q)[i] : i \in DOMAIN Tail(q)}
    BY <1>1 DEF Queued
  <2>2. Queued = {q[i] : i \in DOMAIN q}
    BY DEF Queued, q
  <2>3. QED
    BY <1>1, <1>2, <2>1, <2>2, QueueSplits
<1>4. \A c \in mapOrphanBlocks : pprev[c] # Head(q)
  BY <1>1 DEF PointersLive, Waiting
<1>5. \A c \in loop.visited : pprev[c] = Head(q)
  BY DEF LoopInv
<1>6. TypeOK'
  BY <1>1, <1>3 DEF TypeOK, Loop
<1>7. PointersLive'
  BY <1>1, <1>4, <1>5 DEF PointersLive
<1>8. IndexIsTree' /\ StakesInUse'
  BY <1>1 DEF IndexIsTree, StakesInUse
<1>9. LoopInv'
  BY <1>1, <1>3 DEF LoopInv
<1>10. ArrivalInv'
  BY <1>1, <1>3, <1>4 DEF ArrivalInv
<1>11. QED
  BY <1>6, <1>7, <1>8, <1>9, <1>10

\* A checkpoint message changes neither the index nor the orphans.
LEMMA SyncCheckpointStep ==
    ASSUME OrphanInv, NEW c \in Checkpoints, ProcessSyncCheckpoint(c)
    PROVE  OrphanInv'
<1> USE DEF OrphanInv, OrphansConsistent
<1>1. /\ hashPendingCheckpoint' \in {NoBlock, hashPendingCheckpoint, c}
      /\ UNCHANGED <<mapBlockIndex, mapOrphanBlocks, mapOrphanBlocksByPrev,
                     setStakeSeen, setStakeSeenOrphan, loop, received>>
  BY DEF ProcessSyncCheckpoint
<1>2. TypeOK'
  BY <1>1, OrphanBlocksAssumption DEF TypeOK
<1>3. QED
  BY <1>1, <1>2
     DEF PointersLive, IndexIsTree, StakesInUse, LoopInv, ArrivalInv, Queued

\* The index survives, and setStakeSeen is built again from it.
LEMMA RestartStep ==
    ASSUME OrphanInv, Restart
    PROVE  OrphanInv'
<1> USE DEF OrphanInv, OrphansConsistent
<1>1. /\ mapOrphanBlocks' = {} /\ mapOrphanBlocksByPrev' = {}
      /\ setStakeSeen' = StakesOf(mapBlockIndex) /\ setStakeSeenOrphan' = {}
      /\ hashPendingCheckpoint' = NoBlock
      /\ loop' = Idle
      /\ received' = mapBlockIndex
      /\ UNCHANGED mapBlockIndex
  BY DEF Restart
<1>2. loop' \in Loop /\ Queued' = {} /\ loop'.visited = {}
  BY <1>1 DEF Loop, Idle, Queued
<1>3. TypeOK'
  BY <1>1, <1>2, StakesOfTypes DEF TypeOK
<1>4. PointersLive' /\ IndexIsTree' /\ StakesInUse'
  BY <1>1, <1>2 DEF PointersLive, IndexIsTree, StakesInUse
<1>5. LoopInv' /\ ArrivalInv'
  BY <1>1, <1>2 DEF LoopInv, ArrivalInv
<1>6. QED
  BY <1>3, <1>4, <1>5

\* Every step of the program.
LEMMA OrphanStep ==
    ASSUME OrphanInv, [Next]_vars
    PROVE  OrphanInv'
<1>1. CASE UNCHANGED vars
  BY <1>1 DEF vars, OrphanInv, OrphansConsistent, TypeOK, PointersLive,
              IndexIsTree, StakesInUse, LoopInv, ArrivalInv, Queued
<1>2. CASE \E b \in Block : ProcessBlock(b)
  BY <1>2, ProcessBlockStep
<1>3. CASE \E b \in Block : ProcessOrphan(b)
  BY <1>3, ProcessOrphanStep
<1>4. CASE \E b \in Block : VisitOrphan(b)
  BY <1>4, VisitOrphanStep
<1>5. CASE NextWork
  BY <1>5, NextWorkStep
<1>6. CASE \E c \in Checkpoints : ProcessSyncCheckpoint(c)
  BY <1>6, SyncCheckpointStep
<1>7. CASE Restart
  BY <1>7, RestartStep
<1>8. QED
  BY <1>1, <1>2, <1>3, <1>4, <1>5, <1>6, <1>7 DEF Next, FreeOrphans

(* Between the maps, the index, the two sets of stakes and the locals of    *)
(* the loop every step of ProcessBlock keeps the agreement stated above.   *)
THEOREM OrphanInvariant == Spec => []OrphanInv
<1>1. Init => OrphanInv
  BY OrphanInit
<1>2. OrphanInv /\ [Next]_vars => OrphanInv'
  BY OrphanStep
<1>3. QED
  BY <1>1, <1>2, PTL DEF Spec

(* No pointer to a deleted orphan is ever followed, AddToBlockIndex always  *)
(* finds its parent, and a stake counts as taken only while a block with   *)
(* it is held: in every run of ProcessBlock.                               *)
THEOREM OrphansAlwaysConsistent == Spec => []OrphansConsistent
<1>1. OrphanInv => OrphansConsistent
  BY DEF OrphanInv
<1>2. QED
  BY <1>1, OrphanInvariant, PTL

(* Of a branch that was kept whole, the lowest block not indexed would be   *)
(* an orphan whose parent is indexed and connectable: none is left when    *)
(* the loop has ended.                                                     *)
LEMMA KeptBranchIndexed ==
    ASSUME OrphanInv, loop = Idle, NEW b \in received,
           Branch[b] \subseteq received \ (Rejected \cup Unconnectable)
    PROVE  b \in mapBlockIndex
<1> USE DEF OrphanInv, OrphansConsistent
<1> DEFINE Missing == Branch[b] \ mapBlockIndex
<1>1. b \in Block
  BY DEF TypeOK
<1>2. SUFFICES ASSUME Missing # {} PROVE FALSE
  BY <1>1, BranchClosed
<1>3. Missing \in SUBSET Block
  BY <1>1, BranchClosed
<1>4. PICK a \in Missing : \A c \in Missing : nHeight[a] <= nHeight[c]
  BY <1>2, <1>3, LowestBlock
<1>5. a \in Block \ {Genesis}
  BY <1>3 DEF LoopInv
<1>6. pprev[a] \in Branch[b] /\ pprev[a] \in Block
  BY <1>1, <1>5, BranchClosed, TreeAssumption DEF DownClosed
<1>7. nHeight[a] = nHeight[pprev[a]] + 1 /\ nHeight[pprev[a]] \in Nat
  BY <1>5, <1>6, TreeAssumption
<1>8. pprev[a] \in mapBlockIndex
  BY <1>4, <1>6, <1>7
<1>9. a \in mapOrphanBlocks
  BY <1>4 DEF ArrivalInv
<1>10. Queued = {}
  BY DEF Queued, Idle
<1>11. QED
  BY <1>6, <1>8, <1>9, <1>10 DEF ArrivalInv

(* Blocks may come in any order: what counts in the end is which were kept. *)
THEOREM ArrivalOrderNeverMatters == Spec => []ArrivalOrderIrrelevant
<1>1. OrphanInv => ArrivalOrderIrrelevant
  BY KeptBranchIndexed DEF ArrivalOrderIrrelevant
<1>2. QED
  BY <1>1, OrphanInvariant, PTL
=============================================================================
