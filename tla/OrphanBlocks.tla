----------------------------- MODULE OrphanBlocks -----------------------------
(***************************************************************************)
(* ProcessBlock (main.cpp): blocks that arrive before their parent wait in *)
(* mapOrphanBlocks, and the limit on blocks that reuse a proof of stake.   *)
(* The caller holds cs_main; the loop over the orphans a block sets free   *)
(* is unfolded into steps that nothing interleaves with.                   *)
(*                                                                         *)
(* What AcceptBlock says of a block is data here (ChainState models it):   *)
(* Rejected blocks never enter the index; Unconnectable ones enter it, but *)
(* AcceptBlock is false when SetBestChain is tried on them.  A block that  *)
(* fails the checks before line 2301 leaves no trace and is not received.  *)
(***************************************************************************)
EXTENDS BlockIndex, Sequences, FiniteSetsExt

CONSTANTS
    Stake, NoStake,  \* GetProofOfStake: the output staked and the time
    ProofOfStake,    \* that of each block, NoStake for a proof-of-work block
    Rejected,
    Unconnectable,
    Checkpoints      \* the blocks a synchronized checkpoint may name

ASSUME OrphanBlocksAssumption ==
    /\ NoStake \notin Stake
    /\ ProofOfStake \in [Block -> Stake \cup {NoStake}]
    /\ ProofOfStake[Genesis] = NoStake
    /\ Rejected \subseteq Block \ {Genesis}
    /\ Unconnectable \subseteq Block \ {Genesis}
    /\ Checkpoints \subseteq Block

VARIABLES
    mapBlockIndex,
    mapOrphanBlocks,
    mapOrphanBlocksByPrev,  \* the blocks it points to, each under its parent
    setStakeSeen, setStakeSeenOrphan,
    hashPendingCheckpoint,  \* NoBlock when there is none
    loop,                   \* the locals of the running ProcessBlock
    received                \* history: the blocks kept since the node started

vars == <<mapBlockIndex, mapOrphanBlocks, mapOrphanBlocksByPrev, setStakeSeen,
          setStakeSeenOrphan, hashPendingCheckpoint, loop, received>>

\* vWorkQueue from i on, and the orphans of its head visited and deleted.
Loop == [vWorkQueue : Seq(Block), visited : SUBSET Block]
Idle == [vWorkQueue |-> <<>>, visited |-> {}]

\* GetProofOfStake, as an element of the sets it is kept in.
StakeOf(b) == {ProofOfStake[b]} \ {NoStake}
StakesOf(S) == UNION {StakeOf(b) : b \in S}

\* mapOrphanBlocksByPrev from lower_bound(b) to upper_bound(b).
Waiting(b) == {c \in mapOrphanBlocksByPrev : pprev[c] = b}

-----------------------------------------------------------------------------
\* The parent that the first block of b's orphan chain asks for.
WantedByOrphan(b) ==
    CHOOSE a \in Branch[b] \ mapOrphanBlocks :
        \A c \in Branch[b] \ mapOrphanBlocks : nHeight[c] <= nHeight[a]

WantedByPendingSyncCheckpoint(b) ==
    \/ b = hashPendingCheckpoint
    \/ /\ hashPendingCheckpoint \in mapOrphanBlocks
       /\ b = WantedByOrphan(hashPendingCheckpoint)

\* "Duplicate stake allowed only when there is orphan child block."
StakeAllowed(b, seen) ==
    \/ StakeOf(b) \cap seen = {}
    \/ Waiting(b) # {}
    \/ WantedByPendingSyncCheckpoint(b)

\* The parent is indexed, and AcceptBlock puts b into the index.
Indexes(b) == pprev[b] \in mapBlockIndex /\ b \notin Rejected

(* What AcceptBlock may return for such a block: false when SetBestChain    *)
(* cannot connect it, which is tried only if it has the most trust.         *)
AcceptBlockResults(b) == IF b \in Unconnectable THEN {TRUE, FALSE} ELSE {TRUE}

(* AcceptPendingSyncCheckpoint: a pending checkpoint that has come is       *)
(* switched to, or dropped; if that fails it stays pending.                 *)
PendingAfter(index) ==
    IF hashPendingCheckpoint \in index
    THEN {NoBlock, hashPendingCheckpoint} ELSE {hashPendingCheckpoint}

-----------------------------------------------------------------------------
Init ==
    /\ mapBlockIndex = {Genesis}
    /\ mapOrphanBlocks = {} /\ mapOrphanBlocksByPrev = {}
    /\ setStakeSeen = {} /\ setStakeSeenOrphan = {}
    /\ hashPendingCheckpoint = NoBlock
    /\ loop = Idle
    /\ received = {Genesis}

\* AcceptBlock(b): the index, and what is returned.
AcceptBlock(b, result) ==
    \/ /\ Indexes(b)
       /\ result \in AcceptBlockResults(b)
       /\ mapBlockIndex' = mapBlockIndex \cup {b}
       /\ setStakeSeen' = setStakeSeen \cup StakeOf(b)
       /\ IF result
          THEN hashPendingCheckpoint' \in PendingAfter(mapBlockIndex')
          ELSE UNCHANGED hashPendingCheckpoint
    \/ /\ ~ Indexes(b)
       /\ result = FALSE
       /\ UNCHANGED <<mapBlockIndex, setStakeSeen, hashPendingCheckpoint>>

New(b) ==
    /\ loop = Idle
    /\ b \notin mapBlockIndex \cup mapOrphanBlocks
    /\ StakeAllowed(b, setStakeSeen)

\* ProcessBlock of a block whose parent is known.
ProcessBlock(b) ==
    /\ New(b)
    /\ pprev[b] \in mapBlockIndex
    /\ \E result \in BOOLEAN :
          /\ AcceptBlock(b, result)
          /\ loop' = IF result THEN [Idle EXCEPT !.vWorkQueue = <<b>>] ELSE Idle
    /\ received' = received \cup {b}
    /\ UNCHANGED <<mapOrphanBlocks, mapOrphanBlocksByPrev, setStakeSeenOrphan>>

\* ProcessBlock of a block whose parent is not: it is kept as an orphan.
ProcessOrphan(b) ==
    /\ New(b)
    /\ pprev[b] \notin mapBlockIndex
    /\ StakeAllowed(b, setStakeSeenOrphan)
    /\ mapOrphanBlocks' = mapOrphanBlocks \cup {b}
    /\ mapOrphanBlocksByPrev' = mapOrphanBlocksByPrev \cup {b}
    /\ setStakeSeenOrphan' = setStakeSeenOrphan \cup StakeOf(b)
    /\ received' = received \cup {b}
    /\ UNCHANGED <<mapBlockIndex, setStakeSeen, hashPendingCheckpoint, loop>>

\* Fault: an orphan that was accepted frees no others.
EnqueueNone(queue, b, result) == queue

\* Only a block that AcceptBlock is true of sets its orphans free.
Enqueue(queue, b, result) == IF result THEN Append(queue, b) ELSE queue

\* An orphan that is visited gives its stake back.
ReleaseStake(seen, b) == seen \ StakeOf(b)

\* mapOrphanBlocks.erase.
EraseOrphan(orphans, b) == orphans \ {b}

\* The next orphan of the current entry: accepted or not, it is erased.
VisitOrphan(b) ==
    /\ loop.vWorkQueue # <<>>
    /\ b \in Waiting(Head(loop.vWorkQueue)) \ loop.visited
    /\ \E result \in BOOLEAN :
          /\ AcceptBlock(b, result)
          /\ loop' = [vWorkQueue |-> Enqueue(loop.vWorkQueue, b, result),
                      visited |-> loop.visited \cup {b}]
    /\ mapOrphanBlocks' = EraseOrphan(mapOrphanBlocks, b)
    /\ setStakeSeenOrphan' = ReleaseStake(setStakeSeenOrphan, b)
    /\ UNCHANGED <<mapOrphanBlocksByPrev, received>>

\* Fault: the pointers to the deleted orphans stay.
KeepPointers(byPrev, b) == byPrev

\* mapOrphanBlocksByPrev.erase(hashPrev).
ErasePrev(byPrev, b) == {c \in byPrev : pprev[c] # b}

\* i++.
NextEntries(queue) == Tail(queue)

\* Every orphan of the current entry has been visited.
NextWork ==
    /\ loop.vWorkQueue # <<>>
    /\ Waiting(Head(loop.vWorkQueue)) \subseteq loop.visited
    /\ mapOrphanBlocksByPrev' =
          ErasePrev(mapOrphanBlocksByPrev, Head(loop.vWorkQueue))
    /\ loop' = [vWorkQueue |-> NextEntries(loop.vWorkQueue), visited |-> {}]
    /\ UNCHANGED <<mapBlockIndex, mapOrphanBlocks, setStakeSeen,
                   setStakeSeenOrphan, hashPendingCheckpoint, received>>

(* ProcessSyncCheckpoint: a checkpoint that has not come yet is pending; one *)
(* that has takes effect, and ends the wait, unless it fails.              *)
ProcessSyncCheckpoint(c) ==
    /\ loop = Idle
    /\ hashPendingCheckpoint' \in
          IF c \in mapBlockIndex THEN {NoBlock, hashPendingCheckpoint} ELSE {c}
    /\ UNCHANGED <<mapBlockIndex, mapOrphanBlocks, mapOrphanBlocksByPrev,
                   setStakeSeen, setStakeSeenOrphan, loop, received>>

\* LoadBlockIndex rebuilds setStakeSeen; the orphans are lost.
Restart ==
    /\ mapOrphanBlocks' = {} /\ mapOrphanBlocksByPrev' = {}
    /\ setStakeSeen' = StakesOf(mapBlockIndex) /\ setStakeSeenOrphan' = {}
    /\ hashPendingCheckpoint' = NoBlock
    /\ loop' = Idle
    /\ received' = mapBlockIndex
    /\ UNCHANGED mapBlockIndex

FreeOrphans == NextWork \/ \E b \in Block : VisitOrphan(b)

Next ==
    \/ \E b \in Block : ProcessBlock(b) \/ ProcessOrphan(b)
    \/ FreeOrphans
    \/ \E c \in Checkpoints : ProcessSyncCheckpoint(c)
    \/ Restart

(* The thread that holds cs_main keeps running until ProcessBlock returns.  *)
Spec == Init /\ [][Next]_vars

-----------------------------------------------------------------------------
(* Properties.                                                              *)

\* Every variable keeps its type.
TypeOK ==
    /\ mapBlockIndex \subseteq Block \ Rejected
    /\ {mapOrphanBlocks, mapOrphanBlocksByPrev, received} \subseteq SUBSET Block
    /\ {setStakeSeen, setStakeSeenOrphan} \subseteq SUBSET Stake
    /\ hashPendingCheckpoint \in Block \cup {NoBlock}
    /\ loop \in Loop

(* mapOrphanBlocksByPrev points to the orphans held and, within the loop,   *)
(* to those of the current entry already deleted, which it does not visit   *)
(* again: no pointer is followed after its block is gone.                   *)
PointersLive ==
    /\ mapOrphanBlocksByPrev = mapOrphanBlocks \cup loop.visited
    /\ mapOrphanBlocks \cap loop.visited = {}

(* No block is both indexed and an orphan, and the index is closed under    *)
(* parents: AddToBlockIndex always finds pprev.                             *)
IndexIsTree ==
    /\ mapBlockIndex \cap mapOrphanBlocks = {}
    /\ \A b \in mapBlockIndex \ {Genesis} : pprev[b] \in mapBlockIndex

(* Whatever the order of arrival: once ProcessBlock has returned, a block   *)
(* that was kept is indexed if all its ancestors have been kept too, none   *)
(* being rejected or impossible to connect.                                 *)
ArrivalOrderIrrelevant ==
    loop = Idle =>
        \A b \in received :
            Branch[b] \subseteq received \ (Rejected \cup Unconnectable)
                => b \in mapBlockIndex

(* A stake counts as taken by an orphan only while some orphan uses it, and *)
(* by the index exactly for the blocks in it: no honest block is turned     *)
(* away for a duplicate that is gone, and a restart forgets no stake.       *)
StakesInUse ==
    /\ setStakeSeenOrphan \subseteq StakesOf(mapOrphanBlocks)
    /\ setStakeSeen = StakesOf(mapBlockIndex)

(* The orphan maps, the index and the two sets of stakes agree at every     *)
(* step of ProcessBlock's loop over orphans.                               *)
OrphansConsistent ==
    TypeOK /\ PointersLive /\ IndexIsTree /\ StakesInUse

(* "Duplicate stake allowed only when there is orphan child block"          *)
(* (main.cpp:2253): of two indexed blocks with one stake, one has a child.   *)
(* The code does not keep to it, and no run checks it.                      *)
DuplicateStakeHasChild ==
    \A b, c \in mapBlockIndex :
        b # c /\ StakeOf(b) \cap StakeOf(c) # {} =>
            \E d \in received : pprev[d] \in {b, c}
=============================================================================
