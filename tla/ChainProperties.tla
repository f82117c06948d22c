--------------------------- MODULE ChainProperties ---------------------------
(***************************************************************************)
(* What must be true of ChainState.  The invariants about the database are *)
(* conditioned on ~diverged: once a postponed connect has failed, memory   *)
(* names a best block the database never connected (see the README).       *)
(***************************************************************************)
EXTENDS ChainState

\* Every variable keeps its shape; batch is absent or a complete view.
TypeOK ==
    /\ db \in View
    /\ mapBlockIndex \subseteq Block /\ Genesis \in mapBlockIndex
    /\ hashSyncCheckpoint \in Block
    /\ batch \in View \cup {NoBatch}
    /\ pnext \in [Block -> Block \cup {NoBlock}]
    /\ pindexBest \in Block
    /\ hashPendingCheckpoint \in Block \cup {NoBlock}
    /\ hashInvalidCheckpoint \in Block \cup {NoBlock}
    /\ mempool \in Pool
    /\ job \in Job
    /\ diverged \in BOOLEAN
    /\ crashes \in 0..MaxCrash

-----------------------------------------------------------------------------
(* The next pointers trace the branch that ends in tip and nothing else:    *)
(* following them from genesis visits that branch, and ends there.         *)
Linked(next, tip) ==
    \A b, c \in Block : next[b] = c <=> pprev[c] = b /\ c \in Branch[tip]

(* The transaction index says what the branch that ends in tip says:        *)
(* exactly its transactions are indexed, where they are; exactly their     *)
(* inputs are spent, by them; and each input's transaction is indexed too, *)
(* earlier on the branch or in the block.                                  *)
Indexes(v, tip) ==
    /\ \A t \in Tx, b \in Block :
          v.pos[t] = b <=> b \in Branch[tip] \ {Genesis} /\ t \in TxSet(b)
    /\ \A o \in Outpoint, t \in Tx :
          v.spent[o] = t <=> Indexed(v, t) /\ o \in vin[t]
    /\ \A t \in Tx : Indexed(v, t) => \A o \in vin[t] :
          /\ Indexed(v, o[1]) /\ InRange(o)
          /\ \/ nHeight[v.pos[o[1]]] < nHeight[v.pos[t]]
             \/ v.pos[o[1]] = v.pos[t] /\ Before(v.pos[t], o[1], t)

(* The committed chain is one path ending in hashBestChain, through every   *)
(* reorganization, abort and crash.                                        *)
CommittedChainLinked == ~diverged => Linked(db.next, db.best)

(* No output is spent twice and none is lost: after any sequence of         *)
(* connects, disconnects, aborts and crashes the committed index agrees    *)
(* with the committed chain.                                               *)
SpentMatchesChain == ~diverged => Indexes(db, db.best)

(* Undoing a connected block cannot fail: the transactions its inputs came  *)
(* from are still indexed when DisconnectInputs asks for them.             *)
DisconnectNeverFails ==
    ~diverged /\ AtStage("disconnect") /\ job.tip # job.fork
        => DisconnectOK(batch, job.tip)

(* Between two calls, memory and database name the same best chain.         *)
MemoryMatchesDisk ==
    ~diverged /\ AtStage("idle")
        => pindexBest = db.best /\ pnext = db.next

(* "Make sure it's successfully written to disk before changing memory      *)
(* structure" (main.cpp:1738), with nothing excused.  The code does not     *)
(* keep to it (postponed connects), and no run checks it.                   *)
MemoryNeverAheadOfDisk ==
    AtStage("idle") => pindexBest = db.best /\ pnext = db.next

(* nMoneySupply of the best block, maintained block by block, is the sum of *)
(* the outputs nothing has spent.                                          *)
MoneySupplyIsUnspent ==
    ~diverged => db.supply[db.best] = SumFunction([o \in Unspent(db) |-> Value(o)])

-----------------------------------------------------------------------------
(* mapNextTx is the exact inverse of the inputs of mapTx, so no two pool    *)
(* transactions spend one output, through resurrection and eviction too.   *)
PoolLinked ==
    \A o \in Outpoint : \A t \in Tx :
        mempool.mapNextTx[o] = t <=> t \in mempool.mapTx /\ o \in vin[t]

(* A transaction is never both confirmed and waiting in the pool once the   *)
(* call that confirmed it is over.                                         *)
PoolDisjointFromChain ==
    ~diverged /\ AtStage("idle") => \A t \in mempool.mapTx : ~ Indexed(db, t)

(* "This should never happen; all transactions in the memory pool should    *)
(* connect to either transactions in the chain or other transactions in    *)
(* the memory pool" (miner.cpp).                                           *)
PoolConnects ==
    AtStage("idle") => \A t \in mempool.mapTx : HasInputs(mempool, db, t)

-----------------------------------------------------------------------------
(* The committed chain always runs through the last synchronized checkpoint,*)
(* and a branch leaves it nowhere below.                                   *)
SyncCheckpointInMainChain ==
    ~diverged => hashSyncCheckpoint \in Branch[db.best] \cap mapBlockIndex

(* "only descendant of current sync-checkpoint is allowed"                  *)
(* (checkpoints.cpp:92): a new checkpoint extends the old one.             *)
CheckpointOnlyAdvances ==
    [][hashSyncCheckpoint' # hashSyncCheckpoint =>
        hashSyncCheckpoint \in Branch[hashSyncCheckpoint']]_vars

(* A block never makes the node commit a lighter chain, not even halfway    *)
(* through a reorganization with postponed connects.                       *)
BlocksOnlyRaiseTrust ==
    [][db'.best # db.best /\ job.caller = "block" /\ ~diverged =>
        nChainTrust[db'.best] > nChainTrust[db.best]]_vars

-----------------------------------------------------------------------------
(* Replay of a branch: the abstract ledger, its coins and its soundness.    *)
ChainLedger == INSTANCE Ledger WITH
    tip <- db.best, utxo <- Unspent(db), pinned <- hashSyncCheckpoint

(* The database implements the ledger: every step moves it to the outputs   *)
(* of one sound branch (SetBestChain as a whole), or leaves it alone.  A    *)
(* postponed connect that fails is excused, as above.                      *)
ImplementsLedger ==
    /\ ChainLedger!LedgerInit
    /\ [][diverged' \/ ChainLedger!LedgerNext]_(ChainLedger!lvars)

-----------------------------------------------------------------------------
(* What the runs check of these, taken together where they stand on each    *)
(* other.                                                                  *)

(* One chain: the committed pointers are a path to the committed best       *)
(* block, memory shows the same path between calls, and the synchronized   *)
(* checkpoint is on it, through reorganizations, aborts and crashes.       *)
ChainConsistent ==
    TypeOK /\ CommittedChainLinked /\ MemoryMatchesDisk /\ SyncCheckpointInMainChain

(* The transaction index says what the committed chain says, and therefore  *)
(* lets every block of it be disconnected.                                 *)
IndexConsistent == SpentMatchesChain /\ DisconnectNeverFails

\* The pool's two maps agree, and what the chain confirms leaves them.
PoolConsistent == PoolLinked /\ PoolDisjointFromChain

\* Every SetBestChain, with its pool updates and checkpoint, comes to an end.
SetBestChainReturns == ~AtStage("idle") ~> AtStage("idle")
=============================================================================
