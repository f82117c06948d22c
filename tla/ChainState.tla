------------------------------ MODULE ChainState ------------------------------
(***************************************************************************)
(* How the node moves its best chain: AcceptBlock, SetBestChain with its   *)
(* reorganization in one database batch and its postponed connects, the    *)
(* synchronized checkpoints that force a branch, the memory pool that      *)
(* follows, and a crash between any two steps.                             *)
(*                                                                         *)
(* All of it runs under cs_main, so one SetBestChain at a time is under    *)
(* way; job holds its locals.  db, mapBlockIndex and hashSyncCheckpoint    *)
(* are on disk and survive a crash, the rest is memory.                    *)
(***************************************************************************)
EXTENDS MemPool

CONSTANTS
    MaxCrash,         \* bound on the number of crashes
    Checkpoints       \* the blocks the checkpoint master may announce

ASSUME BoundAssumption == MaxCrash \in Nat /\ Checkpoints \subseteq Block

VARIABLES
    db,               \* the committed database, a View
    mapBlockIndex,    \* the blocks accepted, in memory and on disk
    hashSyncCheckpoint,
    batch,            \* CTxDB::activeBatch: NoBatch, or db with the changes over it
    pnext,            \* CBlockIndex::pnext
    pindexBest,       \* with hashBestChain, nBestHeight and nBestChainTrust
    hashPendingCheckpoint,
    hashInvalidCheckpoint,
    mempool,
    job,              \* the SetBestChain under way, and who called it
    diverged,         \* history: a postponed connect has failed
    crashes           \* counter for the bound

disk   == <<db, mapBlockIndex, hashSyncCheckpoint>>
memory == <<batch, pnext, pindexBest, hashPendingCheckpoint,
            hashInvalidCheckpoint, mempool, job>>
vars   == <<disk, memory, diverged, crashes>>

NoBatch == [best |-> NoBlock]

-----------------------------------------------------------------------------
(* The job.  stage is where SetBestChain and its caller are; tip is the     *)
(* block the batch (or, in the postponed part, the database) has reached.  *)
Stage == {"idle", "setbest", "disconnect", "connect", "resurrect", "delete",
          "secondary", "newbest", "pending", "writecp"}

Caller == {"block", "checkpoint"}

Job == [stage : Stage, caller : Caller, target : Block, inter : Block,
        fork : Block, tip : Block, vResurrect : Seq(Tx), vDelete : Seq(Tx)]

Idle ==
    [stage |-> "idle", caller |-> "block", target |-> Genesis,
     inter |-> Genesis, fork |-> Genesis, tip |-> Genesis,
     vResurrect |-> <<>>, vDelete |-> <<>>]

AtStage(s) == job.stage = s

Start(b, caller) ==
    [Idle EXCEPT !.stage = "setbest", !.caller = caller, !.target = b]

Init ==
    /\ db = GenesisView
    /\ mapBlockIndex = {Genesis}
    /\ hashSyncCheckpoint = Genesis
    /\ batch = NoBatch
    /\ pnext = GenesisView.next
    /\ pindexBest = Genesis
    /\ hashPendingCheckpoint = NoBlock
    /\ hashInvalidCheckpoint = NoBlock
    /\ mempool = EmptyPool
    /\ job = Idle
    /\ diverged = FALSE
    /\ crashes = 0

IsInMainChain(b) == pnext[b] # NoBlock \/ b = pindexBest

-----------------------------------------------------------------------------
(* Accepting a block                                                        *)

CheckSync(b) ==
    IF nHeight[b] > nHeight[hashSyncCheckpoint]
    THEN TraceBack(pprev[b], nHeight[hashSyncCheckpoint]) = hashSyncCheckpoint
    ELSE b = hashSyncCheckpoint \/ (nHeight[b] < nHeight[hashSyncCheckpoint]
                                    /\ b \in mapBlockIndex)

\* Fault: the longest branch wins, not the heaviest.
IsHigher(b) == nHeight[b] > nHeight[pindexBest]

\* AddToBlockIndex, "New best".
IsNewBest(b) == nChainTrust[b] > nChainTrust[pindexBest]

(* ProcessBlock's CheckBlock, then AcceptBlock down to the commit of the    *)
(* block's index record in AddToBlockIndex; a heavier branch goes on to    *)
(* SetBestChain, any other straight to the pending checkpoint.             *)
AcceptBlock(b) ==
    /\ AtStage("idle")
    /\ CheckBlock(b)
    /\ b \notin mapBlockIndex
    /\ pprev[b] \in mapBlockIndex
    /\ b \in ContextOK
    /\ CheckSync(b)
    /\ CoinbaseHeightOK(b)
    /\ mapBlockIndex' = mapBlockIndex \cup {b}
    /\ job' = IF IsNewBest(b)
              THEN Start(b, "block")
              ELSE [Idle EXCEPT !.stage = "pending"]
    /\ UNCHANGED <<db, hashSyncCheckpoint, batch, pnext, pindexBest,
                   hashPendingCheckpoint, hashInvalidCheckpoint, mempool,
                   diverged, crashes>>

-----------------------------------------------------------------------------
(* SetBestChain                                                             *)

\* Fault: the failure is not passed on to the caller, the block is tried again.
FailsWithoutReturn ==
    UNCHANGED <<disk, batch, pnext, pindexBest, hashPendingCheckpoint,
                hashInvalidCheckpoint, mempool, job>>

(* SetBestChain returns false: the batch is dropped; a checkpoint that did  *)
(* not connect is noted, and stays pending if it was.                      *)
SetBestChainFails ==
    /\ batch' = NoBatch
    /\ job' = Idle
    /\ hashInvalidCheckpoint' = IF job.caller = "checkpoint" THEN job.target
                                ELSE hashInvalidCheckpoint
    /\ UNCHANGED <<disk, pnext, pindexBest, hashPendingCheckpoint, mempool>>

(* SetBestChainInner: one block connected on db in a batch of its own, its  *)
(* transactions dropped from the pool.                                     *)
SetBestChainInner(b) ==
    /\ ConnectOK(db, b, nHeight[pindexBest])
    /\ db' = [Connect(db, b, pnext) EXCEPT !.best = b]
    /\ pnext' = [pnext EXCEPT ![pprev[b]] = b]
    /\ mempool' = Remove(mempool, TxSet(b))

\* hashPrevBlock == hashBestChain
ExtendBestChain ==
    /\ AtStage("setbest")
    /\ pprev[job.target] = pindexBest
    /\ IF ConnectOK(db, job.target, nHeight[pindexBest])
       THEN /\ SetBestChainInner(job.target)
            /\ job' = [job EXCEPT !.stage = "newbest"]
            /\ UNCHANGED <<mapBlockIndex, hashSyncCheckpoint, batch, pindexBest,
                           hashPendingCheckpoint, hashInvalidCheckpoint>>
       ELSE SetBestChainFails
    /\ UNCHANGED <<diverged, crashes>>

\* Fault: the trust of the block itself is compared, not its parent's.
HeavierThanBest(b) ==
    {a \in Branch[b] : pprev[a] # NoBlock /\ nChainTrust[a] > nChainTrust[pindexBest]}

(* The blocks left for after the reorganization: those whose parent is      *)
(* already heavier than the best block.                                    *)
vpindexSecondary(b) ==
    {a \in Branch[b] : /\ pprev[a] # NoBlock
                       /\ nChainTrust[pprev[a]] > nChainTrust[pindexBest]}

pindexIntermediate(b) ==
    CHOOSE a \in Branch[b] \ vpindexSecondary(b) :
        \A c \in Branch[b] \ vpindexSecondary(b) : nHeight[c] <= nHeight[a]

BeginReorganize ==
    /\ AtStage("setbest")
    /\ pprev[job.target] # pindexBest
    /\ LET inter == pindexIntermediate(job.target)
       IN  job' = [job EXCEPT !.stage = "disconnect",
                              !.inter = inter,
                              !.fork = ForkPoint(pindexBest, inter),
                              !.tip = pindexBest]
    /\ batch' = db
    /\ UNCHANGED <<disk, pnext, pindexBest, hashPendingCheckpoint,
                   hashInvalidCheckpoint, mempool, diverged, crashes>>

\* Reorganize, "Disconnect shorter branch": one block of vDisconnect.
ReorganizeDisconnect ==
    /\ AtStage("disconnect")
    /\ job.tip # job.fork
    /\ IF DisconnectOK(batch, job.tip)
       THEN /\ batch' = Disconnect(batch, job.tip)
            /\ job' = [job EXCEPT !.tip = pprev[@],
                                  !.vResurrect = @ \o UserTxs(job.tip)]
            /\ UNCHANGED <<disk, pnext, pindexBest, hashPendingCheckpoint,
                           hashInvalidCheckpoint, mempool>>
       ELSE SetBestChainFails
    /\ UNCHANGED <<diverged, crashes>>

\* The child of job.tip on the branch that ends in b.
NextOn(b) == CHOOSE c \in Branch[b] : pprev[c] = job.tip

EndDisconnect ==
    /\ AtStage("disconnect")
    /\ job.tip = job.fork
    /\ job' = [job EXCEPT !.stage = "connect"]
    /\ UNCHANGED <<disk, batch, pnext, pindexBest, hashPendingCheckpoint,
                   hashInvalidCheckpoint, mempool, diverged, crashes>>

\* Reorganize, "Connect longer branch": one block of vConnect.
ReorganizeConnect ==
    /\ AtStage("connect")
    /\ job.tip # job.inter
    /\ LET c == NextOn(job.inter)
       IN  IF ConnectOK(batch, c, nHeight[pindexBest])
           THEN /\ batch' = Connect(batch, c, pnext)
                /\ job' = [job EXCEPT !.tip = c, !.vDelete = @ \o vtx[c]]
                /\ UNCHANGED <<disk, pnext, pindexBest, hashPendingCheckpoint,
                               hashInvalidCheckpoint, mempool>>
           ELSE SetBestChainFails
    /\ UNCHANGED <<diverged, crashes>>

\* Fault: the disconnected blocks keep their pnext.
LinkedButNotUnlinked ==
    LET vConnect == Branch[job.inter] \ Branch[job.fork]
    IN  [b \in Block |->
            IF \E c \in vConnect : pprev[c] = b
            THEN CHOOSE c \in vConnect : pprev[c] = b
            ELSE pnext[b]]

(* The in-memory chain after the commit: the parents of the disconnected    *)
(* blocks lose pnext, the parents of the connected ones gain it.           *)
Relinked ==
    LET vDisconnect == Branch[pindexBest] \ Branch[job.fork]
        vConnect    == Branch[job.inter] \ Branch[job.fork]
    IN  [b \in Block |->
            IF \E c \in vConnect : pprev[c] = b
            THEN CHOOSE c \in vConnect : pprev[c] = b
            ELSE IF \E d \in vDisconnect : pprev[d] = b
            THEN NoBlock
            ELSE pnext[b]]

ReorganizeCommit ==
    /\ AtStage("connect")
    /\ job.tip = job.inter
    /\ db' = [batch EXCEPT !.best = job.inter]
    /\ batch' = NoBatch
    /\ pnext' = Relinked
    /\ job' = [job EXCEPT !.stage = "resurrect"]
    /\ UNCHANGED <<mapBlockIndex, hashSyncCheckpoint, pindexBest,
                   hashPendingCheckpoint, hashInvalidCheckpoint, mempool,
                   diverged, crashes>>

\* tx.AcceptToMemoryPool(txdb, false) for the first of vResurrect.
ReorganizeResurrect ==
    /\ AtStage("resurrect")
    /\ IF job.vResurrect = <<>>
       THEN /\ job' = [job EXCEPT !.stage = "delete"]
            /\ UNCHANGED mempool
       ELSE /\ job' = [job EXCEPT !.vResurrect = Tail(@)]
            /\ mempool' = IF AcceptUncheckedOK(mempool, Head(job.vResurrect))
                          THEN addUnchecked(mempool, Head(job.vResurrect))
                          ELSE mempool
    /\ UNCHANGED <<disk, batch, pnext, pindexBest, hashPendingCheckpoint,
                   hashInvalidCheckpoint, diverged, crashes>>

\* Fault: only the conflicts are removed.
DeleteOnlyConflicts(pool, t) == removeConflicts(pool, t)

\* mempool.remove and mempool.removeConflicts for the first of vDelete.
DeleteFromPool(pool, t) == removeConflicts(Remove(pool, {t}), t)

ReorganizeDelete ==
    /\ AtStage("delete")
    /\ IF job.vDelete = <<>>
       THEN /\ job' = [job EXCEPT !.stage = "secondary"]
            /\ UNCHANGED mempool
       ELSE /\ job' = [job EXCEPT !.vDelete = Tail(@)]
            /\ mempool' = DeleteFromPool(mempool, Head(job.vDelete))
    /\ UNCHANGED <<disk, batch, pnext, pindexBest, hashPendingCheckpoint,
                   hashInvalidCheckpoint, diverged, crashes>>

(* "Connect further blocks": each in a batch of its own.  A failure ends    *)
(* the loop and is not reported.                                           *)
ConnectSecondary ==
    /\ AtStage("secondary")
    /\ job.tip # job.target
    /\ LET c == NextOn(job.target)
       IN  IF ConnectOK(db, c, nHeight[pindexBest])
           THEN /\ SetBestChainInner(c)
                /\ job' = [job EXCEPT !.tip = c]
                /\ UNCHANGED diverged
           ELSE /\ job' = [job EXCEPT !.stage = "newbest"]
                /\ diverged' = TRUE
                /\ UNCHANGED <<db, pnext, mempool>>
    /\ UNCHANGED <<mapBlockIndex, hashSyncCheckpoint, batch, pindexBest,
                   hashPendingCheckpoint, hashInvalidCheckpoint, crashes>>

EndSecondary ==
    /\ AtStage("secondary")
    /\ job.tip = job.target
    /\ job' = [job EXCEPT !.stage = "newbest"]
    /\ UNCHANGED <<disk, batch, pnext, pindexBest, hashPendingCheckpoint,
                   hashInvalidCheckpoint, mempool, diverged, crashes>>

\* "New best block": the end of SetBestChain, back in its caller.
NewBestBlock ==
    /\ AtStage("newbest")
    /\ pindexBest' = job.target
    /\ job' = [job EXCEPT !.stage = IF job.caller = "block" THEN "pending"
                                    ELSE "writecp"]
    /\ UNCHANGED <<disk, batch, pnext, hashPendingCheckpoint,
                   hashInvalidCheckpoint, mempool, diverged, crashes>>

-----------------------------------------------------------------------------
(* Synchronized checkpoints                                                 *)

\* Fault: a newer checkpoint is taken whatever branch it is on.
NewerCheckpoint(c) == nHeight[c] > nHeight[hashSyncCheckpoint]

ValidateSyncCheckpoint(c) ==
    /\ nHeight[c] > nHeight[hashSyncCheckpoint]
    /\ TraceBack(c, nHeight[hashSyncCheckpoint]) = hashSyncCheckpoint

\* Not on one branch with the current checkpoint: noted as invalid.
ConflictsWithSync(c) ==
    IF nHeight[c] <= nHeight[hashSyncCheckpoint]
    THEN TraceBack(hashSyncCheckpoint, nHeight[c]) # c
    ELSE TraceBack(c, nHeight[hashSyncCheckpoint]) # hashSyncCheckpoint

\* From here on: into the main chain first if need be, then written.
SwitchTo(c) ==
    IF IsInMainChain(c)
    THEN [Idle EXCEPT !.stage = "writecp", !.caller = "checkpoint", !.target = c]
    ELSE Start(c, "checkpoint")

(* AcceptPendingSyncCheckpoint, which AcceptBlock calls last.               *)
AcceptPendingSyncCheckpoint ==
    /\ AtStage("pending")
    /\ IF hashPendingCheckpoint = NoBlock \/ hashPendingCheckpoint \notin mapBlockIndex
       THEN /\ job' = Idle
            /\ UNCHANGED <<hashPendingCheckpoint, hashInvalidCheckpoint>>
       ELSE IF ValidateSyncCheckpoint(hashPendingCheckpoint)
       THEN /\ job' = SwitchTo(hashPendingCheckpoint)
            /\ UNCHANGED <<hashPendingCheckpoint, hashInvalidCheckpoint>>
       ELSE /\ job' = Idle
            /\ hashPendingCheckpoint' = NoBlock
            /\ hashInvalidCheckpoint' =
                   IF ConflictsWithSync(hashPendingCheckpoint)
                   THEN hashPendingCheckpoint ELSE hashInvalidCheckpoint
    /\ UNCHANGED <<disk, batch, pnext, pindexBest, mempool, diverged, crashes>>

\* ProcessSyncCheckpoint, on a message the master signed.
ProcessSyncCheckpoint(c) ==
    /\ AtStage("idle")
    /\ IF c \notin mapBlockIndex
       THEN /\ hashPendingCheckpoint' = c
            /\ UNCHANGED <<hashInvalidCheckpoint, job>>
       ELSE /\ job' = IF ValidateSyncCheckpoint(c) THEN SwitchTo(c) ELSE job
            /\ hashInvalidCheckpoint' =
                   IF ConflictsWithSync(c) THEN c ELSE hashInvalidCheckpoint
            /\ UNCHANGED hashPendingCheckpoint
    /\ UNCHANGED <<disk, batch, pnext, pindexBest, mempool, diverged, crashes>>

WriteSyncCheckpoint ==
    /\ AtStage("writecp")
    /\ hashSyncCheckpoint' = job.target
    /\ hashPendingCheckpoint' = NoBlock
    /\ job' = Idle
    /\ UNCHANGED <<db, mapBlockIndex, batch, pnext, pindexBest,
                   hashInvalidCheckpoint, mempool, diverged, crashes>>

-----------------------------------------------------------------------------
\* A transaction arrives: CTxMemPool::accept with its inputs checked.
AcceptToMemoryPool(t) ==
    /\ AtStage("idle")
    /\ AcceptOK(mempool, db, pindexBest, t)
    /\ mempool' = addUnchecked(mempool, t)
    /\ UNCHANGED <<disk, batch, pnext, pindexBest, hashPendingCheckpoint,
                   hashInvalidCheckpoint, job, diverged, crashes>>

(* The process dies, whatever it was at, and starts again: LoadBlockIndex   *)
(* rebuilds memory from the database.                                      *)
CrashAndLoadBlockIndex ==
    /\ crashes < MaxCrash
    /\ crashes' = crashes + 1
    /\ batch' = NoBatch
    /\ pnext' = db.next
    /\ pindexBest' = db.best
    /\ hashPendingCheckpoint' = NoBlock
    /\ hashInvalidCheckpoint' = NoBlock
    /\ mempool' = EmptyPool
    /\ job' = Idle
    /\ UNCHANGED <<disk, diverged>>

-----------------------------------------------------------------------------
SetBestChainStep ==
    \/ ExtendBestChain
    \/ BeginReorganize
    \/ ReorganizeDisconnect
    \/ EndDisconnect
    \/ ReorganizeConnect
    \/ ReorganizeCommit
    \/ ReorganizeResurrect
    \/ ReorganizeDelete
    \/ ConnectSecondary
    \/ EndSecondary
    \/ NewBestBlock
    \/ AcceptPendingSyncCheckpoint
    \/ WriteSyncCheckpoint

Next ==
    \/ \E b \in Block : AcceptBlock(b)
    \/ SetBestChainStep
    \/ \E c \in Checkpoints : ProcessSyncCheckpoint(c)
    \/ \E t \in Tx : AcceptToMemoryPool(t)
    \/ CrashAndLoadBlockIndex

Spec == Init /\ [][Next]_vars

\* The thread that holds cs_main keeps running.
FairSpec == Spec /\ WF_vars(SetBestChainStep)
=============================================================================
