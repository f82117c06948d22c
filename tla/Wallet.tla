-------------------------------- MODULE Wallet --------------------------------
(***************************************************************************)
(* CWallet's transactions beside the chain they follow: what ConnectBlock, *)
(* DisconnectBlock and the pool tell the wallet (SyncWithWallets), what    *)
(* CommitTransaction does with a transaction of its own, and what start-up *)
(* (rescan, ReacceptWalletTransactions) and repairwallet put right.        *)
(*                                                                         *)
(* Start-up loads the index and rescans before any other thread runs; then *)
(* the node's threads start, and ReacceptWalletTransactions runs beside    *)
(* them, without cs_main.  It holds cs_wallet during a round, so what      *)
(* notifies the wallet waits for the round's end.                          *)
(*                                                                         *)
(* wallet.dat is written at every change, so the wallet survives a crash   *)
(* as it stands, in the middle of a reorganization too.  The chain's steps *)
(* are those of ChainState; each one that notifies is joined with what the *)
(* wallet makes of it.                                                     *)
(***************************************************************************)
EXTENDS ChainState

LOCAL Lists == INSTANCE SequencesExt

CONSTANTS
    Mine,             \* the outputs the wallet has the key of
    prevouts,         \* the transactions of vin, in the order of the inputs
    Sent,             \* transactions the wallet may be asked to make
    Received,         \* transactions peers may send
    MaturityMargin,   \* the 10 of GetBlocksToMaturity
    COPY_DEPTH,       \* 3 in AddSupportingTransactions
    HashOrder         \* bound: pairs <<t, u>> of which t has the smaller hash, so
                      \* that mapWallet holds it first; {} for hashes in any order

ASSUME WalletAssumption ==
    /\ Mine \subseteq Outpoint
    /\ prevouts \in [Tx -> Seq(Tx)]
    /\ \A t \in Tx : Lists!ToSet(prevouts[t]) = {o[1] : o \in vin[t]}
    /\ Sent \subseteq Tx \ (Coinbase \cup Coinstake)
    /\ Received \subseteq Tx
    /\ MaturityMargin \in Nat /\ COPY_DEPTH \in Nat
    /\ HashOrder \subseteq Tx \X Tx

VARIABLES
    wallet,           \* mapWallet, with each entry's hashBlock and vfSpent
    vtxPrev,          \* the copies a transaction made here carries of the
                      \* transactions it depends on, <<>> for any other
    bestblock,        \* the tip of the locator in wallet.dat
    backup,           \* a copy of wallet.dat: <<wallet, vtxPrev, bestblock, misled>>
    misled,           \* history: what the wallet may have wrong, since it was
                      \* told of blocks whose batch was never committed, or
                      \* read an index that was about to change
    reaccept,         \* where the init thread is in ReacceptWalletTransactions
    heard             \* the transaction in the pool whose thread waits for
                      \* cs_wallet to tell the wallet, or NoTx

walletVars == <<wallet, vtxPrev, bestblock, backup, misled, reaccept, heard>>
allVars    == <<vars, walletVars>>

WalletState ==
    [tx : SUBSET Tx, hashBlock : [Tx -> Block \cup {NoBlock}], spent : SUBSET Outpoint]

EmptyWallet ==
    [tx |-> {}, hashBlock |-> [t \in Tx |-> NoBlock], spent |-> {}]

NoCopies == [t \in Tx |-> <<>>]
NoBackup == <<EmptyWallet, NoCopies, Genesis, {}>>

(* left holds the entries the round has still to visit, at the block the    *)
(* scan is at; vMissingTx and found are the loop's locals.  calm, a         *)
(* history, says that the round's index, pool and tip were only its own.   *)
Reaccept ==
    [pc : {"done", "start", "round", "scan"}, left : SUBSET Tx, vMissingTx : BOOLEAN,
     at : Block \cup {NoBlock}, found : BOOLEAN, calm : BOOLEAN]

At(pc) ==
    [pc |-> pc, left |-> {}, vMissingTx |-> FALSE, at |-> NoBlock,
     found |-> FALSE, calm |-> TRUE]

\* cs_wallet, which the init thread holds for a round and the scan after it.
WalletLocked == reaccept.pc \in {"round", "scan"}

-----------------------------------------------------------------------------
(* What an event does to the wallet                                         *)
PaysMe(t)      == \E o \in Mine : o[1] = t
SpentBy(w, t)  == {o \in vin[t] : o \in Mine /\ o[1] \in w.tx}
IsFromMe(w, t) == \E o \in SpentBy(w, t) : Value(o) > 0

WalletUpdateSpent(w, t, fBlock) ==
    [w EXCEPT !.spent = (@ \cup SpentBy(w, t))
                        \ (IF fBlock THEN {o \in Mine : o[1] = t} ELSE {})]

\* Fault: an entry that has a block keeps it.
MergeFirstBlock(w, t, b) ==
    WalletUpdateSpent(
        [w EXCEPT !.tx = @ \cup {t},
                  !.hashBlock[t] = IF b # NoBlock /\ @ = NoBlock THEN b ELSE @],
        t, b # NoBlock)

\* Insert or merge, then look at what it spends; b is NoBlock for a pool transaction.
AddToWallet(w, t, b) ==
    WalletUpdateSpent(
        [w EXCEPT !.tx = @ \cup {t},
                  !.hashBlock[t] = IF b # NoBlock THEN b ELSE @],
        t, b # NoBlock)

AddToWalletIfInvolvingMe(w, t, b, fUpdate) ==
    IF t \in w.tx /\ ~ fUpdate THEN w
    ELSE IF t \in w.tx \/ PaysMe(t) \/ IsFromMe(w, t) THEN AddToWallet(w, t, b)
    ELSE WalletUpdateSpent(w, t, FALSE)

(* SyncWithWallets for every transaction of a connected block, in order.    *)
Connected(w, b, fUpdate) ==
    Lists!FoldLeft(LAMBDA x, t : AddToWalletIfInvolvingMe(x, t, b, fUpdate), w, vtx[b])

\* Fault: the coinstake's inputs stay spent.
DisableNothing(w, t) == w

\* "only disconnecting coinstake requires marking input unspent"
DisableTransaction(w, t) ==
    IF t \in Coinstake /\ IsFromMe(w, t)
    THEN [w EXCEPT !.spent = @ \ SpentBy(w, t)]
    ELSE w

Disconnected(w, b) == Lists!FoldLeft(DisableTransaction, w, vtx[b])

-----------------------------------------------------------------------------
(* Depths and the coins on offer                                            *)
DepthAt(t, b) ==
    IF b # NoBlock /\ IsInMainChain(b) THEN nHeight[pindexBest] - nHeight[b] + 1
    ELSE IF t \in mempool.mapTx THEN 0
    ELSE -1

GetDepthInMainChain(t) == DepthAt(t, wallet.hashBlock[t])

GetBlocksToMaturity(t) ==
    IF t \in Coinbase \cup Coinstake
    THEN Max({0, nCoinbaseMaturity + MaturityMargin - GetDepthInMainChain(t)})
    ELSE 0

Prev(t) == {o[1] : o \in vin[t]}

Copies(t) == Lists!ToSet(vtxPrev[t])

(* The transactions vtxPrev leads to from t while they are unconfirmed: the *)
(* depth of a copy is that of the block it was copied with.                *)
WorkQueue(t) ==
    LET Open(q) == \E c \in Copies(t) : c[1] = q /\ DepthAt(q, c[2]) = 0
        Reach[n \in 0..Cardinality(Tx)] ==
            IF n = 0 THEN {t}
            ELSE LET S == Reach[n - 1]
                 IN  S \cup UNION {Prev(q) : q \in {r \in S : r = t \/ Open(r)}}
    IN  Reach[Cardinality(Tx)]

IsTrusted(t) ==
    \/ GetDepthInMainChain(t) >= 1
    \/ /\ GetDepthInMainChain(t) = 0
       /\ IsFromMe(wallet, t)
       /\ \A q \in WorkQueue(t) \ {t} :
             \E c \in Copies(t) :
                /\ c[1] = q
                /\ \/ DepthAt(q, c[2]) >= 1
                   \/ DepthAt(q, c[2]) = 0 /\ IsFromMe(wallet, q)

AvailableCoins ==
    {o \in Mine \ wallet.spent :
        o[1] \in wallet.tx /\ IsTrusted(o[1]) /\ GetBlocksToMaturity(o[1]) = 0}

\* mapWalletPrev, and what the copies of a wallet transaction add to it.
Carried(m, t) ==
    [q \in DOMAIN m \cup {c[1] : c \in Copies(t)} |->
        IF \E c \in Copies(t) : c[1] = q
        THEN (CHOOSE c \in Copies(t) : c[1] = q)[2] ELSE m[q]]

(* The loop of AddSupportingTransactions: each hash of vWorkQueue is looked *)
(* for once, in the wallet, then in the copies of the wallet transactions  *)
(* met before it, then in the index; unless it is deep, its inputs join    *)
(* the queue.  The last one found comes first.                             *)
RECURSIVE Copied(_, _, _, _)
Copied(vWorkQueue, setAlreadyDone, mapWalletPrev, copies) ==
    IF vWorkQueue = <<>> THEN copies
    ELSE LET q    == Head(vWorkQueue)
             Known == q \in wallet.tx \/ q \in DOMAIN mapWalletPrev \/ Indexed(db, q)
             block == IF Indexed(db, q) THEN db.pos[q]
                      ELSE IF q \in wallet.tx THEN wallet.hashBlock[q]
                      ELSE mapWalletPrev[q]
             Deep == /\ Indexed(db, q) /\ IsInMainChain(block)
                     /\ DepthAt(q, block) >= COPY_DEPTH
             Rest(more, m, found) ==
                 Copied(Tail(vWorkQueue) \o more, setAlreadyDone \cup {q}, m, found \o copies)
         IN  IF q \in setAlreadyDone \/ ~ Known
             THEN Rest(<<>>, mapWalletPrev, <<>>)
             ELSE Rest(IF Deep THEN <<>> ELSE prevouts[q],
                       IF q \in wallet.tx THEN Carried(mapWalletPrev, q) ELSE mapWalletPrev,
                       << <<q, block>> >>)

\* The copies CreateTransaction has a transaction carry.
AddSupportingTransactions(t) == Copied(prevouts[t], {}, <<>>, <<>>)

-----------------------------------------------------------------------------
(* Start-up and repair                                                      *)

\* The main chain above block b, lowest first, b included.
ChainFrom(b) ==
    Lists!SetToSortSeq({c \in Branch[db.best] : nHeight[c] >= nHeight[b]},
                 LAMBDA c, d : nHeight[c] < nHeight[d])

ScanForWalletTransactions(w, b, fUpdate) ==
    Lists!FoldLeft(LAMBDA x, c : Connected(x, c, fUpdate), w, ChainFrom(b))

\* The coinbases and coinstakes ReacceptWalletTransactions passes over.
Skipped(w, t) ==
    \/ t \in Coinbase /\ <<t, 1>> \in w.spent
    \/ t \in Coinstake /\ <<t, 2>> \in w.spent

\* Fault: outputs spent in the chain by a copy of the wallet stay unspent.
MarkNothing(t) == {}

\* Outputs of t that the index has spent and the wallet has not.
FoundSpent(t) == {o \in Mine \ wallet.spent : o[1] = t /\ db.spent[o] # NoTx}

\* Fault: the supporting transactions are not tried first.
OnlyItself(copies) == <<>>

\* The copies AcceptWalletTransaction may hand to the pool, in their order.
Supporting(copies) ==
    Lists!SelectSeq([i \in DOMAIN copies |-> copies[i][1]],
                    LAMBDA q : q \notin Coinbase \cup Coinstake)

TryPool(pool, t) ==
    IF AcceptOK(pool, db, pindexBest, t) THEN addUnchecked(pool, t) ELSE pool

\* "Add previous supporting transactions first": those not in the pool or the index.
AcceptWalletTransaction(t) ==
    LET TryCopy(pool, q) ==
            IF q \in pool.mapTx \/ Indexed(db, q) THEN pool ELSE TryPool(pool, q)
    IN  TryPool(Lists!FoldLeft(TryCopy, mempool, Supporting(vtxPrev[t])), t)

-----------------------------------------------------------------------------
WalletInit ==
    /\ Init
    /\ wallet = EmptyWallet
    /\ vtxPrev = NoCopies
    /\ bestblock = Genesis
    /\ backup = NoBackup
    /\ misled = {}
    /\ reaccept = At("done")
    /\ heard = NoTx

\* A batch the wallet was told about is gone.
Dropped(told) == misled \cup (IF told THEN {"spent", "depth", "refund"} ELSE {})

\* Has the wallet been told of a block of the batch under way?
ToldOfBatch == batch # NoBatch /\ (job.tip # pindexBest \/ AtStage("connect"))

Told(w) == wallet' = w /\ UNCHANGED <<vtxPrev, bestblock, backup, misled, heard>>

FollowExtend ==
    /\ ExtendBestChain
    /\ job'.stage = "newbest" => ~ WalletLocked
    /\ Told(IF job'.stage = "newbest" THEN Connected(wallet, job.target, TRUE) ELSE wallet)

FollowDisconnect ==
    /\ ReorganizeDisconnect
    /\ job'.stage = "disconnect" /\ IsProofOfStake(job.tip) => ~ WalletLocked
    /\ wallet' = IF AtStage("disconnect") /\ job'.stage = "disconnect"
                 THEN Disconnected(wallet, job.tip) ELSE wallet
    /\ misled' = IF job'.stage = "idle" THEN Dropped(ToldOfBatch) ELSE misled
    /\ UNCHANGED <<vtxPrev, bestblock, backup, heard>>

FollowConnect ==
    /\ ReorganizeConnect
    /\ job'.stage = "connect" => ~ WalletLocked
    /\ wallet' = IF job'.stage = "connect" THEN Connected(wallet, job'.tip, TRUE) ELSE wallet
    /\ misled' = IF job'.stage = "idle" THEN Dropped(ToldOfBatch) ELSE misled
    /\ UNCHANGED <<vtxPrev, bestblock, backup, heard>>

FollowSecondary ==
    /\ ConnectSecondary
    /\ job'.stage = "secondary" => ~ WalletLocked
    /\ Told(IF job'.stage = "secondary" THEN Connected(wallet, job'.tip, TRUE) ELSE wallet)

\* The locator is written, without cs_wallet, unless this is the initial download.
\* Bound: it is left alone when no restart is to follow.
FollowNewBest ==
    /\ NewBestBlock
    /\ bestblock' \in {bestblock} \cup (IF crashes < MaxCrash THEN {job.target} ELSE {})
    /\ UNCHANGED <<wallet, vtxPrev, backup, misled, heard>>

\* The other steps of ChainState tell the wallet nothing.
Unnoticed ==
    /\ \/ \E b \in Block : AcceptBlock(b)
       \/ BeginReorganize
       \/ EndDisconnect
       \/ ReorganizeCommit
       \/ ReorganizeResurrect
       \/ ReorganizeDelete
       \/ EndSecondary
       \/ AcceptPendingSyncCheckpoint
       \/ WriteSyncCheckpoint
       \/ \E c \in Checkpoints : ProcessSyncCheckpoint(c)
    /\ UNCHANGED <<wallet, vtxPrev, bestblock, backup, misled, heard>>

\* A transaction of someone else's, or of a copy of this wallet, arrives; its thread may
\* have to wait, with cs_main, before it tells the wallet.
ReceiveTx(t) ==
    /\ AcceptToMemoryPool(t)
    /\ IF WalletLocked
       THEN /\ heard' = t
            /\ UNCHANGED <<wallet, vtxPrev, bestblock, backup, misled>>
       ELSE Told(AddToWalletIfInvolvingMe(wallet, t, NoBlock, TRUE))

HearTx ==
    /\ heard # NoTx /\ ~ WalletLocked
    /\ wallet' = AddToWalletIfInvolvingMe(wallet, heard, NoBlock, TRUE)
    /\ heard' = NoTx
    /\ UNCHANGED <<vars, vtxPrev, bestblock, backup, misled>>

(* CreateTransaction out of the coins on offer, then CommitTransaction: the *)
(* wallet records it and its inputs before the pool is asked.              *)
CommitTransaction(t) ==
    /\ AtStage("idle") /\ ~ WalletLocked
    /\ t \notin wallet.tx
    /\ t \in ScriptsOK /\ PaysFee(t)
    /\ vin[t] \subseteq AvailableCoins
    /\ wallet' = AddToWallet(wallet, t, NoBlock)
    /\ vtxPrev' = [vtxPrev EXCEPT ![t] = AddSupportingTransactions(t)]
    /\ mempool' = TryPool(mempool, t)
    /\ UNCHANGED <<disk, batch, pnext, pindexBest, hashPendingCheckpoint,
                   hashInvalidCheckpoint, job, diverged, crashes>>
    /\ UNCHANGED <<bestblock, backup, misled, heard>>

\* repairwallet: FixSpentCoins with fCheckOnly false.
FixSpentCoins ==
    /\ AtStage("idle") /\ ~ WalletLocked
    /\ LET indexed == {o \in Mine : o[1] \in wallet.tx /\ Indexed(db, o[1])}
       IN  wallet' = [wallet EXCEPT !.spent = (@ \ indexed)
                          \cup {o \in indexed : db.spent[o] # NoTx}]
    /\ misled' = misled \ {"spent", "refund", "race"}
    /\ UNCHANGED <<vars, vtxPrev, bestblock, backup, heard>>

\* Bound: one copy is made, of a wallet with entries and a locator that is not
\* behind, while the pool is empty.
BackupWallet ==
    /\ AtStage("idle")
    /\ backup = NoBackup /\ wallet # EmptyWallet
    /\ mempool.mapTx = {} /\ crashes = 0 /\ bestblock = pindexBest
    /\ backup' = <<wallet, vtxPrev, bestblock, misled>>
    /\ UNCHANGED <<vars, wallet, vtxPrev, bestblock, misled, heard>>

\* CBlockLocator::GetBlockIndex: the locator's last block on the main chain.
LocatorFork(b) == ForkPoint(b, db.best)

(* LoadWallet, of the file in use or a copy, and the rescan from the        *)
(* locator or, with -rescan, from genesis, on the main chain of the index  *)
(* just loaded.  Then the threads start, and ReacceptWalletTransactions.   *)
StartWallet(w, copies, locator, fRescan) ==
    LET from == IF fRescan THEN Genesis ELSE LocatorFork(locator)
    IN  /\ wallet' = IF nHeight[db.best] > nHeight[from]
                     THEN ScanForWalletTransactions(w, from, TRUE) ELSE w
        /\ vtxPrev' = copies
        /\ bestblock' = locator
        /\ mempool' = EmptyPool
        /\ reaccept' = At("start")
        /\ heard' = NoTx

LoadBlockIndex ==
    /\ crashes < MaxCrash
    /\ crashes' = crashes + 1
    /\ backup' = IF crashes' = MaxCrash THEN NoBackup ELSE backup
    /\ batch' = NoBatch
    /\ pnext' = db.next
    /\ pindexBest' = db.best
    /\ hashPendingCheckpoint' = NoBlock
    /\ hashInvalidCheckpoint' = NoBlock
    /\ job' = Idle
    /\ UNCHANGED <<disk, diverged>>

\* The process dies at any step and starts again.
\* Bound: -rescan is asked for only when something may be wrong.
Restart ==
    \E fRescan \in BOOLEAN :
        /\ fRescan => Dropped(ToldOfBatch) # {}
        /\ LoadBlockIndex
        /\ StartWallet(wallet, vtxPrev, bestblock, fRescan)
        /\ misled' = IF fRescan THEN {} ELSE Dropped(ToldOfBatch) \ {"spent"}
    
\* It dies after ConnectBlock's notifications and before TxnCommit.
CrashBeforeCommit ==
    /\ AtStage("setbest") /\ ~ WalletLocked
    /\ pprev[job.target] = pindexBest
    /\ ConnectOK(db, job.target, nHeight[pindexBest])
    /\ LoadBlockIndex
    /\ StartWallet(Connected(wallet, job.target, TRUE), vtxPrev, bestblock, FALSE)
    /\ misled' = Dropped(TRUE) \ {"spent"}

\* Stopped, and started with the copy in place of wallet.dat.
RestoreBackup ==
    /\ LoadBlockIndex
    /\ StartWallet(backup[1], backup[2], backup[3], FALSE)
    /\ misled' = (backup[4] \ {"spent"})
                 \cup (IF LocatorFork(backup[3]) = backup[3] THEN {} ELSE {"refund"})

(* ReacceptWalletTransactions, a round of its loop at a time.               *)
StartRound ==
    /\ reaccept.pc = "start"
    /\ reaccept' = [At("round") EXCEPT !.left = wallet.tx]
    /\ UNCHANGED <<vars, wallet, vtxPrev, bestblock, backup, misled, heard>>

(* One entry of mapWallet, in the order of their hashes, against the index  *)
(* as it is committed: what a block has spent is marked, what no block     *)
(* holds goes to the pool.                                                 *)
Visit(t) ==
    /\ reaccept.pc = "round" /\ t \in reaccept.left
    /\ \A u \in reaccept.left : <<u, t>> \notin HashOrder
    /\ LET spent == IF Skipped(wallet, t) \/ ~ Indexed(db, t) THEN {} ELSE FoundSpent(t)
           Stale(o) == batch # NoBatch /\ batch.spent[o] = NoTx
       IN  /\ reaccept' = [reaccept EXCEPT !.left = @ \ {t},
                                           !.vMissingTx = @ \/ spent # {}]
           /\ wallet' = [wallet EXCEPT !.spent = @ \cup spent]
           /\ misled' = misled \cup (IF \E o \in spent : Stale(o) THEN {"race"} ELSE {})
    /\ mempool' = IF Indexed(db, t) \/ t \in Coinbase \cup Coinstake THEN mempool
                  ELSE AcceptWalletTransaction(t)
    /\ UNCHANGED <<disk, batch, pnext, pindexBest, hashPendingCheckpoint,
                   hashInvalidCheckpoint, job, diverged, crashes>>
    /\ UNCHANGED <<vtxPrev, bestblock, backup, heard>>

\* What was found spent is looked for in the whole chain, before the lock is left.
EndVisits ==
    /\ reaccept.pc = "round" /\ reaccept.left = {}
    /\ reaccept' = IF reaccept.vMissingTx THEN [At("scan") EXCEPT !.at = Genesis]
                   ELSE At("done")
    /\ UNCHANGED <<vars, wallet, vtxPrev, bestblock, backup, misled, heard>>

\* ScanForWalletTransactions follows pnext as it finds it.
ScanBlock ==
    /\ reaccept.pc = "scan" /\ reaccept.at # NoBlock
    /\ wallet' = Connected(wallet, reaccept.at, FALSE)
    /\ reaccept' = [reaccept EXCEPT !.at = pnext[@],
                                    !.found = @ \/ wallet'.tx # wallet.tx]
    /\ UNCHANGED <<vars, vtxPrev, bestblock, backup, misled, heard>>

\* fRepeat
EndScan ==
    /\ reaccept.pc = "scan" /\ reaccept.at = NoBlock
    /\ reaccept' = At(IF reaccept.found THEN "start" ELSE "done")
    /\ UNCHANGED <<vars, wallet, vtxPrev, bestblock, backup, misled, heard>>

ReacceptWalletTransactions ==
    \/ StartRound
    \/ \E t \in Tx : Visit(t)
    \/ EndVisits
    \/ ScanBlock
    \/ EndScan

\* What the other threads do; one that waits to tell the wallet has cs_main.
OtherThreads ==
    /\ \/ /\ heard = NoTx
          /\ \/ FollowExtend
             \/ FollowDisconnect
             \/ FollowConnect
             \/ FollowSecondary
             \/ FollowNewBest
             \/ Unnoticed
             \/ \E t \in Received : ReceiveTx(t)
             \/ \E t \in Sent : CommitTransaction(t)
             \/ FixSpentCoins
             \/ BackupWallet
       \/ HearTx
    /\ reaccept' = IF reaccept.pc = "round"
                   THEN [reaccept EXCEPT !.calm = @ /\ UNCHANGED <<db, mempool, pindexBest>>]
                   ELSE reaccept

WalletNext ==
    \/ OtherThreads
    \/ ReacceptWalletTransactions
    \/ Restart
    \/ CrashBeforeCommit
    \/ RestoreBackup

WalletSpec == WalletInit /\ [][WalletNext]_allVars
-----------------------------------------------------------------------------
(* wallet.dat holds transactions and flags of the kinds its records have    *)
(* (CWalletTx, vfSpent).                                                   *)
WalletTypeOK ==
    /\ wallet \in WalletState
    /\ vtxPrev \in [Tx -> Seq(Tx \X (Block \cup {NoBlock}))]
    /\ bestblock \in Block
    /\ misled \subseteq {"spent", "depth", "refund", "race"}
    /\ reaccept \in Reaccept
    /\ heard \in Tx \cup {NoTx}

(* Between calls the wallet places its transactions where the index does:   *)
(* it has every transaction of the chain that pays it, in the block that   *)
(* confirms it, and takes none for confirmed that is not, through          *)
(* reorganizations, restarts and restored copies (AddToWallet's merge, the *)
(* rescan from the locator).                                               *)
ConfirmationsKnown ==
    /\ WalletTypeOK
    /\ AtStage("idle") /\ "depth" \notin misled =>
           \A t \in Tx :
               /\ Indexed(db, t) /\ (PaysMe(t) \/ t \in wallet.tx) =>
                     t \in wallet.tx /\ wallet.hashBlock[t] = db.pos[t]
               /\ t \in wallet.tx /\ wallet.hashBlock[t] \in Branch[db.best] =>
                     db.pos[t] = wallet.hashBlock[t]

(* What the chain has spent the wallet offers to nobody: MarkUnspent of a   *)
(* connected transaction is always followed by MarkSpent of its spenders,  *)
(* and ReacceptWalletTransactions, whatever the chain does beside it, has  *)
(* found when it ends what a crash or a copy left out (the entries it      *)
(* passes over excepted).                                                  *)
SpendsKnown ==
    AtStage("idle") /\ reaccept.pc = "done" /\ "spent" \notin misled =>
        \A o \in Mine :
            o[1] \in wallet.tx /\ Indexed(db, o[1]) /\ db.spent[o] # NoTx =>
                \/ o \in wallet.spent
                \/ "depth" \in misled /\ Skipped(wallet, o[1])

(* No coin of the chain stays spent for a coinstake that is no longer in it *)
(* (DisableTransaction): one marked spent that the index has not spent is  *)
(* an input of an ordinary transaction of the wallet.                      *)
CoinsRefunded ==
    \A o \in wallet.spent :
        Indexed(db, o[1]) /\ db.spent[o] = NoTx =>
            \E s \in wallet.tx \ Coinstake : o \in vin[s]

(* That is so unless the wallet was told of blocks whose batch is gone, or  *)
(* ReacceptWalletTransactions read the index of a batch about to be        *)
(* committed.                                                              *)
RefundsKnown ==
    AtStage("idle") /\ misled \cap {"refund", "race"} = {} => CoinsRefunded

(* "wallets need to refund inputs when disconnecting coinstake" (main.cpp,  *)
(* SyncWithWallets): so they do once the batch is committed, unless         *)
(* ReacceptWalletTransactions undoes it.  The code does not keep to this,   *)
(* and no run checks it.                                                    *)
RefundsKept ==
    AtStage("idle") /\ "refund" \notin misled => CoinsRefunded

(* A round of ReacceptWalletTransactions that had the chain and the pool to *)
(* itself has left out of the pool no transaction made here that the pool  *)
(* would take.                                                             *)
Reaccepted(t) ==
    reaccept.pc = "round" /\ reaccept.left = {} /\ reaccept.calm /\ t \in wallet.tx
        => ~ AcceptOK(mempool, db, pindexBest, t)

\* Each of the copies, and t at their end, is confirmed or comes after what it spends.
InOrder(t) ==
    LET line == Append([i \in DOMAIN vtxPrev[t] |-> vtxPrev[t][i][1]], t)
    IN  \A i \in DOMAIN line : \A q \in Prev(line[i]) :
            Indexed(db, line[i]) \/ Indexed(db, q) \/ \E j \in 1..i - 1 : line[j] = q

(* "Re-accept any txes of ours that aren't already in a block", with the    *)
(* "previous supporting transactions first" (AcceptWalletTransaction).      *)
(* The code does not keep to this, and no run checks it.                    *)
OwnTxsReaccepted == \A t \in Sent : Reaccepted(t)

(* In whatever order mapWallet holds them, and however many of those a      *)
(* transaction depends on are unconfirmed too, as long as its copies are   *)
(* in the order in which the pool can take them.                           *)
OwnLinesReaccepted == \A t \in Sent : InOrder(t) => Reaccepted(t)

(* "This must not fail. The transaction has already been signed and         *)
(* recorded." (CommitTransaction)                                          *)
CommitMustNotFail ==
    [][\A t \in Sent : CommitTransaction(t) => t \in mempool'.mapTx]_allVars
=============================================================================
