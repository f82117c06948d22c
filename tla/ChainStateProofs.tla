--------------------------- MODULE ChainStateProofs ---------------------------
(***************************************************************************)
(* Proofs about ChainState, for every tree of blocks with any transactions *)
(* in them, every set of checkpoints and any number of crashes.  First     *)
(* what holds whatever fails on the way: the types, the consistency of the *)
(* running job with the tree of blocks, and the memory pool (its inverse   *)
(* maps, and that it is disjoint from the database).  Then the best chain  *)
(* on disk and in memory, the synchronized checkpoint it runs through, and *)
(* the trust that only grows.  Last the transaction index: no output is    *)
(* spent twice, none is lost, undoing a block cannot fail, the chain       *)
(* database implements the abstract ledger, and the supply recorded block  *)
(* by block is what the outputs nothing has spent are worth.               *)
(***************************************************************************)
EXTENDS ChainProperties, BranchTheorems

(* What the locals of a SetBestChain under way have to do with each other,  *)
(* stage by stage: the walk down from pindexBest stays above the fork, the *)
(* walk up stays on the branch of pindexIntermediate, then of pindexNew.   *)
JobOK ==
    /\ AtStage("disconnect") \/ AtStage("connect") =>
          /\ batch \in View
          /\ job.fork = ForkPoint(pindexBest, job.inter)
          /\ job.fork \in Branch[job.tip]
    /\ ~ (AtStage("disconnect") \/ AtStage("connect")) => batch = NoBatch
    /\ AtStage("disconnect") => job.tip \in Branch[pindexBest]
    /\ AtStage("connect") => job.tip \in Branch[job.inter]
    /\ AtStage("resurrect") \/ AtStage("delete") => job.tip = job.inter
    /\ AtStage("secondary") => job.tip \in Branch[job.target]
    /\ job.stage \in {"disconnect", "connect", "resurrect", "delete", "secondary"}
          => job.inter \in Branch[job.target]
    /\ AtStage("writecp") => job.caller = "checkpoint"

TypeInv == TypeOK /\ JobOK

-----------------------------------------------------------------------------
(* Typing of the operators the actions are built from.                      *)

\* An output that exists is worth a natural number.
LEMMA ValueType ==
    ASSUME NEW o \in Outpoint, InRange(o)
    PROVE  Value(o) \in Nat
<1>1. o[1] \in Tx /\ o[2] \in 1..MaxOut /\ vout[o[1]] \in Seq(Nat)
  BY TxAssumption DEF Outpoint
<1>2. o[2] \in 1..Len(vout[o[1]])
  BY <1>1, TxAssumption DEF InRange
<1>3. QED
  BY <1>1, <1>2 DEF Value

\* A block has finitely many transactions.
LEMMA TxSetFinite ==
    ASSUME NEW b \in Block
    PROVE  IsFiniteSet(TxSet(b))
<1> DEFINE n == Len(vtx[b])
<1>1. vtx[b] \in Seq(Tx) /\ n \in Nat /\ DOMAIN vtx[b] = 1..n
  BY TxAssumption
<1>2. vtx[b] \in [1..n -> TxSet(b)] /\ \A t \in TxSet(b) : \E i \in 1..n : vtx[b][i] = t
  BY <1>1 DEF TxSet
<1>3. vtx[b] \in Surjection(1..n, TxSet(b))
  BY <1>2 DEF Surjection
<1> HIDE DEF n
<1>4. IsFiniteSet(1..n)
  BY <1>1, FS_Interval
<1>5. QED
  BY <1>3, <1>4, FS_Surjection

\* What a transaction puts out is a number, and what it takes in if it exists.
LEMMA ValuesType ==
    ASSUME NEW t \in Tx
    PROVE  /\ GetValueOut(t) \in Int
           /\ (\A o \in vin[t] : InRange(o)) => GetValueIn(t) \in Int
<1> DEFINE f == [o \in vin[t] |-> Value(o)]
           g == vout[t]
           D == DOMAIN g
<1>1. IsFiniteSet(vin[t]) /\ \A o \in vin[t] : o \in Outpoint
  BY TxAssumption
<1>2. vout[t] \in Seq(Nat)
  BY TxAssumption
<1>3. D = 1..Len(g) /\ Len(g) \in Nat /\ \A i \in D : g[i] \in Int
  BY <1>2
<1>4. GetValueIn(t) = Total(f, vin[t]) /\ GetValueOut(t) = Total(g, D)
  BY DEF GetValueIn, GetValueOut, SumFunction, Total
<1>5. ASSUME \A o \in vin[t] : InRange(o) PROVE \A o \in vin[t] : f[o] \in Int
  BY <1>1, <1>5, ValueType
<1> HIDE DEF f, g, D
<1>6. IsFiniteSet(D)
  BY <1>3, FS_Interval
<1>7. Total(g, D) \in Int
  BY <1>3, <1>6, TotalInt
<1>8. ASSUME \A o \in vin[t] : InRange(o) PROVE Total(f, vin[t]) \in Int
  BY <1>1, <1>5, <1>8, TotalInt
<1>9. QED
  BY <1>4, <1>7, <1>8

\* By how much a block changes the supply.
LEMMA MintedIs ==
    ASSUME NEW b
    PROVE  Minted(b) = Total([t \in TxSet(b) |-> GetValueOut(t)], TxSet(b))
                          - Total([t \in TxSet(b) |-> GetValueIn(t)], TxSet(b))
BY DEF Minted, SumFunction, Total

\* It is a number when every input of the block exists.
LEMMA MintedType ==
    ASSUME NEW b \in Block, \A t \in TxSet(b) : \A o \in vin[t] : InRange(o)
    PROVE  Minted(b) \in Int
<1> DEFINE f == [t \in TxSet(b) |-> GetValueOut(t)]
           g == [t \in TxSet(b) |-> GetValueIn(t)]
<1>1. TxSet(b) \subseteq Tx
  BY TxAssumption DEF TxSet
<1>2. \A t \in TxSet(b) : f[t] \in Int /\ g[t] \in Int
  BY <1>1, ValuesType
<1> HIDE DEF f, g
<1>3. Total(f, TxSet(b)) \in Int /\ Total(g, TxSet(b)) \in Int
  BY <1>2, TxSetFinite, TotalInt
<1>4. QED
  BY <1>3, MintedIs DEF f, g

\* ConnectInputs has looked every input up.
LEMMA ConnectsInRange ==
    ASSUME NEW v, NEW b \in Block, NEW h, ConnectOK(v, b, h),
           NEW t \in TxSet(b), NEW o \in vin[t]
    PROVE  InRange(o)
<1>1. t \in Tx /\ t \notin Coinbase
  BY TxAssumption DEF TxSet
<1>2. QED
  BY <1>1 DEF ConnectOK, ConnectInputsOK, InputOK

\* The database of a first start is well formed.
LEMMA GenesisViewType == GenesisView \in View
BY TreeAssumption DEF GenesisView, View

\* ConnectBlock's writes keep the database well formed.
LEMMA ConnectType ==
    ASSUME NEW v \in View, NEW b \in Block \ {Genesis},
           NEW nexts \in [Block -> Block \cup {NoBlock}], NEW h, ConnectOK(v, b, h)
    PROVE  /\ Connect(v, b, nexts) \in View
           /\ [Connect(v, b, nexts) EXCEPT !.best = b] \in View
<1>1. pprev[b] \in Block /\ Minted(b) \in Int
  BY TreeAssumption, ConnectsInRange, MintedType
<1>2. \A o \in Outpoint : Spends(b, o) => Spender(b, o) \in Tx
  <2> SUFFICES ASSUME NEW o \in Outpoint, Spends(b, o)
               PROVE  Spender(b, o) \in TxSet(b)
    BY TxAssumption DEF TxSet
  <2>1. QED
    BY DEF Spends, Spender
<1>3. [v.next EXCEPT ![b] = nexts[b], ![pprev[b]] = b]
        \in [Block -> Block \cup {NoBlock}]
  BY DEF View
<1>4. [v.supply EXCEPT ![b] = v.supply[pprev[b]] + Minted(b)] \in [Block -> Int]
  BY <1>1 DEF View
<1>5. [t \in Tx |-> IF t \in TxSet(b) THEN b ELSE v.pos[t]]
        \in [Tx -> Block \cup {NoBlock}]
  BY DEF View
<1>6. [o \in Outpoint |->
         IF Spends(b, o) THEN Spender(b, o)
         ELSE IF o[1] \in TxSet(b) THEN NoTx
         ELSE v.spent[o]] \in [Outpoint -> Tx \cup {NoTx}]
  BY <1>2 DEF View
<1>7. QED
  BY <1>3, <1>4, <1>5, <1>6 DEF Connect, View

\* So do DisconnectBlock's.
LEMMA DisconnectType ==
    ASSUME NEW v \in View, NEW b \in Block
    PROVE  Disconnect(v, b) \in View
<1>1. (IF pprev[b] = NoBlock THEN v.next ELSE [v.next EXCEPT ![pprev[b]] = NoBlock])
        \in [Block -> Block \cup {NoBlock}]
  BY DEF View
<1>2. [t \in Tx |-> IF t \in TxSet(b) THEN NoBlock ELSE v.pos[t]]
        \in [Tx -> Block \cup {NoBlock}]
  BY DEF View
<1>3. [o \in Outpoint |->
         IF o[1] \in TxSet(b) \/ Spends(b, o) THEN NoTx ELSE v.spent[o]]
        \in [Outpoint -> Tx \cup {NoTx}]
  BY DEF View
<1>4. QED
  BY <1>1, <1>2, <1>3 DEF Disconnect, View

\* That no batch is open can be told from every content of one.
LEMMA NoBatchIsNoView == NoBatch \notin View
BY TreeAssumption DEF NoBatch, View

\* The pool keeps its type when transactions leave it,
LEMMA RemoveType ==
    ASSUME NEW pool \in Pool, NEW S
    PROVE  Remove(pool, S) \in Pool
BY DEF Remove, Pool

\* and when one enters, or a connected one is deleted.
LEMMA PoolType ==
    ASSUME NEW pool \in Pool, NEW t \in Tx
    PROVE  /\ addUnchecked(pool, t) \in Pool
           /\ DeleteFromPool(pool, t) \in Pool
<1>1. Remove(pool, {t}) \in Pool
  BY RemoveType
<1>2. \A p \in Pool : removeConflicts(p, t) \in Pool
  BY RemoveType DEF removeConflicts
<1>3. addUnchecked(pool, t) \in Pool
  BY DEF addUnchecked, Pool
<1>4. QED
  BY <1>1, <1>2, <1>3 DEF DeleteFromPool

\* pindexIntermediate is on the branch, above no block that is not postponed.
LEMMA IntermediateFinds ==
    ASSUME NEW b \in Block, NEW best \in Block, pindexBest = best
    PROVE  /\ pindexIntermediate(b) \in Branch[b] \ vpindexSecondary(b)
           /\ \A c \in Branch[b] \ vpindexSecondary(b) :
                 nHeight[c] <= nHeight[pindexIntermediate(b)]
<1>1. Genesis \in Branch[b] \ vpindexSecondary(b)
  BY BranchRoot, TreeAssumption DEF vpindexSecondary
<1>2. Branch[b] \ vpindexSecondary(b) \in SUBSET Branch[b]
  OBVIOUS
<1>3. QED
  BY <1>1, <1>2, HighestBlock DEF pindexIntermediate

\* The walk up takes the child of the tip on the branch it follows.
LEMMA NextOnFinds ==
    ASSUME NEW b \in Block, job.tip \in Branch[b], job.tip # b
    PROVE  /\ NextOn(b) \in Branch[b]
           /\ NextOn(b) \in Block \ {Genesis}
           /\ pprev[NextOn(b)] = job.tip
<1>1. NextOn(b) \in Branch[b] /\ pprev[NextOn(b)] = job.tip
  BY ChildOnBranch DEF NextOn
<1>2. job.tip \in Block /\ NextOn(b) \in Block
  BY <1>1, BranchClosed
<1>3. QED
  BY <1>1, <1>2, TreeAssumption

-----------------------------------------------------------------------------
(* The type invariant is inductive: one lemma per group of actions.         *)

\* The first start is well typed.
LEMMA TypeInit == Init => TypeInv
<1> SUFFICES ASSUME Init PROVE TypeInv
  OBVIOUS
<1>1. TypeOK
  <2>1. Idle \in Job
    BY TreeAssumption DEF Idle, Job, Stage, Caller
  <2>2. EmptyPool \in Pool
    BY DEF EmptyPool, Pool
  <2>3. GenesisView.next \in [Block -> Block \cup {NoBlock}]
    BY DEF GenesisView
  <2>4. diverged \in BOOLEAN
    BY DEF Init
  <2>5. crashes \in 0..MaxCrash
    BY BoundAssumption DEF Init
  <2>6. /\ db \in View
        /\ batch \in View \cup {NoBatch}
        /\ mempool \in Pool
        /\ job \in Job
        /\ pnext \in [Block -> Block \cup {NoBlock}]
    BY <2>1, <2>2, <2>3, GenesisViewType DEF Init
  <2>7. /\ mapBlockIndex \subseteq Block /\ Genesis \in mapBlockIndex
        /\ hashSyncCheckpoint \in Block
        /\ pindexBest \in Block
        /\ hashPendingCheckpoint \in Block \cup {NoBlock}
        /\ hashInvalidCheckpoint \in Block \cup {NoBlock}
    BY TreeAssumption DEF Init
  <2>8. QED
    BY <2>4, <2>5, <2>6, <2>7 DEF TypeOK
<1>2. JobOK
  BY DEF Init, JobOK, AtStage, Idle
<1>3. QED
  BY <1>1, <1>2 DEF TypeInv

\* SetBestChain fails: memory is as it was, the batch is gone.
LEMMA TypeFails ==
    ASSUME TypeInv, SetBestChainFails, UNCHANGED <<diverged, crashes>>
    PROVE  TypeInv'
<1>1. Idle \in Job
  BY TreeAssumption DEF Idle, Job, Stage, Caller
<1>2. TypeOK'
  BY <1>1 DEF TypeInv, TypeOK, SetBestChainFails, disk, Job
<1>3. JobOK'
  BY DEF SetBestChainFails, JobOK, AtStage, Idle
<1>4. QED
  BY <1>2, <1>3 DEF TypeInv

\* One block connected on db.
LEMMA TypeInner ==
    ASSUME TypeInv, NEW b \in Block \ {Genesis}, SetBestChainInner(b)
    PROVE  /\ db' \in View
           /\ pnext' \in [Block -> Block \cup {NoBlock}]
           /\ mempool' \in Pool
<1>1. db \in View /\ pnext \in [Block -> Block \cup {NoBlock}] /\ mempool \in Pool
  BY DEF TypeInv, TypeOK
<1>2. QED
  BY <1>1, ConnectType, RemoveType DEF SetBestChainInner

\* SetBestChain up to its first change, and the reorganization of the batch.
LEMMA TypeReorganize ==
    ASSUME TypeInv,
           \/ ExtendBestChain \/ BeginReorganize \/ ReorganizeDisconnect
           \/ EndDisconnect \/ ReorganizeConnect \/ ReorganizeCommit
    PROVE  TypeInv'
<1> USE DEF TypeInv
<1>0. /\ job \in Job /\ job.target \in Block /\ job.inter \in Block
      /\ job.fork \in Block /\ job.tip \in Block /\ job.stage \in Stage
      /\ job.vResurrect \in Seq(Tx) /\ job.vDelete \in Seq(Tx)
      /\ job.caller \in Caller
  BY DEF TypeOK, Job
<1>1. CASE ExtendBestChain
  <2>1. CASE ~ ConnectOK(db, job.target, nHeight[pindexBest])
    BY <1>1, <2>1, TypeFails DEF ExtendBestChain
  <2>2. CASE ConnectOK(db, job.target, nHeight[pindexBest])
    <3>1. job.target \in Block \ {Genesis}
      BY <1>0, <1>1, TreeAssumption DEF ExtendBestChain, TypeOK
    <3>2. SetBestChainInner(job.target)
      BY <1>1, <2>2 DEF ExtendBestChain
    <3>3. /\ db' \in View /\ mempool' \in Pool
          /\ pnext' \in [Block -> Block \cup {NoBlock}]
      BY <3>1, <3>2, TypeInner
    <3>4. job' = [job EXCEPT !.stage = "newbest"]
      BY <1>1, <2>2 DEF ExtendBestChain
    <3>5. job' \in Job
      BY <1>0, <3>4 DEF Job, Stage
    <3>6. TypeOK'
      BY <1>1, <2>2, <3>3, <3>5 DEF ExtendBestChain, TypeOK
    <3>7. JobOK'
      BY <1>0, <1>1, <2>2, <3>4 DEF ExtendBestChain, JobOK, AtStage, Job
    <3>8. QED
      BY <3>6, <3>7
  <2>3. QED
    BY <2>1, <2>2
<1>2. CASE BeginReorganize
  <2> DEFINE inter == pindexIntermediate(job.target)
             fork  == ForkPoint(pindexBest, inter)
  <2>1. inter \in Branch[job.target] /\ inter \in Block /\ pindexBest \in Block
    BY <1>0, IntermediateFinds, BranchClosed DEF TypeOK
  <2>2. fork \in Branch[pindexBest] /\ fork \in Block
    BY <2>1, ForkPointFinds, BranchClosed
  <2>3. job' = [job EXCEPT !.stage = "disconnect", !.inter = inter,
                           !.fork = fork, !.tip = pindexBest]
    BY <1>2 DEF BeginReorganize
  <2>4. job' \in Job
    <3> HIDE DEF inter, fork
    <3>1. QED
      BY <1>0, <2>1, <2>2, <2>3 DEF Job, Stage
  <2>5. TypeOK'
    BY <1>2, <2>4 DEF BeginReorganize, TypeOK, disk
  <2>6. /\ job'.stage = "disconnect" /\ job'.inter = inter /\ job'.fork = fork
        /\ job'.tip = pindexBest /\ job'.target = job.target
    <3> HIDE DEF inter, fork
    <3>1. QED
      BY <1>0, <2>3 DEF Job
  <2>7. JobOK'
    <3>1. batch' \in View /\ pindexBest' = pindexBest
      BY <1>2 DEF BeginReorganize, TypeOK
    <3>2. pindexBest \in Branch[pindexBest]
      BY <2>1, BranchClosed
    <3>3. QED
      BY <2>1, <2>2, <2>6, <3>1, <3>2 DEF JobOK, AtStage
  <2>8. QED
    BY <2>5, <2>7
<1>3. CASE ReorganizeDisconnect
  <2>1. CASE ~ DisconnectOK(batch, job.tip)
    BY <1>3, <2>1, TypeFails DEF ReorganizeDisconnect
  <2>2. CASE DisconnectOK(batch, job.tip)
    <3>1. /\ batch \in View /\ job.fork \in Branch[job.tip]
          /\ job.fork # job.tip /\ job.tip \in Branch[pindexBest]
          /\ pindexBest \in Block
      BY <1>3 DEF ReorganizeDisconnect, JobOK, TypeOK
    <3>2. job.tip \in Block \ {Genesis}
      BY <1>0, <3>1, BranchGenesis
    <3>3. /\ pprev[job.tip] \in Block
          /\ job.fork \in Branch[pprev[job.tip]]
          /\ pprev[job.tip] \in Branch[pindexBest]
      BY <3>1, <3>2, BranchStep, BranchClosed, TreeAssumption DEF DownClosed
    <3>4. /\ job' = [job EXCEPT !.tip = pprev[@],
                                !.vResurrect = @ \o UserTxs(job.tip)]
          /\ batch' = Disconnect(batch, job.tip)
      BY <1>3, <2>2 DEF ReorganizeDisconnect
    <3>5. job.vResurrect \o UserTxs(job.tip) \in Seq(Tx)
      BY <1>0, FilterAssumption
    <3>6. job' \in Job
      BY <1>0, <3>3, <3>4, <3>5 DEF Job
    <3>7. batch' \in View
      BY <1>0, <3>1, <3>4, DisconnectType
    <3>8. TypeOK'
      BY <1>3, <2>2, <3>6, <3>7 DEF ReorganizeDisconnect, TypeOK, disk
    <3>9. JobOK'
      BY <1>0, <1>3, <2>2, <3>3, <3>4, <3>7
         DEF ReorganizeDisconnect, JobOK, AtStage, Job
    <3>10. QED
      BY <3>8, <3>9
  <2>3. QED
    BY <2>1, <2>2
<1>4. CASE EndDisconnect
  <2>1. job' \in Job
    BY <1>0, <1>4 DEF EndDisconnect, Job, Stage
  <2>2. TypeOK'
    BY <1>4, <2>1 DEF EndDisconnect, TypeOK, disk
  <2>3. job.fork \in Branch[job.inter]
    BY <1>0, <1>4, ForkPointFinds DEF EndDisconnect, JobOK, TypeOK
  <2>4. JobOK'
    BY <1>0, <1>4, <2>3 DEF EndDisconnect, JobOK, AtStage, Job
  <2>5. QED
    BY <2>2, <2>4
<1>5. CASE ReorganizeConnect
  <2> DEFINE c == NextOn(job.inter)
  <2>1. CASE ~ ConnectOK(batch, c, nHeight[pindexBest])
    BY <1>5, <2>1, TypeFails DEF ReorganizeConnect
  <2>2. CASE ConnectOK(batch, c, nHeight[pindexBest])
    <3>1. /\ batch \in View /\ job.tip \in Branch[job.inter]
          /\ job.tip # job.inter /\ job.fork \in Branch[job.tip]
      BY <1>5 DEF ReorganizeConnect, JobOK
    <3>2. c \in Branch[job.inter] /\ c \in Block \ {Genesis} /\ pprev[c] = job.tip
      BY <1>0, <3>1, NextOnFinds
    <3>3. job.fork \in Branch[c]
      BY <3>1, <3>2, BranchStep
    <3>4. /\ job' = [job EXCEPT !.tip = c, !.vDelete = @ \o vtx[c]]
          /\ batch' = Connect(batch, c, pnext)
      BY <1>5, <2>2 DEF ReorganizeConnect
    <3> HIDE DEF c
    <3>5. job.vDelete \o vtx[c] \in Seq(Tx)
      BY <1>0, <3>2, TxAssumption
    <3>6. job' \in Job
      BY <1>0, <3>2, <3>4, <3>5 DEF Job
    <3>7. batch' \in View
      BY <2>2, <3>1, <3>2, <3>4, ConnectType DEF TypeOK
    <3>8. /\ UNCHANGED <<disk, pnext, pindexBest, hashPendingCheckpoint,
                         hashInvalidCheckpoint, mempool, diverged, crashes>>
      BY <1>5, <2>2 DEF ReorganizeConnect, c
    <3>9. TypeOK'
      BY <3>6, <3>7, <3>8 DEF TypeOK, disk
    <3>10. JobOK'
      BY <1>0, <1>5, <3>2, <3>3, <3>4, <3>7, <3>8
         DEF ReorganizeConnect, JobOK, AtStage, Job
    <3>11. QED
      BY <3>9, <3>10
  <2>3. QED
    BY <2>1, <2>2
<1>6. CASE ReorganizeCommit
  <2>1. job' = [job EXCEPT !.stage = "resurrect"] /\ job' \in Job
    BY <1>0, <1>6 DEF ReorganizeCommit, Job, Stage
  <2>2. db' \in View
    BY <1>0, <1>6 DEF ReorganizeCommit, JobOK, View
  <2>3. pnext' \in [Block -> Block \cup {NoBlock}]
    <3>1. \A x \in Block : Branch[x] \subseteq Block
      BY BranchClosed
    <3>2. \A b : (\E c \in Branch[job.inter] \ Branch[job.fork] : pprev[c] = b)
                => (CHOOSE c \in Branch[job.inter] \ Branch[job.fork] : pprev[c] = b)
                     \in Block
      BY <1>0, <3>1
    <3>3. pnext \in [Block -> Block \cup {NoBlock}]
      BY DEF TypeOK
    <3>4. Relinked \in [Block -> Block \cup {NoBlock}]
      BY <3>2, <3>3 DEF Relinked
    <3>5. QED
      BY <1>6, <3>4 DEF ReorganizeCommit
  <2>4. TypeOK'
    BY <1>6, <2>1, <2>2, <2>3 DEF ReorganizeCommit, TypeOK
  <2>5. JobOK'
    BY <1>0, <1>6, <2>1 DEF ReorganizeCommit, JobOK, AtStage, Job
  <2>6. QED
    BY <2>4, <2>5
<1>7. QED
  BY <1>1, <1>2, <1>3, <1>4, <1>5, <1>6

\* The pool follows, the postponed blocks are connected, memory is updated.
LEMMA TypeFollow ==
    ASSUME TypeInv,
           \/ ReorganizeResurrect \/ ReorganizeDelete \/ ConnectSecondary
           \/ EndSecondary \/ NewBestBlock
    PROVE  TypeInv'
<1> USE DEF TypeInv
<1>0. /\ job \in Job /\ job.target \in Block /\ job.inter \in Block
      /\ job.fork \in Block /\ job.tip \in Block /\ job.stage \in Stage
      /\ job.vResurrect \in Seq(Tx) /\ job.vDelete \in Seq(Tx)
      /\ job.caller \in Caller /\ mempool \in Pool
  BY DEF TypeOK, Job
<1>1. CASE ReorganizeResurrect
  <2>1. CASE job.vResurrect = <<>>
    <3>1. job' = [job EXCEPT !.stage = "delete"] /\ job' \in Job
      BY <1>0, <1>1, <2>1 DEF ReorganizeResurrect, Job, Stage
    <3>2. TypeOK'
      BY <1>1, <2>1, <3>1 DEF ReorganizeResurrect, TypeOK, disk
    <3>3. JobOK'
      BY <1>0, <1>1, <3>1 DEF ReorganizeResurrect, JobOK, AtStage, Job
    <3>4. QED
      BY <3>2, <3>3
  <2>2. CASE job.vResurrect # <<>>
    <3>1. Head(job.vResurrect) \in Tx /\ Tail(job.vResurrect) \in Seq(Tx)
      BY <1>0, <2>2
    <3>2. job' = [job EXCEPT !.vResurrect = Tail(@)] /\ job' \in Job
      BY <1>0, <1>1, <2>2, <3>1 DEF ReorganizeResurrect, Job
    <3>3. mempool' \in Pool
      BY <1>0, <1>1, <2>2, <3>1, PoolType DEF ReorganizeResurrect
    <3>4. TypeOK'
      BY <1>1, <3>2, <3>3 DEF ReorganizeResurrect, TypeOK, disk
    <3>5. JobOK'
      BY <1>0, <1>1, <3>2 DEF ReorganizeResurrect, JobOK, AtStage, Job
    <3>6. QED
      BY <3>4, <3>5
  <2>3. QED
    BY <2>1, <2>2
<1>2. CASE ReorganizeDelete
  <2>1. CASE job.vDelete = <<>>
    <3>1. job' = [job EXCEPT !.stage = "secondary"] /\ job' \in Job
      BY <1>0, <1>2, <2>1 DEF ReorganizeDelete, Job, Stage
    <3>2. TypeOK'
      BY <1>2, <2>1, <3>1 DEF ReorganizeDelete, TypeOK, disk
    <3>3. JobOK'
      BY <1>0, <1>2, <3>1 DEF ReorganizeDelete, JobOK, AtStage, Job
    <3>4. QED
      BY <3>2, <3>3
  <2>2. CASE job.vDelete # <<>>
    <3>1. Head(job.vDelete) \in Tx /\ Tail(job.vDelete) \in Seq(Tx)
      BY <1>0, <2>2
    <3>2. job' = [job EXCEPT !.vDelete = Tail(@)] /\ job' \in Job
      BY <1>0, <1>2, <2>2, <3>1 DEF ReorganizeDelete, Job
    <3>3. mempool' \in Pool
      BY <1>0, <1>2, <2>2, <3>1, PoolType DEF ReorganizeDelete
    <3>4. TypeOK'
      BY <1>2, <3>2, <3>3 DEF ReorganizeDelete, TypeOK, disk
    <3>5. JobOK'
      BY <1>0, <1>2, <3>2 DEF ReorganizeDelete, JobOK, AtStage, Job
    <3>6. QED
      BY <3>4, <3>5
  <2>3. QED
    BY <2>1, <2>2
<1>3. CASE ConnectSecondary
  <2> DEFINE c == NextOn(job.target)
  <2>1. /\ c \in Branch[job.target] /\ c \in Block \ {Genesis}
    BY <1>0, <1>3, NextOnFinds DEF ConnectSecondary, JobOK
  <2>2. CASE ~ ConnectOK(db, c, nHeight[pindexBest])
    <3>1. job' = [job EXCEPT !.stage = "newbest"] /\ job' \in Job
      BY <1>0, <1>3, <2>2 DEF ConnectSecondary, Job, Stage
    <3>2. diverged' \in BOOLEAN
      BY <1>3, <2>2 DEF ConnectSecondary
    <3>3. TypeOK'
      BY <1>3, <2>2, <3>1, <3>2 DEF ConnectSecondary, TypeOK
    <3>4. JobOK'
      BY <1>0, <1>3, <3>1 DEF ConnectSecondary, JobOK, AtStage, Job
    <3>5. QED
      BY <3>3, <3>4
  <2>3. CASE ConnectOK(db, c, nHeight[pindexBest])
    <3>1. SetBestChainInner(c) /\ job' = [job EXCEPT !.tip = c]
      BY <1>3, <2>3 DEF ConnectSecondary
    <3>2. /\ db' \in View /\ mempool' \in Pool
          /\ pnext' \in [Block -> Block \cup {NoBlock}]
      BY <2>1, <3>1, TypeInner
    <3> HIDE DEF c
    <3>3. job' \in Job
      BY <1>0, <2>1, <3>1 DEF Job
    <3>4. TypeOK'
      <4>1. UNCHANGED <<diverged, mapBlockIndex, hashSyncCheckpoint, batch,
                        pindexBest, hashPendingCheckpoint,
                        hashInvalidCheckpoint, crashes>>
        BY <1>3, <2>3 DEF ConnectSecondary, c
      <4>2. QED
        BY <3>2, <3>3, <4>1 DEF TypeOK
    <3>5. JobOK'
      BY <1>0, <1>3, <2>1, <3>1 DEF ConnectSecondary, JobOK, AtStage, Job
    <3>6. QED
      BY <3>4, <3>5
  <2>4. QED
    BY <2>2, <2>3
<1>4. CASE EndSecondary
  <2>1. job' = [job EXCEPT !.stage = "newbest"] /\ job' \in Job
    BY <1>0, <1>4 DEF EndSecondary, Job, Stage
  <2>2. TypeOK'
    BY <1>4, <2>1 DEF EndSecondary, TypeOK, disk
  <2>3. JobOK'
    BY <1>0, <1>4, <2>1 DEF EndSecondary, JobOK, AtStage, Job
  <2>4. QED
    BY <2>2, <2>3
<1>5. CASE NewBestBlock
  <2>1. /\ job' = [job EXCEPT !.stage = IF job.caller = "block" THEN "pending"
                                        ELSE "writecp"]
        /\ job' \in Job
    BY <1>0, <1>5 DEF NewBestBlock, Job, Stage
  <2>2. TypeOK'
    BY <1>0, <1>5, <2>1 DEF NewBestBlock, TypeOK, disk
  <2>3. JobOK'
    BY <1>0, <1>5, <2>1 DEF NewBestBlock, JobOK, AtStage, Job, Caller
  <2>4. QED
    BY <2>2, <2>3
<1>6. QED
  BY <1>1, <1>2, <1>3, <1>4, <1>5

\* What starts a SetBestChain, what ends it, and what interrupts it.
LEMMA TypeOutside ==
    ASSUME TypeInv,
           \/ \E b \in Block : AcceptBlock(b)
           \/ AcceptPendingSyncCheckpoint
           \/ WriteSyncCheckpoint
           \/ \E c \in Checkpoints : ProcessSyncCheckpoint(c)
           \/ \E t \in Tx : AcceptToMemoryPool(t)
           \/ CrashAndLoadBlockIndex
    PROVE  TypeInv'
<1> USE DEF TypeInv
<1>0. /\ Idle \in Job /\ [Idle EXCEPT !.stage = "pending"] \in Job
      /\ \A b \in Block : SwitchTo(b) \in Job
      /\ \A b \in Block, x \in Caller : Start(b, x) \in Job
  <2>1. Idle \in Job
    BY TreeAssumption DEF Idle, Job, Stage, Caller
  <2>2. [Idle EXCEPT !.stage = "pending"] \in Job
    BY <2>1 DEF Job, Stage
  <2>3. \A b \in Block, x \in Caller : Start(b, x) \in Job
    BY <2>1 DEF Start, Job, Stage
  <2>4. \A b \in Block :
          [Idle EXCEPT !.stage = "writecp", !.caller = "checkpoint",
                       !.target = b] \in Job
    BY <2>1 DEF Job, Stage, Caller
  <2>5. \A b \in Block : SwitchTo(b) \in Job
    BY <2>3, <2>4 DEF SwitchTo, Caller
  <2>6. QED
    BY <2>1, <2>2, <2>3, <2>5
<1>1. /\ \A b \in Block : SwitchTo(b).stage \in {"writecp", "setbest"}
                          /\ SwitchTo(b).caller = "checkpoint"
      /\ \A b, x : Start(b, x).stage = "setbest"
      /\ Idle.stage = "idle"
      /\ [Idle EXCEPT !.stage = "pending"].stage = "pending"
  BY DEF SwitchTo, Start, Idle
<1>2. ASSUME NEW b \in Block, AcceptBlock(b) PROVE TypeInv'
  <2>1. job' = Start(b, "block") \/ job' = [Idle EXCEPT !.stage = "pending"]
    BY <1>2 DEF AcceptBlock
  <2>2. TypeOK'
    <3>1. job' \in Job
      BY <1>0, <2>1 DEF Caller
    <3>2. QED
      BY <1>2, <3>1 DEF AcceptBlock, TypeOK
  <2>3. JobOK'
    BY <1>1, <1>2, <2>1 DEF AcceptBlock, JobOK, AtStage
  <2>4. QED
    BY <2>2, <2>3
<1>3. CASE AcceptPendingSyncCheckpoint
  <2>1. \/ job' = Idle
        \/ hashPendingCheckpoint \in Block /\ job' = SwitchTo(hashPendingCheckpoint)
    BY <1>3 DEF AcceptPendingSyncCheckpoint, TypeOK
  <2>2. TypeOK'
    <3>1. job' \in Job
      BY <1>0, <2>1
    <3>2. QED
      BY <1>3, <3>1 DEF AcceptPendingSyncCheckpoint, TypeOK, disk
  <2>3. JobOK'
    BY <1>1, <1>3, <2>1 DEF AcceptPendingSyncCheckpoint, JobOK, AtStage
  <2>4. QED
    BY <2>2, <2>3
<1>4. CASE WriteSyncCheckpoint
  <2>1. TypeOK'
    BY <1>0, <1>4 DEF WriteSyncCheckpoint, TypeOK, Job
  <2>2. JobOK'
    BY <1>1, <1>4 DEF WriteSyncCheckpoint, JobOK, AtStage
  <2>3. QED
    BY <2>1, <2>2
<1>5. ASSUME NEW c \in Checkpoints, ProcessSyncCheckpoint(c) PROVE TypeInv'
  <2>0. c \in Block
    BY BoundAssumption
  <2>1. job' = job \/ job' = SwitchTo(c)
    BY <1>5 DEF ProcessSyncCheckpoint
  <2>2. TypeOK'
    <3>1. job' \in Job
      BY <1>0, <2>0, <2>1 DEF TypeOK
    <3>2. QED
      BY <1>5, <2>0, <3>1 DEF ProcessSyncCheckpoint, TypeOK, disk
  <2>3. JobOK'
    BY <1>1, <1>5, <2>0, <2>1 DEF ProcessSyncCheckpoint, JobOK, AtStage
  <2>4. QED
    BY <2>2, <2>3
<1>6. ASSUME NEW t \in Tx, AcceptToMemoryPool(t) PROVE TypeInv'
  <2>1. mempool' \in Pool
    BY <1>6, PoolType DEF AcceptToMemoryPool, TypeOK
  <2>2. TypeOK'
    BY <1>6, <2>1 DEF AcceptToMemoryPool, TypeOK, disk
  <2>3. JobOK'
    BY <1>6 DEF AcceptToMemoryPool, JobOK, AtStage
  <2>4. QED
    BY <2>2, <2>3
<1>7. CASE CrashAndLoadBlockIndex
  <2>1. /\ db.next \in [Block -> Block \cup {NoBlock}] /\ db.best \in Block
        /\ crashes' \in 0..MaxCrash /\ EmptyPool \in Pool
    <3>1. db.next \in [Block -> Block \cup {NoBlock}] /\ db.best \in Block
      BY DEF TypeOK, View
    <3>2. crashes' \in 0..MaxCrash
      BY <1>7, BoundAssumption DEF CrashAndLoadBlockIndex, TypeOK
    <3>3. EmptyPool \in Pool
      BY DEF EmptyPool, Pool
    <3>4. QED
      BY <3>1, <3>2, <3>3
  <2>2. TypeOK'
    BY <1>0, <1>7, <2>1 DEF CrashAndLoadBlockIndex, TypeOK, disk
  <2>3. JobOK'
    BY <1>1, <1>7 DEF CrashAndLoadBlockIndex, JobOK, AtStage
  <2>4. QED
    BY <2>2, <2>3
<1>8. QED
  BY <1>2, <1>3, <1>4, <1>5, <1>6, <1>7

\* Every step keeps the type invariant.
LEMMA TypeStep == TypeInv /\ [Next]_vars => TypeInv'
<1> SUFFICES ASSUME TypeInv, [Next]_vars PROVE TypeInv'
  OBVIOUS
<1>1. CASE Next
  BY <1>1, TypeReorganize, TypeFollow, TypeOutside DEF Next, SetBestChainStep
<1>2. CASE UNCHANGED vars
  BY <1>2 DEF TypeInv, TypeOK, JobOK, AtStage, vars, disk, memory
<1>3. QED
  BY <1>1, <1>2

(* The types of all variables, and the facts about the running job they     *)
(* rest on, hold in every reachable state of every tree of blocks.         *)
THEOREM TypeInvariant == Spec => []TypeInv
<1>1. Init => TypeInv
  BY TypeInit
<1>2. TypeInv /\ [Next]_vars => TypeInv'
  BY TypeStep
<1>3. QED
  BY <1>1, <1>2, PTL DEF Spec

(* Every variable of the node keeps its type, through failures and crashes. *)
THEOREM TypeCorrect == Spec => []TypeOK
<1>1. TypeInv => TypeOK
  BY DEF TypeInv
<1>2. QED
  BY <1>1, TypeInvariant, PTL

-----------------------------------------------------------------------------
(* The memory pool.                                                         *)

\* PoolLinked, of any pool.
LinksOK(pool) ==
    \A o \in Outpoint : \A t \in Tx :
        pool.mapNextTx[o] = t <=> t \in pool.mapTx /\ o \in vin[t]

(* Adding a transaction keeps the two maps inverse, as long as no input of  *)
(* it is spent in the pool already.                                        *)
LEMMA AddKeepsLinks ==
    ASSUME NEW pool \in Pool, NEW t \in Tx, LinksOK(pool), ~ HasConflict(pool, t)
    PROVE  LinksOK(addUnchecked(pool, t))
<1>1. \A o \in vin[t] : o \in Outpoint /\ pool.mapNextTx[o] = NoTx
  BY TxAssumption DEF HasConflict
<1>2. \A o \in Outpoint, u \in Tx : o \in vin[t] => ~ (u \in pool.mapTx /\ o \in vin[u])
  <2> SUFFICES ASSUME NEW o \in Outpoint, NEW u \in Tx, o \in vin[t],
                      u \in pool.mapTx, o \in vin[u]
               PROVE  FALSE
    OBVIOUS
  <2>1. pool.mapNextTx[o] = u
    BY DEF LinksOK
  <2>2. pool.mapNextTx[o] = NoTx
    BY <1>1
  <2>3. QED
    BY <2>1, <2>2, TxAssumption
<1>3. QED
  BY <1>1, <1>2 DEF LinksOK, addUnchecked

(* Removing any set of transactions keeps them inverse: the links that go   *)
(* are those of transactions that go.                                      *)
LEMMA RemoveKeepsLinks ==
    ASSUME NEW pool \in Pool, NEW S, LinksOK(pool)
    PROVE  LinksOK(Remove(pool, S))
<1> SUFFICES ASSUME NEW o \in Outpoint, NEW t \in Tx
             PROVE  Remove(pool, S).mapNextTx[o] = t
                      <=> t \in Remove(pool, S).mapTx /\ o \in vin[t]
  BY DEF LinksOK
<1>1. Remove(pool, S).mapTx = pool.mapTx \ S
  BY DEF Remove
<1>2. CASE \E u \in S \cap pool.mapTx : o \in vin[u]
  <2>1. PICK u \in S \cap pool.mapTx : o \in vin[u]
    BY <1>2
  <2>2. u \in Tx /\ pool.mapNextTx[o] = u
    BY <2>1 DEF LinksOK, Pool
  <2>3. Remove(pool, S).mapNextTx[o] = NoTx
    BY <1>2 DEF Remove
  <2>4. t \in pool.mapTx /\ o \in vin[t] => t = u
    BY <2>2 DEF LinksOK
  <2>5. QED
    BY <1>1, <2>1, <2>3, <2>4, TxAssumption
<1>3. CASE ~ \E u \in S \cap pool.mapTx : o \in vin[u]
  <2>1. Remove(pool, S).mapNextTx[o] = pool.mapNextTx[o]
    BY <1>3 DEF Remove
  <2>2. QED
    BY <1>1, <1>3, <2>1 DEF LinksOK
<1>4. QED
  BY <1>2, <1>3

\* Every step leaves mapNextTx the inverse of the inputs in mapTx.
LEMMA PoolStep == TypeInv /\ PoolLinked /\ [Next]_vars => PoolLinked'
<1> SUFFICES ASSUME TypeInv, PoolLinked, [Next]_vars PROVE PoolLinked'
  OBVIOUS
<1>0. /\ mempool \in Pool /\ LinksOK(mempool)
      /\ job.vResurrect \in Seq(Tx) /\ job.vDelete \in Seq(Tx)
  BY DEF TypeInv, TypeOK, Job, PoolLinked, LinksOK
<1>1. LinksOK(mempool')
  <2>1. CASE UNCHANGED mempool
    BY <1>0, <2>1
  <2>2. ASSUME NEW b, SetBestChainInner(b) PROVE LinksOK(mempool')
    BY <1>0, <2>2, RemoveKeepsLinks DEF SetBestChainInner
  <2>3. CASE ReorganizeResurrect /\ job.vResurrect # <<>>
    <3>1. Head(job.vResurrect) \in Tx
      BY <1>0, <2>3
    <3>2. QED
      BY <1>0, <2>3, <3>1, AddKeepsLinks DEF ReorganizeResurrect, AcceptUncheckedOK
  <2>4. CASE ReorganizeDelete /\ job.vDelete # <<>>
    <3>1. mempool' = DeleteFromPool(mempool, Head(job.vDelete))
      BY <2>4 DEF ReorganizeDelete
    <3>2. Remove(mempool, {Head(job.vDelete)}) \in Pool
      BY <1>0, RemoveType
    <3>3. LinksOK(Remove(mempool, {Head(job.vDelete)}))
      BY <1>0, RemoveKeepsLinks
    <3>4. QED
      BY <3>1, <3>2, <3>3, RemoveKeepsLinks DEF DeleteFromPool, removeConflicts
  <2>5. ASSUME NEW t \in Tx, AcceptToMemoryPool(t) PROVE LinksOK(mempool')
    BY <1>0, <2>5, AddKeepsLinks DEF AcceptToMemoryPool, AcceptOK, AcceptUncheckedOK
  <2>6. CASE CrashAndLoadBlockIndex
    <3>1. LinksOK(EmptyPool)
      BY TxAssumption DEF LinksOK, EmptyPool
    <3>2. QED
      BY <2>6, <3>1 DEF CrashAndLoadBlockIndex
  <2>7. CASE Next
    <3>1. CASE \E b \in Block : AcceptBlock(b)
      BY <2>1, <3>1 DEF AcceptBlock
    <3>2. CASE ExtendBestChain
      BY <2>1, <2>2, <3>2 DEF ExtendBestChain, SetBestChainFails
    <3>3. CASE BeginReorganize \/ EndDisconnect \/ ReorganizeCommit
      BY <2>1, <3>3 DEF BeginReorganize, EndDisconnect, ReorganizeCommit
    <3>4. CASE ReorganizeDisconnect \/ ReorganizeConnect
      BY <2>1, <3>4 DEF ReorganizeDisconnect, ReorganizeConnect, SetBestChainFails
    <3>5. CASE ReorganizeResurrect
      BY <2>1, <2>3, <3>5 DEF ReorganizeResurrect
    <3>6. CASE ReorganizeDelete
      BY <2>1, <2>4, <3>6 DEF ReorganizeDelete
    <3>7. CASE ConnectSecondary
      BY <2>1, <2>2, <3>7 DEF ConnectSecondary
    <3>8. CASE EndSecondary \/ NewBestBlock
      BY <2>1, <3>8 DEF EndSecondary, NewBestBlock
    <3>9. CASE AcceptPendingSyncCheckpoint \/ WriteSyncCheckpoint
      BY <2>1, <3>9 DEF AcceptPendingSyncCheckpoint, WriteSyncCheckpoint
    <3>10. CASE \E c \in Checkpoints : ProcessSyncCheckpoint(c)
      BY <2>1, <3>10 DEF ProcessSyncCheckpoint
    <3>11. QED
      BY <2>5, <2>6, <2>7, <3>1, <3>2, <3>3, <3>4, <3>5, <3>6, <3>7, <3>8,
         <3>9, <3>10 DEF Next, SetBestChainStep
  <2>8. QED
    BY <2>1, <2>7 DEF vars, memory
<1>2. QED
  BY <1>1 DEF PoolLinked, LinksOK

(* mapNextTx stays the exact inverse of the inputs of mapTx through every   *)
(* acceptance, confirmation, resurrection and eviction: no two pool        *)
(* transactions ever spend one output.                                     *)
THEOREM PoolAlwaysLinked == Spec => []PoolLinked
<1>1. Init => TypeInv /\ PoolLinked
  <2>1. Init => PoolLinked
    BY TxAssumption DEF Init, PoolLinked, EmptyPool
  <2>2. QED
    BY <2>1, TypeInit
<1>2. TypeInv /\ PoolLinked /\ [Next]_vars => TypeInv' /\ PoolLinked'
  BY TypeStep, PoolStep
<1>3. QED
  BY <1>1, <1>2, PTL DEF Spec

-----------------------------------------------------------------------------
(* No transaction is both confirmed and waiting in the memory pool: what     *)
(* Reorganize puts back from the old branch it takes out again if the new    *)
(* branch has it too.  Proved for every tree of blocks, diverged or not.     *)

Elems(s) == {s[i] : i \in DOMAIN s}

(* Up to the commit of a reorganization the pool and the database share     *)
(* nothing.  On the way, whatever is in the pool or will be resurrected is *)
(* unconfirmed once its blocks are disconnected, and if a connected block  *)
(* confirms it, it is to be deleted.                                       *)
PoolInv ==
    /\ AtStage("setbest") => job.vResurrect = <<>>
    /\ job.stage \notin {"resurrect", "delete"} =>
          \A t \in mempool.mapTx : ~ Indexed(db, t)
    /\ AtStage("disconnect") =>
          \A t \in mempool.mapTx \cup Elems(job.vResurrect) : ~ Indexed(batch, t)
    /\ AtStage("connect") =>
          \A t \in mempool.mapTx \cup Elems(job.vResurrect) :
              Indexed(batch, t) => t \in Elems(job.vDelete)
    /\ AtStage("resurrect") =>
          \A t \in mempool.mapTx \cup Elems(job.vResurrect) :
              Indexed(db, t) => t \in Elems(job.vDelete)
    /\ AtStage("delete") =>
          \A t \in mempool.mapTx : Indexed(db, t) => t \in Elems(job.vDelete)

\* What a list holds: of two lists one after the other,
LEMMA ElemsConcat ==
    ASSUME NEW s \in Seq(Tx), NEW u \in Seq(Tx)
    PROVE  Elems(s \o u) = Elems(s) \cup Elems(u)
<1>1. Elems(s \o u) \subseteq Elems(s) \cup Elems(u)
  <2> SUFFICES ASSUME NEW i \in DOMAIN (s \o u)
               PROVE  (s \o u)[i] \in Elems(s) \cup Elems(u)
    BY DEF Elems
  <2>1. CASE i <= Len(s)
    BY <2>1 DEF Elems
  <2>2. CASE i > Len(s)
    <3>1. (s \o u)[i] = u[i - Len(s)] /\ i - Len(s) \in DOMAIN u
      BY <2>2
    <3>2. QED
      BY <3>1 DEF Elems
  <2>3. QED
    BY <2>1, <2>2
<1>2. \A i \in DOMAIN s : i \in DOMAIN (s \o u) /\ (s \o u)[i] = s[i]
  OBVIOUS
<1>3. \A i \in DOMAIN u : i + Len(s) \in DOMAIN (s \o u) /\ (s \o u)[i + Len(s)] = u[i]
  OBVIOUS
<1>4. Elems(s) \subseteq Elems(s \o u)
  BY <1>2 DEF Elems
<1>5. Elems(u) \subseteq Elems(s \o u)
  BY <1>3 DEF Elems
<1>6. QED
  BY <1>1, <1>4, <1>5

\* of a list without its first entry,
LEMMA ElemsTail ==
    ASSUME NEW s \in Seq(Tx), s # <<>>
    PROVE  Elems(s) = {Head(s)} \cup Elems(Tail(s))
<1>1. \A i \in DOMAIN Tail(s) : i + 1 \in DOMAIN s /\ Tail(s)[i] = s[i + 1]
  OBVIOUS
<1>2. \A i \in DOMAIN s : i = 1 \/ (i - 1 \in DOMAIN Tail(s) /\ Tail(s)[i - 1] = s[i])
  OBVIOUS
<1>3. Head(s) = s[1] /\ 1 \in DOMAIN s
  OBVIOUS
<1>4. QED
  BY <1>1, <1>2, <1>3 DEF Elems

\* and of an empty one.
LEMMA ElemsEmpty == Elems(<<>>) = {}
BY DEF Elems

\* What a connected or a disconnected block changes of what is indexed.
LEMMA ConnectIndexed ==
    ASSUME NEW v \in View, NEW b \in Block, NEW nexts, NEW t \in Tx
    PROVE  /\ Indexed(Connect(v, b, nexts), t) <=> t \in TxSet(b) \/ Indexed(v, t)
           /\ Indexed([Connect(v, b, nexts) EXCEPT !.best = b], t)
                <=> t \in TxSet(b) \/ Indexed(v, t)
<1>1. /\ Connect(v, b, nexts).pos[t] = IF t \in TxSet(b) THEN b ELSE v.pos[t]
      /\ [Connect(v, b, nexts) EXCEPT !.best = b].pos[t]
            = IF t \in TxSet(b) THEN b ELSE v.pos[t]
  BY DEF Connect, View
<1>2. QED
  BY <1>1, TreeAssumption DEF Indexed

\* DisconnectBlock takes its transactions out of the index.
LEMMA DisconnectIndexed ==
    ASSUME NEW v \in View, NEW b \in Block, NEW t \in Tx
    PROVE  Indexed(Disconnect(v, b), t) <=> t \notin TxSet(b) /\ Indexed(v, t)
<1>1. Disconnect(v, b).pos[t] = IF t \in TxSet(b) THEN NoBlock ELSE v.pos[t]
  BY DEF Disconnect, View
<1>2. QED
  BY <1>1 DEF Indexed

\* Nothing enters the pool by an erasure.
LEMMA PoolShrinks ==
    ASSUME NEW pool, NEW t
    PROVE  /\ \A S : Remove(pool, S).mapTx = pool.mapTx \ S
           /\ DeleteFromPool(pool, t).mapTx \subseteq pool.mapTx \ {t}
BY DEF Remove, DeleteFromPool, removeConflicts
-----------------------------------------------------------------------------
\* At the first start nothing is in the pool.
LEMMA PoolInvInit == Init => PoolInv
BY DEF Init, PoolInv, Idle, AtStage, EmptyPool

\* A job that starts, or ends, with the database and the pool as they were.
LEMMA PoolRests ==
    ASSUME PoolInv, job.stage \notin {"resurrect", "delete"},
           UNCHANGED <<db, mempool>>,
           job'.stage \notin {"disconnect", "connect", "resurrect", "delete"},
           job'.stage = "setbest" => job'.vResurrect = <<>>
    PROVE  PoolInv'
BY DEF PoolInv, AtStage

\* SetBestChainInner drops from the pool what it indexes.
LEMMA PoolInner ==
    ASSUME TypeInv, PoolInv, NEW b \in Block, SetBestChainInner(b),
           job.stage \notin {"resurrect", "delete"},
           job'.stage \in {"newbest", "secondary"}
    PROVE  PoolInv'
<1>1. /\ db \in View
      /\ db' = [Connect(db, b, pnext) EXCEPT !.best = b]
      /\ mempool'.mapTx = mempool.mapTx \ TxSet(b)
      /\ mempool.mapTx \subseteq Tx
  BY PoolShrinks DEF SetBestChainInner, TypeInv, TypeOK, Pool
<1>2. \A t \in mempool'.mapTx : ~ Indexed(db', t)
  BY <1>1, ConnectIndexed DEF PoolInv
<1>3. QED
  BY <1>2 DEF PoolInv, AtStage

\* Within the batch.
LEMMA PoolBatch ==
    ASSUME TypeInv, PoolInv,
           \/ BeginReorganize \/ ReorganizeDisconnect \/ EndDisconnect
           \/ ReorganizeConnect \/ ReorganizeCommit
    PROVE  PoolInv'
<1>0. /\ TypeOK /\ JobOK /\ job \in Job /\ job.tip \in Block /\ job.inter \in Block
      /\ job.vResurrect \in Seq(Tx) /\ job.vDelete \in Seq(Tx)
      /\ mempool.mapTx \subseteq Tx
      /\ Elems(job.vResurrect) \subseteq Tx
  BY DEF TypeInv, TypeOK, Job, Pool, Elems
<1>1. ASSUME SetBestChainFails, job.stage \notin {"resurrect", "delete"}
      PROVE  PoolInv'
  BY <1>1, PoolRests DEF SetBestChainFails, Idle, disk
<1>2. CASE BeginReorganize
  <2>1. /\ batch' = db /\ UNCHANGED <<db, mempool>> /\ AtStage("setbest")
        /\ job'.stage = "disconnect" /\ job'.vResurrect = job.vResurrect
    BY <1>0, <1>2 DEF BeginReorganize, Job, disk
  <2>2. Elems(job'.vResurrect) = {}
    BY <2>1, ElemsEmpty DEF PoolInv
  <2>3. QED
    BY <2>1, <2>2 DEF PoolInv, AtStage
<1>3. CASE ReorganizeDisconnect
  <2> DEFINE b == job.tip
  <2>1. CASE DisconnectOK(batch, b)
    <3>1. /\ AtStage("disconnect") /\ batch \in View
          /\ batch' = Disconnect(batch, b) /\ UNCHANGED <<db, mempool>>
          /\ job' = [job EXCEPT !.tip = pprev[@],
                                !.vResurrect = @ \o UserTxs(b)]
      BY <1>0, <1>3, <2>1 DEF ReorganizeDisconnect, JobOK, disk
    <3>2. job'.stage = "disconnect" /\ job'.vResurrect = job.vResurrect \o UserTxs(b)
      BY <1>0, <3>1 DEF Job, AtStage
    <3>3. /\ Elems(UserTxs(b)) \subseteq TxSet(b)
          /\ Elems(job'.vResurrect) = Elems(job.vResurrect) \cup Elems(UserTxs(b))
      <4>1. Elems(UserTxs(b)) \subseteq TxSet(b)
        BY <1>0, FilterAssumption DEF Elems
      <4>2. Elems(job'.vResurrect) = Elems(job.vResurrect) \cup Elems(UserTxs(b))
        BY <1>0, <3>2, ElemsConcat, FilterAssumption
      <4>3. QED
        BY <4>1, <4>2
    <3>4. /\ \A t \in mempool.mapTx \cup Elems(job.vResurrect) : ~ Indexed(batch, t)
          /\ \A t \in mempool.mapTx : ~ Indexed(db, t)
          /\ TxSet(b) \subseteq Tx
      BY <1>0, <3>1, TxAssumption DEF PoolInv, AtStage, TxSet
    <3>5. \A t \in Tx : Indexed(batch', t) <=> t \notin TxSet(b) /\ Indexed(batch, t)
      BY <1>0, <3>1, DisconnectIndexed
    <3>6. \A t \in mempool.mapTx \cup Elems(job'.vResurrect) : ~ Indexed(batch', t)
      BY <1>0, <3>3, <3>4, <3>5
    <3>7. QED
      BY <3>1, <3>2, <3>4, <3>6 DEF PoolInv, AtStage
  <2>2. CASE ~ DisconnectOK(batch, b)
    BY <1>1, <1>3, <2>2 DEF ReorganizeDisconnect, AtStage
  <2>3. QED
    BY <2>1, <2>2
<1>4. CASE EndDisconnect
  <2>1. /\ AtStage("disconnect") /\ UNCHANGED <<db, batch, mempool>>
        /\ job'.stage = "connect" /\ job'.vResurrect = job.vResurrect
    BY <1>0, <1>4 DEF EndDisconnect, Job, disk
  <2>2. QED
    BY <2>1 DEF PoolInv, AtStage
<1>5. CASE ReorganizeConnect
  <2> DEFINE c == NextOn(job.inter)
  <2>1. CASE ConnectOK(batch, c, nHeight[pindexBest])
    <3>1. /\ AtStage("connect") /\ batch \in View
          /\ job.tip \in Branch[job.inter] /\ job.tip # job.inter
          /\ batch' = Connect(batch, c, pnext) /\ UNCHANGED <<db, mempool>>
          /\ job' = [job EXCEPT !.tip = c, !.vDelete = @ \o vtx[c]]
      BY <1>0, <1>5, <2>1 DEF ReorganizeConnect, JobOK, disk
    <3>2. c \in Block /\ vtx[c] \in Seq(Tx)
      BY <1>0, <3>1, NextOnFinds, TxAssumption
    <3> HIDE DEF c
    <3>3. /\ job'.stage = "connect" /\ job'.vResurrect = job.vResurrect
          /\ job'.vDelete = job.vDelete \o vtx[c]
      BY <1>0, <3>1 DEF Job, AtStage
    <3>4. Elems(job'.vDelete) = Elems(job.vDelete) \cup TxSet(c)
      <4>1. Elems(vtx[c]) = TxSet(c)
        BY DEF Elems, TxSet
      <4>2. QED
        BY <1>0, <3>2, <3>3, <4>1, ElemsConcat
    <3>5. /\ \A t \in mempool.mapTx \cup Elems(job.vResurrect) :
                Indexed(batch, t) => t \in Elems(job.vDelete)
          /\ \A t \in mempool.mapTx : ~ Indexed(db, t)
      BY <3>1 DEF PoolInv, AtStage
    <3>6. \A t \in Tx : Indexed(batch', t) <=> t \in TxSet(c) \/ Indexed(batch, t)
      BY <3>1, <3>2, ConnectIndexed
    <3>7. \A t \in mempool.mapTx \cup Elems(job.vResurrect) :
             Indexed(batch', t) => t \in Elems(job'.vDelete)
      BY <1>0, <3>4, <3>5, <3>6
    <3>8. QED
      BY <3>1, <3>3, <3>5, <3>7 DEF PoolInv, AtStage
  <2>2. CASE ~ ConnectOK(batch, c, nHeight[pindexBest])
    BY <1>1, <1>5, <2>2 DEF ReorganizeConnect, AtStage
  <2>3. QED
    BY <2>1, <2>2
<1>6. CASE ReorganizeCommit
  <2>1. /\ AtStage("connect") /\ batch \in View /\ UNCHANGED mempool
        /\ db' = [batch EXCEPT !.best = job.inter]
        /\ job'.stage = "resurrect" /\ job'.vResurrect = job.vResurrect
        /\ job'.vDelete = job.vDelete
    BY <1>0, <1>6 DEF ReorganizeCommit, JobOK, Job
  <2>2. \A t : Indexed(db', t) <=> Indexed(batch, t)
    BY <2>1 DEF Indexed, View
  <2>3. QED
    BY <2>1, <2>2 DEF PoolInv, AtStage
<1>7. QED
  BY <1>2, <1>3, <1>4, <1>5, <1>6

\* After the commit: put back, then take out.
LEMMA PoolFollow ==
    ASSUME TypeInv, PoolInv, ReorganizeResurrect \/ ReorganizeDelete
    PROVE  PoolInv'
<1>0. /\ TypeOK /\ job \in Job /\ UNCHANGED db
      /\ job.vResurrect \in Seq(Tx) /\ job.vDelete \in Seq(Tx)
  BY DEF TypeInv, TypeOK, Job, ReorganizeResurrect, ReorganizeDelete, disk
<1>1. CASE ReorganizeResurrect
  <2> DEFINE t == Head(job.vResurrect)
  <2>1. AtStage("resurrect")
    BY <1>1 DEF ReorganizeResurrect
  <2>2. CASE job.vResurrect = <<>>
    <3>1. job'.stage = "delete" /\ job'.vDelete = job.vDelete /\ UNCHANGED mempool
      BY <1>0, <1>1, <2>2 DEF ReorganizeResurrect, Job
    <3>2. QED
      BY <1>0, <2>1, <3>1 DEF PoolInv, AtStage
  <2>3. CASE job.vResurrect # <<>>
    <3>1. /\ job'.stage = "resurrect" /\ job'.vDelete = job.vDelete
          /\ job'.vResurrect = Tail(job.vResurrect)
      BY <1>0, <1>1, <2>1, <2>3 DEF ReorganizeResurrect, Job, AtStage
    <3>2. mempool'.mapTx \subseteq mempool.mapTx \cup {t}
      BY <1>1, <2>3 DEF ReorganizeResurrect, addUnchecked
    <3>3. Elems(job.vResurrect) = {t} \cup Elems(Tail(job.vResurrect))
      BY <1>0, <2>3, ElemsTail
    <3>4. mempool'.mapTx \cup Elems(job'.vResurrect)
            \subseteq mempool.mapTx \cup Elems(job.vResurrect)
      BY <3>1, <3>2, <3>3
    <3>5. QED
      BY <1>0, <2>1, <3>1, <3>4 DEF PoolInv, AtStage
  <2>4. QED
    BY <2>2, <2>3
<1>2. CASE ReorganizeDelete
  <2> DEFINE t == Head(job.vDelete)
  <2>1. AtStage("delete")
    BY <1>2 DEF ReorganizeDelete
  <2>2. CASE job.vDelete = <<>>
    <3>1. job'.stage = "secondary" /\ UNCHANGED mempool
      BY <1>0, <1>2, <2>2 DEF ReorganizeDelete, Job
    <3>2. Elems(job.vDelete) = {}
      BY <2>2, ElemsEmpty
    <3>3. QED
      BY <1>0, <2>1, <3>1, <3>2 DEF PoolInv, AtStage
  <2>3. CASE job.vDelete # <<>>
    <3>1. /\ job'.stage = "delete" /\ job'.vDelete = Tail(job.vDelete)
          /\ mempool' = DeleteFromPool(mempool, t)
      BY <1>0, <1>2, <2>1, <2>3 DEF ReorganizeDelete, Job, AtStage
    <3>2. mempool'.mapTx \subseteq mempool.mapTx \ {t}
      BY <3>1, PoolShrinks
    <3>3. Elems(job.vDelete) = {t} \cup Elems(job'.vDelete)
      BY <1>0, <2>3, <3>1, ElemsTail
    <3>4. QED
      BY <1>0, <2>1, <3>1, <3>2, <3>3 DEF PoolInv, AtStage
  <2>4. QED
    BY <2>2, <2>3
<1>3. QED
  BY <1>1, <1>2

\* Every step keeps pool and database disjoint in this sense.
LEMMA PoolInvStep == TypeInv /\ PoolInv /\ [Next]_vars => PoolInv'
<1> SUFFICES ASSUME TypeInv, PoolInv, [Next]_vars PROVE PoolInv'
  OBVIOUS
<1>0. /\ TypeOK /\ JobOK /\ job \in Job /\ job.target \in Block
  BY DEF TypeInv, TypeOK, Job
<1>1. /\ Idle.stage = "idle" /\ [Idle EXCEPT !.stage = "pending"].stage = "pending"
      /\ \A x : SwitchTo(x).stage \in {"writecp", "setbest"}
                /\ SwitchTo(x).vResurrect = <<>>
      /\ \A x, y : Start(x, y).stage = "setbest" /\ Start(x, y).vResurrect = <<>>
  BY DEF Idle, SwitchTo, Start
<1>2. CASE ExtendBestChain
  <2>1. CASE ConnectOK(db, job.target, nHeight[pindexBest])
    <3>1. /\ SetBestChainInner(job.target) /\ AtStage("setbest")
          /\ job'.stage = "newbest"
      BY <1>0, <1>2, <2>1 DEF ExtendBestChain, Job
    <3>2. QED
      BY <1>0, <3>1, PoolInner DEF AtStage
  <2>2. CASE ~ ConnectOK(db, job.target, nHeight[pindexBest])
    BY <1>1, <1>2, <2>2, PoolRests DEF ExtendBestChain, SetBestChainFails, AtStage, disk
  <2>3. QED
    BY <2>1, <2>2
<1>3. CASE ConnectSecondary
  <2> DEFINE c == NextOn(job.target)
  <2>1. CASE ConnectOK(db, c, nHeight[pindexBest])
    <3>1. /\ SetBestChainInner(c) /\ AtStage("secondary")
          /\ job.tip \in Branch[job.target] /\ job.tip # job.target
          /\ job'.stage = "secondary"
      BY <1>0, <1>3, <2>1 DEF ConnectSecondary, JobOK, AtStage, Job
    <3>2. c \in Block
      BY <1>0, <3>1, NextOnFinds
    <3>3. QED
      BY <3>1, <3>2, PoolInner DEF AtStage
  <2>2. CASE ~ ConnectOK(db, c, nHeight[pindexBest])
    <3>1. /\ AtStage("secondary") /\ UNCHANGED <<db, mempool>>
          /\ job'.stage = "newbest"
      BY <1>0, <1>3, <2>2 DEF ConnectSecondary, Job
    <3>2. QED
      BY <3>1, PoolRests DEF AtStage
  <2>3. QED
    BY <2>1, <2>2
<1>4. CASE EndSecondary \/ NewBestBlock
  <2>1. /\ AtStage("secondary") \/ AtStage("newbest")
        /\ UNCHANGED <<db, mempool>>
        /\ job'.stage \in {"newbest", "pending", "writecp"}
    BY <1>0, <1>4 DEF EndSecondary, NewBestBlock, Job, disk
  <2>2. QED
    BY <2>1, PoolRests DEF AtStage
<1>5. CASE \E b \in Block : AcceptBlock(b)
  BY <1>1, <1>5, PoolRests DEF AcceptBlock, AtStage
<1>6. CASE AcceptPendingSyncCheckpoint \/ WriteSyncCheckpoint
  BY <1>1, <1>6, PoolRests
     DEF AcceptPendingSyncCheckpoint, WriteSyncCheckpoint, AtStage, disk
<1>7. ASSUME NEW c \in Checkpoints, ProcessSyncCheckpoint(c) PROVE PoolInv'
  <2>1. /\ AtStage("idle") /\ UNCHANGED <<db, mempool>>
        /\ job' = job \/ job' = SwitchTo(c)
    BY <1>7 DEF ProcessSyncCheckpoint, disk
  <2>2. QED
    BY <1>1, <2>1, PoolRests DEF AtStage
<1>8. ASSUME NEW t \in Tx, AcceptToMemoryPool(t) PROVE PoolInv'
  <2>1. /\ AtStage("idle") /\ ~ Indexed(db, t) /\ UNCHANGED <<db, job>>
        /\ mempool'.mapTx = mempool.mapTx \cup {t}
    BY <1>8 DEF AcceptToMemoryPool, AcceptOK, addUnchecked, disk
  <2>2. QED
    BY <2>1 DEF PoolInv, AtStage
<1>9. CASE CrashAndLoadBlockIndex
  <2>1. job'.stage = "idle" /\ mempool'.mapTx = {}
    BY <1>1, <1>9 DEF CrashAndLoadBlockIndex, EmptyPool
  <2>2. QED
    BY <2>1 DEF PoolInv, AtStage
<1>10. CASE UNCHANGED vars
  BY <1>10 DEF PoolInv, AtStage, vars, disk, memory
<1>11. QED
  BY <1>2, <1>3, <1>4, <1>5, <1>6, <1>7, <1>8, <1>9, <1>10, PoolBatch, PoolFollow
     DEF Next, SetBestChainStep

(* A transaction is never both confirmed and in the pool once a call is     *)
(* over: what a reorganization resurrects and the new branch confirms is   *)
(* deleted again.                                                          *)
THEOREM PoolDisjoint == Spec => []PoolDisjointFromChain
<1>1. Init => TypeInv /\ PoolInv
  BY TypeInit, PoolInvInit
<1>2. TypeInv /\ PoolInv /\ [Next]_vars => TypeInv' /\ PoolInv'
  BY TypeStep, PoolInvStep
<1>3. PoolInv => PoolDisjointFromChain
  BY DEF PoolInv, PoolDisjointFromChain, AtStage
<1>4. QED
  BY <1>1, <1>2, <1>3, PTL DEF Spec

(* The pool's two maps agree and hold nothing the chain has confirmed.      *)
THEOREM PoolIsConsistent == Spec => []PoolConsistent
<1>1. PoolLinked /\ PoolDisjointFromChain => PoolConsistent
  BY DEF PoolConsistent
<1>2. QED
  BY <1>1, PoolAlwaysLinked, PoolDisjoint, PTL

-----------------------------------------------------------------------------
(* Pointers that trace a branch                                             *)

Pointers == [Block -> Block \cup {NoBlock}]

\* A block that is not below the tip has no next block.
LEMMA LinkedAbove ==
    ASSUME NEW next \in Pointers, NEW tip \in Block, Linked(next, tip),
           NEW c \in Block, c \notin Branch[tip] \/ c = tip
    PROVE  next[c] = NoBlock
<1> SUFFICES ASSUME next[c] # NoBlock PROVE FALSE
  OBVIOUS
<1>1. next[c] \in Block
  BY DEF Pointers
<1>2. pprev[next[c]] = c /\ next[c] \in Branch[tip]
  BY <1>1 DEF Linked
<1>3. next[c] \in Block \ {Genesis}
  BY <1>1, <1>2, TreeAssumption
<1>4. c \in Branch[tip]
  BY <1>2, <1>3, BranchClosed, TreeAssumption DEF DownClosed
<1>5. nHeight[next[c]] = nHeight[c] + 1 /\ nHeight[next[c]] <= nHeight[tip]
  BY <1>2, <1>3, BranchHeight, TreeAssumption
<1>6. QED
  BY <1>4, <1>5, TreeAssumption

\* A branch is traced by one set of pointers only.
LEMMA LinkedUnique ==
    ASSUME NEW m \in Pointers, NEW n \in Pointers, NEW tip \in Block,
           Linked(m, tip), Linked(n, tip)
    PROVE  m = n
<1>1. ASSUME NEW b \in Block PROVE m[b] = n[b]
  <2>1. CASE m[b] \in Block
    BY <2>1 DEF Linked
  <2>2. CASE n[b] \in Block
    BY <2>2 DEF Linked
  <2>3. CASE m[b] = NoBlock /\ n[b] = NoBlock
    BY <2>3
  <2>4. QED
    BY <2>1, <2>2, <2>3 DEF Pointers
<1>2. QED
  BY <1>1 DEF Pointers

\* What IsInMainChain says of a block is that it is on the branch.
LEMMA InMainChain ==
    ASSUME NEW tip \in Block, pindexBest = tip, pnext \in Pointers,
           Linked(pnext, tip), NEW c \in Block, IsInMainChain(c)
    PROVE  c \in Branch[tip]
BY LinkedAbove, BranchClosed DEF IsInMainChain

\* Connecting a block above the tip traces the branch one block further.
LEMMA ConnectLinks ==
    ASSUME NEW v \in View, NEW b \in Block \ {Genesis}, NEW nexts,
           Linked(v.next, pprev[b]), nexts[b] = NoBlock
    PROVE  Linked(Connect(v, b, nexts).next, b)
<1> DEFINE p    == pprev[b]
           next == Connect(v, b, nexts).next
<1>1. p \in Block /\ p # b /\ Branch[b] = {b} \cup Branch[p] /\ b \notin Branch[p]
  BY BranchStep, BranchHeight, TreeAssumption
<1>2. next = [v.next EXCEPT ![b] = NoBlock, ![p] = b] /\ v.next \in Pointers
  BY DEF Connect, View, Pointers
<1> SUFFICES ASSUME NEW x \in Block, NEW y \in Block
             PROVE  next[x] = y <=> pprev[y] = x /\ y \in Branch[b]
  BY DEF Linked
<1>3. v.next[x] = y <=> pprev[y] = x /\ y \in Branch[p]
  BY DEF Linked
<1>4. \A z \in Branch[p] : pprev[z] # b /\ pprev[z] # p
  <2> SUFFICES ASSUME NEW z \in Branch[p], pprev[z] = b \/ pprev[z] = p
               PROVE  FALSE
    OBVIOUS
  <2>1. z \in Block \ {Genesis} /\ nHeight[z] <= nHeight[p]
    BY <1>1, BranchClosed, BranchHeight, TreeAssumption
  <2>2. nHeight[z] = nHeight[pprev[z]] + 1 /\ nHeight[b] = nHeight[p] + 1
    BY <2>1, TreeAssumption
  <2>3. QED
    BY <1>1, <2>1, <2>2, TreeAssumption
<1>5. CASE x = b
  BY <1>1, <1>2, <1>4, <1>5, TreeAssumption DEF Pointers
<1>6. CASE x = p
  BY <1>1, <1>2, <1>4, <1>6 DEF Pointers
<1>7. CASE x # b /\ x # p
  BY <1>1, <1>2, <1>3, <1>7 DEF Pointers
<1>8. QED
  BY <1>5, <1>6, <1>7

\* Disconnecting the tip leaves the branch that ends below it.
LEMMA DisconnectLinks ==
    ASSUME NEW v \in View, NEW b \in Block \ {Genesis}, Linked(v.next, b)
    PROVE  Linked(Disconnect(v, b).next, pprev[b])
<1> DEFINE p    == pprev[b]
           next == Disconnect(v, b).next
<1>1. p \in Block /\ p # b /\ Branch[b] = {b} \cup Branch[p] /\ b \notin Branch[p]
  BY BranchStep, BranchHeight, TreeAssumption
<1>2. next = [v.next EXCEPT ![p] = NoBlock] /\ v.next \in Pointers
  BY <1>1, TreeAssumption DEF Disconnect, View, Pointers
<1> SUFFICES ASSUME NEW x \in Block, NEW y \in Block
             PROVE  next[x] = y <=> pprev[y] = x /\ y \in Branch[p]
  BY DEF Linked
<1>3. v.next[x] = y <=> pprev[y] = x /\ y \in Branch[b]
  BY DEF Linked
<1>4. CASE x = p
  <2>1. next[x] = NoBlock
    BY <1>1, <1>2, <1>4 DEF Pointers
  <2>2. ASSUME pprev[y] = x, y \in Branch[p] PROVE FALSE
    <3>1. y \in Branch[b] /\ b \in Branch[b]
      BY <1>1, <2>2
    <3>2. y = b
      BY <1>4, <2>2, <3>1, ChildUnique
    <3>3. QED
      BY <1>1, <2>2, <3>2
  <2>3. QED
    BY <2>1, <2>2, TreeAssumption
<1>5. CASE x # p
  BY <1>1, <1>2, <1>3, <1>5 DEF Pointers
<1>6. QED
  BY <1>4, <1>5

\* The branches of two blocks share the branch of their fork point.
LEMMA ForkBranch ==
    ASSUME NEW a \in Block, NEW b \in Block
    PROVE  Branch[ForkPoint(a, b)] = Branch[a] \cap Branch[b]
<1> DEFINE f == ForkPoint(a, b)
<1>1. f \in Branch[a] \cap Branch[b] /\ f \in Block
  BY ForkPointFinds, BranchClosed
<1>2. Branch[f] \subseteq Branch[a] \cap Branch[b]
  BY <1>1, BranchTransitive
<1>3. ASSUME NEW g \in Branch[a] \cap Branch[b] PROVE g \in Branch[f]
  BY <1>1, ForkPointFinds, BranchOrdered
<1>4. QED
  BY <1>2, <1>3

(* Reorganize relinks the memory chain: it traced the old branch, it traces *)
(* the new one.                                                            *)
LEMMA RelinkedLinks ==
    ASSUME NEW best \in Block, pindexBest = best, pnext \in Pointers,
           Linked(pnext, best), NEW inter \in Block, job.inter = inter,
           job.fork = ForkPoint(best, inter)
    PROVE  Linked(Relinked, inter)
<1> DEFINE vDisconnect == Branch[best] \ Branch[job.fork]
           vConnect    == Branch[inter] \ Branch[job.fork]
<1>1. /\ Branch[job.fork] = Branch[best] \cap Branch[inter]
      /\ Branch[best] \subseteq Block /\ Branch[inter] \subseteq Block
  BY ForkBranch, BranchClosed
<1> SUFFICES ASSUME NEW x \in Block, NEW y \in Block
             PROVE  Relinked[x] = y <=> pprev[y] = x /\ y \in Branch[inter]
  BY DEF Linked
<1>2. CASE \E c \in vConnect : pprev[c] = x
  <2>1. PICK c \in vConnect : pprev[c] = x
    BY <1>2
  <2>2. \A d \in Branch[inter] : pprev[d] = x => d = c
    BY <2>1, ChildUnique
  <2>3. Relinked[x] = (CHOOSE d \in vConnect : pprev[d] = x)
    BY <1>2 DEF Relinked
  <2>4. Relinked[x] = c
    BY <2>1, <2>2, <2>3
  <2>5. QED
    BY <2>1, <2>2, <2>4
<1>3. CASE /\ ~ \E c \in vConnect : pprev[c] = x
           /\ \E d \in vDisconnect : pprev[d] = x
  <2>1. Relinked[x] = NoBlock
    BY <1>3 DEF Relinked
  <2>2. PICK d \in vDisconnect : pprev[d] = x
    BY <1>3
  <2>3. ASSUME pprev[y] = x, y \in Branch[inter] PROVE FALSE
    <3>1. y \in Branch[best] /\ y \in Branch[job.fork]
      BY <1>1, <1>3, <2>3
    <3>2. y = d
      BY <2>2, <2>3, <3>1, ChildUnique
    <3>3. QED
      BY <2>2, <3>1, <3>2
  <2>4. QED
    BY <2>1, <2>3, TreeAssumption
<1>4. CASE /\ ~ \E c \in vConnect : pprev[c] = x
           /\ ~ \E d \in vDisconnect : pprev[d] = x
  <2>1. Relinked[x] = pnext[x]
    BY <1>4 DEF Relinked
  <2>2. pnext[x] = y <=> pprev[y] = x /\ y \in Branch[best]
    BY DEF Linked
  <2>3. QED
    BY <1>1, <1>4, <2>1, <2>2
<1>5. QED
  BY <1>2, <1>3, <1>4

-----------------------------------------------------------------------------
(* The synchronized checkpoint                                              *)

(* The current checkpoint is a block the node has, and whatever SetBestChain*)
(* is on its way to, for a new block or for a new checkpoint, descends     *)
(* from it.                                                                *)
CheckpointInv ==
    /\ hashSyncCheckpoint \in mapBlockIndex
    /\ job.stage \notin {"idle", "pending"} =>
          /\ hashSyncCheckpoint \in Branch[job.target]
          /\ job.target \in mapBlockIndex

\* ValidateSyncCheckpoint lets only descendants through.
LEMMA ValidDescends ==
    ASSUME TypeOK, NEW c \in Block, ValidateSyncCheckpoint(c)
    PROVE  hashSyncCheckpoint \in Branch[c]
<1>1. /\ nHeight[hashSyncCheckpoint] \in Nat
      /\ nHeight[hashSyncCheckpoint] <= nHeight[c]
      /\ nHeight[Genesis] <= nHeight[hashSyncCheckpoint]
  BY BranchRoot, TreeAssumption DEF TypeOK, ValidateSyncCheckpoint
<1>2. QED
  BY <1>1, TraceBackFinds DEF ValidateSyncCheckpoint

\* And so does CheckSync, of the blocks the node does not have.
LEMMA CheckSyncDescends ==
    ASSUME TypeOK, hashSyncCheckpoint \in mapBlockIndex, NEW b \in Block,
           b \notin mapBlockIndex, pprev[b] \in mapBlockIndex, CheckSync(b)
    PROVE  hashSyncCheckpoint \in Branch[b]
<1>1. b \in Block \ {Genesis} /\ pprev[b] \in Block
  BY TreeAssumption DEF TypeOK
<1>2. nHeight[b] > nHeight[hashSyncCheckpoint]
  BY DEF CheckSync
<1>3. /\ nHeight[hashSyncCheckpoint] \in Nat
      /\ nHeight[hashSyncCheckpoint] <= nHeight[pprev[b]]
      /\ nHeight[Genesis] <= nHeight[hashSyncCheckpoint]
  BY <1>1, <1>2, BranchRoot, TreeAssumption DEF TypeOK
<1>4. hashSyncCheckpoint \in Branch[pprev[b]]
  BY <1>1, <1>2, <1>3, TraceBackFinds DEF CheckSync
<1>5. QED
  BY <1>1, <1>4, BranchStep

\* The first start is synchronized to the genesis block.
LEMMA CheckpointInit == Init => CheckpointInv
BY DEF Init, CheckpointInv, Idle

\* Every step keeps the checkpoints, taken and pending, consistent.
LEMMA CheckpointStep == TypeInv /\ CheckpointInv /\ [Next]_vars => CheckpointInv'
<1> SUFFICES ASSUME TypeInv, CheckpointInv, [Next]_vars PROVE CheckpointInv'
  OBVIOUS
<1>0. TypeOK /\ job \in Job
  BY DEF TypeInv, TypeOK
<1>1. Idle.stage = "idle" /\ [Idle EXCEPT !.stage = "pending"].stage = "pending"
  BY DEF Idle
<1>2. \A c : SwitchTo(c).target = c
  BY DEF SwitchTo, Start, Idle
<1>3. ASSUME NEW b \in Block, AcceptBlock(b) PROVE CheckpointInv'
  <2>1. hashSyncCheckpoint \in Branch[b]
    BY <1>0, <1>3, CheckSyncDescends DEF AcceptBlock, CheckpointInv
  <2>2. Start(b, "block").target = b
    BY DEF Start, Idle
  <2>3. QED
    BY <1>1, <1>3, <2>1, <2>2 DEF AcceptBlock, CheckpointInv
<1>4. CASE SetBestChainFails
  BY <1>1, <1>4 DEF SetBestChainFails, CheckpointInv, disk
<1>5. ASSUME /\ job.stage \notin {"idle", "pending"}
             /\ job'.target = job.target
             /\ UNCHANGED <<mapBlockIndex, hashSyncCheckpoint>>
      PROVE  CheckpointInv'
  BY <1>5 DEF CheckpointInv
<1>6. CASE ExtendBestChain
  <2>1. CASE ~ ConnectOK(db, job.target, nHeight[pindexBest])
    BY <1>4, <1>6, <2>1 DEF ExtendBestChain
  <2>2. CASE ConnectOK(db, job.target, nHeight[pindexBest])
    BY <1>0, <1>5, <1>6, <2>2 DEF ExtendBestChain, AtStage, Job
  <2>3. QED
    BY <2>1, <2>2
<1>7. CASE ReorganizeDisconnect
  <2>1. CASE ~ DisconnectOK(batch, job.tip)
    BY <1>4, <1>7, <2>1 DEF ReorganizeDisconnect
  <2>2. CASE DisconnectOK(batch, job.tip)
    BY <1>0, <1>5, <1>7, <2>2 DEF ReorganizeDisconnect, AtStage, Job, disk
  <2>3. QED
    BY <2>1, <2>2
<1>8. CASE ReorganizeConnect
  <2>1. CASE ~ ConnectOK(batch, NextOn(job.inter), nHeight[pindexBest])
    BY <1>4, <1>8, <2>1 DEF ReorganizeConnect
  <2>2. CASE ConnectOK(batch, NextOn(job.inter), nHeight[pindexBest])
    BY <1>0, <1>5, <1>8, <2>2 DEF ReorganizeConnect, AtStage, Job, disk
  <2>3. QED
    BY <2>1, <2>2
<1>9. CASE BeginReorganize \/ EndDisconnect \/ ReorganizeCommit
  BY <1>0, <1>5, <1>9 DEF BeginReorganize, EndDisconnect, ReorganizeCommit, AtStage, Job, disk
<1>10. CASE ReorganizeResurrect \/ ReorganizeDelete
  BY <1>0, <1>5, <1>10 DEF ReorganizeResurrect, ReorganizeDelete, AtStage, Job, disk
<1>11. CASE ConnectSecondary \/ EndSecondary
  BY <1>0, <1>5, <1>11 DEF ConnectSecondary, EndSecondary, AtStage, Job, disk
<1>12. CASE NewBestBlock
  BY <1>0, <1>5, <1>12 DEF NewBestBlock, AtStage, Job, disk
<1>13. CASE AcceptPendingSyncCheckpoint
  <2>1. \/ job' = Idle
        \/ /\ hashPendingCheckpoint \in Block
           /\ hashPendingCheckpoint \in mapBlockIndex
           /\ ValidateSyncCheckpoint(hashPendingCheckpoint)
           /\ job' = SwitchTo(hashPendingCheckpoint)
    BY <1>0, <1>13 DEF AcceptPendingSyncCheckpoint, TypeOK
  <2>2. QED
    BY <1>0, <1>1, <1>2, <1>13, <2>1, ValidDescends
       DEF AcceptPendingSyncCheckpoint, CheckpointInv, disk
<1>14. CASE WriteSyncCheckpoint
  BY <1>1, <1>14 DEF WriteSyncCheckpoint, CheckpointInv, AtStage
<1>15. ASSUME NEW c \in Checkpoints, ProcessSyncCheckpoint(c) PROVE CheckpointInv'
  <2>0. c \in Block
    BY BoundAssumption
  <2>1. \/ job' = job
        \/ /\ c \in mapBlockIndex /\ ValidateSyncCheckpoint(c)
           /\ job' = SwitchTo(c)
    BY <1>15 DEF ProcessSyncCheckpoint
  <2>2. QED
    BY <1>0, <1>2, <1>15, <2>0, <2>1, ValidDescends
       DEF ProcessSyncCheckpoint, CheckpointInv, disk
<1>16. ASSUME NEW t \in Tx, AcceptToMemoryPool(t) PROVE CheckpointInv'
  BY <1>16 DEF AcceptToMemoryPool, CheckpointInv, disk
<1>17. CASE CrashAndLoadBlockIndex
  BY <1>1, <1>17 DEF CrashAndLoadBlockIndex, CheckpointInv, disk
<1>18. CASE UNCHANGED vars
  BY <1>18 DEF CheckpointInv, vars, disk, memory
<1>19. QED
  BY <1>3, <1>6, <1>7, <1>8, <1>9, <1>10, <1>11, <1>12, <1>13, <1>14, <1>15,
     <1>16, <1>17, <1>18 DEF Next, SetBestChainStep

(* A new synchronized checkpoint always descends from the one before it:    *)
(* no message of the master, pending checkpoint or failed reorganization   *)
(* moves it to another branch.                                             *)
THEOREM CheckpointsAdvance == Spec => CheckpointOnlyAdvances
<1>1. Init => TypeInv /\ CheckpointInv
  BY TypeInit, CheckpointInit
<1>2. TypeInv /\ CheckpointInv /\ [Next]_vars => TypeInv' /\ CheckpointInv'
  BY TypeStep, CheckpointStep
<1>3. TypeInv /\ CheckpointInv /\ [Next]_vars
        => [hashSyncCheckpoint' # hashSyncCheckpoint =>
              hashSyncCheckpoint \in Branch[hashSyncCheckpoint']]_vars
  <2> SUFFICES ASSUME TypeInv, CheckpointInv, [Next]_vars,
                      hashSyncCheckpoint' # hashSyncCheckpoint
               PROVE  hashSyncCheckpoint \in Branch[hashSyncCheckpoint']
    OBVIOUS
  <2>1. WriteSyncCheckpoint
    BY DEF Next, SetBestChainStep, vars, disk, AcceptBlock, ExtendBestChain,
       SetBestChainFails, BeginReorganize, ReorganizeDisconnect, EndDisconnect,
       ReorganizeConnect, ReorganizeCommit, ReorganizeResurrect,
       ReorganizeDelete, ConnectSecondary, EndSecondary, NewBestBlock,
       AcceptPendingSyncCheckpoint, ProcessSyncCheckpoint,
       AcceptToMemoryPool, CrashAndLoadBlockIndex
  <2>2. QED
    BY <2>1 DEF WriteSyncCheckpoint, CheckpointInv, AtStage
<1>4. QED
  BY <1>1, <1>2, <1>3, PTL DEF Spec, CheckpointOnlyAdvances

-----------------------------------------------------------------------------
(* The best chain                                                           *)

\* Memory's best block is the database's up to the commit of a job.
BeforeCommit ==
    job.stage \in {"idle", "setbest", "disconnect", "connect", "pending", "writecp"}

(* The committed pointers trace the branch of the committed best block,     *)
(* memory has the same pointers, the batch traces the branch of the block  *)
(* it has reached, and the checkpoint is on the committed branch.          *)
ChainInv ==
    /\ Linked(db.next, db.best)
    /\ pnext = db.next
    /\ BeforeCommit => pindexBest = db.best
    /\ AtStage("disconnect") \/ AtStage("connect") =>
          /\ Linked(batch.next, job.tip)
          /\ hashSyncCheckpoint \in Branch[job.inter]
    /\ job.stage \in {"resurrect", "delete", "secondary"} => db.best = job.tip
    /\ AtStage("newbest") => db.best = job.target
    /\ hashSyncCheckpoint \in Branch[db.best]
    /\ AtStage("writecp") => job.target \in Branch[db.best]
    /\ job.caller = "block" =>
          /\ AtStage("setbest") => nChainTrust[job.target] > nChainTrust[pindexBest]
          /\ AtStage("disconnect") \/ AtStage("connect") =>
                nChainTrust[job.inter] > nChainTrust[pindexBest]

\* Once a postponed connect has failed, nothing of this is promised.
CondInv == ~ diverged => ChainInv

StateInv == TypeInv /\ CheckpointInv /\ CondInv

\* The first start's chain is the genesis block.
LEMMA ChainInit == Init => ChainInv
<1> SUFFICES ASSUME Init PROVE ChainInv
  OBVIOUS
<1>1. Linked(db.next, db.best)
  <2> SUFFICES ASSUME NEW b \in Block, NEW c \in Block
               PROVE  db.next[b] = c <=> pprev[c] = b /\ c \in Branch[db.best]
    BY DEF Linked
  <2>1. db.next[b] = NoBlock /\ db.best = Genesis
    BY DEF Init, GenesisView
  <2>2. QED
    BY <2>1, BranchGenesis, TreeAssumption
<1>2. hashSyncCheckpoint \in Branch[db.best]
  BY BranchGenesis DEF Init, GenesisView
<1>3. /\ pnext = db.next /\ pindexBest = db.best
      /\ job.stage = "idle"
  BY DEF Init, GenesisView, Idle
<1>4. QED
  BY <1>1, <1>2, <1>3 DEF ChainInv, AtStage

(* A block connected on db, one above its best: db and memory follow.       *)
LEMMA InnerLinks ==
    ASSUME TypeInv, ChainInv, NEW b \in Block \ {Genesis}, pprev[b] = db.best,
           SetBestChainInner(b)
    PROVE  /\ Linked(db'.next, b) /\ db'.best = b /\ pnext' = db'.next
           /\ hashSyncCheckpoint \in Branch[b]
           /\ nChainTrust[b] > nChainTrust[db.best]
<1>1. /\ db \in View /\ db.next \in Pointers /\ db.best \in Block
      /\ pnext = db.next /\ Linked(db.next, db.best)
  BY DEF TypeInv, TypeOK, ChainInv, View, Pointers
<1>2. b \notin Branch[db.best]
  BY <1>1, BranchHeight, TreeAssumption
<1>3. pnext[b] = NoBlock
  BY <1>1, <1>2, LinkedAbove
<1>4. Linked(Connect(db, b, pnext).next, b)
  BY <1>1, <1>3, ConnectLinks
<1>5. db' = [Connect(db, b, pnext) EXCEPT !.best = b]
  BY DEF SetBestChainInner
<1>6. db'.next = Connect(db, b, pnext).next /\ db'.best = b
  BY <1>5 DEF Connect, View
<1>7. Connect(db, b, pnext).next = [db.next EXCEPT ![b] = pnext[b], ![pprev[b]] = b]
  BY <1>1 DEF Connect, View
<1>8. pnext' = [pnext EXCEPT ![pprev[b]] = b]
  BY DEF SetBestChainInner
<1>9. [db.next EXCEPT ![b] = pnext[b], ![pprev[b]] = b] = [pnext EXCEPT ![pprev[b]] = b]
  BY <1>1 DEF Pointers
<1>10. hashSyncCheckpoint \in Branch[b]
  BY BranchStep DEF ChainInv
<1>11. nChainTrust[b] > nChainTrust[db.best]
  BY TreeAssumption
<1>12. QED
  BY <1>4, <1>6, <1>7, <1>8, <1>9, <1>10, <1>11

\* pindexIntermediate is heavier than the best block if pindexNew is.
LEMMA IntermediateHeavier ==
    ASSUME TypeOK, NEW b \in Block, nChainTrust[b] > nChainTrust[pindexBest]
    PROVE  nChainTrust[pindexIntermediate(b)] > nChainTrust[pindexBest]
<1> DEFINE i == pindexIntermediate(b)
<1>1. /\ pindexBest \in Block /\ i \in Branch[b] /\ i \in Block
      /\ \A c \in Branch[b] \ vpindexSecondary(b) : nHeight[c] <= nHeight[i]
  BY IntermediateFinds, BranchClosed DEF TypeOK
<1>2. CASE i = b
  BY <1>2
<1>3. CASE i # b
  <2>1. PICK c \in Branch[b] : pprev[c] = i
    BY <1>1, <1>3, ChildOnBranch
  <2>2. c \in Block \ {Genesis} /\ nHeight[c] > nHeight[i]
    BY <1>1, <2>1, BranchClosed, TreeAssumption
  <2>3. c \in vpindexSecondary(b)
    BY <1>1, <2>1, <2>2, TreeAssumption
  <2>4. QED
    BY <2>1, <2>3 DEF vpindexSecondary
<1>4. QED
  BY <1>2, <1>3

(* And it is not below a block that is both on its branch and on the best   *)
(* one: the checkpoint survives the first half of a reorganization.        *)
LEMMA IntermediateAbove ==
    ASSUME TypeOK, NEW b \in Block, NEW s \in Branch[b], s \in Branch[pindexBest]
    PROVE  s \in Branch[pindexIntermediate(b)]
<1> DEFINE i == pindexIntermediate(b)
<1>1. /\ pindexBest \in Block /\ i \in Branch[b] /\ i \in Block /\ s \in Block
      /\ \A c \in Branch[b] \ vpindexSecondary(b) : nHeight[c] <= nHeight[i]
  BY IntermediateFinds, BranchClosed DEF TypeOK
<1>2. s \notin vpindexSecondary(b)
  <2>1. CASE s = Genesis
    BY <2>1, TreeAssumption DEF vpindexSecondary
  <2>2. CASE s # Genesis
    <3>1. pprev[s] \in Block /\ nChainTrust[pprev[s]] < nChainTrust[s]
      BY <1>1, <2>2, TreeAssumption
    <3>2. nChainTrust[s] <= nChainTrust[pindexBest]
      BY <1>1, BranchTrust
    <3>3. ~ (nChainTrust[pprev[s]] > nChainTrust[pindexBest])
      BY <1>1, <3>1, <3>2, TreeAssumption
    <3>4. QED
      BY <3>3 DEF vpindexSecondary
  <2>3. QED
    BY <2>1, <2>2
<1>3. nHeight[s] <= nHeight[i]
  BY <1>1, <1>2
<1>4. QED
  BY <1>1, <1>3, BranchOrdered

\* A failed SetBestChain leaves the chain as it was.
LEMMA FailsKeeps ==
    ASSUME TypeInv, ChainInv, BeforeCommit, SetBestChainFails
    PROVE  ChainInv'
BY DEF SetBestChainFails, ChainInv, BeforeCommit, AtStage, Idle, disk

\* From the start of SetBestChain to the commit of the reorganization.
LEMMA ChainReorganize ==
    ASSUME TypeInv, CheckpointInv, ChainInv,
           \/ ExtendBestChain \/ BeginReorganize \/ ReorganizeDisconnect
           \/ EndDisconnect \/ ReorganizeConnect \/ ReorganizeCommit
    PROVE  ChainInv'
<1>0. /\ TypeOK /\ JobOK /\ job \in Job /\ job.target \in Block
      /\ job.inter \in Block /\ job.tip \in Block /\ job.fork \in Block
      /\ db.best \in Block /\ pnext \in Pointers /\ pindexBest \in Block
      /\ hashSyncCheckpoint \in Block
  BY DEF TypeInv, TypeOK, Job, View, Pointers
<1>1. CASE ExtendBestChain
  <2>0. BeforeCommit /\ pindexBest = db.best
    BY <1>1 DEF ExtendBestChain, AtStage, BeforeCommit, ChainInv
  <2>1. CASE ~ ConnectOK(db, job.target, nHeight[pindexBest])
    BY <1>1, <2>0, <2>1, FailsKeeps DEF ExtendBestChain
  <2>2. CASE ConnectOK(db, job.target, nHeight[pindexBest])
    <3>1. job.target \in Block \ {Genesis} /\ pprev[job.target] = db.best
      BY <1>0, <1>1, <2>0, TreeAssumption DEF ExtendBestChain
    <3>2. /\ SetBestChainInner(job.target)
          /\ job' = [job EXCEPT !.stage = "newbest"]
          /\ UNCHANGED hashSyncCheckpoint
      BY <1>1, <2>2 DEF ExtendBestChain
    <3>3. /\ Linked(db'.next, job.target) /\ db'.best = job.target
          /\ pnext' = db'.next /\ hashSyncCheckpoint \in Branch[job.target]
      BY <3>1, <3>2, InnerLinks
    <3>4. job'.stage = "newbest" /\ job'.target = job.target
      BY <1>0, <3>2 DEF Job
    <3>5. QED
      BY <3>2, <3>3, <3>4 DEF ChainInv, BeforeCommit, AtStage
  <2>3. QED
    BY <2>1, <2>2
<1>2. CASE BeginReorganize
  <2> DEFINE i == pindexIntermediate(job.target)
             f == ForkPoint(pindexBest, i)
  <2>1. /\ AtStage("setbest") /\ BeforeCommit /\ pindexBest = db.best
        /\ batch' = db
        /\ UNCHANGED <<disk, pnext, pindexBest>>
    BY <1>2 DEF BeginReorganize, AtStage, BeforeCommit, ChainInv
  <2>2. job' = [job EXCEPT !.stage = "disconnect", !.inter = i, !.fork = f,
                           !.tip = pindexBest]
    BY <1>2 DEF BeginReorganize
  <2>3. hashSyncCheckpoint \in Branch[i]
    BY <1>0, <2>1, IntermediateAbove DEF CheckpointInv, ChainInv, AtStage
  <2>4. job.caller = "block" => nChainTrust[i] > nChainTrust[pindexBest]
    BY <1>0, <2>1, IntermediateHeavier DEF ChainInv
  <2> HIDE DEF i, f
  <2>5. /\ job'.stage = "disconnect" /\ job'.inter = i
        /\ job'.tip = pindexBest /\ job'.caller = job.caller
    BY <1>0, <2>2 DEF Job
  <2>6. QED
    BY <2>1, <2>3, <2>4, <2>5 DEF ChainInv, BeforeCommit, AtStage, disk
<1>3. CASE ReorganizeDisconnect
  <2>0. BeforeCommit
    BY <1>3 DEF ReorganizeDisconnect, AtStage, BeforeCommit
  <2>1. CASE ~ DisconnectOK(batch, job.tip)
    BY <1>3, <2>0, <2>1, FailsKeeps DEF ReorganizeDisconnect
  <2>2. CASE DisconnectOK(batch, job.tip)
    <3>1. /\ AtStage("disconnect") /\ batch \in View /\ job.tip # job.fork
          /\ job.fork \in Branch[job.tip] /\ Linked(batch.next, job.tip)
      BY <1>0, <1>3 DEF ReorganizeDisconnect, JobOK, ChainInv
    <3>2. job.tip \in Block \ {Genesis}
      BY <1>0, <3>1, BranchGenesis
    <3>3. /\ batch' = Disconnect(batch, job.tip)
          /\ job' = [job EXCEPT !.tip = pprev[@],
                                !.vResurrect = @ \o UserTxs(job.tip)]
          /\ UNCHANGED <<disk, pnext, pindexBest>>
      BY <1>3, <2>2 DEF ReorganizeDisconnect
    <3>4. Linked(batch'.next, pprev[job.tip])
      BY <3>1, <3>2, <3>3, DisconnectLinks
    <3>5. /\ job'.stage = "disconnect" /\ job'.inter = job.inter
          /\ job'.tip = pprev[job.tip] /\ job'.caller = job.caller
      BY <1>0, <3>1, <3>3 DEF Job, AtStage
    <3>6. QED
      BY <2>0, <3>1, <3>3, <3>4, <3>5 DEF ChainInv, BeforeCommit, AtStage, disk
  <2>3. QED
    BY <2>1, <2>2
<1>4. CASE EndDisconnect
  BY <1>0, <1>4 DEF EndDisconnect, ChainInv, BeforeCommit, AtStage, Job, disk
<1>5. CASE ReorganizeConnect
  <2> DEFINE c == NextOn(job.inter)
  <2>0. BeforeCommit /\ pindexBest = db.best
    BY <1>5 DEF ReorganizeConnect, AtStage, BeforeCommit, ChainInv
  <2>1. CASE ~ ConnectOK(batch, c, nHeight[pindexBest])
    BY <1>5, <2>0, <2>1, FailsKeeps DEF ReorganizeConnect
  <2>2. CASE ConnectOK(batch, c, nHeight[pindexBest])
    <3>1. /\ AtStage("connect") /\ batch \in View
          /\ job.tip \in Branch[job.inter] /\ job.tip # job.inter
          /\ job.fork = ForkPoint(pindexBest, job.inter)
          /\ job.fork \in Branch[job.tip] /\ Linked(batch.next, job.tip)
      BY <1>0, <1>5 DEF ReorganizeConnect, JobOK, ChainInv
    <3>2. /\ c \in Branch[job.inter] /\ c \in Block \ {Genesis}
          /\ pprev[c] = job.tip
      BY <1>0, <3>1, NextOnFinds
    <3>3. /\ batch' = Connect(batch, c, pnext)
          /\ job' = [job EXCEPT !.tip = c, !.vDelete = @ \o vtx[c]]
          /\ UNCHANGED <<disk, pnext, pindexBest>>
      BY <1>5, <2>2 DEF ReorganizeConnect
    <3> HIDE DEF c
    <3>4. c \notin Branch[pindexBest]
      <4>1. nHeight[c] = nHeight[job.tip] + 1 /\ nHeight[job.fork] <= nHeight[job.tip]
        BY <1>0, <3>1, <3>2, BranchHeight, TreeAssumption
      <4>2. c \in Branch[pindexBest] => nHeight[c] <= nHeight[job.fork]
        BY <1>0, <3>1, <3>2, ForkPointFinds
      <4>3. QED
        BY <1>0, <3>2, <4>1, <4>2, TreeAssumption
    <3>5. pnext[c] = NoBlock
      BY <1>0, <2>0, <3>2, <3>4, LinkedAbove DEF ChainInv
    <3>6. Linked(batch'.next, c)
      BY <3>1, <3>2, <3>3, <3>5, ConnectLinks
    <3>7. /\ job'.stage = "connect" /\ job'.inter = job.inter
          /\ job'.tip = c /\ job'.caller = job.caller
      BY <1>0, <3>1, <3>3 DEF Job, AtStage
    <3>8. QED
      BY <2>0, <3>1, <3>3, <3>6, <3>7 DEF ChainInv, BeforeCommit, AtStage, disk
  <2>3. QED
    BY <2>1, <2>2
<1>6. CASE ReorganizeCommit
  <2>1. /\ AtStage("connect") /\ job.tip = job.inter /\ batch \in View
        /\ job.fork = ForkPoint(pindexBest, job.inter)
        /\ Linked(batch.next, job.inter) /\ pindexBest = db.best
        /\ hashSyncCheckpoint \in Branch[job.inter]
        /\ batch.next \in Pointers
    BY <1>0, <1>6 DEF ReorganizeCommit, JobOK, ChainInv, BeforeCommit, AtStage,
       View, Pointers
  <2>2. /\ db' = [batch EXCEPT !.best = job.inter]
        /\ pnext' = Relinked /\ UNCHANGED hashSyncCheckpoint
        /\ job' = [job EXCEPT !.stage = "resurrect"]
    BY <1>6 DEF ReorganizeCommit
  <2>3. db'.next = batch.next /\ db'.best = job.inter
    BY <2>1, <2>2 DEF View
  <2>4. Linked(Relinked, job.inter)
    BY <1>0, <2>1, RelinkedLinks DEF ChainInv
  <2>5. pnext' \in Pointers
    BY <1>6, TypeReorganize DEF TypeInv, TypeOK, Pointers
  <2>6. pnext' = db'.next
    BY <1>0, <2>1, <2>2, <2>3, <2>4, <2>5, LinkedUnique
  <2>7. /\ job'.stage = "resurrect" /\ job'.tip = job.inter
    BY <1>0, <2>1, <2>2 DEF Job
  <2>8. QED
    BY <2>1, <2>2, <2>3, <2>6, <2>7 DEF ChainInv, BeforeCommit, AtStage
<1>7. QED
  BY <1>1, <1>2, <1>3, <1>4, <1>5, <1>6

\* After the commit.
LEMMA ChainFollow ==
    ASSUME TypeInv, CheckpointInv, ChainInv, ~ diverged',
           \/ ReorganizeResurrect \/ ReorganizeDelete \/ ConnectSecondary
           \/ EndSecondary \/ NewBestBlock
    PROVE  ChainInv'
<1>0. /\ TypeOK /\ JobOK /\ job \in Job /\ job.target \in Block
      /\ job.tip \in Block /\ job.caller \in Caller
  BY DEF TypeInv, TypeOK, Job
<1>1. CASE ReorganizeResurrect
  <2>1. /\ job'.stage \in {"resurrect", "delete"} /\ job'.tip = job.tip
        /\ UNCHANGED <<disk, pnext, pindexBest>> /\ AtStage("resurrect")
    BY <1>0, <1>1 DEF ReorganizeResurrect, Job, AtStage
  <2>2. QED
    BY <2>1 DEF ChainInv, BeforeCommit, AtStage, disk
<1>2. CASE ReorganizeDelete
  <2>1. /\ job'.stage \in {"delete", "secondary"} /\ job'.tip = job.tip
        /\ UNCHANGED <<disk, pnext, pindexBest>> /\ AtStage("delete")
    BY <1>0, <1>2 DEF ReorganizeDelete, Job, AtStage
  <2>2. QED
    BY <2>1 DEF ChainInv, BeforeCommit, AtStage, disk
<1>3. CASE ConnectSecondary
  <2> DEFINE c == NextOn(job.target)
  <2>1. /\ c \in Block \ {Genesis} /\ pprev[c] = job.tip
        /\ AtStage("secondary") /\ db.best = job.tip
    BY <1>0, <1>3, NextOnFinds DEF ConnectSecondary, JobOK, ChainInv, AtStage
  <2>2. ConnectOK(db, c, nHeight[pindexBest])
    BY <1>3 DEF ConnectSecondary
  <2>3. /\ SetBestChainInner(c) /\ job' = [job EXCEPT !.tip = c]
        /\ UNCHANGED hashSyncCheckpoint
    BY <1>3, <2>2 DEF ConnectSecondary
  <2> HIDE DEF c
  <2>4. /\ Linked(db'.next, c) /\ db'.best = c /\ pnext' = db'.next
        /\ hashSyncCheckpoint \in Branch[c]
    BY <2>1, <2>3, InnerLinks
  <2>5. job'.stage = "secondary" /\ job'.tip = c
    BY <1>0, <2>1, <2>3 DEF Job, AtStage
  <2>6. QED
    BY <2>3, <2>4, <2>5 DEF ChainInv, BeforeCommit, AtStage
<1>4. CASE EndSecondary
  <2>1. /\ job'.stage = "newbest" /\ job'.target = job.target
        /\ db.best = job.target
        /\ UNCHANGED <<disk, pnext, pindexBest>>
    BY <1>0, <1>4 DEF EndSecondary, ChainInv, Job, AtStage
  <2>2. QED
    BY <2>1 DEF ChainInv, BeforeCommit, AtStage, disk
<1>5. CASE NewBestBlock
  <2>1. /\ job'.stage \in {"pending", "writecp"} /\ job'.target = job.target
        /\ AtStage("newbest") /\ db.best = job.target
        /\ pindexBest' = job.target /\ UNCHANGED <<disk, pnext>>
    BY <1>0, <1>5 DEF NewBestBlock, ChainInv, Job, AtStage
  <2>2. job.target \in Branch[db.best]
    BY <1>0, <2>1, BranchClosed
  <2>3. QED
    BY <2>1, <2>2 DEF ChainInv, BeforeCommit, AtStage, disk
<1>6. QED
  BY <1>1, <1>2, <1>3, <1>4, <1>5

\* A job that a checkpoint starts, from a state where memory agrees with db.
LEMMA SwitchKeeps ==
    ASSUME TypeInv, ChainInv, BeforeCommit,
           NEW c \in Block, job' = SwitchTo(c),
           UNCHANGED <<disk, batch, pnext, pindexBest>>
    PROVE  ChainInv'
<1>1. /\ pindexBest \in Block /\ pnext \in Pointers /\ pindexBest = db.best
      /\ Linked(pnext, pindexBest)
  BY DEF TypeInv, TypeOK, ChainInv, Pointers
<1>2. CASE IsInMainChain(c)
  <2>1. job'.stage = "writecp" /\ job'.target = c /\ job'.caller = "checkpoint"
    BY <1>2 DEF SwitchTo, Idle
  <2>2. c \in Branch[db.best]
    BY <1>1, <1>2, InMainChain
  <2>3. QED
    BY <1>1, <2>1, <2>2 DEF ChainInv, BeforeCommit, AtStage, disk
<1>3. CASE ~ IsInMainChain(c)
  <2>1. job'.stage = "setbest" /\ job'.caller = "checkpoint"
    BY <1>3 DEF SwitchTo, Start, Idle
  <2>2. QED
    BY <1>1, <2>1 DEF ChainInv, BeforeCommit, AtStage, disk
<1>4. QED
  BY <1>2, <1>3

\* What starts a SetBestChain, what ends it, and what interrupts it.
LEMMA ChainOutside ==
    ASSUME TypeInv, CheckpointInv, ChainInv,
           \/ \E b \in Block : AcceptBlock(b)
           \/ AcceptPendingSyncCheckpoint
           \/ WriteSyncCheckpoint
           \/ \E c \in Checkpoints : ProcessSyncCheckpoint(c)
           \/ \E t \in Tx : AcceptToMemoryPool(t)
           \/ CrashAndLoadBlockIndex
    PROVE  ChainInv'
<1>1. Idle.stage = "idle" /\ [Idle EXCEPT !.stage = "pending"].stage = "pending"
  BY DEF Idle
<1>2. ASSUME NEW b \in Block, AcceptBlock(b) PROVE ChainInv'
  <2>1. /\ AtStage("idle")
        /\ UNCHANGED <<db, hashSyncCheckpoint, pnext, pindexBest>>
        /\ job' = IF IsNewBest(b) THEN Start(b, "block")
                  ELSE [Idle EXCEPT !.stage = "pending"]
    BY <1>2 DEF AcceptBlock
  <2>2. CASE IsNewBest(b)
    <3>1. job'.stage = "setbest" /\ job'.target = b
      BY <2>1, <2>2 DEF Start, Idle
    <3>2. nChainTrust[b] > nChainTrust[pindexBest]
      BY <2>2 DEF IsNewBest
    <3>3. QED
      BY <2>1, <3>1, <3>2 DEF ChainInv, BeforeCommit, AtStage
  <2>3. CASE ~ IsNewBest(b)
    BY <1>1, <2>1, <2>3 DEF ChainInv, BeforeCommit, AtStage
  <2>4. QED
    BY <2>2, <2>3
<1>3. CASE AcceptPendingSyncCheckpoint
  <2>1. /\ AtStage("pending") /\ BeforeCommit
        /\ UNCHANGED <<disk, batch, pnext, pindexBest>>
        /\ \/ job' = Idle
           \/ hashPendingCheckpoint \in Block /\ job' = SwitchTo(hashPendingCheckpoint)
    BY <1>3 DEF AcceptPendingSyncCheckpoint, TypeInv, TypeOK, BeforeCommit, AtStage
  <2>2. CASE job' = Idle
    BY <1>1, <2>1, <2>2 DEF ChainInv, BeforeCommit, AtStage, disk
  <2>3. QED
    BY <2>1, <2>2, SwitchKeeps
<1>4. CASE WriteSyncCheckpoint
  BY <1>1, <1>4 DEF WriteSyncCheckpoint, ChainInv, BeforeCommit, AtStage
<1>5. ASSUME NEW c \in Checkpoints, ProcessSyncCheckpoint(c) PROVE ChainInv'
  <2>1. /\ c \in Block /\ BeforeCommit
        /\ UNCHANGED <<disk, batch, pnext, pindexBest>>
        /\ job' = job \/ job' = SwitchTo(c)
    BY <1>5, BoundAssumption DEF ProcessSyncCheckpoint, BeforeCommit, AtStage
  <2>2. CASE job' = job
    BY <2>1, <2>2 DEF ChainInv, BeforeCommit, AtStage, disk
  <2>3. QED
    BY <2>1, <2>2, SwitchKeeps
<1>6. ASSUME NEW t \in Tx, AcceptToMemoryPool(t) PROVE ChainInv'
  BY <1>6 DEF AcceptToMemoryPool, ChainInv, BeforeCommit, AtStage, disk
<1>7. CASE CrashAndLoadBlockIndex
  BY <1>1, <1>7 DEF CrashAndLoadBlockIndex, ChainInv, BeforeCommit, AtStage, disk
<1>8. QED
  BY <1>2, <1>3, <1>4, <1>5, <1>6, <1>7

\* Once memory and database have come apart in a behaviour, it stays marked diverged.
LEMMA DivergedStays == [Next]_vars /\ diverged => diverged'
<1> SUFFICES ASSUME [Next]_vars, diverged PROVE diverged'
  OBVIOUS
<1>1. CASE ConnectSecondary
  BY <1>1 DEF ConnectSecondary
<1>2. CASE ~ ConnectSecondary
  BY <1>2 DEF Next, SetBestChainStep, vars, AcceptBlock, ExtendBestChain,
     BeginReorganize, ReorganizeDisconnect, EndDisconnect,
     ReorganizeConnect, ReorganizeCommit, ReorganizeResurrect,
     ReorganizeDelete, EndSecondary, NewBestBlock,
     AcceptPendingSyncCheckpoint, WriteSyncCheckpoint, ProcessSyncCheckpoint,
     AcceptToMemoryPool, CrashAndLoadBlockIndex
<1>3. QED
  BY <1>1, <1>2

\* Every step keeps the three invariants together.
LEMMA StateStep == StateInv /\ [Next]_vars => StateInv'
<1> SUFFICES ASSUME StateInv, [Next]_vars PROVE StateInv'
  OBVIOUS
<1>1. TypeInv' /\ CheckpointInv'
  BY TypeStep, CheckpointStep DEF StateInv
<1>2. CondInv'
  <2> SUFFICES ASSUME ~ diverged' PROVE ChainInv'
    BY DEF CondInv
  <2>1. TypeInv /\ CheckpointInv /\ ChainInv
    BY DivergedStays DEF StateInv, CondInv
  <2>2. CASE Next
    BY <2>1, <2>2, ChainReorganize, ChainFollow, ChainOutside
       DEF Next, SetBestChainStep
  <2>3. CASE UNCHANGED vars
    BY <2>1, <2>3 DEF ChainInv, BeforeCommit, AtStage, vars, disk, memory
  <2>4. QED
    BY <2>2, <2>3
<1>3. QED
  BY <1>1, <1>2 DEF StateInv

(* The inductive invariant holds of every reachable state.                  *)
THEOREM StateInvariant == Spec => []StateInv
<1>1. Init => StateInv
  BY TypeInit, CheckpointInit, ChainInit DEF StateInv, CondInv
<1>2. StateInv /\ [Next]_vars => StateInv'
  BY StateStep
<1>3. QED
  BY <1>1, <1>2, PTL DEF Spec

-----------------------------------------------------------------------------
(* What follows from it                                                     *)

(* The committed next pointers always trace one branch, the one that ends   *)
(* in hashBestChain, through reorganizations, aborts and crashes.          *)
THEOREM CommittedLinked == Spec => []CommittedChainLinked
<1>1. StateInv => CommittedChainLinked
  BY DEF StateInv, CondInv, ChainInv, CommittedChainLinked
<1>2. QED
  BY <1>1, StateInvariant, PTL

(* Whenever no call is under way, pindexBest and pnext are what the         *)
(* database has committed.                                                 *)
THEOREM MemoryAgrees == Spec => []MemoryMatchesDisk
<1>1. StateInv => MemoryMatchesDisk
  BY DEF StateInv, CondInv, ChainInv, MemoryMatchesDisk, BeforeCommit, AtStage
<1>2. QED
  BY <1>1, StateInvariant, PTL

(* The committed branch always runs through the synchronized checkpoint,    *)
(* half way through a reorganization with postponed connects too.          *)
THEOREM CheckpointOnChain == Spec => []SyncCheckpointInMainChain
<1>1. StateInv => SyncCheckpointInMainChain
  BY DEF StateInv, CondInv, ChainInv, CheckpointInv, SyncCheckpointInMainChain
<1>2. QED
  BY <1>1, StateInvariant, PTL

(* No step taken for a received block commits a branch that is not heavier. *)
THEOREM TrustOnlyGrows == Spec => BlocksOnlyRaiseTrust
<1>1. StateInv /\ [Next]_vars
        => [db'.best # db.best /\ job.caller = "block" /\ ~ diverged =>
              nChainTrust[db'.best] > nChainTrust[db.best]]_vars
  <2> SUFFICES ASSUME StateInv, [Next]_vars, db'.best # db.best,
                      job.caller = "block", ~ diverged
               PROVE  nChainTrust[db'.best] > nChainTrust[db.best]
    OBVIOUS
  <2>0. /\ TypeInv /\ TypeOK /\ JobOK /\ ChainInv /\ job.tip \in Block
        /\ job.target \in Block
    BY DEF StateInv, CondInv, TypeInv, TypeOK, Job
  <2>1. \/ ExtendBestChain /\ ConnectOK(db, job.target, nHeight[pindexBest])
        \/ ReorganizeCommit
        \/ ConnectSecondary /\ ConnectOK(db, NextOn(job.target), nHeight[pindexBest])
    BY DEF Next, SetBestChainStep, vars, disk, AcceptBlock, ExtendBestChain,
       SetBestChainFails, BeginReorganize, ReorganizeDisconnect, EndDisconnect,
       ReorganizeConnect, ReorganizeResurrect,
       ReorganizeDelete, ConnectSecondary, EndSecondary, NewBestBlock,
       AcceptPendingSyncCheckpoint, WriteSyncCheckpoint, ProcessSyncCheckpoint,
       AcceptToMemoryPool, CrashAndLoadBlockIndex
  <2>2. CASE ExtendBestChain /\ ConnectOK(db, job.target, nHeight[pindexBest])
    <3>1. SetBestChainInner(job.target) /\ pprev[job.target] = db.best
      BY <2>0, <2>2 DEF ExtendBestChain, ChainInv, BeforeCommit, AtStage
    <3>2. job.target \in Block \ {Genesis}
      BY <2>0, <3>1, TreeAssumption DEF TypeOK, View
    <3>3. QED
      BY <2>0, <3>1, <3>2, InnerLinks
  <2>3. CASE ReorganizeCommit
    <3>1. /\ AtStage("connect") /\ pindexBest = db.best
          /\ db' = [batch EXCEPT !.best = job.inter] /\ batch \in View
      BY <2>0, <2>3 DEF ReorganizeCommit, JobOK, ChainInv, BeforeCommit, AtStage
    <3>2. db'.best = job.inter
      BY <3>1 DEF View
    <3>3. QED
      BY <2>0, <3>1, <3>2 DEF ChainInv
  <2>4. CASE ConnectSecondary /\ ConnectOK(db, NextOn(job.target), nHeight[pindexBest])
    <3>1. /\ SetBestChainInner(NextOn(job.target))
          /\ db.best = job.tip /\ job.tip \in Branch[job.target]
          /\ job.tip # job.target
      BY <2>0, <2>4 DEF ConnectSecondary, ChainInv, JobOK, AtStage
    <3>2. /\ NextOn(job.target) \in Block \ {Genesis}
          /\ pprev[NextOn(job.target)] = db.best
      BY <2>0, <3>1, NextOnFinds
    <3>3. QED
      BY <2>0, <3>1, <3>2, InnerLinks
  <2>5. QED
    BY <2>1, <2>2, <2>3, <2>4
<1>2. QED
  BY <1>1, StateInvariant, PTL DEF Spec, BlocksOnlyRaiseTrust

(* One chain: committed pointers, memory and checkpoint agree at every       *)
(* step of every reorganization, abort and restart.                        *)
THEOREM ChainIsConsistent == Spec => []ChainConsistent
<1>1. TypeOK /\ CommittedChainLinked /\ MemoryMatchesDisk /\ SyncCheckpointInMainChain
        => ChainConsistent
  BY DEF ChainConsistent
<1>2. QED
  BY <1>1, TypeCorrect, CommittedLinked, MemoryAgrees, CheckpointOnChain, PTL
-----------------------------------------------------------------------------
(* The transaction index                                                    *)

(* The checks AcceptBlock makes of a block, which hold of every block the   *)
(* node has but genesis.                                                   *)
Accepted(b) == CheckBlock(b) /\ CoinbaseHeightOK(b)

AcceptedInv ==
    /\ DownClosed(mapBlockIndex)
    /\ \A b \in mapBlockIndex \ {Genesis} : Accepted(b)
    /\ db.best \in mapBlockIndex /\ pindexBest \in mapBlockIndex

\* With a block its whole branch has been accepted.
LEMMA AcceptedBranch ==
    ASSUME TypeOK, AcceptedInv, NEW b \in mapBlockIndex
    PROVE  Branch[b] \subseteq mapBlockIndex
BY BranchLeast DEF TypeOK, AcceptedInv

-----------------------------------------------------------------------------
(* The transactions of one block                                            *)

\* A block's transactions and their places are what they should be.
LEMMA TxSetType ==
    ASSUME NEW b \in Block
    PROVE  /\ TxSet(b) \subseteq Tx
           /\ \A i \in DOMAIN vtx[b] : i \in Nat /\ vtx[b][i] \in TxSet(b)
BY TxAssumption DEF TxSet

\* An input names an output, and no coinbase has one.
LEMMA InputType ==
    ASSUME NEW t \in Tx, NEW o \in vin[t]
    PROVE  o \in Outpoint /\ o[1] \in Tx /\ t \notin Coinbase
BY TxAssumption DEF Outpoint

\* A coinbase stands first, and names the height of its block.
LEMMA CoinbaseAtHeight ==
    ASSUME NEW b \in Block, Accepted(b), NEW t \in TxSet(b), t \in Coinbase
    PROVE  CoinbaseHeight[t] = nHeight[b]
<1>1. vtx[b] \in Seq(Tx)
  BY TxAssumption
<1>2. PICK i \in DOMAIN vtx[b] : vtx[b][i] = t
  BY DEF TxSet
<1>3. i \in 1..Len(vtx[b])
  BY <1>1
<1>4. i = 1
  BY <1>2, <1>3 DEF Accepted, CheckBlock
<1>5. QED
  BY <1>2, <1>4 DEF Accepted, CoinbaseHeightOK

\* Two different transactions of a block stand in some order, and in one only.
LEMMA BeforeTotal ==
    ASSUME NEW b \in Block, NEW s \in TxSet(b), NEW t \in TxSet(b), s # t
    PROVE  Before(b, s, t) \/ Before(b, t, s)
<1>1. PICK i \in DOMAIN vtx[b] : vtx[b][i] = s
  BY DEF TxSet
<1>2. PICK j \in DOMAIN vtx[b] : vtx[b][j] = t
  BY DEF TxSet
<1>3. i \in Nat /\ j \in Nat /\ i # j
  BY <1>1, <1>2, TxSetType
<1>4. QED
  BY <1>1, <1>2, <1>3 DEF Before

\* In one only, as CheckBlock refuses a block with a transaction twice.
LEMMA BeforeOnce ==
    ASSUME NEW b \in Block, CheckBlock(b), NEW s, NEW t,
           Before(b, s, t), Before(b, t, s)
    PROVE  FALSE
<1>1. PICK i \in DOMAIN vtx[b], j \in DOMAIN vtx[b] :
        i < j /\ vtx[b][i] = s /\ vtx[b][j] = t
  BY DEF Before
<1>2. PICK k \in DOMAIN vtx[b], l \in DOMAIN vtx[b] :
        k < l /\ vtx[b][k] = t /\ vtx[b][l] = s
  BY DEF Before
<1>3. j = k /\ i = l
  BY <1>1, <1>2 DEF CheckBlock
<1>4. i \in Nat /\ j \in Nat
  BY TxSetType
<1>5. QED
  BY <1>1, <1>2, <1>3, <1>4

\* What has an order in a block is in it.
LEMMA BeforeIn ==
    ASSUME NEW b \in Block, NEW s, NEW t, Before(b, s, t)
    PROVE  s \in TxSet(b) /\ t \in TxSet(b)
BY DEF Before, TxSet

\* Of a non-empty set of transactions of a block, one stands first.
LEMMA FirstOf ==
    ASSUME NEW b \in Block, NEW S \in SUBSET TxSet(b), S # {}
    PROVE  \E t \in S : \E i \in DOMAIN vtx[b] :
              vtx[b][i] = t /\ \A j \in DOMAIN vtx[b] : vtx[b][j] \in S => i <= j
<1> DEFINE P == {i \in DOMAIN vtx[b] : vtx[b][i] \in S}
<1>1. P \in SUBSET Nat /\ P # {}
  BY TxSetType DEF TxSet
<1>2. IsWellFoundedOn(OpToRel(<, Nat), Nat)
  BY NatLessThanWellFounded
<1>3. PICK i \in P : \A j \in P : ~ (<<j, i>> \in OpToRel(<, Nat))
  BY <1>1, <1>2, WFMin
<1>4. \A j \in P : ~ (j < i)
  BY <1>1, <1>3 DEF OpToRel
<1>5. \A j \in P : i <= j
  <2>1. i \in Nat /\ \A j \in P : j \in Nat
    BY <1>1
  <2> HIDE DEF P
  <2>2. QED
    BY <1>4, <2>1
<1>6. QED
  BY <1>5
-----------------------------------------------------------------------------
(* Connecting and disconnecting a block on a view                           *)

\* Indexes says nothing of the best block a view names.
LEMMA IndexesNoBest ==
    ASSUME NEW v \in View, NEW b \in Block, NEW tip \in Block, Indexes(v, tip)
    PROVE  Indexes([v EXCEPT !.best = b], tip)
<1>1. /\ [v EXCEPT !.best = b].pos = v.pos
      /\ [v EXCEPT !.best = b].spent = v.spent
  BY DEF View
<1>2. QED
  BY <1>1 DEF Indexes, Indexed

\* The database of a first start indexes the branch of the genesis block.
LEMMA IndexesGenesis == Indexes(GenesisView, Genesis)
BY BranchGenesis, TxAssumption, TreeAssumption
   DEF Indexes, Indexed, GenesisView, Outpoint

\* A transaction is indexed where it stands on the branch.
LEMMA IndexedOnBranch ==
    ASSUME NEW v \in View, NEW tip \in Block, Indexes(v, tip),
           NEW t \in Tx, Indexed(v, t)
    PROVE  /\ v.pos[t] \in Branch[tip] /\ v.pos[t] \in Block \ {Genesis}
           /\ t \in TxSet(v.pos[t])
<1>1. v.pos[t] \in Block
  BY DEF View, Indexed
<1>2. QED
  BY <1>1 DEF Indexes

(* No transaction of a block that connects is in the index already: the     *)
(* coinbase names its height, and the first other one there could be would *)
(* spend what it has itself spent, or what an earlier one of the block has.*)
LEMMA ConnectsFresh ==
    ASSUME TypeOK, AcceptedInv,
           NEW v \in View, NEW b \in Block \ {Genesis}, NEW h,
           b \in mapBlockIndex, Indexes(v, pprev[b]), ConnectOK(v, b, h),
           NEW t \in TxSet(b)
    PROVE  ~ Indexed(v, t)
<1> DEFINE p == pprev[b]
           S == {s \in TxSet(b) : Indexed(v, s)}
<1>0. /\ p \in Block /\ p \in mapBlockIndex /\ TxSet(b) \subseteq Tx
      /\ Accepted(b)
  BY TxSetType, TreeAssumption DEF AcceptedInv, DownClosed
<1>1. \A s \in S : s \notin Coinbase
  <2> SUFFICES ASSUME NEW s \in S, s \in Coinbase PROVE FALSE
    OBVIOUS
  <2> DEFINE c == v.pos[s]
  <2>1. c \in Branch[p] /\ c \in Block \ {Genesis} /\ s \in TxSet(c)
    BY <1>0, IndexedOnBranch
  <2>2. Accepted(c)
    BY <1>0, <2>1, AcceptedBranch DEF AcceptedInv
  <2>3. nHeight[c] = nHeight[b]
    BY <1>0, <2>1, <2>2, CoinbaseAtHeight
  <2>4. nHeight[c] <= nHeight[p] /\ nHeight[b] = nHeight[p] + 1
    BY <1>0, <2>1, BranchHeight, TreeAssumption
  <2>5. QED
    BY <1>0, <2>3, <2>4, TreeAssumption
<1> SUFFICES ASSUME S # {} PROVE FALSE
  OBVIOUS
<1>2. PICK s \in S, i \in DOMAIN vtx[b] :
        vtx[b][i] = s /\ \A j \in DOMAIN vtx[b] : vtx[b][j] \in S => i <= j
  BY FirstOf
<1>3. s \in Tx /\ s \in TxSet(b) /\ Indexed(v, s) /\ s \notin Coinbase
  BY <1>0, <1>1
<1>4. PICK o \in vin[s] : TRUE
  BY <1>3, TxAssumption
<1>5. o \in Outpoint /\ o[1] \in Tx
  BY <1>3, InputType
<1>6. v.spent[o] = s /\ Indexed(v, o[1])
  BY <1>3, <1>5 DEF Indexes
<1>7. InputOK(v, b, s, o)
  BY <1>3 DEF ConnectOK, ConnectInputsOK
<1>8. Before(b, o[1], s)
  BY <1>3, <1>6, <1>7, TxAssumption DEF InputOK
<1>9. PICK j \in DOMAIN vtx[b], k \in DOMAIN vtx[b] :
        j < k /\ vtx[b][j] = o[1] /\ vtx[b][k] = s
  BY <1>8 DEF Before
<1>10. o[1] \in S
  BY <1>6, <1>8, BeforeIn
<1>11. k = i
  BY <1>0, <1>2, <1>9 DEF Accepted, CheckBlock
<1>12. i <= j /\ i \in Nat /\ j \in Nat
  BY <1>2, <1>9, <1>10, TxSetType
<1>13. QED
  BY <1>9, <1>11, <1>12

\* The one transaction of a connected block that spends an output.
LEMMA SpenderIs ==
    ASSUME NEW v, NEW b \in Block, NEW h, ConnectOK(v, b, h), NEW o,
           NEW t \in TxSet(b), o \in vin[t]
    PROVE  Spends(b, o) /\ Spender(b, o) = t
<1>1. \A s \in TxSet(b) : o \in vin[s] => s \notin Coinbase
  BY TxSetType, InputType
<1>2. \A s \in TxSet(b) : o \in vin[s] => s = t
  <2> SUFFICES ASSUME NEW s \in TxSet(b), o \in vin[s], s # t PROVE FALSE
    OBVIOUS
  <2>1. InputOK(v, b, s, o) /\ InputOK(v, b, t, o)
    BY <1>1 DEF ConnectOK, ConnectInputsOK
  <2>2. QED
    BY <2>1, BeforeTotal DEF InputOK
<1>3. QED
  BY <1>1, <1>2 DEF Spends, Spender

\* ConnectBlock leaves an index that says what the longer branch says.
LEMMA ConnectIndexes ==
    ASSUME TypeOK, AcceptedInv,
           NEW v \in View, NEW b \in Block \ {Genesis}, NEW h, NEW nexts,
           b \in mapBlockIndex, Indexes(v, pprev[b]), ConnectOK(v, b, h)
    PROVE  Indexes(Connect(v, b, nexts), b)
<1> DEFINE p == pprev[b]
           w == Connect(v, b, nexts)
<1>0. /\ p \in Block /\ Branch[b] = {b} \cup Branch[p] /\ b \notin Branch[p]
      /\ TxSet(b) \subseteq Tx /\ b # NoBlock
  BY BranchStep, BranchHeight, TxSetType, TreeAssumption
<1>1. \A t \in TxSet(b) : ~ Indexed(v, t)
  BY ConnectsFresh
<1>2. \A t \in Tx : w.pos[t] = IF t \in TxSet(b) THEN b ELSE v.pos[t]
  BY DEF Connect, View
<1>3. \A o \in Outpoint : w.spent[o] = IF Spends(b, o) THEN Spender(b, o)
                                       ELSE IF o[1] \in TxSet(b) THEN NoTx
                                       ELSE v.spent[o]
  BY DEF Connect, View
<1> HIDE DEF w
<1>4. \A t \in Tx : Indexed(w, t) <=> t \in TxSet(b) \/ Indexed(v, t)
  BY <1>0, <1>2 DEF Indexed
<1>5. ASSUME NEW t \in Tx, NEW c \in Block
      PROVE  w.pos[t] = c <=> c \in Branch[b] \ {Genesis} /\ t \in TxSet(c)
  <2>1. v.pos[t] = c <=> c \in Branch[p] \ {Genesis} /\ t \in TxSet(c)
    BY <1>0 DEF Indexes
  <2>2. CASE t \in TxSet(b)
    <3>1. ~ (c \in Branch[p] \ {Genesis} /\ t \in TxSet(c))
      BY <1>1, <2>1, <2>2, TreeAssumption DEF Indexed
    <3>2. QED
      BY <1>0, <1>2, <2>2, <3>1
  <2>3. CASE t \notin TxSet(b)
    BY <1>0, <1>2, <2>1, <2>3
  <2>4. QED
    BY <2>2, <2>3
<1>6. ASSUME NEW o \in Outpoint, NEW t \in Tx
      PROVE  w.spent[o] = t <=> Indexed(w, t) /\ o \in vin[t]
  <2>1. v.spent[o] = t <=> Indexed(v, t) /\ o \in vin[t]
    BY <1>0 DEF Indexes
  <2>2. Indexed(v, t) /\ o \in vin[t] => Indexed(v, o[1])
    BY <1>0 DEF Indexes
  <2>3. CASE Spends(b, o)
    <3>1. PICK s \in TxSet(b) : o \in vin[s]
      BY <2>3 DEF Spends
    <3>2. w.spent[o] = s
      BY <1>3, <2>3, <3>1, SpenderIs
    <3>3. t \in TxSet(b) /\ o \in vin[t] => t = s
      BY <3>1, SpenderIs
    <3>4. ~ (Indexed(v, t) /\ o \in vin[t])
      <4> SUFFICES ASSUME Indexed(v, t), o \in vin[t] PROVE FALSE
        OBVIOUS
      <4>1. v.spent[o] # NoTx /\ ~ Before(b, o[1], s)
        BY <1>1, <2>1, <2>2, BeforeIn, TxAssumption
      <4>2. s \notin Coinbase
        BY <1>0, <3>1, InputType
      <4>3. InputOK(v, b, s, o)
        BY <3>1, <4>2 DEF ConnectOK, ConnectInputsOK
      <4>4. QED
        BY <4>1, <4>3 DEF InputOK
    <3>5. QED
      BY <1>4, <3>1, <3>2, <3>3, <3>4
  <2>4. CASE ~ Spends(b, o)
    <3>1. ~ (t \in TxSet(b) /\ o \in vin[t])
      BY <2>4, SpenderIs
    <3>2. CASE o[1] \in TxSet(b)
      <4>1. w.spent[o] = NoTx
        BY <1>3, <2>4, <3>2
      <4>2. QED
        BY <1>1, <1>4, <2>2, <3>1, <3>2, <4>1, TxAssumption
    <3>3. CASE o[1] \notin TxSet(b)
      BY <1>3, <1>4, <2>1, <2>4, <3>1, <3>3
    <3>4. QED
      BY <3>2, <3>3
  <2>5. QED
    BY <2>3, <2>4
<1>7. ASSUME NEW t \in Tx, Indexed(w, t), NEW o \in vin[t]
      PROVE  /\ Indexed(w, o[1]) /\ InRange(o)
             /\ \/ nHeight[w.pos[o[1]]] < nHeight[w.pos[t]]
                \/ w.pos[o[1]] = w.pos[t] /\ Before(w.pos[t], o[1], t)
  <2>1. o \in Outpoint /\ o[1] \in Tx /\ t \notin Coinbase
    BY InputType
  <2>2. CASE t \in TxSet(b)
    <3>1. InputOK(v, b, t, o) /\ w.pos[t] = b
      BY <1>2, <2>1, <2>2 DEF ConnectOK, ConnectInputsOK
    <3>2. CASE Before(b, o[1], t)
      BY <1>2, <1>4, <2>1, <3>1, <3>2, BeforeIn DEF InputOK
    <3>3. CASE ~ Before(b, o[1], t)
      <4>1. Indexed(v, o[1]) /\ InRange(o) /\ w.pos[o[1]] = v.pos[o[1]]
        BY <1>1, <1>2, <2>1, <3>1, <3>3 DEF InputOK
      <4>2. v.pos[o[1]] \in Branch[p] /\ v.pos[o[1]] \in Block
        BY <1>0, <2>1, <4>1, IndexedOnBranch
      <4>3. nHeight[v.pos[o[1]]] < nHeight[b]
        BY <1>0, <4>2, BranchHeight, TreeAssumption
      <4>4. QED
        BY <1>4, <2>1, <3>1, <4>1, <4>3
    <3>4. QED
      BY <3>2, <3>3
  <2>3. CASE t \notin TxSet(b)
    <3>1. Indexed(v, t) /\ w.pos[t] = v.pos[t]
      BY <1>2, <1>4, <1>7, <2>3
    <3>2. /\ Indexed(v, o[1]) /\ InRange(o)
          /\ \/ nHeight[v.pos[o[1]]] < nHeight[v.pos[t]]
             \/ v.pos[o[1]] = v.pos[t] /\ Before(v.pos[t], o[1], t)
      BY <1>0, <3>1 DEF Indexes
    <3>3. w.pos[o[1]] = v.pos[o[1]]
      BY <1>1, <1>2, <2>1, <3>2
    <3>4. QED
      BY <1>4, <2>1, <3>1, <3>2, <3>3
  <2>4. QED
    BY <2>2, <2>3
<1>8. Indexes(w, b)
  BY <1>5, <1>6, <1>7 DEF Indexes
<1>9. QED
  BY <1>8 DEF w
(* No transaction the branch keeps spends an output of the block it loses:  *)
(* the block is its highest.                                               *)
LEMMA KeptSpendsKept ==
    ASSUME NEW v \in View, NEW b \in Block, Indexes(v, b),
           NEW t \in Tx, t \notin TxSet(b), Indexed(v, t), NEW o \in vin[t]
    PROVE  o[1] \notin TxSet(b)
<1> SUFFICES ASSUME o[1] \in TxSet(b), b # Genesis PROVE FALSE
  <2>1. b = Genesis => o[1] \notin TxSet(b)
    <3> SUFFICES ASSUME b = Genesis PROVE FALSE
      OBVIOUS
    <3>1. QED
      BY IndexedOnBranch, BranchGenesis
  <2>2. QED
    BY <2>1
<1>1. o[1] \in Tx /\ b \in Branch[b] /\ v.pos[o[1]] = b
  BY InputType, BranchClosed DEF Indexes
<1>2. /\ v.pos[t] \in Branch[b] /\ v.pos[t] \in Block
      /\ t \in TxSet(v.pos[t])
  BY IndexedOnBranch
<1>3. nHeight[v.pos[t]] <= nHeight[b]
  BY <1>2, BranchHeight
<1>4. nHeight[b] < nHeight[v.pos[t]] \/ b = v.pos[t]
  BY <1>1 DEF Indexes
<1>5. nHeight[b] \in Int /\ nHeight[v.pos[t]] \in Int
  BY <1>2, TreeAssumption
<1>6. QED
  BY <1>2, <1>3, <1>4, <1>5

\* DisconnectBlock leaves an index that says what the shorter branch says.
LEMMA DisconnectIndexes ==
    ASSUME NEW v \in View, NEW b \in Block \ {Genesis}, Indexes(v, b)
    PROVE  Indexes(Disconnect(v, b), pprev[b])
<1> DEFINE p == pprev[b]
           w == Disconnect(v, b)
<1>0. /\ p \in Block /\ Branch[b] = {b} \cup Branch[p] /\ b \notin Branch[p]
      /\ TxSet(b) \subseteq Tx /\ b # NoBlock
  BY BranchStep, BranchHeight, TxSetType, TreeAssumption
<1>1. \A t \in TxSet(b) : v.pos[t] = b
  BY <1>0 DEF Indexes
<1>2. \A t \in Tx : w.pos[t] = IF t \in TxSet(b) THEN NoBlock ELSE v.pos[t]
  BY DEF Disconnect, View
<1>3. \A o \in Outpoint : w.spent[o] = IF o[1] \in TxSet(b) \/ Spends(b, o)
                                       THEN NoTx ELSE v.spent[o]
  BY DEF Disconnect, View
<1> HIDE DEF w
<1>4. \A t \in Tx : Indexed(w, t) <=> t \notin TxSet(b) /\ Indexed(v, t)
  BY <1>0, <1>2 DEF Indexed
<1>5. ASSUME NEW t \in Tx, NEW c \in Block
      PROVE  w.pos[t] = c <=> c \in Branch[p] \ {Genesis} /\ t \in TxSet(c)
  <2>1. v.pos[t] = c <=> c \in Branch[b] \ {Genesis} /\ t \in TxSet(c)
    BY DEF Indexes
  <2>2. CASE t \in TxSet(b)
    BY <1>0, <1>1, <1>2, <2>1, <2>2, TreeAssumption
  <2>3. CASE t \notin TxSet(b)
    BY <1>0, <1>2, <2>1, <2>3
  <2>4. QED
    BY <2>2, <2>3
<1>6. ASSUME NEW o \in Outpoint, NEW t \in Tx
      PROVE  w.spent[o] = t <=> Indexed(w, t) /\ o \in vin[t]
  <2>1. \A u \in Tx : v.spent[o] = u <=> Indexed(v, u) /\ o \in vin[u]
    BY DEF Indexes
  <2>2. CASE Spends(b, o)
    <3>1. PICK s \in TxSet(b) : o \in vin[s]
      BY <2>2 DEF Spends
    <3>2. v.spent[o] = s
      BY <1>0, <1>1, <2>1, <3>1 DEF Indexed
    <3>3. w.spent[o] = NoTx
      BY <1>3, <2>2
    <3>4. QED
      BY <1>4, <2>1, <3>1, <3>2, <3>3, TxAssumption
  <2>3. CASE o[1] \in TxSet(b)
    <3>1. w.spent[o] = NoTx
      BY <1>3, <2>3
    <3>2. QED
      BY <1>4, <2>3, <3>1, KeptSpendsKept, TxAssumption
  <2>4. CASE ~ Spends(b, o) /\ o[1] \notin TxSet(b)
    <3>1. w.spent[o] = v.spent[o]
      BY <1>3, <2>4
    <3>2. t \in TxSet(b) => o \notin vin[t]
      BY <1>0, <2>4, InputType DEF Spends
    <3>3. QED
      BY <1>4, <2>1, <3>1, <3>2
  <2>5. QED
    BY <2>2, <2>3, <2>4
<1>7. ASSUME NEW t \in Tx, Indexed(w, t), NEW o \in vin[t]
      PROVE  /\ Indexed(w, o[1]) /\ InRange(o)
             /\ \/ nHeight[w.pos[o[1]]] < nHeight[w.pos[t]]
                \/ w.pos[o[1]] = w.pos[t] /\ Before(w.pos[t], o[1], t)
  <2>1. Indexed(v, t) /\ t \notin TxSet(b) /\ w.pos[t] = v.pos[t]
    BY <1>2, <1>4, <1>7
  <2>2. /\ Indexed(v, o[1]) /\ InRange(o)
        /\ \/ nHeight[v.pos[o[1]]] < nHeight[v.pos[t]]
           \/ v.pos[o[1]] = v.pos[t] /\ Before(v.pos[t], o[1], t)
    BY <2>1 DEF Indexes
  <2>3. o[1] \in Tx /\ o[1] \notin TxSet(b)
    BY <2>1, InputType, KeptSpendsKept
  <2>4. w.pos[o[1]] = v.pos[o[1]]
    BY <1>2, <2>3
  <2>5. QED
    BY <1>4, <2>1, <2>2, <2>3, <2>4
<1>8. Indexes(w, p)
  BY <1>5, <1>6, <1>7 DEF Indexes
<1>9. QED
  BY <1>8 DEF w

(* DisconnectInputs finds every transaction it asks for: the input of a     *)
(* transaction comes from below, or from earlier in the block.             *)
LEMMA DisconnectSucceeds ==
    ASSUME NEW v \in View, NEW b \in Block \ {Genesis}, Indexes(v, b),
           CheckBlock(b)
    PROVE  DisconnectOK(v, b)
<1> SUFFICES ASSUME NEW t \in TxSet(b) \ Coinbase, NEW o \in vin[t]
             PROVE  Indexed(v, o[1]) /\ ~ Before(b, t, o[1]) /\ InRange(o)
  BY DEF DisconnectOK
<1>1. t \in Tx /\ o[1] \in Tx
  BY TxSetType, InputType
<1>2. v.pos[t] = b /\ b # NoBlock
  BY <1>1, BranchClosed, TreeAssumption DEF Indexes
<1>3. /\ Indexed(v, o[1]) /\ InRange(o)
      /\ \/ nHeight[v.pos[o[1]]] < nHeight[b]
         \/ v.pos[o[1]] = b /\ Before(b, o[1], t)
  BY <1>1, <1>2 DEF Indexes, Indexed
<1>4. ASSUME Before(b, t, o[1]) PROVE FALSE
  <2>1. v.pos[o[1]] = b
    BY <1>1, <1>4, BeforeIn, BranchClosed DEF Indexes
  <2>2. Before(b, o[1], t)
    BY <1>3, <2>1, TreeAssumption
  <2>3. QED
    BY <1>4, <2>2, BeforeOnce
<1>5. QED
  BY <1>3, <1>4
-----------------------------------------------------------------------------
(* The blocks the node has                                                  *)

\* The genesis block is accepted.
LEMMA AcceptedInit == Init => AcceptedInv
BY TreeAssumption DEF Init, AcceptedInv, GenesisView, DownClosed

\* A block enters mapBlockIndex after its parent, and none leaves it.
LEMMA AcceptedStep ==
    TypeInv /\ CheckpointInv /\ AcceptedInv /\ [Next]_vars => AcceptedInv'
<1> SUFFICES ASSUME TypeInv, CheckpointInv, AcceptedInv, [Next]_vars
             PROVE  AcceptedInv'
  OBVIOUS
<1>0. /\ TypeOK /\ JobOK /\ db \in View /\ batch \in View \cup {NoBatch}
      /\ job \in Job /\ job.target \in Block /\ mapBlockIndex \subseteq Block
  BY DEF TypeInv, TypeOK, Job
<1>1. job.stage \notin {"idle", "pending"}
        => Branch[job.target] \subseteq mapBlockIndex
  BY <1>0, AcceptedBranch DEF CheckpointInv
<1>2. ASSUME UNCHANGED mapBlockIndex,
             db'.best \in mapBlockIndex, pindexBest' \in mapBlockIndex
      PROVE  AcceptedInv'
  BY <1>2 DEF AcceptedInv
<1>3. ASSUME UNCHANGED <<mapBlockIndex, db, pindexBest>> PROVE AcceptedInv'
  BY <1>2, <1>3 DEF AcceptedInv
<1>4. ASSUME NEW b, SetBestChainInner(b) PROVE db'.best = b
  <2>1. db' = [Connect(db, b, pnext) EXCEPT !.best = b]
    BY <1>4 DEF SetBestChainInner
  <2>2. QED
    BY <1>0, <2>1 DEF Connect, View
<1>5. ASSUME NEW b \in Block, AcceptBlock(b) PROVE AcceptedInv'
  <2>1. /\ Accepted(b) /\ pprev[b] \in mapBlockIndex
        /\ mapBlockIndex' = mapBlockIndex \cup {b}
        /\ UNCHANGED <<db, pindexBest>>
    BY <1>5 DEF AcceptBlock, Accepted
  <2>2. QED
    BY <2>1 DEF AcceptedInv, DownClosed
<1>6. CASE ExtendBestChain
  <2>1. CASE ConnectOK(db, job.target, nHeight[pindexBest])
    <3>1. /\ SetBestChainInner(job.target) /\ AtStage("setbest")
          /\ UNCHANGED <<mapBlockIndex, pindexBest>>
      BY <1>6, <2>1 DEF ExtendBestChain
    <3>2. job.target \in mapBlockIndex
      BY <3>1 DEF CheckpointInv, AtStage
    <3>3. QED
      BY <1>2, <1>4, <3>1, <3>2 DEF AcceptedInv
  <2>2. CASE ~ ConnectOK(db, job.target, nHeight[pindexBest])
    BY <1>3, <1>6, <2>2 DEF ExtendBestChain, SetBestChainFails, disk
  <2>3. QED
    BY <2>1, <2>2
<1>7. CASE ReorganizeCommit
  <2>1. /\ db' = [batch EXCEPT !.best = job.inter]
        /\ AtStage("connect") /\ batch \in View
        /\ job.inter \in Branch[job.target]
        /\ UNCHANGED <<mapBlockIndex, pindexBest>>
    BY <1>0, <1>7 DEF ReorganizeCommit, JobOK, AtStage
  <2>2. db'.best = job.inter /\ job.inter \in mapBlockIndex
    BY <1>1, <2>1 DEF View, AtStage
  <2>3. QED
    BY <1>2, <2>1, <2>2 DEF AcceptedInv
<1>8. CASE ConnectSecondary
  <2> DEFINE c == NextOn(job.target)
  <2>1. CASE ConnectOK(db, c, nHeight[pindexBest])
    <3>1. /\ SetBestChainInner(c) /\ AtStage("secondary")
          /\ job.tip \in Branch[job.target] /\ job.tip # job.target
          /\ UNCHANGED <<mapBlockIndex, pindexBest>>
      BY <1>0, <1>8, <2>1 DEF ConnectSecondary, JobOK
    <3>2. c \in mapBlockIndex
      BY <1>0, <1>1, <3>1, NextOnFinds DEF AtStage
    <3>3. QED
      BY <1>2, <1>4, <3>1, <3>2 DEF AcceptedInv
  <2>2. CASE ~ ConnectOK(db, c, nHeight[pindexBest])
    BY <1>3, <1>8, <2>2 DEF ConnectSecondary
  <2>3. QED
    BY <2>1, <2>2
<1>9. CASE NewBestBlock
  <2>1. job.target \in mapBlockIndex
    BY <1>9 DEF NewBestBlock, CheckpointInv, AtStage
  <2>2. QED
    BY <1>2, <1>9, <2>1 DEF NewBestBlock, AcceptedInv, disk
<1>10. CASE CrashAndLoadBlockIndex
  BY <1>2, <1>10 DEF CrashAndLoadBlockIndex, AcceptedInv, disk
<1>11. CASE ReorganizeDisconnect \/ ReorganizeConnect
  BY <1>3, <1>11 DEF ReorganizeDisconnect, ReorganizeConnect, SetBestChainFails, disk
<1>12. CASE \/ BeginReorganize \/ EndDisconnect \/ ReorganizeResurrect
            \/ ReorganizeDelete \/ EndSecondary
            \/ AcceptPendingSyncCheckpoint \/ WriteSyncCheckpoint
            \/ \E c \in Checkpoints : ProcessSyncCheckpoint(c)
            \/ \E t \in Tx : AcceptToMemoryPool(t)
            \/ UNCHANGED vars
  BY <1>3, <1>12 DEF BeginReorganize, EndDisconnect, ReorganizeResurrect,
     ReorganizeDelete, EndSecondary, AcceptPendingSyncCheckpoint,
     WriteSyncCheckpoint, ProcessSyncCheckpoint, AcceptToMemoryPool,
     vars, disk, memory
<1>13. QED
  BY <1>5, <1>6, <1>7, <1>8, <1>9, <1>10, <1>11, <1>12 DEF Next, SetBestChainStep

-----------------------------------------------------------------------------
(* The index                                                                *)

(* The database indexes the committed branch, the batch of a reorganization *)
(* the branch it has reached.                                              *)
IndexInv ==
    /\ Indexes(db, db.best)
    /\ AtStage("disconnect") \/ AtStage("connect") => Indexes(batch, job.tip)

CondIndexInv == ~ diverged => IndexInv

LedgerInv == StateInv /\ AcceptedInv /\ CondIndexInv

\* The first start's database indexes its branch.
LEMMA IndexInit == Init => IndexInv
BY IndexesGenesis DEF Init, IndexInv, AtStage, Idle, GenesisView

\* A block connected on db, one above its best.
LEMMA InnerIndexes ==
    ASSUME TypeOK, AcceptedInv, Indexes(db, db.best),
           NEW b \in mapBlockIndex, b # Genesis, pprev[b] = db.best,
           SetBestChainInner(b)
    PROVE  Indexes(db', db'.best)
<1>1. /\ b \in Block \ {Genesis} /\ db \in View
      /\ pnext \in [Block -> Block \cup {NoBlock}]
  BY DEF TypeOK
<1>2. /\ ConnectOK(db, b, nHeight[pindexBest])
      /\ db' = [Connect(db, b, pnext) EXCEPT !.best = b]
  BY DEF SetBestChainInner
<1>3. Connect(db, b, pnext) \in View
  BY <1>1, <1>2, ConnectType
<1>4. Indexes(Connect(db, b, pnext), b)
  BY <1>1, <1>2, ConnectIndexes
<1>5. Indexes(db', b)
  BY <1>1, <1>2, <1>3, <1>4, IndexesNoBest
<1>6. db'.best = b
  BY <1>2, <1>3 DEF View
<1>7. QED
  BY <1>5, <1>6

\* The steps that leave the database alone, and the batch behind or unused.
LEMMA IndexKeeps ==
    ASSUME IndexInv, UNCHANGED db,
           \/ job'.stage \notin {"disconnect", "connect"}
           \/ AtStage("disconnect") /\ job'.tip = job.tip /\ UNCHANGED batch
    PROVE  IndexInv'
BY DEF IndexInv, AtStage
\* One block disconnected or connected within the batch.
LEMMA BatchIndexes ==
    ASSUME TypeInv, CheckpointInv, AcceptedInv, IndexInv,
           ReorganizeDisconnect \/ ReorganizeConnect
    PROVE  IndexInv'
<1>0. /\ TypeOK /\ JobOK /\ job \in Job /\ job.target \in Block
      /\ job.inter \in Block /\ job.tip \in Block /\ job.fork \in Block
      /\ mapBlockIndex \subseteq Block
  BY DEF TypeInv, TypeOK, Job
<1>1. ASSUME SetBestChainFails PROVE IndexInv'
  <2>1. job'.stage = "idle" /\ UNCHANGED db
    BY <1>1 DEF SetBestChainFails, Idle, disk
  <2>2. QED
    BY <2>1, IndexKeeps
<1>2. CASE ReorganizeDisconnect
  <2>1. CASE DisconnectOK(batch, job.tip)
    <3>1. /\ AtStage("disconnect") /\ batch \in View /\ job.tip # job.fork
          /\ job.fork \in Branch[job.tip] /\ Indexes(batch, job.tip)
      BY <1>0, <1>2 DEF ReorganizeDisconnect, JobOK, IndexInv
    <3>2. job.tip \in Block \ {Genesis}
      BY <1>0, <3>1, BranchGenesis
    <3>3. /\ batch' = Disconnect(batch, job.tip) /\ UNCHANGED db
          /\ job' = [job EXCEPT !.tip = pprev[@],
                                !.vResurrect = @ \o UserTxs(job.tip)]
      BY <1>2, <2>1 DEF ReorganizeDisconnect, disk
    <3>4. job'.tip = pprev[job.tip]
      BY <1>0, <3>3 DEF Job
    <3>5. Indexes(batch', job'.tip)
      BY <3>1, <3>2, <3>3, <3>4, DisconnectIndexes
    <3>6. QED
      BY <3>3, <3>5 DEF IndexInv
  <2>2. CASE ~ DisconnectOK(batch, job.tip)
    BY <1>1, <1>2, <2>2 DEF ReorganizeDisconnect
  <2>3. QED
    BY <2>1, <2>2
<1>3. CASE ReorganizeConnect
  <2> DEFINE c == NextOn(job.inter)
  <2>1. CASE ConnectOK(batch, c, nHeight[pindexBest])
    <3>1. /\ AtStage("connect") /\ batch \in View /\ job.tip # job.inter
          /\ job.tip \in Branch[job.inter] /\ Indexes(batch, job.tip)
          /\ job.inter \in Branch[job.target] /\ job.target \in mapBlockIndex
      BY <1>0, <1>3 DEF ReorganizeConnect, JobOK, IndexInv, CheckpointInv, AtStage
    <3>2. /\ c \in Branch[job.inter] /\ c \in Block \ {Genesis}
          /\ pprev[c] = job.tip
      BY <1>0, <3>1, NextOnFinds
    <3>3. c \in mapBlockIndex
      BY <1>0, <3>1, <3>2, AcceptedBranch
    <3>4. /\ batch' = Connect(batch, c, pnext) /\ UNCHANGED db
          /\ job' = [job EXCEPT !.tip = c, !.vDelete = @ \o vtx[c]]
      BY <1>3, <2>1 DEF ReorganizeConnect, disk
    <3> HIDE DEF c
    <3>5. job'.tip = c
      BY <1>0, <3>4 DEF Job
    <3>6. ConnectOK(batch, c, nHeight[pindexBest])
      BY <2>1
    <3>7. Indexes(batch', c)
      BY <1>0, <3>1, <3>2, <3>3, <3>4, <3>6, ConnectIndexes
    <3>8. QED
      BY <3>4, <3>5, <3>7 DEF IndexInv
  <2>2. CASE ~ ConnectOK(batch, c, nHeight[pindexBest])
    BY <1>1, <1>3, <2>2 DEF ReorganizeConnect
  <2>3. QED
    BY <2>1, <2>2
<1>4. QED
  BY <1>2, <1>3

\* Every step keeps the database's index and the batch's in order.
LEMMA IndexStep ==
    ASSUME TypeInv, CheckpointInv, ChainInv, AcceptedInv, IndexInv,
           [Next]_vars, ~ diverged'
    PROVE  IndexInv'
<1>0. /\ TypeOK /\ JobOK /\ job \in Job /\ job.target \in Block
      /\ job.tip \in Block /\ db \in View /\ mapBlockIndex \subseteq Block
  BY DEF TypeInv, TypeOK, Job
<1>1. ASSUME UNCHANGED db, job'.stage \notin {"disconnect", "connect"}
      PROVE  IndexInv'
  BY <1>1, IndexKeeps
<1>2. CASE ExtendBestChain
  <2>1. CASE ConnectOK(db, job.target, nHeight[pindexBest])
    <3>1. /\ SetBestChainInner(job.target) /\ AtStage("setbest")
          /\ pprev[job.target] = db.best /\ job'.stage = "newbest"
      BY <1>0, <1>2, <2>1
         DEF ExtendBestChain, ChainInv, BeforeCommit, AtStage, Job
    <3>2. job.target \in mapBlockIndex /\ job.target # Genesis
      BY <1>0, <3>1, TreeAssumption DEF CheckpointInv, AtStage, View
    <3>3. Indexes(db', db'.best)
      BY <1>0, <3>1, <3>2, InnerIndexes DEF IndexInv
    <3>4. QED
      BY <3>1, <3>3 DEF IndexInv, AtStage
  <2>2. CASE ~ ConnectOK(db, job.target, nHeight[pindexBest])
    BY <1>1, <1>2, <2>2 DEF ExtendBestChain, SetBestChainFails, Idle, disk
  <2>3. QED
    BY <2>1, <2>2
<1>3. CASE BeginReorganize
  <2>1. /\ AtStage("setbest") /\ batch' = db /\ UNCHANGED db
    BY <1>3 DEF BeginReorganize, disk
  <2>2. job'.tip = pindexBest
    BY <1>0, <1>3 DEF BeginReorganize, Job
  <2>3. pindexBest = db.best
    BY <2>1 DEF ChainInv, BeforeCommit, AtStage
  <2>4. QED
    BY <2>1, <2>2, <2>3 DEF IndexInv
<1>4. CASE ReorganizeDisconnect \/ ReorganizeConnect
  BY <1>4, BatchIndexes
<1>5. CASE EndDisconnect
  <2>1. AtStage("disconnect") /\ job'.tip = job.tip /\ UNCHANGED <<db, batch>>
    BY <1>0, <1>5 DEF EndDisconnect, Job, disk
  <2>2. QED
    BY <2>1, IndexKeeps
<1>6. CASE ReorganizeCommit
  <2>1. /\ AtStage("connect") /\ job.tip = job.inter /\ batch \in View
        /\ db' = [batch EXCEPT !.best = job.inter] /\ job'.stage = "resurrect"
    BY <1>0, <1>6 DEF ReorganizeCommit, JobOK, Job
  <2>2. Indexes(db', job.inter) /\ db'.best = job.inter
    BY <1>0, <2>1, IndexesNoBest DEF IndexInv, View
  <2>3. QED
    BY <2>1, <2>2 DEF IndexInv, AtStage
<1>7. CASE ReorganizeResurrect \/ ReorganizeDelete \/ EndSecondary \/ NewBestBlock
  <2>1. UNCHANGED db /\ job'.stage \notin {"disconnect", "connect"}
    BY <1>0, <1>7 DEF ReorganizeResurrect, ReorganizeDelete, EndSecondary,
       NewBestBlock, AtStage, Job, disk
  <2>2. QED
    BY <1>1, <2>1
<1>8. CASE ConnectSecondary
  <2> DEFINE c == NextOn(job.target)
  <2>1. /\ SetBestChainInner(c) /\ job'.stage = "secondary"
        /\ AtStage("secondary") /\ job.tip # job.target
        /\ job.tip \in Branch[job.target] /\ job.tip = db.best
        /\ job.target \in mapBlockIndex
    BY <1>0, <1>8 DEF ConnectSecondary, JobOK, ChainInv, CheckpointInv, AtStage, Job
  <2>2. c \in Branch[job.target] /\ c # Genesis /\ pprev[c] = db.best
    BY <1>0, <2>1, NextOnFinds
  <2>3. c \in mapBlockIndex
    BY <1>0, <2>1, <2>2, AcceptedBranch
  <2> HIDE DEF c
  <2>4. Indexes(db', db'.best)
    BY <1>0, <2>1, <2>2, <2>3, InnerIndexes DEF IndexInv
  <2>5. QED
    BY <2>1, <2>4 DEF IndexInv, AtStage
<1>9. CASE \/ \E b \in Block : AcceptBlock(b)
           \/ AcceptPendingSyncCheckpoint \/ WriteSyncCheckpoint
           \/ \E x \in Checkpoints : ProcessSyncCheckpoint(x)
           \/ \E t \in Tx : AcceptToMemoryPool(t)
           \/ CrashAndLoadBlockIndex
  <2>1. /\ Idle.stage = "idle" /\ [Idle EXCEPT !.stage = "pending"].stage = "pending"
        /\ \A x : SwitchTo(x).stage \in {"writecp", "setbest"}
        /\ \A x, y : Start(x, y).stage = "setbest"
    BY DEF Idle, SwitchTo, Start
  <2>2. UNCHANGED db /\ job'.stage \notin {"disconnect", "connect"}
    BY <1>9, <2>1 DEF AcceptBlock, AcceptPendingSyncCheckpoint,
       WriteSyncCheckpoint, ProcessSyncCheckpoint, AcceptToMemoryPool,
       CrashAndLoadBlockIndex, AtStage, disk
  <2>3. QED
    BY <1>1, <2>2
<1>10. CASE UNCHANGED vars
  BY <1>10 DEF IndexInv, AtStage, vars, disk, memory
<1>11. QED
  BY <1>2, <1>3, <1>4, <1>5, <1>6, <1>7, <1>8, <1>9, <1>10
     DEF Next, SetBestChainStep

\* The first start satisfies the invariants of chain and index together,
LEMMA LedgerInvInit == Init => LedgerInv
BY TypeInit, CheckpointInit, ChainInit, AcceptedInit, IndexInit
   DEF LedgerInv, StateInv, CondInv, CondIndexInv

\* and every step keeps them.
LEMMA LedgerInvStep == LedgerInv /\ [Next]_vars => LedgerInv'
<1> SUFFICES ASSUME LedgerInv, [Next]_vars PROVE LedgerInv'
  OBVIOUS
<1>1. StateInv' /\ AcceptedInv'
  BY StateStep, AcceptedStep DEF LedgerInv, StateInv
<1>2. CondIndexInv'
  <2> SUFFICES ASSUME ~ diverged' PROVE IndexInv'
    BY DEF CondIndexInv
  <2>1. ~ diverged
    BY DivergedStays
  <2>2. /\ TypeInv /\ CheckpointInv /\ ChainInv /\ AcceptedInv /\ IndexInv
    BY <2>1 DEF LedgerInv, StateInv, CondInv, CondIndexInv
  <2>3. QED
    BY <2>2, IndexStep
<1>3. QED
  BY <1>1, <1>2 DEF LedgerInv

(* The index agrees with the chain in every reachable state, in the batch   *)
(* of a reorganization too.                                                *)
THEOREM LedgerInvariant == Spec => []LedgerInv
BY LedgerInvInit, LedgerInvStep, PTL DEF Spec

-----------------------------------------------------------------------------
(* What follows from it                                                     *)

(* No output is spent twice and none is lost: through every connect,        *)
(* disconnect, abort and crash the committed index says exactly what the   *)
(* committed chain says.                                                   *)
THEOREM SpentAlwaysMatches == Spec => []SpentMatchesChain
<1>1. LedgerInv => SpentMatchesChain
  BY DEF LedgerInv, CondIndexInv, IndexInv, SpentMatchesChain
<1>2. QED
  BY <1>1, LedgerInvariant, PTL

(* A reorganization never fails at disconnecting: DisconnectInputs finds    *)
(* the transaction of every input of every block of the old branch.        *)
THEOREM DisconnectsSucceed == Spec => []DisconnectNeverFails
<1>1. LedgerInv => DisconnectNeverFails
  <2> SUFFICES ASSUME LedgerInv, ~ diverged, AtStage("disconnect"),
                      job.tip # job.fork
               PROVE  DisconnectOK(batch, job.tip)
    BY DEF DisconnectNeverFails
  <2>1. /\ TypeOK /\ AcceptedInv /\ pindexBest \in mapBlockIndex
        /\ job.tip \in Block /\ job.fork \in Branch[job.tip]
        /\ job.tip \in Branch[pindexBest] /\ batch \in View
        /\ Indexes(batch, job.tip)
    BY DEF LedgerInv, StateInv, TypeInv, TypeOK, JobOK, Job, AcceptedInv,
       CondIndexInv, IndexInv
  <2>2. job.tip \in Block \ {Genesis}
    BY <2>1, BranchGenesis
  <2>3. CheckBlock(job.tip)
    BY <2>1, <2>2, AcceptedBranch DEF AcceptedInv, Accepted
  <2>4. QED
    BY <2>1, <2>2, <2>3, DisconnectSucceeds
<1>2. QED
  BY <1>1, LedgerInvariant, PTL

(* The index says what the committed chain says, so every block of the      *)
(* chain can be disconnected again.                                        *)
THEOREM IndexIsConsistent == Spec => []IndexConsistent
<1>1. SpentMatchesChain /\ DisconnectNeverFails => IndexConsistent
  BY DEF IndexConsistent
<1>2. QED
  BY <1>1, SpentAlwaysMatches, DisconnectsSucceed, PTL

-----------------------------------------------------------------------------
(* The abstract ledger: what replaying a branch leaves                      *)

(* The instance reads the tree, the transactions and their amounts exactly  *)
(* as the index does.                                                      *)
LEMMA LedgerReads ==
    /\ ChainLedger!Branch = Branch
    /\ \A b : ChainLedger!Created(b) =
                {o \in Outpoint : o[1] \in TxSet(b) /\ InRange(o)}
    /\ \A b : ChainLedger!Consumed(b) = UNION {vin[t] : t \in TxSet(b)}
<1>1. \A b : ChainLedger!TxSet(b) = TxSet(b)
  BY DEF ChainLedger!TxSet, TxSet
<1>2. \A o : ChainLedger!InRange(o) = InRange(o)
  BY DEF ChainLedger!InRange, InRange
<1>3. ChainLedger!Branch = Branch
  BY DEF ChainLedger!Branch, Branch, ChainLedger!DownClosed, DownClosed
<1>4. QED
  BY <1>1, <1>2, <1>3 DEF ChainLedger!Created, ChainLedger!Consumed,
     ChainLedger!Outpoint, Outpoint

\* What the ledger asks of a block, in the index's terms.
LEMMA SoundBlockIs ==
    ASSUME NEW b
    PROVE  ChainLedger!SoundBlock(b) <=>
              /\ \A t \in TxSet(b) : \A o \in vin[t] :
                    \/ o \in ChainLedger!Coins[pprev[b]]
                    \/ o \in ChainLedger!Created(b) /\ Before(b, o[1], t)
              /\ \A t, u \in TxSet(b) : t # u => vin[t] \cap vin[u] = {}
              /\ ChainLedger!Created(b) \cap ChainLedger!Coins[pprev[b]] = {}
              /\ \A t \in TxSet(b) \ (Coinbase \cup Coinstake) :
                    GetValueOut(t) <= GetValueIn(t)
<1>1. ChainLedger!TxSet(b) = TxSet(b)
  BY DEF ChainLedger!TxSet, TxSet
<1>2. \A p, t : ChainLedger!Before(b, p, t) <=> Before(b, p, t)
  BY DEF ChainLedger!Before, Before
<1>3. \A f : ChainLedger!SumFunction(f) = SumFunction(f)
  BY DEF ChainLedger!SumFunction, SumFunction, ChainLedger!SumFunctionOnSet,
     SumFunctionOnSet, ChainLedger!FoldFunctionOnSet, FoldFunctionOnSet,
     ChainLedger!MapThenFoldSet, MapThenFoldSet
<1>4. \A t : /\ ChainLedger!GetValueOut(t) = GetValueOut(t)
             /\ ChainLedger!GetValueIn(t) = GetValueIn(t)
  BY <1>3 DEF ChainLedger!GetValueOut, GetValueOut, ChainLedger!GetValueIn,
     GetValueIn, ChainLedger!Value, Value
<1>5. QED
  BY <1>1, <1>2, <1>4 DEF ChainLedger!SoundBlock

(* In closed form: the outputs a block of the branch creates and no block   *)
(* of it, from that one on, consumes.                                      *)
LeftBy(b) ==
    {o \in Outpoint : \E a \in Branch[b] \ {Genesis} :
        /\ o \in ChainLedger!Created(a)
        /\ \A c \in Branch[b] : a \in Branch[c] => o \notin ChainLedger!Consumed(c)}

\* The genesis block leaves nothing.
LEMMA LeftByGenesis == LeftBy(Genesis) = {}
BY BranchGenesis DEF LeftBy

\* One block more: what it creates joins, what it consumes goes.
LEMMA LeftByStep ==
    ASSUME NEW b \in Block \ {Genesis}
    PROVE  LeftBy(b) = (LeftBy(pprev[b]) \cup ChainLedger!Created(b))
                          \ ChainLedger!Consumed(b)
<1> DEFINE p == pprev[b]
           C(c) == ChainLedger!Created(c)
           D(c) == ChainLedger!Consumed(c)
<1>1. /\ p \in Block /\ Branch[b] = {b} \cup Branch[p] /\ b \notin Branch[p]
      /\ \A c \in Branch[p] : b \notin Branch[c]
  BY BranchStep, BranchHeight, BranchTransitive, BranchClosed, TreeAssumption
<1>2. C(b) \subseteq Outpoint
  BY LedgerReads
<1>3. \A a, c \in Branch[b] : a \in Branch[c] => c = b \/ a # b
  BY <1>1
<1>4. b \in Branch[b]
  BY <1>1
<1> HIDE DEF C, D
<1>5. LeftBy(b) = {o \in Outpoint : \E a \in Branch[b] \ {Genesis} :
        o \in C(a) /\ \A c \in Branch[b] : a \in Branch[c] => o \notin D(c)}
  BY DEF LeftBy, C, D
<1>6. LeftBy(p) = {o \in Outpoint : \E a \in Branch[p] \ {Genesis} :
        o \in C(a) /\ \A c \in Branch[p] : a \in Branch[c] => o \notin D(c)}
  BY DEF LeftBy, C, D
<1>7. ASSUME NEW o \in LeftBy(b) PROVE o \in (LeftBy(p) \cup C(b)) \ D(b)
  <2>1. PICK a \in Branch[b] \ {Genesis} :
          o \in C(a) /\ \A c \in Branch[b] : a \in Branch[c] => o \notin D(c)
    BY <1>5
  <2>2. o \notin D(b)
    BY <1>1, <2>1
  <2>3. CASE a = b
    BY <2>1, <2>2, <2>3
  <2>4. CASE a # b
    BY <1>1, <1>5, <1>6, <2>1, <2>2, <2>4
  <2>5. QED
    BY <2>3, <2>4
<1>8. ASSUME NEW o \in LeftBy(p), o \notin D(b) PROVE o \in LeftBy(b)
  BY <1>1, <1>5, <1>6, <1>8
<1>9. ASSUME NEW o \in C(b), o \notin D(b) PROVE o \in LeftBy(b)
  BY <1>1, <1>2, <1>4, <1>5, <1>9
<1>10. LeftBy(b) = (LeftBy(p) \cup C(b)) \ D(b)
  BY <1>7, <1>8, <1>9
<1>11. QED
  BY <1>10 DEF C, D

\* The recursion defines a function, and the closed form is that function.
LEMMA CoinsStep ==
    /\ ChainLedger!Coins[Genesis] = {}
    /\ \A b \in Block \ {Genesis} :
          ChainLedger!Coins[b] =
             (ChainLedger!Coins[pprev[b]] \cup ChainLedger!Created(b))
                \ ChainLedger!Consumed(b)
<1> DEFINE Step(f, b) ==
        IF b = Genesis THEN {}
        ELSE (f[pprev[b]] \cup ChainLedger!Created(b)) \ ChainLedger!Consumed(b)
    f == [b \in Block |-> LeftBy(b)]
<1>1. \A b \in Block : Step(f, b) = LeftBy(b)
  <2> SUFFICES ASSUME NEW b \in Block PROVE Step(f, b) = LeftBy(b)
    OBVIOUS
  <2>1. CASE b = Genesis
    BY <2>1, LeftByGenesis
  <2>2. CASE b # Genesis
    <3>1. pprev[b] \in Block
      BY <2>2, TreeAssumption
    <3>2. f[pprev[b]] = LeftBy(pprev[b])
      BY <3>1
    <3> HIDE DEF f
    <3>3. QED
      BY <2>2, <3>2, LeftByStep
  <2>3. QED
    BY <2>1, <2>2
<1>2. f = [b \in Block |-> Step(f, b)]
  BY <1>1
<1> HIDE DEF f
<1>3. \E g : g = [b \in Block |-> Step(g, b)]
  BY <1>2
<1>4. ChainLedger!Coins = [b \in Block |-> Step(ChainLedger!Coins, b)]
  BY <1>3 DEF ChainLedger!Coins
<1>5. \A b \in Block : ChainLedger!Coins[b] = Step(ChainLedger!Coins, b)
  BY <1>4
<1>6. QED
  BY <1>5, TreeAssumption

\* By the lowest block where they would differ.
LEMMA CoinsAreLeft ==
    ASSUME NEW b \in Block
    PROVE  ChainLedger!Coins[b] = LeftBy(b)
<1> DEFINE S == {c \in Block : ChainLedger!Coins[c] # LeftBy(c)}
<1> SUFFICES ASSUME S # {} PROVE FALSE
  OBVIOUS
<1>1. PICK c \in S : \A d \in S : nHeight[c] <= nHeight[d]
  BY LowestBlock
<1>2. c \in Block \ {Genesis}
  BY CoinsStep, LeftByGenesis
<1>3. pprev[c] \in Block /\ ~ (nHeight[c] <= nHeight[pprev[c]])
  BY <1>2, TreeAssumption
<1>4. ChainLedger!Coins[pprev[c]] = LeftBy(pprev[c])
  BY <1>1, <1>3
<1>5. QED
  BY <1>1, <1>2, <1>4, CoinsStep, LeftByStep

\* An index that says what a branch says leaves what the replay leaves.
LEMMA UnspentIsCoins ==
    ASSUME NEW v \in View, NEW tip \in Block, Indexes(v, tip)
    PROVE  Unspent(v) = ChainLedger!Coins[tip]
<1>1. ASSUME NEW o \in Unspent(v) PROVE o \in LeftBy(tip)
  <2> DEFINE a == v.pos[o[1]]
  <2>1. /\ o \in Outpoint /\ o[1] \in Tx /\ InRange(o)
        /\ Indexed(v, o[1]) /\ v.spent[o] = NoTx
    BY DEF Unspent, Outpoint
  <2>2. /\ a \in Branch[tip] /\ a \in Block \ {Genesis} /\ o[1] \in TxSet(a)
    BY <2>1, IndexedOnBranch
  <2> HIDE DEF a
  <2>3. o \in ChainLedger!Created(a)
    BY <2>1, <2>2, LedgerReads
  <2>4. ASSUME NEW c \in Branch[tip], a \in Branch[c], o \in ChainLedger!Consumed(c)
        PROVE  FALSE
    <3>1. c \in Block \ {Genesis}
      BY <2>2, <2>4, BranchClosed, BranchGenesis
    <3>2. PICK t \in TxSet(c) : o \in vin[t]
      BY <2>4, LedgerReads
    <3>3. t \in Tx /\ v.pos[t] = c /\ c # NoBlock
      BY <3>1, <3>2, TxSetType, TreeAssumption DEF Indexes
    <3>4. v.spent[o] = t
      BY <2>1, <3>2, <3>3 DEF Indexes, Indexed
    <3>5. QED
      BY <2>1, <3>3, <3>4, TxAssumption
  <2>5. QED
    BY <2>1, <2>2, <2>3, <2>4 DEF LeftBy
<1>2. ASSUME NEW o \in LeftBy(tip) PROVE o \in Unspent(v)
  <2>1. PICK a \in Branch[tip] \ {Genesis} :
          /\ o \in ChainLedger!Created(a)
          /\ \A c \in Branch[tip] : a \in Branch[c] => o \notin ChainLedger!Consumed(c)
    BY DEF LeftBy
  <2>2. /\ o \in Outpoint /\ o[1] \in Tx /\ o[1] \in TxSet(a) /\ InRange(o)
        /\ a \in Block
    BY <2>1, BranchClosed, TxSetType, LedgerReads DEF LeftBy, Outpoint
  <2>3. v.pos[o[1]] = a /\ Indexed(v, o[1])
    BY <2>1, <2>2, TreeAssumption DEF Indexes, Indexed
  <2>4. ASSUME v.spent[o] # NoTx PROVE FALSE
    <3> DEFINE t == v.spent[o]
               c == v.pos[t]
    <3>1. t \in Tx
      BY <2>2, <2>4 DEF View
    <3>2. Indexed(v, t) /\ o \in vin[t]
      BY <2>2, <3>1 DEF Indexes
    <3>3. c \in Branch[tip] /\ c \in Block /\ t \in TxSet(c)
      BY <3>1, <3>2, IndexedOnBranch
    <3>4. nHeight[a] < nHeight[c] \/ a = c
      BY <2>3, <3>1, <3>2 DEF Indexes
    <3>5. nHeight[a] \in Int /\ nHeight[c] \in Int
      BY <2>2, <3>3, TreeAssumption
    <3> HIDE DEF c, t
    <3>6. a \in Branch[c]
      BY <2>1, <3>3, <3>4, <3>5, BranchOrdered
    <3>7. o \in ChainLedger!Consumed(c)
      BY <3>2, <3>3, LedgerReads
    <3>8. QED
      BY <2>1, <3>3, <3>6, <3>7
  <2>5. QED
    BY <2>2, <2>3, <2>4 DEF Unspent
<1>3. QED
  BY <1>1, <1>2, CoinsAreLeft

(* A block that connects is sound: ConnectInputs found every input, no two  *)
(* transactions claim the same one, and each pays its fee.                 *)
LEMMA ConnectSound ==
    ASSUME TypeOK, AcceptedInv,
           NEW v \in View, NEW b \in Block \ {Genesis}, NEW h,
           b \in mapBlockIndex, Indexes(v, pprev[b]), ConnectOK(v, b, h)
    PROVE  ChainLedger!SoundBlock(b)
<1>1. pprev[b] \in Block /\ TxSet(b) \subseteq Tx
  BY TxSetType, TreeAssumption
<1>2. ChainLedger!Coins[pprev[b]] = Unspent(v)
  BY <1>1, UnspentIsCoins
<1>3. ASSUME NEW t \in TxSet(b), NEW o \in vin[t]
      PROVE  /\ InRange(o)
             /\ \/ o \in Unspent(v)
                \/ o \in ChainLedger!Created(b) /\ Before(b, o[1], t)
  <2>1. o \in Outpoint /\ o[1] \in Tx /\ t \notin Coinbase
    BY <1>1, InputType
  <2>2. InputOK(v, b, t, o)
    BY <2>1 DEF ConnectOK, ConnectInputsOK
  <2>3. CASE Before(b, o[1], t)
    BY <2>1, <2>2, <2>3, BeforeIn, LedgerReads DEF InputOK
  <2>4. CASE ~ Before(b, o[1], t)
    BY <2>1, <2>2, <2>4 DEF InputOK, Unspent
  <2>5. QED
    BY <2>3, <2>4
<1>4. ASSUME NEW t \in TxSet(b), NEW u \in TxSet(b), t # u
      PROVE  vin[t] \cap vin[u] = {}
  BY <1>4, SpenderIs
<1>5. ChainLedger!Created(b) \cap Unspent(v) = {}
  BY ConnectsFresh, LedgerReads DEF Unspent
<1>6. ASSUME NEW t \in TxSet(b) \ (Coinbase \cup Coinstake)
      PROVE  GetValueOut(t) <= GetValueIn(t)
  <2>1. GetValueIn(t) - GetValueOut(t) >= MIN_TX_FEE
    BY DEF ConnectOK, ConnectInputsOK, PaysFee
  <2>2. GetValueIn(t) \in Int /\ GetValueOut(t) \in Int
    BY <1>1, <1>3, ValuesType
  <2>3. QED
    BY <2>1, <2>2, TxAssumption
<1>7. QED
  BY <1>2, <1>3, <1>4, <1>5, <1>6, SoundBlockIs

-----------------------------------------------------------------------------
(* What the coins are worth                                                 *)

\* The worth of each output, and of a set of them.
Amount == [o \in Outpoint |-> Value(o)]
Worth(S) == Total(Amount, S)

\* It is a number where the output exists.
LEMMA AmountType ==
    ASSUME NEW o \in Outpoint, InRange(o)
    PROVE  Amount[o] \in Int
BY ValueType DEF Amount

\* A sum of values is a worth.
LEMMA WorthIs ==
    ASSUME NEW S \in SUBSET Outpoint, IsFiniteSet(S)
    PROVE  SumFunction([o \in S |-> Value(o)]) = Worth(S)
<1> DEFINE f == [o \in S |-> Value(o)]
<1>1. SumFunction(f) = Total(f, S)
  BY DEF SumFunction, Total
<1>2. \A o \in S : f[o] = Amount[o]
  BY DEF Amount
<1> HIDE DEF f
<1>3. Total(f, S) = Total(Amount, S)
  BY <1>2, TotalSame
<1>4. QED
  BY <1>1, <1>3 DEF Worth, f

\* The outputs of a transaction.
Outs(t) == {o \in Outpoint : o[1] = t /\ InRange(o)}

\* Together they are worth what GetValueOut says.
LEMMA OutsWorth ==
    ASSUME NEW t \in Tx
    PROVE  IsFiniteSet(Outs(t)) /\ Worth(Outs(t)) = GetValueOut(t)
<1> DEFINE S == DOMAIN vout[t]
           r == [n \in S |-> <<t, n>>]
           g == [n \in S |-> Amount[r[n]]]
<1>1. vout[t] \in Seq(Nat) /\ Len(vout[t]) <= MaxOut /\ S = 1..Len(vout[t]) /\ MaxOut \in Nat
  BY TxAssumption
<1>2. IsFiniteSet(S)
  BY <1>1, FS_Interval
<1>3. \A n \in S : r[n] = <<t, n>> /\ r[n] \in Outpoint /\ InRange(r[n])
  BY <1>1 DEF Outpoint, InRange
<1>4. Outs(t) = {r[n] : n \in S}
  <2>1. ASSUME NEW o \in Outs(t) PROVE o \in {r[n] : n \in S}
    <3>1. o = <<t, o[2]>> /\ o[2] \in 1..MaxOut /\ o[2] <= Len(vout[t])
      BY DEF Outs, Outpoint, InRange
    <3>2. o[2] \in S
      BY <1>1, <3>1
    <3>3. o = r[o[2]]
      BY <3>1, <3>2
    <3>4. QED
      BY <3>2, <3>3
  <2>2. ASSUME NEW n \in S PROVE r[n] \in Outs(t)
    BY <1>3 DEF Outs
  <2>3. QED
    BY <2>1, <2>2
<1>5. \A n \in S : g[n] = vout[t][n]
  BY <1>3 DEF Amount, Value
<1>6. \A m, n \in S : r[m] = r[n] => m = n
  BY <1>3
<1>7. \A n \in S : Amount[r[n]] \in Int
  BY <1>3, AmountType
<1>8. IsFiniteSet({r[n] : n \in S}) /\ Total(Amount, {r[n] : n \in S}) = Total(g, S)
  <2> HIDE DEF S, r
  <2>1. QED
    BY <1>2, <1>6, <1>7, TotalRenamed
<1>9. Total(g, S) = Total(vout[t], S)
  <2> HIDE DEF S, g
  <2>1. QED
    BY <1>2, <1>5, TotalSame
<1>10. GetValueOut(t) = Total(vout[t], S)
  BY DEF GetValueOut, SumFunction, Total
<1>11. QED
  BY <1>4, <1>8, <1>9, <1>10 DEF Worth

\* What a block creates is worth what its transactions put out.
LEMMA CreatedWorth ==
    ASSUME NEW b \in Block
    PROVE  /\ IsFiniteSet(ChainLedger!Created(b))
           /\ Worth(ChainLedger!Created(b))
                  = Total([t \in TxSet(b) |-> GetValueOut(t)], TxSet(b))
<1> DEFINE T == TxSet(b)
           F == [t \in T |-> Outs(t)]
           g == [t \in T |-> Total(Amount, F[t])]
           h == [t \in T |-> GetValueOut(t)]
<1>1. T \subseteq Tx /\ IsFiniteSet(T)
  BY TxSetType, TxSetFinite
<1>2. ChainLedger!Created(b) = UNION {F[t] : t \in T}
  BY LedgerReads DEF Outs
<1>3. \A t \in T : IsFiniteSet(F[t]) /\ g[t] = h[t]
  BY <1>1, OutsWorth DEF Worth
<1>4. \A t, u \in T : t # u => F[t] \cap F[u] = {}
  BY DEF Outs
<1>5. \A t \in T : \A o \in F[t] : Amount[o] \in Int
  BY AmountType DEF Outs
<1> HIDE DEF T, F
<1>6. /\ IsFiniteSet(UNION {F[t] : t \in T})
      /\ Total(Amount, UNION {F[t] : t \in T}) = Total(g, T)
  BY <1>1, <1>3, <1>4, <1>5, TotalFamily
<1> HIDE DEF g, h
<1>7. Total(g, T) = Total(h, T)
  BY <1>1, <1>3, TotalSame
<1>8. QED
  BY <1>2, <1>6, <1>7 DEF Worth, T, h

(* What a sound block consumes is worth what its transactions take in.      *)
LEMMA ConsumedWorth ==
    ASSUME NEW b \in Block,
           \A t, u \in TxSet(b) : t # u => vin[t] \cap vin[u] = {},
           \A o \in ChainLedger!Consumed(b) : InRange(o)
    PROVE  Worth(ChainLedger!Consumed(b))
              = Total([t \in TxSet(b) |-> GetValueIn(t)], TxSet(b))
<1> DEFINE T == TxSet(b)
           F == [t \in T |-> vin[t]]
           g == [t \in T |-> Total(Amount, F[t])]
           h == [t \in T |-> GetValueIn(t)]
<1>1. T \subseteq Tx /\ IsFiniteSet(T)
  BY TxSetType, TxSetFinite
<1>2. ChainLedger!Consumed(b) = UNION {F[t] : t \in T}
  BY LedgerReads
<1>3. \A t \in T : IsFiniteSet(F[t])
  BY <1>1, TxAssumption
<1>4. \A t \in T : g[t] = h[t]
  <2> SUFFICES ASSUME NEW t \in T PROVE Total(Amount, vin[t]) = GetValueIn(t)
    OBVIOUS
  <2>1. vin[t] \in SUBSET Outpoint /\ IsFiniteSet(vin[t])
    BY <1>1, TxAssumption
  <2>2. QED
    BY <2>1, WorthIs DEF GetValueIn, Worth
<1>5. \A t \in T : \A o \in F[t] : Amount[o] \in Int
  <2> SUFFICES ASSUME NEW t \in T, NEW o \in vin[t] PROVE Amount[o] \in Int
    OBVIOUS
  <2>1. o \in Outpoint /\ o \in ChainLedger!Consumed(b)
    BY <1>1, <1>2, TxAssumption
  <2>2. QED
    BY <2>1, AmountType
<1>6. \A t, u \in T : t # u => F[t] \cap F[u] = {}
  OBVIOUS
<1> HIDE DEF T, F
<1>7. Total(Amount, UNION {F[t] : t \in T}) = Total(g, T)
  BY <1>1, <1>3, <1>5, <1>6, TotalFamily
<1> HIDE DEF g, h
<1>8. Total(g, T) = Total(h, T)
  BY <1>1, <1>4, TotalSame
<1>9. QED
  BY <1>2, <1>7, <1>8 DEF Worth, T, h

\* The outputs a branch leaves exist.
LEMMA CoinsExist ==
    ASSUME NEW b \in Block
    PROVE  \A o \in ChainLedger!Coins[b] : o \in Outpoint /\ InRange(o)
BY CoinsAreLeft, LedgerReads DEF LeftBy

(* A sound block adds to the worth of the coins what it puts out and takes  *)
(* away what it takes in.                                                  *)
LEMMA BlockMints ==
    ASSUME NEW b \in Block \ {Genesis}, ChainLedger!SoundBlock(b),
           IsFiniteSet(ChainLedger!Coins[pprev[b]])
    PROVE  /\ IsFiniteSet(ChainLedger!Coins[b])
           /\ Worth(ChainLedger!Coins[b]) = Worth(ChainLedger!Coins[pprev[b]]) + Minted(b)
<1> DEFINE A == ChainLedger!Coins[pprev[b]]
           C == ChainLedger!Created(b)
           D == ChainLedger!Consumed(b)
           W == A \cup C
           L == W \ D
           MO == Total([t \in TxSet(b) |-> GetValueOut(t)], TxSet(b))
           MI == Total([t \in TxSet(b) |-> GetValueIn(t)], TxSet(b))
<1>1. pprev[b] \in Block
  BY TreeAssumption
<1>2. ChainLedger!Coins[b] = L
  BY CoinsStep
<1>3. \A o \in W : o \in Outpoint /\ InRange(o)
  BY <1>1, CoinsExist, LedgerReads
<1>4. D \subseteq W
  BY SoundBlockIs, LedgerReads
<1>5. C \cap A = {} /\ \A t, u \in TxSet(b) : t # u => vin[t] \cap vin[u] = {}
  BY SoundBlockIs
<1>6. IsFiniteSet(C) /\ Worth(C) = MO
  BY CreatedWorth
<1>7. \A o \in W : Amount[o] \in Int
  BY <1>3, AmountType
<1>8. IsFiniteSet(A)
  OBVIOUS
<1>9. \A o \in D : InRange(o)
  BY <1>3, <1>4
<1>10. Minted(b) = MO - MI
  BY MintedIs
<1> HIDE DEF A, C, MO, MI
<1>11. Total(Amount, W) = Total(Amount, A) + Total(Amount, C) /\ IsFiniteSet(W)
  <2>1. A \cap C = {} /\ \A o \in A \cup C : Amount[o] \in Int
    BY <1>5, <1>7
  <2>2. QED
    BY <1>6, <1>8, <2>1, TotalUnion, FS_Union
<1>12. IsFiniteSet(D) /\ IsFiniteSet(L)
  <2> HIDE DEF W, D
  <2>1. L \in SUBSET W /\ D \in SUBSET W
    BY <1>4
  <2>2. QED
    BY <1>11, <2>1, FS_Subset
<1>13. Worth(D) = MI
  BY <1>5, <1>9, ConsumedWorth DEF MI
<1> HIDE DEF D, W
<1>14. Total(Amount, L) = Total(Amount, W) - Total(Amount, D)
  BY <1>4, <1>7, <1>11, TotalMinus
<1>15. Total(Amount, A) \in Int /\ Total(Amount, C) \in Int /\ Total(Amount, D) \in Int
  <2>1. \A o \in A : Amount[o] \in Int
    BY <1>7 DEF W
  <2>2. \A o \in C : Amount[o] \in Int
    BY <1>7 DEF W
  <2>3. \A o \in D : Amount[o] \in Int
    BY <1>4, <1>7
  <2>4. QED
    BY <1>6, <1>8, <1>12, <2>1, <2>2, <2>3, TotalInt
<1> HIDE DEF L
<1>16. Total(Amount, L) = Total(Amount, A) + Minted(b)
  BY <1>6, <1>10, <1>11, <1>13, <1>14, <1>15 DEF Worth
<1>17. QED
  BY <1>2, <1>12, <1>16 DEF Worth, A

-----------------------------------------------------------------------------
(* The committed chain is sound                                             *)

\* Soundness starts at genesis, holds below a sound block, and reaches one
\* block higher with a sound block on top.
LEMMA SoundGenesis == ChainLedger!Sound(Genesis)
BY BranchGenesis, LedgerReads DEF ChainLedger!Sound

\* What a reorganization walks back over was sound.
LEMMA SoundBelow ==
    ASSUME NEW b \in Block, NEW a \in Branch[b], ChainLedger!Sound(b)
    PROVE  ChainLedger!Sound(a)
BY BranchTransitive, LedgerReads DEF ChainLedger!Sound

\* What it connects makes the branch one sound block longer.
LEMMA SoundAbove ==
    ASSUME NEW b \in Block \ {Genesis},
           ChainLedger!Sound(pprev[b]), ChainLedger!SoundBlock(b)
    PROVE  ChainLedger!Sound(b)
BY BranchStep, LedgerReads DEF ChainLedger!Sound

\* The supply a view records with each block of a branch is what its coins are worth.
SupplyIs(v, tip) == \A c \in Branch[tip] : v.supply[c] = Worth(ChainLedger!Coins[c])

\* A view that replays a branch: every block sound, every supply right.
Replays(v, tip) == ChainLedger!Sound(tip) /\ SupplyIs(v, tip)

\* A sound branch leaves finitely many coins, by its lowest block that would not.
LEMMA CoinsFinite ==
    ASSUME NEW b \in Block, ChainLedger!Sound(b)
    PROVE  IsFiniteSet(ChainLedger!Coins[b])
<1> DEFINE S == {c \in Branch[b] : ~ IsFiniteSet(ChainLedger!Coins[c])}
<1>1. b \in Branch[b] /\ Branch[b] \subseteq Block /\ DownClosed(Branch[b])
  BY BranchClosed
<1> SUFFICES ASSUME S # {} PROVE FALSE
  BY <1>1
<1>2. PICK c \in S : \A d \in S : nHeight[c] <= nHeight[d]
  <2>1. S \in SUBSET Block
    BY <1>1
  <2> HIDE DEF S
  <2>2. QED
    BY <2>1, LowestBlock
<1>3. c \in Branch[b] /\ c \in Block /\ ~ IsFiniteSet(ChainLedger!Coins[c])
  BY <1>1
<1>4. c # Genesis
  BY <1>3, CoinsStep, FS_EmptySet
<1>5. /\ pprev[c] \in Branch[b] /\ pprev[c] \in Block
      /\ ~ (nHeight[c] <= nHeight[pprev[c]])
  BY <1>1, <1>3, <1>4, TreeAssumption DEF DownClosed
<1>6. IsFiniteSet(ChainLedger!Coins[pprev[c]])
  BY <1>2, <1>5
<1>7. ChainLedger!SoundBlock(c)
  BY <1>3, <1>4, LedgerReads DEF ChainLedger!Sound
<1>8. QED
  BY <1>3, <1>4, <1>6, <1>7, BlockMints

\* The database of a first start replays the genesis block.
LEMMA ReplaysGenesis == Replays(GenesisView, Genesis)
<1>1. ChainLedger!Coins[Genesis] = {}
  BY CoinsStep
<1>2. Worth({}) = 0
  BY FS_EmptySet, TotalIs DEF Worth
<1>3. \A c \in Branch[Genesis] : c = Genesis /\ GenesisView.supply[c] = 0
  BY BranchGenesis, TreeAssumption DEF GenesisView
<1>4. QED
  BY <1>1, <1>2, <1>3, SoundGenesis DEF Replays, SupplyIs

\* Which best block a view names makes no difference.
LEMMA ReplaysNoBest ==
    ASSUME NEW v \in View, NEW b, NEW tip, Replays(v, tip)
    PROVE  Replays([v EXCEPT !.best = b], tip)
BY DEF Replays, SupplyIs, View

\* ConnectBlock records the supply of a branch one sound block longer.
LEMMA ConnectReplays ==
    ASSUME NEW v \in View, NEW b \in Block \ {Genesis}, NEW nexts,
           Replays(v, pprev[b]), ChainLedger!SoundBlock(b)
    PROVE  Replays(Connect(v, b, nexts), b)
<1>1. ChainLedger!Sound(b) /\ ChainLedger!Sound(pprev[b]) /\ SupplyIs(v, pprev[b])
  BY SoundAbove DEF Replays
<1>2. /\ pprev[b] \in Block /\ Branch[b] = {b} \cup Branch[pprev[b]]
      /\ b \notin Branch[pprev[b]] /\ pprev[b] \in Branch[pprev[b]]
  BY BranchStep, BranchHeight, BranchClosed, TreeAssumption
<1>3. Worth(ChainLedger!Coins[b]) = Worth(ChainLedger!Coins[pprev[b]]) + Minted(b)
  BY <1>1, <1>2, CoinsFinite, BlockMints
<1>4. Connect(v, b, nexts).supply = [v.supply EXCEPT ![b] = v.supply[pprev[b]] + Minted(b)]
  BY DEF Connect, View
<1>5. v.supply[pprev[b]] = Worth(ChainLedger!Coins[pprev[b]])
  BY <1>1, <1>2 DEF SupplyIs
<1>6. ASSUME NEW c \in Branch[b]
      PROVE  Connect(v, b, nexts).supply[c] = Worth(ChainLedger!Coins[c])
  <2>1. c \in Block /\ v.supply \in [Block -> Int]
    BY <1>2, BranchClosed DEF View
  <2>2. CASE c = b
    BY <1>3, <1>4, <1>5, <2>1, <2>2
  <2>3. CASE c # b
    BY <1>1, <1>2, <1>4, <2>1, <2>3 DEF SupplyIs
  <2>4. QED
    BY <2>2, <2>3
<1>7. QED
  BY <1>1, <1>6 DEF Replays, SupplyIs

\* DisconnectBlock leaves the records of the blocks below.
LEMMA DisconnectReplays ==
    ASSUME NEW v \in View, NEW b \in Block \ {Genesis}, Replays(v, b)
    PROVE  Replays(Disconnect(v, b), pprev[b])
<1>1. pprev[b] \in Branch[b] /\ Branch[pprev[b]] \subseteq Branch[b]
  BY BranchStep, BranchClosed
<1>2. Disconnect(v, b).supply = v.supply
  BY DEF Disconnect, View
<1>3. QED
  BY <1>1, <1>2, SoundBelow DEF Replays, SupplyIs

(* Every block of the committed chain was sound when it was connected, and  *)
(* its record holds the supply it left; so it is on the branch a            *)
(* reorganization has reached in its batch.                                *)
SoundInv ==
    /\ Replays(db, db.best)
    /\ AtStage("disconnect") \/ AtStage("connect") => Replays(batch, job.tip)

CondSoundInv == ~ diverged => SoundInv

\* The steps that leave the database alone, and the batch sound or unused.
LEMMA SoundKeeps ==
    ASSUME SoundInv, UNCHANGED db,
           \/ job'.stage \notin {"disconnect", "connect"}
           \/ Replays(batch', job'.tip)
    PROVE  SoundInv'
BY DEF SoundInv, AtStage

\* A new database holds the genesis block only.
LEMMA SoundInit == Init => SoundInv
BY ReplaysGenesis DEF Init, SoundInv, AtStage, Idle, GenesisView

\* A block connected on db, one above its best.
LEMMA InnerSound ==
    ASSUME TypeOK, AcceptedInv, IndexInv, SoundInv,
           NEW b \in mapBlockIndex, b # Genesis, pprev[b] = db.best,
           SetBestChainInner(b)
    PROVE  Replays(db', db'.best)
<1>1. /\ b \in Block \ {Genesis} /\ db \in View
      /\ pnext \in [Block -> Block \cup {NoBlock}]
  BY DEF TypeOK
<1>2. /\ ConnectOK(db, b, nHeight[pindexBest])
      /\ db' = [Connect(db, b, pnext) EXCEPT !.best = b]
  BY DEF SetBestChainInner
<1>3. Connect(db, b, pnext) \in View
  BY <1>1, <1>2, ConnectType
<1>4. ChainLedger!SoundBlock(b)
  BY <1>1, <1>2, ConnectSound DEF IndexInv
<1>5. Replays(Connect(db, b, pnext), b)
  BY <1>1, <1>4, ConnectReplays DEF SoundInv
<1>6. Replays(db', b)
  BY <1>2, <1>3, <1>5, ReplaysNoBest
<1>7. db'.best = b
  BY <1>2, <1>3 DEF View
<1>8. QED
  BY <1>6, <1>7

\* One block disconnected or connected within the batch.
LEMMA BatchSound ==
    ASSUME TypeInv, CheckpointInv, AcceptedInv, IndexInv, SoundInv,
           ReorganizeDisconnect \/ ReorganizeConnect
    PROVE  SoundInv'
<1>0. /\ TypeOK /\ JobOK /\ job \in Job /\ job.target \in Block
      /\ job.inter \in Block /\ job.tip \in Block /\ job.fork \in Block
      /\ mapBlockIndex \subseteq Block
  BY DEF TypeInv, TypeOK, Job
<1>1. ASSUME SetBestChainFails PROVE SoundInv'
  <2>1. job'.stage = "idle" /\ UNCHANGED db
    BY <1>1 DEF SetBestChainFails, Idle, disk
  <2>2. QED
    BY <2>1, SoundKeeps
<1>2. CASE ReorganizeDisconnect
  <2>1. CASE DisconnectOK(batch, job.tip)
    <3>1. /\ AtStage("disconnect") /\ batch \in View /\ job.tip # job.fork
          /\ job.fork \in Branch[job.tip] /\ Replays(batch, job.tip)
      BY <1>0, <1>2 DEF ReorganizeDisconnect, JobOK, SoundInv
    <3>2. job.tip \in Block \ {Genesis}
      BY <1>0, <3>1, BranchGenesis
    <3>3. /\ batch' = Disconnect(batch, job.tip) /\ UNCHANGED db
          /\ job' = [job EXCEPT !.tip = pprev[@],
                                !.vResurrect = @ \o UserTxs(job.tip)]
      BY <1>2, <2>1 DEF ReorganizeDisconnect, disk
    <3>4. job'.tip = pprev[job.tip]
      BY <1>0, <3>3 DEF Job
    <3>5. Replays(batch', job'.tip)
      BY <3>1, <3>2, <3>3, <3>4, DisconnectReplays
    <3>6. QED
      BY <3>3, <3>5, SoundKeeps
  <2>2. CASE ~ DisconnectOK(batch, job.tip)
    BY <1>1, <1>2, <2>2 DEF ReorganizeDisconnect
  <2>3. QED
    BY <2>1, <2>2
<1>3. CASE ReorganizeConnect
  <2> DEFINE c == NextOn(job.inter)
  <2>1. CASE ConnectOK(batch, c, nHeight[pindexBest])
    <3>1. /\ AtStage("connect") /\ batch \in View /\ job.tip # job.inter
          /\ job.tip \in Branch[job.inter] /\ Indexes(batch, job.tip)
          /\ job.inter \in Branch[job.target] /\ job.target \in mapBlockIndex
          /\ Replays(batch, job.tip)
      BY <1>0, <1>3 DEF ReorganizeConnect, JobOK, IndexInv, SoundInv,
         CheckpointInv, AtStage
    <3>2. /\ c \in Branch[job.inter] /\ c \in Block \ {Genesis}
          /\ pprev[c] = job.tip
      BY <1>0, <3>1, NextOnFinds
    <3>3. c \in mapBlockIndex
      BY <1>0, <3>1, <3>2, AcceptedBranch
    <3>4. /\ batch' = Connect(batch, c, pnext) /\ UNCHANGED db
          /\ job' = [job EXCEPT !.tip = c, !.vDelete = @ \o vtx[c]]
      BY <1>3, <2>1 DEF ReorganizeConnect, disk
    <3> HIDE DEF c
    <3>5. job'.tip = c
      BY <1>0, <3>4 DEF Job
    <3>6. ConnectOK(batch, c, nHeight[pindexBest])
      BY <2>1
    <3>7. ChainLedger!SoundBlock(c)
      BY <1>0, <3>1, <3>2, <3>3, <3>6, ConnectSound
    <3>8. Replays(batch', job'.tip)
      BY <3>1, <3>2, <3>4, <3>5, <3>7, ConnectReplays
    <3>9. QED
      BY <3>4, <3>8, SoundKeeps
  <2>2. CASE ~ ConnectOK(batch, c, nHeight[pindexBest])
    BY <1>1, <1>3, <2>2 DEF ReorganizeConnect
  <2>3. QED
    BY <2>1, <2>2
<1>4. QED
  BY <1>2, <1>3

\* Every step leaves the committed chain, and the batch's, sound.
LEMMA SoundStep ==
    ASSUME TypeInv, CheckpointInv, ChainInv, AcceptedInv, IndexInv, SoundInv,
           [Next]_vars, ~ diverged'
    PROVE  SoundInv'
<1>0. /\ TypeOK /\ JobOK /\ job \in Job /\ job.target \in Block
      /\ job.tip \in Block /\ db \in View /\ mapBlockIndex \subseteq Block
  BY DEF TypeInv, TypeOK, Job
<1>1. ASSUME UNCHANGED db, job'.stage \notin {"disconnect", "connect"}
      PROVE  SoundInv'
  BY <1>1, SoundKeeps
<1>2. CASE ExtendBestChain
  <2>1. CASE ConnectOK(db, job.target, nHeight[pindexBest])
    <3>1. /\ SetBestChainInner(job.target) /\ AtStage("setbest")
          /\ pprev[job.target] = db.best /\ job'.stage = "newbest"
      BY <1>0, <1>2, <2>1
         DEF ExtendBestChain, ChainInv, BeforeCommit, AtStage, Job
    <3>2. job.target \in mapBlockIndex /\ job.target # Genesis
      BY <1>0, <3>1, TreeAssumption DEF CheckpointInv, AtStage, View
    <3>3. Replays(db', db'.best)
      BY <1>0, <3>1, <3>2, InnerSound
    <3>4. QED
      BY <3>1, <3>3 DEF SoundInv, AtStage
  <2>2. CASE ~ ConnectOK(db, job.target, nHeight[pindexBest])
    BY <1>1, <1>2, <2>2 DEF ExtendBestChain, SetBestChainFails, Idle, disk
  <2>3. QED
    BY <2>1, <2>2
<1>3. CASE BeginReorganize
  <2>1. /\ AtStage("setbest") /\ batch' = db /\ UNCHANGED db
    BY <1>3 DEF BeginReorganize, disk
  <2>2. job'.tip = pindexBest
    BY <1>0, <1>3 DEF BeginReorganize, Job
  <2>3. pindexBest = db.best
    BY <2>1 DEF ChainInv, BeforeCommit, AtStage
  <2>4. QED
    BY <2>1, <2>2, <2>3 DEF SoundInv
<1>4. CASE ReorganizeDisconnect \/ ReorganizeConnect
  BY <1>4, BatchSound
<1>5. CASE EndDisconnect
  <2>1. AtStage("disconnect") /\ job'.tip = job.tip /\ UNCHANGED <<db, batch>>
    BY <1>0, <1>5 DEF EndDisconnect, Job, disk
  <2>2. QED
    BY <2>1, SoundKeeps DEF SoundInv
<1>6. CASE ReorganizeCommit
  <2>1. /\ AtStage("connect") /\ job.tip = job.inter /\ batch \in View
        /\ db' = [batch EXCEPT !.best = job.inter] /\ job'.stage = "resurrect"
    BY <1>0, <1>6 DEF ReorganizeCommit, JobOK, Job
  <2>2. Replays(db', job.tip) /\ db'.best = job.tip
    BY <2>1, ReplaysNoBest DEF SoundInv, View
  <2>3. QED
    BY <2>1, <2>2 DEF SoundInv, AtStage
<1>7. CASE ReorganizeResurrect \/ ReorganizeDelete \/ EndSecondary \/ NewBestBlock
  <2>1. UNCHANGED db /\ job'.stage \notin {"disconnect", "connect"}
    BY <1>0, <1>7 DEF ReorganizeResurrect, ReorganizeDelete, EndSecondary,
       NewBestBlock, AtStage, Job, disk
  <2>2. QED
    BY <1>1, <2>1
<1>8. CASE ConnectSecondary
  <2> DEFINE c == NextOn(job.target)
  <2>1. /\ SetBestChainInner(c) /\ job'.stage = "secondary"
        /\ AtStage("secondary") /\ job.tip # job.target
        /\ job.tip \in Branch[job.target] /\ job.tip = db.best
        /\ job.target \in mapBlockIndex
    BY <1>0, <1>8 DEF ConnectSecondary, JobOK, ChainInv, CheckpointInv, AtStage, Job
  <2>2. c \in Branch[job.target] /\ c # Genesis /\ pprev[c] = db.best
    BY <1>0, <2>1, NextOnFinds
  <2>3. c \in mapBlockIndex
    BY <1>0, <2>1, <2>2, AcceptedBranch
  <2> HIDE DEF c
  <2>4. Replays(db', db'.best)
    BY <1>0, <2>1, <2>2, <2>3, InnerSound
  <2>5. QED
    BY <2>1, <2>4 DEF SoundInv, AtStage
<1>9. CASE \/ \E b \in Block : AcceptBlock(b)
           \/ AcceptPendingSyncCheckpoint \/ WriteSyncCheckpoint
           \/ \E x \in Checkpoints : ProcessSyncCheckpoint(x)
           \/ \E t \in Tx : AcceptToMemoryPool(t)
           \/ CrashAndLoadBlockIndex
  <2>1. /\ Idle.stage = "idle" /\ [Idle EXCEPT !.stage = "pending"].stage = "pending"
        /\ \A x : SwitchTo(x).stage \in {"writecp", "setbest"}
        /\ \A x, y : Start(x, y).stage = "setbest"
    BY DEF Idle, SwitchTo, Start
  <2>2. UNCHANGED db /\ job'.stage \notin {"disconnect", "connect"}
    BY <1>9, <2>1 DEF AcceptBlock, AcceptPendingSyncCheckpoint,
       WriteSyncCheckpoint, ProcessSyncCheckpoint, AcceptToMemoryPool,
       CrashAndLoadBlockIndex, AtStage, disk
  <2>3. QED
    BY <1>1, <2>2
<1>10. CASE UNCHANGED vars
  BY <1>10 DEF SoundInv, AtStage, vars, disk, memory
<1>11. QED
  BY <1>2, <1>3, <1>4, <1>5, <1>6, <1>7, <1>8, <1>9, <1>10
     DEF Next, SetBestChainStep

(* What the refinement rests on: the index agrees with the chain, and the   *)
(* chain is sound.                                                         *)
ReplayInv == LedgerInv /\ CondSoundInv

\* Every step keeps both.
LEMMA ReplayStep ==
    ASSUME ReplayInv, [Next]_vars
    PROVE  ReplayInv'
<1>1. LedgerInv'
  BY LedgerInvStep DEF ReplayInv
<1>2. ASSUME ~ diverged' PROVE SoundInv'
  <2>1. ~ diverged
    BY <1>2, DivergedStays
  <2>2. /\ TypeInv /\ CheckpointInv /\ ChainInv /\ AcceptedInv /\ IndexInv
        /\ SoundInv
    BY <2>1 DEF ReplayInv, LedgerInv, StateInv, CondInv, CondIndexInv, CondSoundInv
  <2>3. QED
    BY <1>2, <2>2, SoundStep
<1>3. QED
  BY <1>1, <1>2 DEF ReplayInv, CondSoundInv

(* Every step of the chain is one of the ledger's, or one the ledger does   *)
(* not see: a commit swaps the whole branch, WriteSyncCheckpoint pins.      *)
LEMMA ChainStepIsLedgerStep ==
    ASSUME ReplayInv, ReplayInv', [Next]_vars, ~ diverged'
    PROVE  [ChainLedger!LedgerNext]_(ChainLedger!lvars)
<1>0. /\ ~ diverged
      /\ TypeInv /\ CheckpointInv /\ ChainInv
      /\ TypeInv' /\ ChainInv' /\ IndexInv' /\ SoundInv'
  BY DivergedStays
     DEF ReplayInv, LedgerInv, StateInv, CondInv, CondIndexInv, CondSoundInv
<1>1. WriteSyncCheckpoint \/ UNCHANGED hashSyncCheckpoint
  BY DEF Next, SetBestChainStep, vars, disk, AcceptBlock, ExtendBestChain,
     SetBestChainFails, BeginReorganize, ReorganizeDisconnect, EndDisconnect,
     ReorganizeConnect, ReorganizeCommit, ReorganizeResurrect,
     ReorganizeDelete, ConnectSecondary, EndSecondary, NewBestBlock,
     AcceptPendingSyncCheckpoint, ProcessSyncCheckpoint,
     AcceptToMemoryPool, CrashAndLoadBlockIndex, SetBestChainInner
<1>2. CASE UNCHANGED <<db, hashSyncCheckpoint>>
  <2>1. Unspent(db)' = Unspent(db)
    BY <1>2 DEF Unspent, Indexed
  <2>2. QED
    BY <1>2, <2>1 DEF ChainLedger!lvars
<1>3. CASE WriteSyncCheckpoint
  <2>1. /\ UNCHANGED db /\ hashSyncCheckpoint' = job.target
        /\ job.target \in Block /\ job.target \in Branch[db.best]
        /\ hashSyncCheckpoint \in Branch[job.target]
    BY <1>0, <1>3 DEF WriteSyncCheckpoint, CheckpointInv, ChainInv, AtStage,
       TypeInv, TypeOK, Job
  <2>2. Unspent(db)' = Unspent(db)
    BY <2>1 DEF Unspent, Indexed
  <2>3. ChainLedger!Pin(job.target)
    BY <2>1, <2>2, LedgerReads DEF ChainLedger!Pin
  <2>4. QED
    BY <2>1, <2>3 DEF ChainLedger!LedgerNext
<1>4. CASE UNCHANGED hashSyncCheckpoint
  <2>1. /\ db' \in View /\ db'.best \in Block
        /\ Indexes(db', db'.best) /\ ChainLedger!Sound(db'.best)
        /\ hashSyncCheckpoint' \in Branch[db'.best]
    BY <1>0 DEF TypeInv, TypeOK, View, IndexInv, SoundInv, Replays, ChainInv
  <2>2. Unspent(db)' = Unspent(db')
    BY DEF Unspent, Indexed
  <2>3. Unspent(db') = ChainLedger!Coins[db'.best]
    BY <2>1, UnspentIsCoins
  <2>4. ChainLedger!Move(db'.best)
    BY <1>4, <2>1, <2>2, <2>3, LedgerReads DEF ChainLedger!Move
  <2>5. QED
    BY <2>1, <2>4 DEF ChainLedger!LedgerNext
<1>5. QED
  BY <1>1, <1>3, <1>4

(* The database implements the abstract ledger: through every connect,      *)
(* disconnect, abort and crash the spendable outputs are exactly what       *)
(* replaying one sound branch leaves, a reorganization is one step, and no  *)
(* step leaves the branch the checkpoint was pinned on.                     *)
THEOREM ChainImplementsLedger == Spec => ImplementsLedger
<1>1. Init => ReplayInv /\ ChainLedger!LedgerInit
  <2> SUFFICES ASSUME Init PROVE ReplayInv /\ ChainLedger!LedgerInit
    OBVIOUS
  <2>1. ReplayInv
    BY LedgerInvInit, SoundInit DEF ReplayInv, CondSoundInv
  <2>2. /\ db = GenesisView /\ db.best = Genesis
        /\ hashSyncCheckpoint = Genesis
    BY DEF Init, GenesisView
  <2>3. Unspent(db) = {}
    BY <2>2 DEF Unspent, Indexed, GenesisView, Outpoint
  <2>4. QED
    BY <2>1, <2>2, <2>3 DEF ChainLedger!LedgerInit
<1>2. ReplayInv /\ [Next]_vars => ReplayInv'
  BY ReplayStep
<1>3. ReplayInv /\ ReplayInv' /\ [Next]_vars
        => [diverged' \/ ChainLedger!LedgerNext]_(ChainLedger!lvars)
  BY ChainStepIsLedgerStep
<1>4. QED
  BY <1>1, <1>2, <1>3, PTL DEF Spec, ImplementsLedger

(* The supply that ConnectBlock adds up block by block is what the outputs  *)
(* nothing has spent are worth, through every reorganization and crash:     *)
(* no connect or disconnect creates or loses money.                        *)
THEOREM SupplyIsUnspent == Spec => []MoneySupplyIsUnspent
<1>1. Init => ReplayInv
  BY LedgerInvInit, SoundInit DEF ReplayInv, CondSoundInv
<1>2. ReplayInv /\ [Next]_vars => ReplayInv'
  BY ReplayStep
<1>3. ReplayInv => MoneySupplyIsUnspent
  <2> SUFFICES ASSUME ReplayInv, ~ diverged
               PROVE  db.supply[db.best] = SumFunction([o \in Unspent(db) |-> Value(o)])
    BY DEF MoneySupplyIsUnspent
  <2>1. /\ db \in View /\ db.best \in Block
        /\ Indexes(db, db.best) /\ Replays(db, db.best)
    BY DEF ReplayInv, LedgerInv, StateInv, TypeInv, TypeOK, View, CondIndexInv,
       IndexInv, CondSoundInv, SoundInv
  <2>2. Unspent(db) = ChainLedger!Coins[db.best] /\ Unspent(db) \in SUBSET Outpoint
    BY <2>1, UnspentIsCoins DEF Unspent
  <2>3. db.supply[db.best] = Worth(Unspent(db))
    BY <2>1, <2>2, BranchClosed DEF Replays, SupplyIs
  <2>4. IsFiniteSet(Unspent(db))
    BY <2>1, <2>2, CoinsFinite DEF Replays
  <2>5. QED
    BY <2>2, <2>3, <2>4, WorthIs
<1>4. QED
  BY <1>1, <1>2, <1>3, PTL DEF Spec
=============================================================================
