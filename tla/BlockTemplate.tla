---------------------------- MODULE BlockTemplate ----------------------------
(***************************************************************************)
(* CreateNewBlock's choice of pool transactions (miner.cpp), made in one   *)
(* piece under cs_main and mempool.cs on the view v of the database.  st   *)
(* holds its locals:                                                       *)
(*   vtx           the transactions added, without the coinbase            *)
(*   vecPriority   the heap of transactions to try next                    *)
(*   setDependsOn  for a transaction, the pool transactions it waits for   *)
(*   freed         records of mapDependers that are no longer there        *)
(*   mapTestPool   the outputs spent so far of indexed transactions and of *)
(*                 those added; the added ones have an entry of their own  *)
(*   nFees         the fees collected                                      *)
(* Priorities and fees per kilobyte order the heap; here any of it may     *)
(* come first.                                                             *)
(***************************************************************************)
EXTENDS MemPool, Functions

\* ReadFromDisk finds the transaction of an input indexed.
ReadFromDisk(v, o) == Indexed(v, o[1]) /\ InRange(o)

(* The pool transactions none of whose inputs is in neither index nor pool. *)
Candidates(pool, v) ==
    {t \in pool.mapTx \ (Coinbase \cup Coinstake) :
        \A o \in vin[t] : ReadFromDisk(v, o) \/ o[1] \in pool.mapTx}

(* The others, if an input was seen in the pool before the missing one:     *)
(* vOrphan.pop_back() frees the record that mapDependers still points to,  *)
(* and what it then holds is undefined.                                    *)
Freed(pool, v) ==
    {t \in pool.mapTx \ Candidates(pool, v) :
        \E o \in vin[t] : ~ ReadFromDisk(v, o) /\ o[1] \in pool.mapTx}

DependsOn(v, t) == {o[1] : o \in {p \in vin[t] : ~ ReadFromDisk(v, p)}}

\* The locals when the pool has been gone through.
Collected(pool, v) ==
    [vtx          |-> <<>>,
     vecPriority  |-> {t \in Candidates(pool, v) : DependsOn(v, t) = {}},
     setDependsOn |-> [t \in Candidates(pool, v) |-> DependsOn(v, t)],
     freed        |-> Freed(pool, v),
     mapTestPool  |-> {},
     nFees        |-> 0]

\* What a transaction takes of the block, by its inputs and outputs.
nTxSize(t) == Cardinality(vin[t]) + Len(vout[t])
nBlockSize(txs) == MapThenSumSet(nTxSize, Range(txs))

(* FetchInputs with fMiner: an input is in mapTestPool or in the index,     *)
(* never in the pool alone.                                                *)
FetchInputs(st, v, t) ==
    \A o \in vin[t] : (o[1] \in Range(st.vtx) \/ Indexed(v, o[1])) /\ InRange(o)

\* Fault: what the pool took in is still there to spend.
ConnectInputsOfPool(st, v, pindexPrev, t) ==
    /\ \A o \in vin[t] : o \notin st.mapTestPool
    /\ PaysFee(t)

\* ConnectInputs with fMiner, for a block on pindexPrev.
ConnectInputs(st, v, pindexPrev, t) ==
    /\ \A o \in vin[t] :
          /\ o[1] \notin Range(st.vtx) =>
                /\ o[1] \in Coinbase \cup Coinstake => ~ Immature(pindexPrev, v.pos[o[1]])
                /\ v.spent[o] = NoTx
          /\ o \notin st.mapTestPool
    /\ t \in ScriptsOK
    /\ PaysFee(t)

Skip(st, t) == [st EXCEPT !.vecPriority = @ \ {t}]

(* The transaction is added and its inputs are spent.  Those that waited    *)
(* for it alone are queued; of the freed records any may be.               *)
Add(st, t) ==
    LET Waiting == {u \in DOMAIN st.setDependsOn : st.setDependsOn[u] = {t}}
        Dangling == {u \in st.freed : \E o \in vin[u] : o[1] = t}
    IN  {[st EXCEPT
            !.vtx          = Append(@, t),
            !.vecPriority  = (@ \ {t}) \cup Waiting \cup woken,
            !.setDependsOn = [u \in DOMAIN @ |-> @[u] \ {t}],
            !.mapTestPool  = @ \cup vin[t],
            !.nFees        = @ + GetValueIn(t) - GetValueOut(t)] :
         woken \in SUBSET Dangling}

\* The heap's first, t: skipped for its size or its inputs, or added.
TakeFirst(st, v, pindexPrev, nBlockMaxSize, t) ==
    IF /\ nBlockSize(st.vtx) + nTxSize(t) < nBlockMaxSize
       /\ FetchInputs(st, v, t)
       /\ ConnectInputs(st, v, pindexPrev, t)
    THEN Add(st, t)
    ELSE {Skip(st, t)}

\* Bound: a transaction is queued at the start or by one of its inputs.
MaxPops(pool) == Cardinality(pool.mapTx) + Cardinality(UNION {vin[t] : t \in pool.mapTx})

(* The templates CreateNewBlock may return: the loop takes one transaction  *)
(* off the heap at a time until it is empty.                               *)
CreateNewBlock(pool, v, pindexPrev, nBlockMaxSize) ==
    LET Loop[n \in 0..MaxPops(pool)] ==
            IF n = 0 THEN {Collected(pool, v)}
            ELSE UNION {IF st.vecPriority = {} THEN {st}
                        ELSE UNION {TakeFirst(st, v, pindexPrev, nBlockMaxSize, t) :
                                       t \in st.vecPriority} :
                        st \in Loop[n - 1]}
    IN  Loop[MaxPops(pool)]
=============================================================================
