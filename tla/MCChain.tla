------------------------------- MODULE MCChain -------------------------------
(***************************************************************************)
(* ChainState on a tree of eleven blocks:                                  *)
(*                                                                         *)
(*                   e                                                     *)
(*                  /                                                      *)
(*      g - p - q - a1 - a2 - d      a2 carries A, its child B, and E;     *)
(*                \                  d repeats the coinbase of q;          *)
(*                 \                 e carries A and C, both spending cp   *)
(*                  b1 - b2 - b3 - b4                                      *)
(*                                   b2 carries C, which conflicts with A; *)
(*                                   b3 is proof-of-stake; b4 carries A,   *)
(*                                   whose input C has already spent       *)
(*                                                                         *)
(* a2 is heavier than b2 and b3 heavier than a2, so that, with the order   *)
(* of arrival free, either branch can be reorganized away.  The coinbases  *)
(* of p and q mature at the heights of a1, b1 and of a2, b2.  d, e and b4  *)
(* are the blocks that must never take effect: d is refused on arrival, e  *)
(* fails within the batch of a reorganization, b4 after it.  F, the child   *)
(* of A and B, is in no block.                                             *)
(***************************************************************************)
EXTENDS ChainProperties, BlockTemplate

MCBlock == {"g", "p", "q", "a1", "a2", "d", "e", "b1", "b2", "b3", "b4"}

MCpprev ==
    [b \in MCBlock |->
        CASE b = "g" -> "none"  [] b = "p" -> "g"   [] b = "q" -> "p"
          [] b = "a1" -> "q"    [] b = "a2" -> "a1" [] b = "d" -> "a2"
          [] b = "e" -> "a1"
          [] b = "b1" -> "q"    [] b = "b2" -> "b1" [] b = "b3" -> "b2"
          [] b = "b4" -> "b3"]

MCnHeight ==
    [b \in MCBlock |->
        CASE b = "g" -> 0 [] b = "p" -> 1 [] b = "q" -> 2
          [] b \in {"a1", "b1"} -> 3 [] b \in {"a2", "b2", "e"} -> 4
          [] b \in {"d", "b3"} -> 5  [] b = "b4" -> 6]

MCnChainTrust ==
    [b \in MCBlock |->
        CASE b = "g" -> 0 [] b = "p" -> 1 [] b = "q" -> 2 [] b = "b1" -> 3
          [] b = "a1" -> 4 [] b = "b2" -> 5 [] b = "a2" -> 6 [] b = "d" -> 7
          [] b = "e" -> 8 [] b = "b3" -> 9 [] b = "b4" -> 10]

MCCoinbase == {"cp", "cq", "ca1", "ca2", "ce", "cb1", "cb2", "cb3", "cb4"}
MCTx == MCCoinbase \cup {"A", "B", "C", "E", "F", "S"}

MCvtx ==
    [b \in MCBlock |->
        CASE b = "g" -> <<>>
          [] b = "p" -> <<"cp">>       [] b = "q" -> <<"cq">>
          [] b = "a1" -> <<"ca1">>     [] b = "a2" -> <<"ca2", "A", "B", "E">>
          [] b = "e" -> <<"ce", "A", "C">>
          [] b = "d" -> <<"cq">>       [] b = "b1" -> <<"cb1">>
          [] b = "b2" -> <<"cb2", "C">>
          [] b = "b3" -> <<"cb3", "S">> [] b = "b4" -> <<"cb4", "A">>]

\* The same without C in b2: A and C then meet only in the pool.
MCvtxNoC == [MCvtx EXCEPT !["b2"] = <<"cb2">>]

MCvin ==
    [t \in MCTx |->
        CASE t = "A" -> {<<"cp", 1>>} [] t = "B" -> {<<"A", 1>>}
          [] t = "C" -> {<<"cp", 1>>} [] t = "S" -> {<<"cp", 2>>}
          [] t = "E" -> {<<"cq", 1>>} [] t = "F" -> {<<"A", 2>>, <<"B", 1>>}
          [] OTHER -> {}]

MCvout ==
    [t \in MCTx |->
        CASE t = "cp" -> <<4, 2>> [] t = "cb3" -> <<0>> [] t = "S" -> <<3>>
          [] t = "A" -> <<2, 1>> [] t = "B" -> <<1>> [] t = "C" -> <<2, 1>>
          [] t = "cq" -> <<5>> [] t = "E" -> <<3>>
          [] OTHER -> <<1>>]

MCCoinbaseHeight ==
    [t \in MCCoinbase |->
        CASE t = "cp" -> 1 [] t = "cq" -> 2 [] t \in {"ca1", "cb1"} -> 3
          [] t \in {"ca2", "cb2", "ce"} -> 4 [] t = "cb3" -> 5 [] t = "cb4" -> 6]

MCSubsidy == [h \in 0..6 |-> 6]
MCStakeLimit == [t \in {"S"} |-> 1]

-----------------------------------------------------------------------------
(* As long as there is no crash and no checkpoint, the best block is the    *)
(* heaviest of the blocks received whose branch can be connected           *)
(* (AddToBlockIndex).                                                      *)
BestIsHeaviestSound ==
    AtStage("idle") /\ crashes = 0 /\ hashSyncCheckpoint = Genesis =>
        \A b \in mapBlockIndex :
            ChainLedger!Sound(b) => nChainTrust[b] <= nChainTrust[pindexBest]

-----------------------------------------------------------------------------
(* Block templates on the best block, for every block size that tells the   *)
(* pool's transactions apart.                                              *)
BlockSizes == {4, 6, 9, 11}

\* Outputs a block on the best one may spend.
Mature(o) ==
    o[1] \in Coinbase \cup Coinstake =>
        nHeight[db.best] + 1 - nHeight[db.pos[o[1]]] >= nCoinbaseMaturity
Spendable == {o \in Unspent(db) : Mature(o)}
\* CreateNewBlock measures the depth from the best block, one less.
SpendableNow ==
    {o \in Unspent(db) :
        o[1] \in Coinbase \cup Coinstake => ~ Immature(pindexBest, db.pos[o[1]])}

\* A block of the transactions txs would connect.
WouldConnect(txs) ==
    \A i \in DOMAIN txs :
        /\ \A o \in vin[txs[i]] :
              /\ \/ o \in Spendable
                 \/ InRange(o) /\ \E j \in 1..(i - 1) : txs[j] = o[1]
              /\ \A j \in 1..(i - 1) : o \notin vin[txs[j]]
        /\ \A j \in 1..(i - 1) : txs[i] # txs[j]
        /\ ~ Overwrites(db, txs[i])
        /\ txs[i] \in ScriptsOK /\ PaysFee(txs[i])

\* t could follow the transactions txs.
CouldFollow(txs, t) ==
    /\ \A o \in vin[t] :
          /\ o \in SpendableNow \/ (o[1] \in Range(txs) /\ InRange(o))
          /\ o \notin UNION {vin[u] : u \in Range(txs)}
    /\ t \in ScriptsOK /\ PaysFee(t)

(* Whatever reorganizations, confirmed conflicts and resurrections have     *)
(* left in the pool, and in whatever order it is taken, the block          *)
(* CreateNewBlock builds connects, pays its miner the fees it collects,    *)
(* and leaves out no transaction that could follow and would fit.          *)
TemplatesConnect ==
    AtStage("idle") /\ ~ diverged =>
        \A size \in BlockSizes :
            \A st \in CreateNewBlock(mempool, db, pindexBest, size) :
                /\ WouldConnect(st.vtx)
                /\ st.nFees = MapThenSumSet(LAMBDA t : GetValueIn(t) - GetValueOut(t),
                                            Range(st.vtx))
                /\ \A t \in mempool.mapTx \ Range(st.vtx) :
                      CouldFollow(st.vtx, t) =>
                          nBlockSize(st.vtx) + nTxSize(t) >= size
=============================================================================
