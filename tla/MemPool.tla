------------------------------- MODULE MemPool -------------------------------
(***************************************************************************)
(* CTxMemPool as operators on a record pool:                               *)
(*   mapTx      the transactions held                                      *)
(*   mapNextTx  for an outpoint, the pool transaction that spends it       *)
(***************************************************************************)
EXTENDS TxIndex

Pool == [mapTx : SUBSET Tx, mapNextTx : [Outpoint -> Tx \cup {NoTx}]]

EmptyPool == [mapTx |-> {}, mapNextTx |-> [o \in Outpoint |-> NoTx]]

addUnchecked(pool, t) ==
    [mapTx     |-> pool.mapTx \cup {t},
     mapNextTx |-> [o \in Outpoint |-> IF o \in vin[t] THEN t ELSE pool.mapNextTx[o]]]

(* remove() of every transaction of S, not recursive: one that is not held  *)
(* is left alone, with its links.                                          *)
Remove(pool, S) ==
    [mapTx     |-> pool.mapTx \ S,
     mapNextTx |-> [o \in Outpoint |->
                      IF \E t \in S \cap pool.mapTx : o \in vin[t]
                      THEN NoTx ELSE pool.mapNextTx[o]]]

(* What remove(t, true) reaches: t, and through mapNextTx whatever spends   *)
(* an output of what it reaches.                                           *)
Dependants(pool, t) ==
    LET Closed(S) ==
            \A o \in Outpoint :
                o[1] \in S /\ pool.mapNextTx[o] # NoTx => pool.mapNextTx[o] \in S
    IN  {u \in pool.mapTx :
            t \in pool.mapTx /\ \A S \in SUBSET pool.mapTx : t \in S /\ Closed(S) => u \in S}

(* removeConflicts(t): the pool transactions that spend an input of t, and  *)
(* their dependants.                                                       *)
Conflicts(pool, t) ==
    {pool.mapNextTx[o] : o \in vin[t]} \ {t, NoTx}

removeConflicts(pool, t) ==
    Remove(pool, UNION {Dependants(pool, c) : c \in Conflicts(pool, t)})

\* mapNextTx already names a spender of one of t's inputs.
HasConflict(pool, t) == \E o \in vin[t] : pool.mapNextTx[o] # NoTx

(* accept(fCheckInputs = false), as Reorganize calls it: the inputs are not *)
(* looked at.                                                              *)
AcceptUncheckedOK(pool, t) ==
    /\ t \notin Coinbase \cup Coinstake
    /\ t \notin pool.mapTx
    /\ ~ HasConflict(pool, t)

\* FetchInputs finds the transaction of each input in the index or the pool.
HasInputs(pool, v, t) ==
    \A o \in vin[t] : Indexed(v, o[1]) \/ o[1] \in pool.mapTx

(* accept(fCheckInputs = true).  A pool parent has a fresh, unspent record. *)
AcceptOK(pool, v, best, t) ==
    /\ AcceptUncheckedOK(pool, t)
    /\ ~ Indexed(v, t)
    /\ HasInputs(pool, v, t)
    /\ \A o \in vin[t] :
          /\ InRange(o)
          /\ Indexed(v, o[1]) =>
                /\ v.spent[o] = NoTx
                /\ o[1] \in Coinbase \cup Coinstake => ~ Immature(best, v.pos[o[1]])
    /\ t \in ScriptsOK
    /\ PaysFee(t)
=============================================================================
