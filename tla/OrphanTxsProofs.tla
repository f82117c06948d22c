--------------------------- MODULE OrphanTxsProofs ---------------------------
(***************************************************************************)
(* The orphan transactions: the two maps agree and stay bounded in every   *)
(* step of the handler, and when it returns it has left no orphan behind   *)
(* whose inputs are all in the pool.  Proved for every chain, any          *)
(* transactions, and any limit on the orphans.                             *)
(***************************************************************************)
EXTENDS OrphanTxs, BranchTheorems

Elems(s) == {s[i] : i \in DOMAIN s}

(* What the running loop still owes an orphan whose inputs have all come    *)
(* into the pool by messages: it is to be erased, it is to be visited, or  *)
(* one of the transactions it spends is still to be followed.              *)
FreedIsReached ==
    \A t \in mapOrphanTransactions :
        Prevs(t) \subseteq pool.mapTx \ LocalTx =>
            \/ t \in loop.vEraseQueue \/ t \in loop.visit
            \/ Prevs(t) \cap Elems(loop.vWorkQueue) # {}

OrphanInv ==
    /\ TypeOK /\ LinksMatchOrphans /\ OrphansWithinLimit
    /\ IsFiniteSet(mapOrphanTransactions)
    /\ FreedIsReached

-----------------------------------------------------------------------------
(* The work queue and the links                                             *)

\* A transaction spends from transactions.
LEMMA PrevsType ==
    ASSUME NEW t \in Tx
    PROVE  Prevs(t) \subseteq Tx
BY TxAssumption DEF Prevs, Outpoint

\* An empty queue holds nothing.
LEMMA ElemsEmpty == Elems(<<>>) = {} /\ Idle.vWorkQueue = <<>>
BY DEF Elems, Idle

\* ++i leaves all of the queue but its first entry.
LEMMA ElemsTail ==
    ASSUME NEW s \in Seq(Tx), s # <<>>
    PROVE  Elems(s) \subseteq {Head(s)} \cup Elems(Tail(s))
<1>1. \A i \in DOMAIN s : i = 1 \/ (i - 1 \in DOMAIN Tail(s) /\ Tail(s)[i - 1] = s[i])
  OBVIOUS
<1>2. Head(s) = s[1]
  OBVIOUS
<1>3. QED
  BY <1>1, <1>2 DEF Elems

\* push_back keeps what the queue holds and adds one entry.
LEMMA ElemsAppend ==
    ASSUME NEW s \in Seq(Tx), NEW t \in Tx
    PROVE  Elems(s) \cup {t} \subseteq Elems(Append(s, t))
<1>1. \A i \in DOMAIN s : i \in DOMAIN Append(s, t) /\ Append(s, t)[i] = s[i]
  OBVIOUS
<1>2. /\ Len(s) + 1 \in DOMAIN Append(s, t)
      /\ Append(s, t)[Len(s) + 1] = t
  OBVIOUS
<1>3. QED
  BY <1>1, <1>2 DEF Elems

\* AddOrphanTx links the orphan from each of its inputs, and changes no other.
LEMMA LinkedIs ==
    ASSUME NEW byPrev, NEW t, NEW h
    PROVE  /\ ByPrev(Linked(byPrev, t), h) =
                 ByPrev(byPrev, h) \cup (IF h \in Prevs(t) THEN {t} ELSE {})
           /\ DOMAIN Linked(byPrev, t) = DOMAIN byPrev \cup Prevs(t)
BY DEF Linked, ByPrev

\* EraseOrphanTx takes the erased orphans off every link.
LEMMA UnlinkedIs ==
    ASSUME NEW byPrev, NEW S, NEW h
    PROVE  /\ ByPrev(Unlinked(byPrev, S), h) = ByPrev(byPrev, h) \ S
           /\ DOMAIN Unlinked(byPrev, S) \subseteq DOMAIN byPrev
<1> DEFINE left == [g \in DOMAIN byPrev |-> byPrev[g] \ S]
           kept == {g \in DOMAIN left : left[g] # {} \/ \A t \in S : g \notin Prevs(t)}
<1>1. Unlinked(byPrev, S) = [g \in kept |-> left[g]]
  BY DEF Unlinked, Restrict
<1>2. DOMAIN left = DOMAIN byPrev /\ kept \subseteq DOMAIN byPrev
  OBVIOUS
<1>3. CASE h \in kept
  BY <1>1, <1>2, <1>3 DEF ByPrev
<1>4. CASE h \in DOMAIN byPrev \ kept
  <2>1. byPrev[h] \ S = {}
    BY <1>4
  <2>2. QED
    BY <1>1, <1>2, <1>4, <2>1 DEF ByPrev
<1>5. CASE h \notin DOMAIN byPrev
  BY <1>1, <1>2, <1>5 DEF ByPrev
<1>6. QED
  BY <1>1, <1>2, <1>3, <1>4, <1>5

\* Links of transactions lead to transactions after each of the two.
LEMMA LinksType ==
    ASSUME NEW byPrev, DOMAIN byPrev \subseteq Tx,
           byPrev \in [DOMAIN byPrev -> SUBSET Tx], NEW t \in Tx, NEW S
    PROVE  /\ DOMAIN Linked(byPrev, t) \subseteq Tx
           /\ Linked(byPrev, t) \in [DOMAIN Linked(byPrev, t) -> SUBSET Tx]
           /\ DOMAIN Unlinked(byPrev, S) \subseteq Tx
           /\ Unlinked(byPrev, S) \in [DOMAIN Unlinked(byPrev, S) -> SUBSET Tx]
<1>1. Prevs(t) \subseteq Tx
  BY PrevsType
<1>2. \A h : ByPrev(byPrev, h) \subseteq Tx
  BY DEF ByPrev
<1>3. /\ DOMAIN Linked(byPrev, t) \subseteq Tx
      /\ Linked(byPrev, t) \in [DOMAIN Linked(byPrev, t) -> SUBSET Tx]
  BY <1>1, <1>2 DEF Linked
<1>4. Unlinked(byPrev, S) \in [DOMAIN Unlinked(byPrev, S) -> SUBSET Tx]
  BY DEF Unlinked, Restrict
<1>5. QED
  BY <1>3, <1>4, UnlinkedIs

-----------------------------------------------------------------------------
(* The chain and the pool                                                   *)

\* A pool that takes transactions in and gives some up stays a pool.
LEMMA PoolType ==
    ASSUME NEW p \in Pool
    PROVE  /\ \A t \in Tx : addUnchecked(p, t) \in Pool
           /\ \A S : Remove(p, S) \in Pool
BY DEF addUnchecked, Remove, Pool

\* What a transaction puts out is a number, and what it takes in if it exists.
LEMMA ValuesType ==
    ASSUME NEW t \in Tx
    PROVE  /\ GetValueOut(t) \in Int
           /\ (\A o \in vin[t] : InRange(o)) => GetValueIn(t) \in Int
<1> DEFINE f == [o \in vin[t] |-> Value(o)]
           D == DOMAIN vout[t]
<1>1. /\ IsFiniteSet(vin[t]) /\ D = 1..Len(vout[t]) /\ Len(vout[t]) \in Nat
      /\ \A i \in D : vout[t][i] \in Int
  BY TxAssumption
<1>2. GetValueIn(t) = Total(f, vin[t]) /\ GetValueOut(t) = Total(vout[t], D)
  BY DEF GetValueIn, GetValueOut, SumFunction, Total
<1>3. ASSUME NEW o \in vin[t], InRange(o) PROVE Value(o) \in Int
  <2>1. o[1] \in Tx /\ o[2] \in 1..MaxOut /\ vout[o[1]] \in Seq(Nat)
    BY TxAssumption DEF Outpoint
  <2>2. o[2] \in 1..Len(vout[o[1]])
    BY <1>3, <2>1, TxAssumption DEF InRange
  <2>3. QED
    BY <2>1, <2>2 DEF Value
<1>4. ASSUME \A o \in vin[t] : InRange(o) PROVE \A o \in vin[t] : f[o] \in Int
  BY <1>3, <1>4
<1> HIDE DEF f, D
<1>5. ASSUME \A o \in vin[t] : InRange(o) PROVE Total(f, vin[t]) \in Int
  BY <1>1, <1>4, <1>5, TotalInt
<1>6. IsFiniteSet(D)
  BY <1>1, FS_Interval
<1>7. Total(vout[t], D) \in Int
  BY <1>1, <1>6, TotalInt
<1>8. QED
  BY <1>2, <1>5, <1>7

(* By how much a block changes the supply is a number when the block         *)
(* connects: ConnectInputs has looked every input up.                      *)
LEMMA MintedType ==
    ASSUME NEW v, NEW b \in Block, NEW h, ConnectOK(v, b, h)
    PROVE  Minted(b) \in Int
<1> DEFINE T == TxSet(b)
           f == [t \in T |-> GetValueOut(t)]
           g == [t \in T |-> GetValueIn(t)]
           n == Len(vtx[b])
<1>1. vtx[b] \in Seq(Tx) /\ n \in Nat /\ DOMAIN vtx[b] = 1..n
  BY TxAssumption
<1>2. vtx[b] \in Surjection(1..n, T)
  <2>1. vtx[b] \in [1..n -> T] /\ \A t \in T : \E i \in 1..n : vtx[b][i] = t
    BY <1>1 DEF TxSet
  <2>2. QED
    BY <2>1 DEF Surjection
<1>3. T \subseteq Tx
  BY <1>1 DEF TxSet
<1>4. ASSUME NEW t \in T PROVE f[t] \in Int /\ g[t] \in Int
  <2>1. \A o \in vin[t] : InRange(o)
    BY <1>3, TxAssumption DEF ConnectOK, ConnectInputsOK, InputOK
  <2>2. QED
    BY <1>3, <2>1, ValuesType
<1>5. Minted(b) = Total(f, T) - Total(g, T)
  BY DEF Minted, SumFunction, Total
<1> HIDE DEF T, f, g, n
<1>6. IsFiniteSet(T)
  BY <1>1, <1>2, FS_Interval, FS_Surjection
<1>7. QED
  BY <1>4, <1>5, <1>6, TotalInt

\* A block connected on a view leaves a view.
LEMMA ViewType ==
    ASSUME NEW v \in View, NEW b \in Block \ {Genesis},
           NEW nexts \in [Block -> Block \cup {NoBlock}], NEW h, ConnectOK(v, b, h)
    PROVE  [Connect(v, b, nexts) EXCEPT !.best = b] \in View
<1>1. pprev[b] \in Block /\ Minted(b) \in Int
  BY TreeAssumption, MintedType
<1>2. \A o \in Outpoint : Spends(b, o) => Spender(b, o) \in Tx
  <2>1. TxSet(b) \subseteq Tx
    BY TxAssumption DEF TxSet
  <2>2. QED
    BY <2>1 DEF Spends, Spender
<1>3. [v.next EXCEPT ![b] = nexts[b], ![pprev[b]] = b]
        \in [Block -> Block \cup {NoBlock}]
  BY DEF View
<1>4. [v.supply EXCEPT ![b] = v.supply[pprev[b]] + Minted(b)] \in [Block -> Int]
  BY <1>1 DEF View
<1>5. [t \in Tx |-> IF t \in TxSet(b) THEN b ELSE v.pos[t]]
        \in [Tx -> Block \cup {NoBlock}]
  BY DEF View
<1>6. [o \in Outpoint |->
         IF Spends(b, o) THEN Spender(b, o)
         ELSE IF o[1] \in TxSet(b) THEN NoTx
         ELSE v.spent[o]] \in [Outpoint -> Tx \cup {NoTx}]
  BY <1>2 DEF View
<1>7. QED
  BY <1>3, <1>4, <1>5, <1>6 DEF Connect, View

-----------------------------------------------------------------------------
(* The invariant                                                            *)

\* Nothing is kept, nothing is owed.
LEMMA OrphanInit == Init => OrphanInv
<1> SUFFICES ASSUME Init PROVE OrphanInv
  OBVIOUS
<1>1. view \in View /\ pool \in Pool
  BY TreeAssumption DEF Init, GenesisView, View, EmptyPool, Pool
<1>2. loop \in Loop
  BY DEF Init, Idle, Loop
<1>3. /\ DOMAIN mapOrphanTransactionsByPrev = {}
      /\ mapOrphanTransactionsByPrev \in
            [DOMAIN mapOrphanTransactionsByPrev -> SUBSET Tx]
  BY DEF Init
<1>4. TypeOK
  BY <1>1, <1>2, <1>3 DEF TypeOK, Init
<1>5. LinksMatchOrphans
  BY <1>3 DEF LinksMatchOrphans, ByPrev, Init
<1>6. IsFiniteSet(mapOrphanTransactions) /\ OrphansWithinLimit
  BY FS_EmptySet, OrphanTxsAssumption DEF OrphansWithinLimit, Init
<1>7. FreedIsReached
  BY DEF FreedIsReached, Init
<1>8. QED
  BY <1>4, <1>5, <1>6, <1>7 DEF OrphanInv

\* A step that leaves the two maps alone has the rest to answer for.
LEMMA MapsAlone ==
    ASSUME OrphanInv,
           UNCHANGED <<mapOrphanTransactions, mapOrphanTransactionsByPrev>>,
           view' \in View, pool' \in Pool, loop' \in Loop, FreedIsReached'
    PROVE  OrphanInv'
BY DEF OrphanInv, TypeOK, LinksMatchOrphans, OrphansWithinLimit

(* An accepted transaction frees the orphans that spend from it, and it is  *)
(* in the queue.                                                           *)
LEMMA ReceiveTxKeeps ==
    ASSUME OrphanInv, NEW t \in Tx, ReceiveTx(t)
    PROVE  OrphanInv'
<1>1. pool' = addUnchecked(pool, t) /\ pool' \in Pool /\ view' \in View
  BY PoolType DEF ReceiveTx, OrphanInv, TypeOK
<1>2. /\ loop' = [vWorkQueue |-> <<t>>, visit |-> {}, vEraseQueue |-> {t}]
      /\ loop' \in Loop
  BY DEF ReceiveTx, Loop
<1>3. t \in Elems(loop'.vWorkQueue)
  BY <1>2 DEF Elems
<1>4. FreedIsReached'
  <2> SUFFICES ASSUME NEW u \in mapOrphanTransactions,
                      Prevs(u) \subseteq pool'.mapTx \ LocalTx, t \notin Prevs(u)
               PROVE  FALSE
    BY <1>3 DEF FreedIsReached, ReceiveTx
  <2>1. Prevs(u) \subseteq pool.mapTx \ LocalTx
    BY <1>1 DEF addUnchecked
  <2>2. loop = Idle
    BY DEF ReceiveTx
  <2>3. QED
    BY <2>1, <2>2, ElemsEmpty DEF OrphanInv, FreedIsReached, Idle
<1>5. QED
  BY <1>1, <1>2, <1>4, MapsAlone DEF ReceiveTx

(* A new orphan lacks an input; the ones evicted leave the links and the    *)
(* limit in order.                                                         *)
LEMMA ReceiveOrphanTxKeeps ==
    ASSUME OrphanInv, NEW t \in Tx, ReceiveOrphanTx(t)
    PROVE  OrphanInv'
<1> DEFINE all == mapOrphanTransactions \cup {t}
<1>1. PICK kept \in WithinLimit(all) :
        /\ mapOrphanTransactions' = kept
        /\ mapOrphanTransactionsByPrev' =
              Unlinked(Linked(mapOrphanTransactionsByPrev, t), all \ kept)
  BY DEF ReceiveOrphanTx
<1>2. /\ TypeOK /\ LinksMatchOrphans /\ FreedIsReached
      /\ IsFiniteSet(mapOrphanTransactions)
      /\ loop = Idle /\ UNCHANGED <<view, pool, loop>>
      /\ t \notin LargeTx /\ MissingInputs(t)
  BY DEF OrphanInv, ReceiveOrphanTx, Keepable
<1>3. IsFiniteSet(all)
  BY <1>2, FS_AddElement
<1>4. kept \subseteq all /\ Cardinality(kept) <= MAX_ORPHAN_TRANSACTIONS
  <2>1. CASE Cardinality(all) <= MAX_ORPHAN_TRANSACTIONS
    BY <2>1 DEF WithinLimit
  <2>2. CASE ~ (Cardinality(all) <= MAX_ORPHAN_TRANSACTIONS)
    <3>1. kept \in kSubset(MAX_ORPHAN_TRANSACTIONS, all)
      BY <2>2 DEF WithinLimit
    <3>2. QED
      BY <3>1, OrphanTxsAssumption DEF kSubset
  <2>3. QED
    BY <2>1, <2>2
<1>5. IsFiniteSet(kept)
  BY <1>3, <1>4, FS_Subset
<1> DEFINE linked == Linked(mapOrphanTransactionsByPrev, t)
<1>6. /\ DOMAIN linked \subseteq Tx
      /\ linked \in [DOMAIN linked -> SUBSET Tx]
  BY <1>2, LinksType DEF TypeOK
<1>7. LinksMatchOrphans'
  <2> SUFFICES ASSUME NEW h \in Tx, NEW u \in Tx
               PROVE  u \in ByPrev(mapOrphanTransactionsByPrev', h)
                        <=> u \in kept /\ h \in Prevs(u)
    BY <1>1 DEF LinksMatchOrphans, ByPrev
  <2>1. ByPrev(mapOrphanTransactionsByPrev', h) = ByPrev(linked, h) \ (all \ kept)
    BY <1>1, UnlinkedIs
  <2>2. ByPrev(linked, h) = ByPrev(mapOrphanTransactionsByPrev, h)
                               \cup (IF h \in Prevs(t) THEN {t} ELSE {})
    BY DEF Linked, ByPrev
  <2>3. u \in ByPrev(mapOrphanTransactionsByPrev, h)
          <=> u \in mapOrphanTransactions /\ h \in Prevs(u)
    BY <1>2 DEF LinksMatchOrphans
  <2> HIDE DEF linked
  <2>4. u \in ByPrev(linked, h) <=> u \in all /\ h \in Prevs(u)
    BY <2>2, <2>3
  <2>5. QED
    BY <1>4, <2>1, <2>4
<1>8. TypeOK'
  <2>1. kept \subseteq Tx \ LargeTx
    BY <1>2, <1>4 DEF TypeOK
  <2> HIDE DEF linked
  <2>2. /\ DOMAIN mapOrphanTransactionsByPrev' \subseteq Tx
        /\ mapOrphanTransactionsByPrev' \in
              [DOMAIN mapOrphanTransactionsByPrev' -> SUBSET Tx]
    BY <1>1, <1>6, LinksType DEF linked
  <2>3. QED
    BY <1>1, <1>2, <2>1, <2>2 DEF TypeOK
<1>9. ~ (Prevs(t) \subseteq pool.mapTx)
  BY <1>2 DEF MissingInputs, HasInputs, Prevs
<1>10. FreedIsReached'
  BY <1>1, <1>2, <1>4, <1>9 DEF FreedIsReached
<1>11. QED
  BY <1>1, <1>4, <1>5, <1>7, <1>8, <1>10 DEF OrphanInv, OrphansWithinLimit

\* Looking up the orphans of the next entry changes no link.
LEMMA NextWorkKeeps ==
    ASSUME OrphanInv, NextWork
    PROVE  OrphanInv'
<1> DEFINE h == Head(loop.vWorkQueue)
           byPrev == mapOrphanTransactionsByPrev
<1>1. /\ TypeOK /\ LinksMatchOrphans /\ OrphansWithinLimit /\ FreedIsReached
      /\ IsFiniteSet(mapOrphanTransactions)
      /\ loop.visit = {} /\ loop.vWorkQueue # <<>>
      /\ loop.vWorkQueue \in Seq(Tx) /\ loop.vEraseQueue \subseteq Tx
      /\ UNCHANGED <<view, pool, mapOrphanTransactions>>
      /\ byPrev' = [g \in DOMAIN byPrev \cup {h} |-> ByPrev(byPrev, g)]
  BY DEF OrphanInv, NextWork, TypeOK, Loop
<1>2. h \in Tx /\ Tail(loop.vWorkQueue) \in Seq(Tx)
  BY <1>1
<1>3. ByPrev(byPrev, h) \subseteq Tx
  BY <1>1 DEF TypeOK, ByPrev
<1>4. \A g : ByPrev(byPrev', g) = ByPrev(byPrev, g)
  BY <1>1 DEF ByPrev
<1>5. /\ loop'.visit = ByPrev(byPrev, h)
      /\ loop'.vWorkQueue = Tail(loop.vWorkQueue)
      /\ loop'.vEraseQueue = loop.vEraseQueue
      /\ loop' \in Loop
  BY <1>1, <1>2, <1>3 DEF NextWork, NextEntries, TypeOK, Loop
<1> HIDE DEF h, byPrev
<1>6. DOMAIN byPrev' \subseteq Tx /\ byPrev' \in [DOMAIN byPrev' -> SUBSET Tx]
  <2>1. DOMAIN byPrev \subseteq Tx /\ byPrev \in [DOMAIN byPrev -> SUBSET Tx]
    BY <1>1 DEF TypeOK, byPrev
  <2>2. \A g : ByPrev(byPrev, g) \subseteq Tx
    BY <2>1 DEF ByPrev
  <2>3. QED
    BY <1>1, <1>2, <2>1, <2>2
<1>7. TypeOK'
  BY <1>1, <1>5, <1>6 DEF TypeOK, byPrev
<1>8. LinksMatchOrphans'
  BY <1>1, <1>4 DEF LinksMatchOrphans, byPrev
<1>9. FreedIsReached'
  <2> SUFFICES ASSUME NEW u \in mapOrphanTransactions,
                      Prevs(u) \subseteq pool.mapTx \ LocalTx,
                      u \notin loop.vEraseQueue
               PROVE  u \in loop'.visit \/ Prevs(u) \cap Elems(loop'.vWorkQueue) # {}
    BY <1>1, <1>5 DEF FreedIsReached
  <2>1. PICK g \in Prevs(u) : g \in Elems(loop.vWorkQueue)
    BY <1>1 DEF FreedIsReached
  <2>2. g \in {h} \cup Elems(loop'.vWorkQueue)
    BY <1>1, <1>5, <2>1, ElemsTail DEF h
  <2>3. CASE g = h
    <3>1. u \in Tx /\ u \in ByPrev(byPrev, h)
      BY <1>1, <1>2, <2>1, <2>3 DEF LinksMatchOrphans, TypeOK, byPrev
    <3>2. QED
      BY <1>5, <3>1
  <2>4. QED
    BY <2>1, <2>2, <2>3
<1>10. QED
  BY <1>1, <1>7, <1>8, <1>9 DEF OrphanInv, OrphansWithinLimit

(* An orphan visited is queued and erased if it is accepted, erased if it   *)
(* is invalid, and left only if it lacks an input.                         *)
LEMMA VisitOrphanKeeps ==
    ASSUME OrphanInv, NEW t \in Tx, VisitOrphan(t)
    PROVE  OrphanInv'
<1>1. /\ TypeOK /\ FreedIsReached
      /\ loop.vWorkQueue \in Seq(Tx) /\ loop.visit \subseteq Tx
      /\ loop.vEraseQueue \subseteq Tx /\ loop \in Loop
      /\ UNCHANGED <<view, mapOrphanTransactions, mapOrphanTransactionsByPrev>>
  BY DEF OrphanInv, VisitOrphan, TypeOK, Loop
<1>2. CASE Accepts(t)
  <2>1. pool' = addUnchecked(pool, t) /\ pool' \in Pool
    BY <1>1, <1>2, PoolType DEF VisitOrphan, TypeOK
  <2>2. /\ loop'.vWorkQueue = Append(loop.vWorkQueue, t)
        /\ loop'.visit = loop.visit \ {t}
        /\ loop'.vEraseQueue = loop.vEraseQueue \cup {t}
        /\ loop' \in Loop
    BY <1>1, <1>2 DEF VisitOrphan, Enqueue, Loop
  <2>3. Elems(loop.vWorkQueue) \cup {t} \subseteq Elems(loop'.vWorkQueue)
    BY <1>1, <2>2, ElemsAppend
  <2>4. FreedIsReached'
    <3> SUFFICES ASSUME NEW u \in mapOrphanTransactions, u # t,
                        Prevs(u) \subseteq pool'.mapTx \ LocalTx, t \notin Prevs(u)
                 PROVE  \/ u \in loop'.vEraseQueue \/ u \in loop'.visit
                        \/ Prevs(u) \cap Elems(loop'.vWorkQueue) # {}
      BY <1>1, <2>2, <2>3 DEF FreedIsReached
    <3>1. Prevs(u) \subseteq pool.mapTx \ LocalTx
      BY <2>1 DEF addUnchecked
    <3>2. \/ u \in loop.vEraseQueue \/ u \in loop.visit
          \/ Prevs(u) \cap Elems(loop.vWorkQueue) # {}
      BY <1>1, <3>1 DEF FreedIsReached
    <3>3. QED
      BY <2>2, <2>3, <3>2
  <2>5. QED
    BY <1>1, <2>1, <2>2, <2>4, MapsAlone DEF TypeOK
<1>3. CASE ~ Accepts(t)
  <2>1. /\ UNCHANGED pool
        /\ loop'.vWorkQueue = loop.vWorkQueue
        /\ loop'.visit = loop.visit \ {t}
        /\ loop'.vEraseQueue = IF MissingInputs(t) THEN loop.vEraseQueue
                               ELSE loop.vEraseQueue \cup {t}
        /\ loop' \in Loop
    BY <1>1, <1>3 DEF VisitOrphan, Loop
  <2>2. MissingInputs(t) => ~ (Prevs(t) \subseteq pool.mapTx)
    BY DEF MissingInputs, HasInputs, Prevs
  <2>3. FreedIsReached'
    BY <1>1, <2>1, <2>2 DEF FreedIsReached
  <2>4. QED
    BY <1>1, <2>1, <2>3, MapsAlone DEF TypeOK
<1>4. QED
  BY <1>2, <1>3

\* When the handler returns it owes nothing: what is left lacks an input.
LEMMA EraseOrphansKeeps ==
    ASSUME OrphanInv, EraseOrphans
    PROVE  OrphanInv'
<1> DEFINE erased == loop.vEraseQueue \cap mapOrphanTransactions
           byPrev == mapOrphanTransactionsByPrev
<1>1. /\ TypeOK /\ LinksMatchOrphans /\ OrphansWithinLimit /\ FreedIsReached
      /\ IsFiniteSet(mapOrphanTransactions)
      /\ loop.visit = {} /\ loop.vWorkQueue = <<>> /\ loop' = Idle
      /\ UNCHANGED <<view, pool>>
      /\ mapOrphanTransactions' = mapOrphanTransactions \ loop.vEraseQueue
      /\ byPrev' = Unlinked(byPrev, erased)
  BY DEF OrphanInv, EraseOrphans
<1>2. /\ IsFiniteSet(mapOrphanTransactions')
      /\ Cardinality(mapOrphanTransactions') <= Cardinality(mapOrphanTransactions)
  BY <1>1, FS_Subset
<1>3. OrphansWithinLimit'
  <2>1. /\ Cardinality(mapOrphanTransactions) \in Nat
        /\ Cardinality(mapOrphanTransactions') \in Nat
    BY <1>1, <1>2, FS_CardinalityType
  <2>2. QED
    BY <1>1, <1>2, <2>1, OrphanTxsAssumption DEF OrphansWithinLimit
<1>4. Idle \in Loop
  BY DEF Idle, Loop
<1> HIDE DEF erased, byPrev
<1>5. LinksMatchOrphans'
  <2> SUFFICES ASSUME NEW h \in Tx, NEW u \in Tx
               PROVE  u \in ByPrev(byPrev', h)
                        <=> u \in mapOrphanTransactions' /\ h \in Prevs(u)
    BY DEF LinksMatchOrphans, byPrev
  <2>1. ByPrev(byPrev', h) = ByPrev(byPrev, h) \ erased
    BY <1>1, UnlinkedIs
  <2>2. u \in ByPrev(byPrev, h) <=> u \in mapOrphanTransactions /\ h \in Prevs(u)
    BY <1>1 DEF LinksMatchOrphans, byPrev
  <2>3. QED
    BY <1>1, <2>1, <2>2 DEF erased
<1>6. DOMAIN byPrev' \subseteq Tx /\ byPrev' \in [DOMAIN byPrev' -> SUBSET Tx]
  <2>1. DOMAIN byPrev \subseteq Tx /\ byPrev \in [DOMAIN byPrev -> SUBSET Tx]
    BY <1>1 DEF TypeOK, byPrev
  <2>2. DOMAIN byPrev' \subseteq DOMAIN byPrev
    BY <1>1, UnlinkedIs
  <2>3. byPrev' \in [DOMAIN byPrev' -> SUBSET Tx]
    BY <1>1, <2>1 DEF Unlinked, Restrict
  <2>4. QED
    BY <2>1, <2>2, <2>3
<1>7. TypeOK'
  BY <1>1, <1>4, <1>6 DEF TypeOK, byPrev
<1>8. FreedIsReached'
  BY <1>1, ElemsEmpty DEF FreedIsReached
<1>9. QED
  BY <1>2, <1>3, <1>5, <1>7, <1>8 DEF OrphanInv

\* What the node sends itself frees nobody, and a block only shrinks the pool.
LEMMA OthersKeep ==
    ASSUME OrphanInv,
           \/ \E t \in Tx : SendTx(t)
           \/ \E b \in Block : ReceiveBlock(b)
    PROVE  OrphanInv'
<1>1. /\ TypeOK /\ FreedIsReached
      /\ UNCHANGED <<mapOrphanTransactions, mapOrphanTransactionsByPrev, loop>>
  BY DEF OrphanInv, SendTx, ReceiveBlock
<1>2. ASSUME NEW t \in Tx, SendTx(t) PROVE OrphanInv'
  <2>1. /\ UNCHANGED view /\ pool' \in Pool
        /\ pool'.mapTx \ LocalTx \subseteq pool.mapTx \ LocalTx
    BY <1>1, <1>2, PoolType DEF SendTx, addUnchecked, TypeOK
  <2>2. FreedIsReached'
    BY <1>1, <2>1 DEF FreedIsReached
  <2>3. QED
    BY <1>1, <2>1, <2>2, MapsAlone DEF TypeOK
<1>3. ASSUME NEW b \in Block, ReceiveBlock(b) PROVE OrphanInv'
  <2>1. b \in Block \ {Genesis}
    BY <1>1, <1>3, TreeAssumption DEF ReceiveBlock, TypeOK, View
  <2>2. [c \in Block |-> NoBlock] \in [Block -> Block \cup {NoBlock}]
    OBVIOUS
  <2>3. view' \in View
    BY <1>1, <1>3, <2>1, <2>2, ViewType DEF ReceiveBlock, TypeOK
  <2>4. pool' \in Pool /\ pool'.mapTx \subseteq pool.mapTx
    BY <1>1, <1>3, PoolType DEF ReceiveBlock, Remove, TypeOK
  <2>5. FreedIsReached'
    BY <1>1, <2>4 DEF FreedIsReached
  <2>6. QED
    BY <1>1, <2>3, <2>4, <2>5, MapsAlone DEF TypeOK
<1>4. QED
  BY <1>2, <1>3

-----------------------------------------------------------------------------
(* In every reachable state, half way through the loop too, the maps of     *)
(* orphans agree and the loop still reaches every orphan that is free.     *)
THEOREM OrphanTxInvariant == Spec => []OrphanInv
<1>1. OrphanInv /\ [Next]_vars => OrphanInv'
  <2> SUFFICES ASSUME OrphanInv, [Next]_vars PROVE OrphanInv'
    OBVIOUS
  <2>1. CASE UNCHANGED vars
    BY <2>1, MapsAlone DEF vars, OrphanInv, TypeOK, FreedIsReached
  <2>2. CASE Next
    BY <2>2, ReceiveTxKeeps, ReceiveOrphanTxKeeps, NextWorkKeeps,
       VisitOrphanKeeps, EraseOrphansKeeps, OthersKeep DEF Next, HandleTx
  <2>3. QED
    BY <2>1, <2>2
<1>2. QED
  BY <1>1, OrphanInit, PTL DEF Spec

(* The two maps agree and stay bounded, through every arrival, eviction and *)
(* erasure.                                                                *)
THEOREM OrphanTxsAlwaysConsistent == Spec => []OrphansConsistent
<1>1. OrphanInv => OrphansConsistent
  BY DEF OrphanInv, OrphansConsistent
<1>2. QED
  BY <1>1, OrphanTxInvariant, PTL

(* When a "tx" message has been handled, no orphan is left whose inputs     *)
(* have all come into the pool by messages.                                *)
THEOREM NoneLeftBehind == Spec => []NoOrphanLeftBehind
<1>1. OrphanInv => NoOrphanLeftBehind
  BY ElemsEmpty DEF OrphanInv, NoOrphanLeftBehind, FreedIsReached, Idle
<1>2. QED
  BY <1>1, OrphanTxInvariant, PTL
=============================================================================
