------------------------------ MODULE OrphanTxs ------------------------------
(***************************************************************************)
(* Transactions that arrive before the ones they spend (main.cpp:          *)
(* mapOrphanTransactions and the "tx" message).  The handler holds cs_main *)
(* from beginning to end; its loop over the orphans a new transaction sets *)
(* free is unfolded into steps that nothing interleaves with.              *)
(*                                                                         *)
(* The chain is the TxIndex view it leaves behind: blocks extend it, one   *)
(* at a time.  Transactions also enter the pool without the "tx" handler,  *)
(* from the wallet and from sendrawtransaction.                            *)
(***************************************************************************)
EXTENDS MemPool

CONSTANTS
    LargeTx,                   \* transactions of more than 5000 bytes
    LocalTx,                   \* transactions this node sends itself
    MAX_ORPHAN_TRANSACTIONS

ASSUME OrphanTxsAssumption ==
    /\ LargeTx \subseteq Tx /\ LocalTx \subseteq Tx
    /\ MAX_ORPHAN_TRANSACTIONS \in Nat

VARIABLES
    view,                         \* the chain
    pool,
    mapOrphanTransactions,        \* the orphans kept
    mapOrphanTransactionsByPrev,  \* for some hashes, the orphans that spend from it
    loop                          \* the locals of the running "tx" handler

vars == <<view, pool, mapOrphanTransactions, mapOrphanTransactionsByPrev, loop>>

\* vWorkQueue from i on, the orphans still to visit for the current entry,
\* and vEraseQueue.
Loop == [vWorkQueue : Seq(Tx), visit : SUBSET Tx, vEraseQueue : SUBSET Tx]

Idle == [vWorkQueue |-> <<>>, visit |-> {}, vEraseQueue |-> {}]

Accepts(t) == AcceptOK(pool, view, view.best, t)

\* fMissingInputs: accept stops at FetchInputs, for want of a transaction.
MissingInputs(t) ==
    /\ AcceptUncheckedOK(pool, t)
    /\ ~ Indexed(view, t)
    /\ ~ HasInputs(pool, view, t)

Prevs(t) == {o[1] : o \in vin[t]}

\* mapOrphanTransactionsByPrev[h], which creates what it does not find.
ByPrev(byPrev, h) == IF h \in DOMAIN byPrev THEN byPrev[h] ELSE {}

-----------------------------------------------------------------------------
\* AddOrphanTx keeps neither what it has nor large transactions.
Keepable(t) == t \notin mapOrphanTransactions \cup LargeTx

\* AddOrphanTx, and the links it adds.
Linked(byPrev, t) ==
    [h \in DOMAIN byPrev \cup Prevs(t) |->
        ByPrev(byPrev, h) \cup IF h \in Prevs(t) THEN {t} ELSE {}]

\* Fault: only the first input's link goes.
UnlinkedOnce(byPrev, S) ==
    LET first(t) == CHOOSE h \in Prevs(t) : TRUE
        left == [h \in DOMAIN byPrev |-> byPrev[h] \ {t \in S : h = first(t)}]
    IN  Restrict(left, {h \in DOMAIN left :
                            left[h] # {} \/ \A t \in S : h # first(t)})

(* EraseOrphanTx of every orphan of S.  A link that is left empty goes, but *)
(* only when an erased orphan spends from it.                              *)
Unlinked(byPrev, S) ==
    LET left == [h \in DOMAIN byPrev |-> byPrev[h] \ S]
    IN  Restrict(left, {h \in DOMAIN left :
                            left[h] # {} \/ \A t \in S : h \notin Prevs(t)})

\* LimitOrphanTxSize evicts orphans at random until few enough are left.
WithinLimit(orphans) ==
    IF Cardinality(orphans) <= MAX_ORPHAN_TRANSACTIONS THEN {orphans}
    ELSE kSubset(MAX_ORPHAN_TRANSACTIONS, orphans)

-----------------------------------------------------------------------------
Init ==
    /\ view = GenesisView
    /\ pool = EmptyPool
    /\ mapOrphanTransactions = {}
    /\ mapOrphanTransactionsByPrev = <<>>
    /\ loop = Idle

\* "tx": t is accepted, and the loop over its orphans begins.
ReceiveTx(t) ==
    /\ loop = Idle
    /\ Accepts(t)
    /\ pool' = addUnchecked(pool, t)
    /\ loop' = [vWorkQueue |-> <<t>>, visit |-> {}, vEraseQueue |-> {t}]
    /\ UNCHANGED <<view, mapOrphanTransactions, mapOrphanTransactionsByPrev>>

\* "tx": inputs of t are missing, and t is kept, at the price of another.
ReceiveOrphanTx(t) ==
    /\ loop = Idle
    /\ MissingInputs(t)
    /\ Keepable(t)
    /\ \E kept \in WithinLimit(mapOrphanTransactions \cup {t}) :
          /\ mapOrphanTransactions' = kept
          /\ mapOrphanTransactionsByPrev' =
                Unlinked(Linked(mapOrphanTransactionsByPrev, t),
                         (mapOrphanTransactions \cup {t}) \ kept)
    /\ UNCHANGED <<view, pool, loop>>

\* Fault: the entry is not left behind.
SameEntries(queue) == queue

\* ++i.
NextEntries(queue) == Tail(queue)

\* The next entry of vWorkQueue; looking up its orphans creates the link.
NextWork ==
    /\ loop.visit = {} /\ loop.vWorkQueue # <<>>
    /\ LET hashPrev == Head(loop.vWorkQueue)
       IN  /\ mapOrphanTransactionsByPrev' =
                [h \in DOMAIN mapOrphanTransactionsByPrev \cup {hashPrev} |->
                    ByPrev(mapOrphanTransactionsByPrev, h)]
           /\ loop' = [loop EXCEPT
                !.visit = ByPrev(mapOrphanTransactionsByPrev, hashPrev),
                !.vWorkQueue = NextEntries(@)]
    /\ UNCHANGED <<view, pool, mapOrphanTransactions>>

\* Fault: an accepted orphan frees no others.
EnqueueNone(queue, t) == queue

\* An accepted orphan is a new entry of vWorkQueue.
Enqueue(queue, t) == Append(queue, t)

(* One orphan of the current entry: accepted, erased as invalid, or still   *)
(* without its inputs.                                                      *)
VisitOrphan(t) ==
    /\ t \in loop.visit
    /\ \/ /\ Accepts(t)
          /\ pool' = addUnchecked(pool, t)
          /\ loop' = [vWorkQueue |-> Enqueue(loop.vWorkQueue, t),
                      visit |-> loop.visit \ {t},
                      vEraseQueue |-> loop.vEraseQueue \cup {t}]
       \/ /\ ~ Accepts(t)
          /\ loop' = [loop EXCEPT
                !.visit = @ \ {t},
                !.vEraseQueue = IF MissingInputs(t) THEN @ ELSE @ \cup {t}]
          /\ UNCHANGED pool
    /\ UNCHANGED <<view, mapOrphanTransactions, mapOrphanTransactionsByPrev>>

\* The end of the handler: EraseOrphanTx of vEraseQueue.
EraseOrphans ==
    /\ loop # Idle /\ loop.visit = {} /\ loop.vWorkQueue = <<>>
    /\ mapOrphanTransactions' = mapOrphanTransactions \ loop.vEraseQueue
    /\ mapOrphanTransactionsByPrev' =
          Unlinked(mapOrphanTransactionsByPrev,
                   loop.vEraseQueue \cap mapOrphanTransactions)
    /\ loop' = Idle
    /\ UNCHANGED <<view, pool>>

\* AcceptToMemoryPool from CommitTransaction or sendrawtransaction.
SendTx(t) ==
    /\ loop = Idle /\ t \in LocalTx /\ Accepts(t)
    /\ pool' = addUnchecked(pool, t)
    /\ UNCHANGED <<view, mapOrphanTransactions, mapOrphanTransactionsByPrev, loop>>

\* A block extends the chain (SetBestChainInner).
ReceiveBlock(b) ==
    /\ loop = Idle
    /\ pprev[b] = view.best
    /\ ConnectOK(view, b, nHeight[view.best])
    /\ view' = [Connect(view, b, [c \in Block |-> NoBlock]) EXCEPT !.best = b]
    /\ pool' = Remove(pool, TxSet(b))
    /\ UNCHANGED <<mapOrphanTransactions, mapOrphanTransactionsByPrev, loop>>

HandleTx ==
    \/ NextWork
    \/ \E t \in Tx : VisitOrphan(t)
    \/ EraseOrphans

Next ==
    \/ \E t \in Tx : ReceiveTx(t) \/ ReceiveOrphanTx(t) \/ SendTx(t)
    \/ HandleTx
    \/ \E b \in Block : ReceiveBlock(b)

(* The thread that holds cs_main keeps running until the message is handled. *)
Spec == Init /\ [][Next]_vars /\ WF_vars(HandleTx)

-----------------------------------------------------------------------------
(* Properties.                                                              *)

\* Every variable keeps its type.
TypeOK ==
    /\ view \in View /\ pool \in Pool /\ loop \in Loop
    /\ mapOrphanTransactions \subseteq Tx \ LargeTx
    /\ DOMAIN mapOrphanTransactionsByPrev \subseteq Tx
    /\ mapOrphanTransactionsByPrev \in
          [DOMAIN mapOrphanTransactionsByPrev -> SUBSET Tx]

(* The links are those of the orphans held: the handler's lookup            *)
(* mapOrphanTransactions[orphanTxHash] never meets an erased orphan, and    *)
(* an orphan is found from each of its inputs, one it spends twice included. *)
LinksMatchOrphans ==
    \A h, t \in Tx :
        t \in ByPrev(mapOrphanTransactionsByPrev, h)
            <=> t \in mapOrphanTransactions /\ h \in Prevs(t)

\* "do not allow mapOrphanTransactions to grow unbounded" (main.cpp:3346).
OrphansWithinLimit ==
    Cardinality(mapOrphanTransactions) <= MAX_ORPHAN_TRANSACTIONS

\* The two maps of orphans agree and stay bounded, in the middle of the
\* handler's loop too (AddOrphanTx, EraseOrphanTx, LimitOrphanTxSize).
OrphansConsistent == TypeOK /\ LinksMatchOrphans /\ OrphansWithinLimit

(* When a message has been handled, no orphan has all its inputs in the     *)
(* pool: freeing orphans reaches the descendants of the descendants, past   *)
(* conflicts and invalid ones.  The loop does not follow what a block       *)
(* confirms or the node sends itself.                                       *)
NoOrphanLeftBehind ==
    loop = Idle =>
        \A t \in mapOrphanTransactions : ~ Prevs(t) \subseteq pool.mapTx \ LocalTx

\* Every message comes to the end of its handler, however the orphans link.
HandlerEnds == []<>(loop = Idle)

\* No orphans, no links: DoS_tests.cpp:223 expects it once the limit is 0.
NoOrphansNoLinks ==
    loop = Idle /\ mapOrphanTransactions = {} => mapOrphanTransactionsByPrev = <<>>
=============================================================================
