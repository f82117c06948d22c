------------------------------- MODULE TxIndex -------------------------------
(***************************************************************************)
(* What the block database (CTxDB, LevelDB) holds, and how ConnectBlock    *)
(* and DisconnectBlock read and rewrite it.  A view is one consistent      *)
(* reading of the database: its committed contents, or those contents with *)
(* the pending batch over them.                                            *)
(*   next   CDiskBlockIndex::hashNext                                      *)
(*   supply CDiskBlockIndex::nMoneySupply                                  *)
(*   pos    CTxIndex::pos: the block a transaction is indexed in, NoBlock  *)
(*          when it has no record                                          *)
(*   spent  CTxIndex::vSpent: the transaction that spends an outpoint      *)
(*   best   hashBestChain                                                  *)
(***************************************************************************)
EXTENDS BlockTree

View ==
    [next   : [Block -> Block \cup {NoBlock}],
     supply : [Block -> Int],
     pos    : [Tx -> Block \cup {NoBlock}],
     spent  : [Outpoint -> Tx \cup {NoTx}],
     best   : Block]

\* The transactions of the genesis block are never connected, so never indexed.
GenesisView ==
    [next   |-> [b \in Block |-> NoBlock],
     supply |-> [b \in Block |-> 0],
     pos    |-> [t \in Tx |-> NoBlock],
     spent  |-> [o \in Outpoint |-> NoTx],
     best   |-> Genesis]

Indexed(v, t) == v.pos[t] # NoBlock

(* FetchInputs and ConnectInputs search the last nCoinbaseMaturity blocks   *)
(* of the branch ending in b for the block of a coinbase or coinstake.      *)
Immature(b, at) ==
    at \in Branch[b] /\ nHeight[b] - nHeight[at] < nCoinbaseMaturity

\* BIP30: a transaction may replace an indexed one only if that is all spent.
Overwrites(v, t) ==
    Indexed(v, t) /\ \E n \in DOMAIN vout[t] : v.spent[<<t, n>>] = NoTx

\* Fault: vSpent is not looked at.
InputOKEvenIfSpent(v, b, t, o) ==
    /\ Before(b, o[1], t) \/ Indexed(v, o[1])
    /\ InRange(o)
    /\ ~ \E s \in TxSet(b) : Before(b, s, t) /\ o \in vin[s]

(* Input o of transaction t of block b: its transaction comes earlier in b  *)
(* (mapQueuedChanges) or is indexed, and nothing has spent it before t.     *)
InputOK(v, b, t, o) ==
    LET prev   == o[1]
        queued == Before(b, prev, t)
    IN  /\ queued \/ Indexed(v, prev)
        /\ InRange(o)
        /\ prev \in Coinbase \cup Coinstake =>
              ~ Immature(b, IF queued THEN b ELSE v.pos[prev])
        /\ queued \/ v.spent[o] = NoTx
        /\ ~ \E s \in TxSet(b) : Before(b, s, t) /\ o \in vin[s]

PaysFee(t) ==
    t \notin Coinstake => GetValueIn(t) - GetValueOut(t) >= MIN_TX_FEE

ConnectInputsOK(v, b, t) ==
    /\ \A o \in vin[t] : InputOK(v, b, t, o)
    /\ t \in ScriptsOK
    /\ PaysFee(t)

(* The reward check.  The height is that of pindexBest when the block is    *)
(* connected, not the block's own.                                         *)
RewardOK(b, nBestHeight) ==
    IF IsProofOfStake(b)
    THEN GetValueOut(vtx[b][2]) - GetValueIn(vtx[b][2])
            <= StakeLimit[vtx[b][2]] + Fees(b)
    ELSE GetValueOut(vtx[b][1]) <= Subsidy[nBestHeight] + Fees(b)

ConnectOK(v, b, nBestHeight) ==
    /\ CheckBlock(b)
    /\ \A t \in TxSet(b) :
          /\ ~ Overwrites(v, t)
          /\ t \notin Coinbase => ConnectInputsOK(v, b, t)
    /\ RewardOK(b, nBestHeight)

\* The transaction of block b that spends outpoint o.
Spender(b, o) == CHOOSE t \in TxSet(b) \ Coinbase : o \in vin[t]
Spends(b, o)  == \E t \in TxSet(b) \ Coinbase : o \in vin[t]

(* What a successful ConnectBlock writes.  The record of b itself is        *)
(* written from memory, pnext and all.                                     *)
Connect(v, b, pnext) ==
    [v EXCEPT
        !.next   = [@ EXCEPT ![b] = pnext[b], ![pprev[b]] = b],
        !.supply = [@ EXCEPT ![b] = v.supply[pprev[b]] + Minted(b)],
        !.pos    = [t \in Tx |-> IF t \in TxSet(b) THEN b ELSE v.pos[t]],
        !.spent  = [o \in Outpoint |->
                      IF Spends(b, o) THEN Spender(b, o)
                      ELSE IF o[1] \in TxSet(b) THEN NoTx
                      ELSE v.spent[o]]]

(* DisconnectInputs runs over the transactions in reverse: the one an input *)
(* comes from must still be indexed when its turn comes.                   *)
DisconnectOK(v, b) ==
    \A t \in TxSet(b) \ Coinbase : \A o \in vin[t] :
        Indexed(v, o[1]) /\ ~ Before(b, t, o[1]) /\ InRange(o)

\* What a successful DisconnectBlock writes.
Disconnect(v, b) ==
    [v EXCEPT
        !.next  = IF pprev[b] = NoBlock THEN @ ELSE [@ EXCEPT ![pprev[b]] = NoBlock],
        !.pos   = [t \in Tx |-> IF t \in TxSet(b) THEN NoBlock ELSE v.pos[t]],
        !.spent = [o \in Outpoint |->
                     IF o[1] \in TxSet(b) \/ Spends(b, o) THEN NoTx
                     ELSE v.spent[o]]]

\* The outputs a view holds to be spendable.
Unspent(v) ==
    {o \in Outpoint : Indexed(v, o[1]) /\ InRange(o) /\ v.spent[o] = NoTx}
=============================================================================
