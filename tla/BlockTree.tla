------------------------------ MODULE BlockTree ------------------------------
(***************************************************************************)
(* What the blocks of the tree carry, as data (CBlock, CTransaction).      *)
(* Hashes are the identities of the elements of Block and Tx; amounts are  *)
(* small numbers; scripts, signatures, targets and timestamps, which no    *)
(* property here tells apart, are verdicts: ContextOK and ScriptsOK.       *)
(***************************************************************************)
EXTENDS BlockIndex, Sequences, FiniteSetsExt

CONSTANT
    ContextOK                 \* blocks whose target, timestamps, finality,
                              \* hardened checkpoints and signatures are right

CONSTANTS
    Tx, NoTx,                 \* transactions; CDiskTxPos::IsNull()
    vtx,                      \* the transactions of a block, in order
    vin,                      \* the outpoints a transaction spends
    vout,                     \* the amounts of its outputs, counted from 1
    Coinbase, Coinstake,      \* transactions of the two special kinds
    CoinbaseHeight,           \* the height a coinbase script starts with
    ScriptsOK                 \* transactions whose signatures verify and whose
                              \* timestamp is not before their inputs'

CONSTANTS
    nCoinbaseMaturity,        \* depth at which a coinbase may be spent
    MIN_TX_FEE,               \* the fee GetMinFee asks of a transaction
    Subsidy,                  \* GetProofOfWorkReward without fees, by height
    StakeLimit,               \* GetProofOfStakeReward without fees
    MaxOut                    \* bound: an outpoint's index is in 1..MaxOut

Outpoint == Tx \X (1..MaxOut)

ASSUME TxAssumption ==
    /\ ContextOK \subseteq Block
    /\ NoTx \notin Tx
    /\ vtx \in [Block -> Seq(Tx)]
    /\ vin \in [Tx -> SUBSET Outpoint] /\ \A t \in Tx : IsFiniteSet(vin[t])
    /\ vout \in [Tx -> Seq(Nat)]
    /\ MaxOut \in Nat /\ \A t \in Tx : Len(vout[t]) <= MaxOut
    /\ Coinbase \subseteq Tx /\ Coinstake \subseteq Tx
    /\ Coinbase \cap Coinstake = {}
    /\ \A t \in Tx : vin[t] = {} <=> t \in Coinbase
    /\ \A t \in Tx : \A o \in vin[t] : o[1] # t
    /\ CoinbaseHeight \in [Coinbase -> Nat]
    /\ nCoinbaseMaturity \in Nat \ {0} /\ MIN_TX_FEE \in Nat

-----------------------------------------------------------------------------
TxSet(b) == {vtx[b][i] : i \in DOMAIN vtx[b]}

\* Transaction p stands before transaction t in block b.
Before(b, p, t) ==
    \E i, j \in DOMAIN vtx[b] : i < j /\ vtx[b][i] = p /\ vtx[b][j] = t

IsProofOfStake(b) == Len(vtx[b]) > 1 /\ vtx[b][2] \in Coinstake

\* Transactions Reorganize queues to resurrect.
UserTxs(b) == SelectSeq(vtx[b], LAMBDA t : t \notin Coinbase \cup Coinstake)

InRange(o) == o[2] <= Len(vout[o[1]])
Value(o)   == vout[o[1]][o[2]]

GetValueIn(t)  == SumFunction([o \in vin[t] |-> Value(o)])
GetValueOut(t) == SumFunction(vout[t])

Fees(b) ==
    SumFunction([t \in TxSet(b) \ (Coinbase \cup Coinstake) |->
                    GetValueIn(t) - GetValueOut(t)])

\* Fault: nValueIn is forgotten.
MintedGross(b) == SumFunction([t \in TxSet(b) |-> GetValueOut(t)])

\* nValueOut - nValueIn of ConnectBlock: by how much a block grows the supply.
Minted(b) ==
    SumFunction([t \in TxSet(b) |-> GetValueOut(t)])
        - SumFunction([t \in TxSet(b) |-> GetValueIn(t)])

(* Filtering a sequence keeps what it does not drop, by an induction over   *)
(* its length.                                                             *)
ASSUME FilterAssumption ==
    \A b \in Block :
        /\ UserTxs(b) \in Seq(Tx)
        /\ \A i \in DOMAIN UserTxs(b) : UserTxs(b)[i] \in TxSet(b)

(* CBlock::CheckBlock: the checks that need no context.                     *)
CheckBlock(b) ==
    /\ vtx[b] # <<>> /\ vtx[b][1] \in Coinbase
    /\ \A i \in 2..Len(vtx[b]) : vtx[b][i] \notin Coinbase
    /\ IsProofOfStake(b) =>
          /\ vout[vtx[b][1]] = <<0>>
          /\ \A i \in 3..Len(vtx[b]) : vtx[b][i] \notin Coinstake
    /\ \A i, j \in DOMAIN vtx[b] : vtx[b][i] = vtx[b][j] => i = j

\* Fault: any coinbase will do.
AnyCoinbaseHeight(b) == TRUE

\* The coinbase starts with the height of its block (end of AcceptBlock).
CoinbaseHeightOK(b) == CoinbaseHeight[vtx[b][1]] = nHeight[b]
=============================================================================
