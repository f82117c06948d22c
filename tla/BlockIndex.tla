----------------------------- MODULE BlockIndex -----------------------------
(***************************************************************************)
(* The tree of blocks a node can meet, hanging from the genesis block      *)
(* (CBlockIndex), as data.  Hashes are the identities of its elements.     *)
(***************************************************************************)
EXTENDS Integers, FiniteSets

CONSTANTS
    Block, Genesis, NoBlock,  \* CBlockIndex, pindexGenesisBlock, NULL / hash 0
    pprev,                    \* the parent of each block, NoBlock for genesis
    nHeight,                  \* distance to genesis
    nChainTrust               \* accumulated trust of the branch ending in a block

ASSUME TreeAssumption ==
    /\ Genesis \in Block /\ NoBlock \notin Block
    /\ pprev \in [Block -> Block \cup {NoBlock}]
    /\ \A b \in Block : pprev[b] = NoBlock <=> b = Genesis
    /\ nHeight \in [Block -> Nat]
    /\ \A b \in Block \ {Genesis} : nHeight[b] = nHeight[pprev[b]] + 1
    /\ nChainTrust \in [Block -> Nat]
    /\ \A b \in Block \ {Genesis} : nChainTrust[b] > nChainTrust[pprev[b]]

-----------------------------------------------------------------------------
(* The branch that ends in a block: what walking pprev down to genesis      *)
(* visits.  The least set that contains the block and is closed under pprev.*)
DownClosed(S) == \A b \in S : pprev[b] # NoBlock => pprev[b] \in S

Branch ==
    [b \in Block |->
        {a \in Block : \A S \in SUBSET Block : b \in S /\ DownClosed(S) => a \in S}]

(* Walking back from pindexBest and pindexNew in turn, always from the      *)
(* higher of the two, stops at the highest block the two branches share.    *)
ForkPoint(a, b) ==
    CHOOSE f \in Branch[a] \cap Branch[b] :
        \A g \in Branch[a] \cap Branch[b] : nHeight[g] <= nHeight[f]

(* CheckSync and ValidateSyncCheckpoint trace back to a given height.       *)
TraceBack(b, h) == CHOOSE a \in Branch[b] : nHeight[a] = h
=============================================================================
