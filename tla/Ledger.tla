-------------------------------- MODULE Ledger --------------------------------
(***************************************************************************)
(* What the chain database promises: at every moment the spendable outputs *)
(* are exactly what replaying one sound branch from genesis leaves, the    *)
(* branch changes all at once or not at all, and it never leaves a branch  *)
(* on which a checkpoint was pinned.                                       *)
(***************************************************************************)
EXTENDS BlockTree

VARIABLES tip, utxo, pinned

lvars == <<tip, utxo, pinned>>

Created(b) == {o \in Outpoint : o[1] \in TxSet(b) /\ InRange(o)}
Consumed(b) == UNION {vin[t] : t \in TxSet(b)}

\* The outputs left after the branch ending in b; genesis leaves none.
Coins[b \in Block] ==
    IF b = Genesis THEN {}
    ELSE (Coins[pprev[b]] \cup Created(b)) \ Consumed(b)

(* Every input of the block exists, in the order of the block, and is       *)
(* claimed once; nothing is created twice; an ordinary transaction creates *)
(* no value.                                                               *)
SoundBlock(b) ==
    /\ \A t \in TxSet(b) : \A o \in vin[t] :
          o \in Coins[pprev[b]] \/ (o \in Created(b) /\ Before(b, o[1], t))
    /\ \A t, u \in TxSet(b) : t # u => vin[t] \cap vin[u] = {}
    /\ Created(b) \cap Coins[pprev[b]] = {}
    /\ \A t \in TxSet(b) \ (Coinbase \cup Coinstake) :
          GetValueOut(t) <= GetValueIn(t)

Sound(b) == \A a \in Branch[b] \ {Genesis} : SoundBlock(a)

LedgerInit == tip = Genesis /\ utxo = {} /\ pinned = Genesis

\* The whole branch is swapped for another one in a single step.
Move(b) ==
    /\ Sound(b)
    /\ pinned \in Branch[b]
    /\ tip' = b
    /\ utxo' = Coins[b]
    /\ UNCHANGED pinned

Pin(c) ==
    /\ c \in Branch[tip]
    /\ pinned \in Branch[c]
    /\ pinned' = c
    /\ UNCHANGED <<tip, utxo>>

LedgerNext == \E b \in Block : Move(b) \/ Pin(b)

LedgerSpec == LedgerInit /\ [][LedgerNext]_lvars
=============================================================================
