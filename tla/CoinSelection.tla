---------------------------- MODULE CoinSelection ----------------------------
(***************************************************************************)
(* Choosing the coins of a new transaction (wallet.cpp): SelectCoins, its  *)
(* stochastic subset sum ApproximateBestSubset, and CreateTransaction's    *)
(* loop over the fee.                                                      *)
(*                                                                         *)
(* A coin has a value, the depth and the time of its transaction, and      *)
(* whether that is the wallet's own.  The coins come in the order          *)
(* random_shuffle leaves them in; what rand() decides makes a set of       *)
(* results.  A transaction's size counts its inputs and outputs, KB of     *)
(* them to a thousand bytes.                                               *)
(***************************************************************************)
EXTENDS Integers, FiniteSets, Sequences, SequencesExt

CONSTANTS CENT,         \* change smaller than this is avoided
          MIN_TX_FEE,   \* the base fee of every thousand bytes
          KB,
          MaxSize       \* MAX_BLOCK_SIZE_GEN / 5

ASSUME CoinSelectionAssumption == {CENT, MIN_TX_FEE, KB, MaxSize} \subseteq Nat \ {0}

Total(coins, picked) == MapThenSumSet(LAMBDA i : coins[i].value, picked)

\* One repetition of ApproximateBestSubset: first the coins that rand() takes, then, if
\* they do not reach the target, those it left.  A coin that reaches the target makes a
\* candidate, the best so far if it is smaller, and is put back.
Repetition(coins, order, target, taken) ==
  LET Visit(state, i) ==
        LET with == state.picked \union {i} IN
        IF Total(coins, with) < target THEN [state EXCEPT !.picked = with]
        ELSE [state EXCEPT !.reached = TRUE,
                           !.best = IF Total(coins, with) < Total(coins, @) THEN with ELSE @]
      start == [picked |-> {}, reached |-> FALSE, best |-> ToSet(order)]
      first == FoldLeft(Visit, start, SelectSeq(order, LAMBDA i : i \in taken))
  IN  IF first.reached THEN first.best
      ELSE FoldLeft(Visit, first, SelectSeq(order, LAMBDA i : i \notin first.picked)).best

\* All it may end with: it starts from all the coins, and keeps the first repetition's set
\* that none of the thousand improves on.
ApproximateBestSubset(coins, order, target) ==
  IF Total(coins, ToSet(order)) = target THEN {ToSet(order)}
  ELSE {Repetition(coins, order, target, taken) : taken \in SUBSET ToSet(order)}

\* A coin deep enough, the wallet's own or another's, and not later than the transaction.
Eligible(c, nSpendTime, nConfMine, nConfTheirs) ==
  c.depth >= (IF c.mine THEN nConfMine ELSE nConfTheirs) /\ c.time <= nSpendTime

\* Fault: a coin that leaves less than a cent of change counts as a larger one.
ChooseByTarget(coins, eligible, target) ==
  LET lower == {i \in eligible : coins[i].value < target}
      larger == {i \in eligible : coins[i].value > target}
  IN  IF Total(coins, lower) < target THEN {{i} : i \in larger}
      ELSE ApproximateBestSubset(coins, SetToSeq(lower), target)

\* SelectCoinsMinConf without an exact coin: the coins below target + CENT, from the largest
\* down, or the smallest of those above.
Choose(coins, eligible, target) ==
  LET lower == {i \in eligible : coins[i].value < target + CENT}
      larger == eligible \ lower
      total == Total(coins, lower)
      lowest == {i \in larger : \A j \in larger : \/ coins[i].value < coins[j].value
                                                  \/ coins[i].value = coins[j].value /\ i <= j}
      order == SetToSortSeq(lower, LAMBDA i, j : \/ coins[i].value > coins[j].value
                                                 \/ coins[i].value = coins[j].value /\ i < j)
      Exact(picked) == Total(coins, picked) = target
      Again(picked) ==
        IF ~ Exact(picked) /\ total >= target + CENT
          THEN ApproximateBestSubset(coins, order, target + CENT)
          ELSE {picked}
      Closer(picked) ==
        LET best == Total(coins, picked) IN
        \E i \in lowest : (best # target /\ best < target + CENT) \/ coins[i].value <= best
  IN  IF total = target THEN {lower}
      ELSE IF total < target THEN IF lowest = {} THEN {} ELSE {lowest}
      ELSE {IF Closer(picked) THEN lowest ELSE picked :
              picked \in UNION {Again(p) : p \in ApproximateBestSubset(coins, order, target)}}

\* The sets of coins it may return; none when there are not enough.  The first exact coin
\* that it meets is taken at once.
SelectCoinsMinConf(coins, target, nSpendTime, nConfMine, nConfTheirs) ==
  LET eligible == {i \in DOMAIN coins : Eligible(coins[i], nSpendTime, nConfMine, nConfTheirs)}
      exact == {i \in eligible : coins[i].value = target}
  IN  IF exact # {} THEN {{Min(exact)}} ELSE Choose(coins, eligible, target)

\* Other people's coins with six confirmations first, then with one, then the wallet's own
\* unconfirmed change.
Tries == << <<1, 6>>, <<1, 1>>, <<0, 1>> >>
SelectCoins(coins, target, nSpendTime) ==
  LET Sets(t) == SelectCoinsMinConf(coins, target, nSpendTime, Tries[t][1], Tries[t][2])
      enough == {t \in DOMAIN Tries : Sets(t) # {}}
  IN  IF enough = {} THEN {} ELSE Sets(Min(enough))

\* The fee per started thousand bytes, at least MIN_TX_FEE (GetMinFee's rule for dust never
\* adds to that).
NeededFee(size, nTransactionFee) ==
  (IF nTransactionFee > MIN_TX_FEE THEN nTransactionFee ELSE MIN_TX_FEE) * (1 + size \div KB)

\* CreateTransaction: what one round makes of the coins it picked.  Change under a cent is
\* moved to the fee as long as that is below MIN_TX_FEE.
Draft(coins, nValue, nFee, picked) ==
  LET change == Total(coins, picked) - nValue - nFee
      moved == IF nFee < MIN_TX_FEE /\ change \in 1 .. CENT - 1
                 THEN Min({change, MIN_TX_FEE - nFee}) ELSE 0
  IN  [coins |-> picked, change |-> change - moved, fee |-> nFee + moved,
       size |-> Cardinality(picked) + 1 + (IF change > moved THEN 1 ELSE 0)]

NoTransaction == [coins |-> {}]

\* The rounds: a transaction whose fee is too small is made again with the fee it needs.
RECURSIVE CreateWithFee(_, _, _, _, _)
CreateWithFee(coins, nValue, nFee, nSpendTime, nTransactionFee) ==
  LET sets == SelectCoins(coins, nValue + nFee, nSpendTime)
      Continue(draft) ==
        LET need == NeededFee(draft.size, nTransactionFee) IN
        IF draft.size >= MaxSize THEN {NoTransaction}
        ELSE IF draft.fee < need
               THEN CreateWithFee(coins, nValue, need, nSpendTime, nTransactionFee)
        ELSE {draft}
  IN  IF sets = {} THEN {NoTransaction}
      ELSE UNION {Continue(Draft(coins, nValue, nFee, picked)) : picked \in sets}

CreateTransaction(coins, nValue, nSpendTime, nTransactionFee) ==
  CreateWithFee(coins, nValue, nTransactionFee, nSpendTime, nTransactionFee)
==============================================================================
