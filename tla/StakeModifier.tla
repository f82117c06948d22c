---------------------------- MODULE StakeModifier ----------------------------
(***************************************************************************)
(* Stake modifiers and the kernel of a proof of stake (kernel.cpp).        *)
(*                                                                         *)
(* A chain is the sequence of index entries from the genesis block on: an  *)
(* entry is [hash, time, stake, proof, modifier, generated].  A modifier's *)
(* bits are the hashes of the blocks they are taken from.  A target is met *)
(* by whatever the caller says: only what is hashed is modelled.           *)
(***************************************************************************)
EXTENDS Integers, FiniteSets, Sequences, SequencesExt

CONSTANTS nModifierInterval, nStakeMinAge,
          Sections      \* the lengths of the rounds of a selection (64 of them)

ASSUME StakeModifierAssumption ==
  /\ nModifierInterval \in Nat \ {0} /\ nStakeMinAge \in Nat
  /\ Sections \in Seq(Nat \ {0})

SelectionInterval == FoldLeft(+, 0, Sections)

\* The block whose modifier is in force at the end of a chain.
GetLastStakeModifier(chain) ==
  chain[Max({i \in DOMAIN chain : chain[i].generated})]

\* What a selection hashes, as a number; any function serves.  A proof of stake is always
\* smaller than a proof of work.
SelectionHash(entry, modifier) ==
  LET mixed == (7 * entry.proof + 3 * Len(modifier) + (IF modifier = <<>> THEN 0 ELSE Last(modifier))) % 5
  IN  IF entry.stake THEN mixed ELSE 5 + mixed

\* One round: the first block not selected yet and the others up to the round's end, by the
\* smallest hash.
SelectBlockFromCandidates(sorted, selected, stop, modifier) ==
  LET left == SelectSeq(sorted, LAMBDA entry : entry.hash \notin ToSet(selected))
      among == {i \in DOMAIN left : i = 1 \/ left[i].time <= stop}
      Hashed(i) == SelectionHash(left[i], modifier)
  IN  left[Min({i \in among : \A j \in among : Hashed(i) <= Hashed(j)})].hash

\* ComputeNextStakeModifier: a new one when the chain's end is in a later interval than the
\* last one's block, from the blocks of the selection interval before.
ComputeNextStakeModifier(chain) ==
  LET last == GetLastStakeModifier(chain)
      now == Last(chain).time \div nModifierInterval
      start == now * nModifierInterval - SelectionInterval
      older == {i \in DOMAIN chain : chain[i].time < start}
      candidates == IF older = {} THEN chain ELSE SubSeq(chain, Max(older) + 1, Len(chain))
      sorted == SortSeq(candidates, LAMBDA a, b : a.time < b.time \/ (a.time = b.time /\ a.hash < b.hash))
      Round(selected, r) ==
        Append(selected,
               SelectBlockFromCandidates(sorted, selected,
                                         start + FoldLeft(+, 0, SubSeq(Sections, 1, r)), last.modifier))
      rounds == Min({Len(Sections), Len(sorted)})
  IN  IF last.time \div nModifierInterval >= now
        THEN [modifier |-> last.modifier, generated |-> FALSE]
        ELSE [modifier |-> FoldLeft(Round, <<>>, [r \in 1 .. rounds |-> r]), generated |-> TRUE]

\* Fault: the newest modifier of the main chain.
KernelFromTip(chain, from) ==
  {i \in DOMAIN chain : /\ chain[i].generated /\ i > from
                        /\ \A j \in DOMAIN chain : chain[j].generated => j <= i}

\* GetKernelStakeModifier walks up the main chain from the coin's block, to the first
\* modifier made a selection interval later; there may be none yet.
KernelBlock(chain, from) ==
  LET later == {i \in DOMAIN chain : /\ i > from /\ chain[i].generated
                                     /\ chain[i].time >= chain[from].time + SelectionInterval}
  IN  IF later = {} THEN {} ELSE {Min(later)}

\* CheckProofOfStake up to the target: what the kernel hashes, or nothing when the coin's
\* block is not in the main chain, is too young or has no modifier yet.
CheckProofOfStake(main, hashFrom, nTimeTx) ==
  {[from |-> hashFrom, time |-> nTimeTx, modifier |-> main[k].modifier] :
     k \in UNION {KernelBlock(main, i) :
                    i \in {j \in DOMAIN main : /\ main[j].hash = hashFrom
                                               /\ main[j].time + nStakeMinAge <= nTimeTx}}}

\* AddToBlockIndex, as far as modifiers go: the entry of a block on top of a chain.
Entry(chain, block) ==
  block @@ (IF chain = <<>> THEN [modifier |-> <<>>, generated |-> TRUE]
                            ELSE ComputeNextStakeModifier(chain))
==============================================================================
