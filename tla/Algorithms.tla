------------------------------ MODULE Algorithms ------------------------------
(***************************************************************************)
(* The program's pure algorithms, each against a definition of what it is  *)
(* for: the flow of control of scripts, the signatures of CHECKMULTISIG,   *)
(* signing a transaction by several parties, choosing coins, and the       *)
(* kernel of a proof of stake.  A behaviour is one call: an input and its  *)
(* result.                                                                 *)
(***************************************************************************)
EXTENDS Scripts, CoinSelection, StakeModifier

CONSTANTS Conditions,   \* inputs: [script, stack]
          Equivalents,  \* [script, stack, same]: another script that should do the same
          Signatures,   \* [sigs, keys, required]
          Signings,     \* [script, parties]
          Spendings,    \* [coins, nValue, nSpendTime, nTransactionFee]
          Stakes        \* [trunk, left, right, from, after]: the time between blocks of a trunk
                        \* and of two branches on it, a coin's block, and a stake's time

VARIABLES input, result

vars == <<input, result>>

Pending == <<>>

Init == /\ \/ input \in Conditions
           \/ input \in Equivalents
           \/ input \in Signatures
           \/ input \in Signings
           \/ input \in Spendings
           \/ input \in Stakes
        /\ result = Pending

Answers(outcome) ==
  /\ result = Pending
  /\ result' = <<outcome>>
  /\ UNCHANGED input

(***************************************************************************)
(* The calls.                                                              *)
(***************************************************************************)
RunScript ==
  /\ input.kind \in {"conditions", "equivalents"}
  /\ Answers(EvalScript(input.stack, input.script))

\* The signatures of an input are its scriptSig's pushes, behind the value too many that
\* CHECKMULTISIG pops.
CheckSignatures ==
  /\ input.kind = "signatures"
  /\ Answers(VerifyScript(<<Push(Num(0))>> \o PushAll(input.sigs),
                          SetMultisig(input.required, input.keys)))

\* signrawtransaction by each party in turn, on copies of the transaction that are then
\* combined in the same order.
SignTogether ==
  LET Signed(i) == SignSignature(input.parties[i], input.script)
      Merge(scriptSig, i) == CombineSignatures(input.script, scriptSig, Signed(i).scriptSig)
      merged == FoldLeft(Merge, Signed(1).scriptSig, [i \in 1 .. Len(input.parties) - 1 |-> i + 1])
  IN  /\ input.kind = "signings"
      /\ Answers([complete |-> VerifyScript(merged, input.script),
                  alone |-> {i \in DOMAIN input.parties : Signed(i).ok}])

Spend ==
  /\ input.kind = "spendings"
  /\ Answers(CreateTransaction(input.coins, input.nValue, input.nSpendTime, input.nTransactionFee))

\* A branch of blocks that far apart; every third is a proof of stake.
Grown(chain, steps, name) ==
  LET Grow(grown, step) ==
        LET n == name + Len(grown) IN
        Append(grown, Entry(grown, [hash |-> n, stake |-> n % 3 = 2, proof |-> n,
                                    time |-> step + (IF grown = <<>> THEN 0 ELSE Last(grown).time)]))
  IN  FoldLeft(Grow, chain, steps)

\* A proof of stake on the right branch, while the left one is the main chain.
Checked(branch, name) ==
  LET trunk == Grown(<<>>, input.trunk, 0) IN
  CheckProofOfStake(Grown(trunk, branch, name), input.from, Last(trunk).time + input.after)
CheckStake ==
  /\ input.kind = "stakes"
  /\ Answers(Checked(input.left, 100))

Next == RunScript \/ CheckSignatures \/ SignTogether \/ Spend \/ CheckStake

Spec == Init /\ [][Next]_vars

(***************************************************************************)
(* What the results should be.                                             *)
(***************************************************************************)
Answered(kind) == input.kind = kind /\ result # Pending
Answer == result[1]

Opens(op) == op \in {Op("IF"), Op("NOTIF")}
Depth(script, i, j) ==
  Cardinality({k \in i .. j : Opens(script[k])}) - Cardinality({k \in i .. j : script[k] = Op("ENDIF")})

\* The parts between an IF, its ELSEs and its ENDIF at position end, every other one taken.
Taken(script, end, odd) ==
  LET marks == {1, end} \union {i \in 2 .. end - 1 : script[i] = Op("ELSE") /\ Depth(script, 1, i) = 1}
      order == SetToSortSeq(marks, <)
      Part(i) == IF (i % 2 = 1) = odd THEN SubSeq(script, order[i] + 1, order[i + 1] - 1) ELSE <<>>
  IN  FlattenSeq([i \in 1 .. Len(order) - 1 |-> Part(i)])

\* What no script may have, not even in a branch that is not taken.
Refused == {Op(name) : name \in Disabled \union {"VERIF", "VERNOTIF"}}

\* A script of pushes and conditionals, read as nested blocks; anything else fails where it
\* is reached.
Failed == [stack |-> <<>>, ok |-> FALSE]
RECURSIVE Meaning(_, _)
Meaning(script, stack) ==
  IF script = <<>> THEN [stack |-> stack, ok |-> TRUE]
  ELSE IF IsPush(Head(script))
         THEN IF Len(stack) = MAX_STACK THEN Failed
              ELSE Meaning(Tail(script), Append(stack, Head(script)[2]))
  ELSE LET ends == {i \in DOMAIN script : script[i] = Op("ENDIF") /\ Depth(script, 1, i) = 0}
           odd == CastToBool(Last(stack)) = (Head(script) = Op("IF"))
       IN  IF ~ Opens(Head(script)) \/ ends = {} \/ stack = <<>> THEN Failed
           ELSE Meaning(Taken(script, Min(ends), odd) \o SubSeq(script, Min(ends) + 1, Len(script)),
                        Front(stack))

(***************************************************************************)
(* Properties.                                                             *)
(***************************************************************************)
\* EvalScript follows vfExec opcode by opcode; what it does is what the script means as
\* nested blocks, with several ELSEs in turn, or a failure where the blocks do not match or
\* the stack gets too deep.  In a branch that is not taken every opcode is passed over, but
\* it counts, and the disabled ones, VERIF and VERNOTIF make the script fail there too.
ConditionalsNest ==
  Answered("conditions") =>
    LET count == Cardinality({i \in DOMAIN input.script : ~ IsPush(input.script[i])})
        meaning == IF count > MAX_OPS \/ ToSet(input.script) \intersect Refused # {} THEN Failed
                   ELSE Meaning(input.script, input.stack)
    IN  Answer.ok = meaning.ok /\ (meaning.ok => Answer.stack = meaning.stack)

\* The opcodes that move values and the arithmetic agree with one another: each does, and
\* needs on the stack, what its spelling with others does.
StackOpsAgree ==
  Answered("equivalents") =>
    LET same == EvalScript(input.stack, input.same) IN
    Answer.ok = same.ok /\ (same.ok => Answer.stack = same.stack)

\* OP_CHECKMULTISIG never goes back to a key it passed over (script.cpp:1060), and yet it
\* succeeds exactly when the first signatures, as many as the script needs, can be given
\* different keys in the keys' order.
MultisigFindsKeys ==
  Answered("signatures") =>
    LET sigs == SubSeq(input.sigs, Len(input.sigs) + 1 - input.required, Len(input.sigs))
        script == SetMultisig(input.required, input.keys)
    IN  Answer = ( /\ Len(input.sigs) >= input.required
                   /\ \E f \in [DOMAIN sigs -> DOMAIN input.keys] :
                        /\ \A i, j \in DOMAIN sigs : i < j => f[i] < f[j]
                        /\ \A i \in DOMAIN sigs : CheckSig(sigs[i], Pub(input.keys[f[i]]), script) )

\* Copies of an input signed by several parties, combined in any order
\* (signrawtransaction), verify exactly when the parties that know the redeem script have
\* enough keys between them.  SignSignature says so of one party alone, and never fails on
\* a script that IsMine calls the wallet's.  A multisig that Solver refuses nobody signs
\* alone; combining (script.cpp:1892) puts placeholders, which are enough for one that asks
\* for no signature.
SigningsCombine ==
  Answered("signings") =>
    LET redeem == IF IsPayToScriptHash(input.script) THEN input.script[2][2][2][2][2] ELSE input.script
        Knows(i) == IsPayToScriptHash(input.script) => redeem \in input.parties[i].scripts
        s == Solver(redeem)
        wanted == CASE s.type = "pubkey" -> {s.key}
                    [] s.type = "pubkeyhash" -> {KeyOf(s.hash)}
                    [] s.type = "multisig" -> ToSet(s.keys)
        Enough(parties) ==
          LET knowing == {i \in parties : Knows(i)}
              have == UNION {input.parties[i].keys : i \in knowing}
          IN  /\ Cardinality(have \intersect wanted) >= (IF s.type = "multisig" THEN s.required ELSE 1)
              /\ s.solved \/ Cardinality(knowing) >= 2
    IN  /\ Answer.complete = Enough(DOMAIN input.parties)
        /\ \A i \in DOMAIN input.parties :
             /\ (i \in Answer.alone) = Enough({i})
             /\ IsMine(input.parties[i], input.script) => i \in Answer.alone

\* Whatever rand() does, CreateTransaction spends coins it may spend, in balance, with the
\* fee the transaction's size needs; change is nothing or at least a cent unless the coins
\* it may choose from leave less; and it gives up only if no fee it could need is covered.
CoinsSelected ==
  Answered("spendings") =>
    LET coins == input.coins
        In(t) == {i \in DOMAIN coins : Eligible(coins[i], input.nSpendTime, Tries[t][1], Tries[t][2])}
        most == Total(coins, UNION {In(t) : t \in DOMAIN Tries})
    IN  /\ Answer # {}
        /\ \A tx \in Answer :
             IF tx = NoTransaction
               THEN most < input.nValue + NeededFee(Len(coins) + 2, input.nTransactionFee)
                      \/ Len(coins) + 2 >= MaxSize
               ELSE /\ \E t \in DOMAIN Tries :
                         /\ tx.coins \subseteq In(t)
                         /\ tx.change \in 1 .. CENT - 1 => 
                              Total(coins, In(t)) < input.nValue + tx.fee + CENT
                    /\ tx.change >= 0
                    /\ Total(coins, tx.coins) = input.nValue + tx.change + tx.fee
                    /\ tx.fee >= NeededFee(tx.size, input.nTransactionFee)

\* The kernel of a block on a side branch is checked with the main chain's modifiers
\* (kernel.cpp:281).  What is hashed is nevertheless what the block's own branch says, as
\* long as the branches parted late: the age a stake must have leaves that much time after
\* the modifier.
StakeKernelsDetermined ==
  Answered("stakes") => Answer = Checked(input.right, 200)
==============================================================================
