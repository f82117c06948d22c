------------------------------ MODULE MCWallet ------------------------------
(***************************************************************************)
(* Wallet on a tree of eight blocks:                                       *)
(*                                                                         *)
(*        g - p - q - a1         a1 is proof-of-stake: its coinstake K     *)
(*                 \             spends the second output of cp            *)
(*                  b1 - b2 - b3 b2 carries T, b3 S; R is in a1 and in b1  *)
(*                   \                                                     *)
(*                    e          fails: X is not signed                    *)
(*                                                                         *)
(* cp, the coinbase of p, pays the wallet twice and is mature at q.  T     *)
(* spends the first of its outputs, S spends T's first output, and V its   *)
(* second and S's: a diamond.  R is a payment from the coinbase of q.  T,  *)
(* S and V are made here; R comes from a peer or in a block.  U would      *)
(* spend T's first output once more.                                       *)
(***************************************************************************)
EXTENDS Wallet

MCBlock == {"g", "p", "q", "a1", "b1", "b2", "b3", "e"}

MCpprev ==
    [b \in MCBlock |->
        CASE b = "g" -> "none" [] b = "p" -> "g" [] b = "q" -> "p"
          [] b = "a1" -> "q"   [] b = "b1" -> "q"
          [] b \in {"b2", "e"} -> "b1" [] b = "b3" -> "b2"]

MCnHeight ==
    [b \in MCBlock |->
        CASE b = "g" -> 0 [] b = "p" -> 1 [] b = "q" -> 2
          [] b \in {"a1", "b1"} -> 3 [] b \in {"b2", "e"} -> 4 [] b = "b3" -> 5]

MCnChainTrust ==
    [b \in MCBlock |->
        CASE b = "g" -> 0 [] b = "p" -> 1 [] b = "q" -> 2 [] b = "b1" -> 3
          [] b = "a1" -> 4 [] b = "e" -> 5 [] b = "b2" -> 6 [] b = "b3" -> 7]

MCCoinbase == {"cp", "cq", "ca1", "cb1", "cb2", "cb3", "ce"}
MCTx == MCCoinbase \cup {"T", "S", "U", "V", "K", "R", "X"}

MCvtx ==
    [b \in MCBlock |->
        CASE b = "g" -> <<>>            [] b = "p" -> <<"cp">> [] b = "q" -> <<"cq">>
          [] b = "a1" -> <<"ca1", "K", "R">>
          [] b = "b1" -> <<"cb1", "R">> [] b = "b2" -> <<"cb2", "T">>
          [] b = "b3" -> <<"cb3", "S">>
          [] b = "e" -> <<"ce", "T", "X">>]

MCvin ==
    [t \in MCTx |->
        CASE t = "T" -> {<<"cp", 1>>} [] t \in {"S", "U"} -> {<<"T", 1>>}
          [] t = "V" -> {<<"T", 2>>, <<"S", 1>>}
          [] t = "K" -> {<<"cp", 2>>} [] t = "R" -> {<<"cq", 1>>}
          [] t = "X" -> {<<"cp", 1>>} [] OTHER -> {}]

MCvout ==
    [t \in MCTx |->
        CASE t = "cp" -> <<5, 5>> [] t = "cq" -> <<2>>
          [] t = "T" -> <<3, 1>> [] t \in {"S", "U", "V"} -> <<2>>
          [] t = "K" -> <<0, 5>> [] t = "X" -> <<4>>
          [] t = "ca1" -> <<0>>  [] OTHER -> <<1>>]

MCCoinbaseHeight ==
    [t \in MCCoinbase |->
        CASE t = "cp" -> 1 [] t = "cq" -> 2 [] t \in {"ca1", "cb1"} -> 3
          [] t \in {"cb2", "ce"} -> 4 [] t = "cb3" -> 5]

MCSubsidy == [h \in 0..5 |-> 10]
MCStakeLimit == [t \in {"K"} |-> 1]
MCScriptsOK == MCTx \ {"X"}

MCprevouts ==
    [t \in MCTx |->
        CASE t \in {"S", "U"} -> <<"T">> [] t = "V" -> <<"T", "S">>
          [] t \in {"T", "K", "X"} -> <<"cp">>
          [] t = "R" -> <<"cq">> [] OTHER -> <<>>]

MCMine == {<<"cp", 1>>, <<"cp", 2>>, <<"T", 1>>, <<"T", 2>>, <<"S", 1>>, <<"V", 1>>,
           <<"K", 2>>, <<"R", 1>>}

\* The hashes of the wallet's transactions grow in this order.
MCHashOrder ==
    LET order == <<"V", "S", "T", "cp", "K", "R", "U">>
    IN  {<<order[i], order[j]>> : <<i, j>> \in {p \in (1..7) \X (1..7) : p[1] < p[2]}}

\* Without repairwallet, which would make coins spent in the pool available too.
UnrepairedSpec ==
    WalletInit /\ [][WalletNext /\ ~ FixSpentCoins]_allVars
=============================================================================
