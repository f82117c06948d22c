----------------------------- MODULE MCOrphanTxs -----------------------------
(***************************************************************************)
(* OrphanTxs on a chain g - p - q - r whose coinbase of p pays A and E;    *)
(* r carries A.  B and D both spend A, D with a wrong signature; C spends A *)
(* and B; X, a large one, spends B; F spends E, which this node may send   *)
(* itself.                                                                 *)
(***************************************************************************)
EXTENDS OrphanTxs

MCBlock == {"g", "p", "q", "r"}
MCpprev == [b \in MCBlock |->
    CASE b = "g" -> "none" [] b = "p" -> "g" [] b = "q" -> "p" [] b = "r" -> "q"]
MCnHeight == [b \in MCBlock |->
    CASE b = "g" -> 0 [] b = "p" -> 1 [] b = "q" -> 2 [] b = "r" -> 3]

MCCoinbase == {"cp", "cq", "cr"}
MCTx == MCCoinbase \cup {"A", "B", "C", "D", "E", "F", "X"}

MCvtx == [b \in MCBlock |->
    CASE b = "g" -> <<>> [] b = "p" -> <<"cp">> [] b = "q" -> <<"cq">>
      [] b = "r" -> <<"cr", "A">>]
MCvin == [t \in MCTx |->
    CASE t = "A" -> {<<"cp", 1>>} [] t = "B" -> {<<"A", 1>>}
      [] t = "C" -> {<<"A", 2>>, <<"B", 1>>} [] t = "D" -> {<<"A", 1>>}
      [] t = "X" -> {<<"B", 1>>} [] t = "E" -> {<<"cp", 2>>}
      [] t = "F" -> {<<"E", 1>>} [] OTHER -> {}]
MCvout == [t \in MCTx |->
    CASE t = "cp" -> <<8, 4>> [] t = "A" -> <<3, 3>> [] t = "B" -> <<2>>
      [] t = "E" -> <<3>> [] OTHER -> <<1>>]
MCCoinbaseHeight == [t \in MCCoinbase |->
    CASE t = "cp" -> 1 [] t = "cq" -> 2 [] t = "cr" -> 3]
MCSubsidy == [h \in 0..3 |-> 12]
MCScriptsOK == MCTx \ {"D"}
=============================================================================
