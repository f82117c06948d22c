---------------------------- MODULE MCOrphanBlocks ----------------------------
(***************************************************************************)
(* OrphanBlocks on the tree                                                *)
(*                                                                         *)
(*      g - a - b - c - d        b and e stake the same output;            *)
(*      | \                       f never enters the index, d may fail to   *)
(*      f   e - h                be connected                              *)
(***************************************************************************)
EXTENDS OrphanBlocks

MCBlock == {"g", "a", "b", "c", "d", "e", "f", "h"}
MCpprev == [x \in MCBlock |->
    CASE x = "g" -> "none" [] x \in {"a", "e", "f"} -> "g" [] x = "b" -> "a"
      [] x = "c" -> "b" [] x = "d" -> "c" [] x = "h" -> "e"]
MCnHeight == [x \in MCBlock |->
    CASE x = "g" -> 0 [] x \in {"a", "e", "f"} -> 1 [] x \in {"b", "h"} -> 2
      [] x = "c" -> 3 [] x = "d" -> 4]
MCProofOfStake == [x \in MCBlock |->
    CASE x \in {"b", "e"} -> "s" [] x \in {"c", "f"} -> "t" [] OTHER -> "pow"]

\* A node that stays up: what it has received it remembers.
SpecUp == Init /\ [][Next /\ received \subseteq received']_vars
=============================================================================
