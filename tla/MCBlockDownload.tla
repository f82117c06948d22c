--------------------------- MODULE MCBlockDownload ---------------------------
(***************************************************************************)
(* BlockDownload on a chain and a fork, announced in batches of two:       *)
(*                                                                         *)
(*      g - 1 - 2 - 3 - 4          "c" starts on the fork f, "s" has the   *)
(*        \                        chain.  In one world a connection or a  *)
(*         f                       node is lost; in the other "q", which   *)
(*                                 never sends a block, announces 1 too.   *)
(***************************************************************************)
EXTENDS BlockDownload

MCBlock == {"g", "1", "2", "3", "4", "f"}
MCpprev == [b \in MCBlock |->
    CASE b = "g" -> "none" [] b \in {"1", "f"} -> "g"
      [] b = "2" -> "1" [] b = "3" -> "2" [] b = "4" -> "3"]
MCnHeight == [b \in MCBlock |->
    CASE b = "g" -> 0 [] b \in {"1", "f"} -> 1 [] b = "2" -> 2 [] b = "3" -> 3
      [] b = "4" -> 4]
MCnChainTrust == [b \in MCBlock |->
    CASE b = "g" -> 0 [] b = "1" -> 1 [] b = "f" -> 2 [] b = "2" -> 3
      [] b = "3" -> 4 [] b = "4" -> 5]

MCNode == {"c", "s", "q"}
MCOrigin == [n \in MCNode |-> CASE n = "c" -> {"g", "f"} [] n = "q" -> {"g", "1"}
                                [] n = "s" -> {"g", "1", "2", "3"}]
Faulty == [origin |-> MCOrigin, arriving |-> {<<"s", "4">>}, silent |-> {},
           dials |-> {<<"c", "s">>}, faults |-> 1]
Withholding == [Faulty EXCEPT !.silent = {"q"}, !.faults = 0,
                              !.dials = {<<"c", "s">>, <<"c", "q">>},
                              !.origin["c"] = {"g"}, !.origin["s"] = {"g", "1", "2"},
                              !.arriving = {<<"s", "3">>}]
MCWorlds == {Faulty, Withholding}

\* A chain of proof-of-stake blocks, which is complete from the start.
MCStakedWorlds ==
    {[Faulty EXCEPT !.origin["c"] = {"g"}, !.origin["s"] = MCBlock \ {"f"},
                    !.faults = 0, !.arriving = {}]}
=============================================================================
