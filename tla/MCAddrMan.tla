------------------------------ MODULE MCAddrMan ------------------------------
(***************************************************************************)
(* AddrMan on three hosts, one of them heard of under two ports, with two  *)
(* new buckets and a tried one, of one entry each: every bucket fills, an  *)
(* entry is in both new buckets, and an evicted entry finds its own new    *)
(* bucket full.                                                            *)
(***************************************************************************)
EXTENDS AddrMan

MCIP == {"x", "y", "z"}
MCService == {"x1", "x2", "y1", "z1"}
MCIpOf == [s \in MCService |->
    CASE s \in {"x1", "x2"} -> "x" [] s = "y1" -> "y" [] s = "z1" -> "z"]

\* One new bucket for each host that tells.
MCNewBucketOf == [s \in MCService |-> [src \in {"x", "y"} |-> src]]

MCTriedBucketOf == [s \in MCService |-> 1]
=============================================================================
