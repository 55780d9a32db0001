------------------------------ MODULE MC_AddrMan ------------------------------
(* A small instance of AddrMan for TLC: four addresses, one of them with   *)
(* two ports, two new buckets for one entry each, chosen by the source,    *)
(* and one tried bucket for two.                                           *)
EXTENDS AddrMan

CONSTANTS x, y, z, v, s1, s2
mcServices == {[ip |-> i, port |-> 1] : i \in IPs} \cup {[ip |-> x, port |-> 2]}
mcNewBucket == [c \in IPs \X Sources |-> IF c[2] = s1 THEN 1 ELSE 2]
mcTriedBucket == [s \in Services |-> 1]
Symmetries == Permutations(IPs \ {x})
===============================================================================
