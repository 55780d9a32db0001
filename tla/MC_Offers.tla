------------------------------ MODULE MC_Offers ------------------------------
(* Small instances of Offers for TLC.                                      *)
EXTENDS Offers, TLC

CONSTANTS a1, a2, w1, g1, g2
Symmetries == Permutations({a1, a2}) \cup Permutations({g1, g2})
mcUpdates == {-1, 1}
==============================================================================
