------------------------------- MODULE MC_KeyPool -------------------------------
(***************************************************************************)
(* Two reservations and a pool of one or two keys ahead.                   *)
(***************************************************************************)
EXTENDS KeyPool, TLC

Sym == Permutations(Holders)
=============================================================================
