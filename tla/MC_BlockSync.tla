----------------------------- MODULE MC_BlockSync -----------------------------
(***************************************************************************)
(* Two nodes; a has a chain of two batches that b lacks, b a side chain of *)
(* one block, which it may make as long as a batch.                        *)
(***************************************************************************)
EXTENDS BlockSync, TLC

CONSTANTS a, b

mcLinks == {<<a, b>>, <<b, a>>}

Chain(i, k) == {[j \in 1 .. m |-> i] : m \in 0 .. k}
mcBlocks == Chain(1, 5) \cup Chain(2, 2)
mcHave == a :> Chain(1, 4) @@ b :> Chain(2, 1)
===============================================================================
