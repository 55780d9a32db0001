------------------------------ MODULE MC_MemPool ------------------------------
(* Small instances of MemPool for TLC.                                     *)
EXTENDS MemPool, TLC

CONSTANTS gen, cb,            \* coinbase transactions: of the first block, of a later one
          a, b, d, c, p       \* b spends a and d spends b; c spends the same output as b;
                              \* p spends cb
CONSTANTS gen1, a1, b1, cb1   \* the outpoints they create

mcTxs == {gen, cb, a, b, c, d, p}
mcCoinbase == {gen, cb}
mcCreator == gen1 :> gen @@ a1 :> a @@ b1 :> b @@ cb1 :> cb
mcIns == gen :> {} @@ cb :> {} @@ a :> {gen1} @@ c :> {a1} @@ b :> {a1} @@ d :> {b1}
         @@ p :> {cb1}
mcPrev == [t \in WalletTxs |-> Parents(t)]
mcBase == <<[tx |-> gen, height |-> 0]>>

(* Up to two transactions, in the first two blocks of the branch.          *)
BranchesOf(txs) ==
    {br \in UNION {[1 .. n -> [tx : txs, up : 1 .. 2]] : n \in 0 .. 2} :
        \A i, j \in DOMAIN br : i < j => br[i].up <= br[j].up /\ br[i].tx # br[j].tx}
spendBranches == BranchesOf({a, b, c})
===============================================================================
