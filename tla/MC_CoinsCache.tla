----------------------------- MODULE MC_CoinsCache -----------------------------
(* A small instance of CoinsCache for TLC: a coinbase with two outputs,    *)
(* two transactions that spend one each, one that spends both, and one     *)
(* that spends an output made in the same block.                           *)
EXTENDS CoinsCache, TLC

CONSTANTS base, one, two, both, next
mcTxs == {base, one, two, both, next}
Point(t, k) == [tx |-> t, n |-> k]
mcIns == base :> <<>> @@ one :> <<Point(base, 0)>> @@ two :> <<Point(base, 1)>>
         @@ both :> <<Point(base, 0), Point(base, 1)>> @@ next :> <<Point(one, 0)>>
mcOuts == base :> {0, 1} @@ one :> {0} @@ two :> {0} @@ both :> {0} @@ next :> {0}
mcBodies == {<<base>>, <<one>>, <<two>>, <<both>>, <<one, two>>, <<one, next>>, <<base, one>>}
================================================================================
