---------------------------- MODULE MC_AliasChain ----------------------------
(* Small instances of AliasChain for TLC.                                  *)
EXTENDS AliasChain

CONSTANTS coin1, coin2,                        \* funding coins
          new1, act1, upd1, alt1, new2, act2

(* Two activations of one alias, and two updates that spend the same       *)
(* output.                                                                 *)
mcTxs == {new1, act1, upd1, alt1, new2, act2}
mcFunding == {coin1, coin2}
mcOp == [t \in {coin1, coin2} |-> "plain"] @@ [t \in {new1, new2} |-> "new"]
        @@ [t \in {act1, act2} |-> "activate"] @@ [t \in {upd1, alt1} |-> "update"]
mcName == [t \in mcTxs \cup mcFunding |-> "alias"]
mcInput == new1 :> coin1 @@ act1 :> new1 @@ upd1 :> act1 @@ alt1 :> act1
           @@ new2 :> coin2 @@ act2 :> new2

reorgBase == <<<<new1>>, <<act1>>>>
reorgBodies == {<<>>, <<act1>>, <<upd1>>, <<alt1>>}

(* Blocks that fail: an activation that comes too soon, one whose input is *)
(* spent, and blocks without a seal.                                       *)
failBase == <<<<new1>>>>
failBodies == {<<>>, <<act1>>}

(* A second activation.                                                    *)
twiceBase == <<<<new1>>, <<act1, new2>>>>
twiceBodies == {<<>>, <<act2>>}
==============================================================================
