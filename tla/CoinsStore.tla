------------------------------ MODULE CoinsStore ------------------------------
(* What the layers of coins views promise together: one set of coins with  *)
(* the chain it belongs to, changed as a whole, saved as a whole, and back *)
(* to what was saved after a crash.                                        *)
VARIABLES
    coins,   \* the coins of the best chain, [at, map]
    edit,    \* the same while a switch of the best chain is worked out
    saved    \* the same as a restart finds them

vars == <<coins, edit, saved>>

Init == edit = coins /\ saved = coins

Edit == UNCHANGED <<coins, saved>>
Abandon == edit' = coins /\ UNCHANGED <<coins, saved>>
Commit == coins' = edit /\ edit' = edit /\ saved' \in {saved, edit}
Save == edit = coins /\ saved' = coins /\ UNCHANGED <<coins, edit>>
Crash == coins' = saved /\ edit' = saved /\ saved' = saved

Next == Edit \/ Abandon \/ Commit \/ Save \/ Crash
Spec == Init /\ [][Next]_vars
===============================================================================
