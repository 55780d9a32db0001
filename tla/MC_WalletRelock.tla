---------------------------- MODULE MC_WalletRelock ----------------------------
(***************************************************************************)
(* Three threads at a time, timeouts of no, one and two ticks.             *)
(***************************************************************************)
EXTENDS WalletRelock

(* Every thread is started and every passphrase can be turned into a key:  *)
(* only a relock at an unlucky moment leaves the wallet without a thread.  *)
NoFault == abandoned' => abandoned \/ \E t \in Threads : Thread(t)

FaultFreeSpec == Init /\ [][Next /\ NoFault]_vars /\ Fairness
================================================================================
