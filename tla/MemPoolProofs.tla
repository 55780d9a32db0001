----------------------------- MODULE MemPoolProofs -----------------------------
(***************************************************************************)
(* The invariants of MemPool, for any transactions, chain and branches:    *)
(* every action keeps the inductive invariant IInv of MemPoolSteps.        *)
(***************************************************************************)
EXTENDS MemPoolSteps

(* A node starts with an empty pool.                                       *)
LEMMA InitIInv == Init => IInv
<1>. SUFFICES ASSUME Init
              PROVE  IInv
  BY Zenon
<1>. USE MemPoolAssumption DEF Init
<1>1. TypeOK
  <2>1. DOMAIN mapNextTx = {}
    BY Zenon
  <2>2. /\ chain \in Seq(Entry) /\ nHeight \in Nat
        /\ nDeleted \in 0 .. Len(chain) /\ nRemoved \in 0 .. Len(chain)
    OBVIOUS
  <2>3. byPrev \in [Txs -> SUBSET Txs] /\ pass \in PassStates /\ raced \in BOOLEAN
    BY Zenon DEF PassStates
  <2>4. /\ mapTx = {} /\ vResurrect = {} /\ orphans = {} /\ pending = {} /\ unchecked = {}
        /\ noConflict = {} /\ inputsOk = {} /\ toLook = {} /\ toAccept = {}
    BY Zenon
  <2>. QED
    BY ONLY <2>1, <2>2, <2>3, <2>4, Zenon DEF TypeOK
<1>2. OrphanMapsExact
  BY FS_EmptySet DEF OrphanMapsExact
<1>3. NextTxExact
  BY DEF NextTxExact, Exact, SpentBy
<1>4. Deleting /\ Held
  BY Zenon DEF Deleting, Held
<1>. QED
  BY <1>1, <1>2, <1>3, <1>4, Zenon DEF IInv, ResurrectNew, SwitchPool, SwitchInputs

(* accept notes alias operations only.                                     *)
LEMMA NotedType ==
    ASSUME TypeOK, NEW STATE t
    PROVE  Noted(t) \subseteq AliasTxs
  BY Zenon DEF TypeOK, Noted

(* What addUnchecked adds is a transaction and what it spends.             *)
LEMMA AddType ==
    ASSUME TypeOK, NEW STATE t, t \in Txs \ Coinbase, addUnchecked(t)
    PROVE  /\ mapTx' \subseteq Txs \ Coinbase /\ DOMAIN mapNextTx' \subseteq Outpoints
           /\ raced' \in BOOLEAN
  BY MemPoolAssumption, Zenon DEF TypeOK, addUnchecked

(* Every step keeps the types.                                             *)
LEMMA StepTypeOK == IInv /\ [Next]_vars => TypeOK'
<1>. SUFFICES ASSUME IInv, [Next]_vars
              PROVE  TypeOK'
  BY Zenon
<1>. USE DEF switch, accepting, walletPass, pool, orphanMaps
<1>0. TypeOK /\ OrphanMapsExact
  BY Zenon DEF IInv
<1>1. ASSUME NEW t \in Txs, SubmitTx(t)
      PROVE  TypeOK'
  <2>1. t \in Txs \ Coinbase /\ addUnchecked(t)
    BY <1>1, Zenon DEF SubmitTx, Acceptable, Unrivalled
  <2>. QED
    BY <1>0, <1>1, <2>1, NotedType, AddType DEF TypeOK, SubmitTx
<1>2. ASSUME NEW t \in Txs, RefuseTx(t)
      PROVE  TypeOK'
  BY <1>0, <1>2, NotedType, Zenon DEF TypeOK, RefuseTx
<1>3. ASSUME NEW t \in Txs, ReceiveTx(t)
      PROVE  TypeOK'
  <2>1. orphans' \subseteq Txs /\ byPrev' \in [Txs -> SUBSET Txs]
    BY <1>0, <1>3, EraseExact, Zenon DEF ReceiveTx
  <2>2. t \in Txs \ Coinbase /\ addUnchecked(t)
    BY <1>3, Zenon DEF ReceiveTx, Acceptable, Unrivalled
  <2>. QED
    BY <1>0, <1>3, <2>1, <2>2, NotedType, AddType, Zenon DEF TypeOK, ReceiveTx
<1>4. ASSUME NEW t \in Txs, ReceiveOrphanTx(t)
      PROVE  TypeOK'
  <2>1. orphans' \subseteq Txs /\ byPrev' \in [Txs -> SUBSET Txs]
    BY <1>0, <1>4, OrphanStep, Zenon DEF ReceiveOrphanTx
  <2>. QED
    BY <1>0, <1>4, <2>1, Zenon DEF TypeOK, ReceiveOrphanTx
<1>5. ASSUME ReacceptWalletTransactions
      PROVE  TypeOK'
  <2>1. /\ UNCHANGED <<chain, nHeight, raced, vResurrect, nRemoved, nDeleted, orphans,
                       byPrev, pending, noConflict, inputsOk, pass, toLook, toAccept>>
        /\ Reaccept(WalletTxs \ (Coinbase \cup Confirmed))
    BY <1>5, Zenon DEF ReacceptWalletTransactions
  <2>2. /\ mapTx' \subseteq Txs \ Coinbase /\ DOMAIN mapNextTx' \subseteq Outpoints
        /\ unchecked' \subseteq Txs
    BY <2>1, ReacceptStep, Zenon
  <2>. QED
    BY <1>0, <2>1, <2>2, Zenon DEF TypeOK
<1>6. ASSUME NEW f \in 0 .. nHeight, NEW br \in Branches, NEW m \in 0 .. Len(chain),
             SetBestChain(f, br, m)
      PROVE  TypeOK'
  <2>1. f \in Nat /\ Len(chain) \in Nat
    BY <1>0 DEF TypeOK
  <2>2. chain' \in Seq(Entry) /\ nDeleted' = m /\ nRemoved' = m /\ m \in 0 .. Len(chain')
    BY <1>0, <1>6, <2>1, AttachFacts
  <2>3. vResurrect' \subseteq [tx : Txs \ Coinbase, height : Nat, pos : Nat]
    <3>1. \A i \in DOMAIN chain : chain[i] \in Entry
      BY <1>0 DEF TypeOK
    <3>2. m + 1 .. Len(chain) \subseteq DOMAIN chain \cap Nat
      BY <1>0, <2>1 DEF TypeOK
    <3>3. vResurrect' = {[tx |-> chain[i].tx, height |-> chain[i].height, pos |-> i] :
                             i \in {j \in m + 1 .. Len(chain) : chain[j].tx \notin Coinbase}}
      BY <1>6, Zenon DEF SetBestChain
    <3>4. ASSUME NEW i \in m + 1 .. Len(chain), chain[i].tx \notin Coinbase
          PROVE  /\ chain[i].tx \in Txs \ Coinbase /\ chain[i].height \in Nat /\ i \in Nat
      <4>1. chain[i] \in Entry /\ i \in Nat
        BY <3>1, <3>2, Zenon
      <4>. QED
        BY <3>4, <4>1, Zenon DEF Entry
    <3>. QED
      BY <3>3, <3>4
  <2>4. /\ UNCHANGED <<mapTx, mapNextTx, raced, orphans, byPrev, unchecked, noConflict,
                       inputsOk, toLook, toAccept>>
        /\ nHeight' = nHeight + 1 /\ pending' \subseteq pending
        /\ pass' = pass \/ pass' = "running"
    BY <1>6, Zenon DEF SetBestChain
  <2>. QED
    BY <1>0, <2>2, <2>3, <2>4 DEF TypeOK, PassStates
<1>7. ASSUME NEW f \in 0 .. nHeight, NEW br \in Branches, NEW m \in 0 .. Len(chain),
             NEW n \in 1 .. Len(br), SetBestChainFails(f, br, m, n)
      PROVE  TypeOK'
  BY <1>0, <1>7, Zenon DEF TypeOK, SetBestChainFails
<1>8. ASSUME NEW e \in vResurrect, Resurrect(e)
      PROVE  TypeOK'
  <2>1. e.tx \in Txs \ Coinbase /\ addUnchecked(e.tx)
    BY <1>0, <1>8, Zenon DEF TypeOK, Resurrect
  <2>. QED
    BY <1>0, <1>8, <2>1, NotedType, AddType DEF TypeOK, Resurrect
<1>9. ASSUME NEW e \in vResurrect, ResurrectFails(e)
      PROVE  TypeOK'
  <2>1. pending' \subseteq AliasTxs
    BY <1>0, <1>9, NotedType, Zenon DEF TypeOK, ResurrectFails
  <2>2. mapTx' \subseteq mapTx /\ DOMAIN mapNextTx' \subseteq DOMAIN mapNextTx
    BY <1>9, Zenon DEF ResurrectFails, remove, Without
  <2>. QED
    BY <1>0, <1>9, <2>1, <2>2, Zenon DEF TypeOK, ResurrectFails
<1>10. ASSUME DeleteConfirmed
       PROVE  TypeOK'
  <2>1. mapTx' \subseteq mapTx /\ DOMAIN mapNextTx' \subseteq DOMAIN mapNextTx
    BY <1>10, Zenon DEF DeleteConfirmed, remove, Without
  <2>. QED
    BY <1>0, <1>10, <2>1 DEF TypeOK, DeleteConfirmed
<1>11. ASSUME removeConflicts
       PROVE  TypeOK'
  <2>1. mapTx' \subseteq mapTx /\ DOMAIN mapNextTx' \subseteq DOMAIN mapNextTx
    BY <1>11, Zenon DEF removeConflicts, Without
  <2>. QED
    BY <1>0, <1>11, <2>1, Zenon DEF TypeOK, removeConflicts
<1>12. ASSUME BeginPass \/ EndPass
       PROVE  TypeOK'
  BY <1>0, <1>12, Zenon DEF TypeOK, BeginPass, EndPass, PassStates
<1>13. ASSUME NEW u \in toLook, LookUp(u)
       PROVE  TypeOK'
  BY <1>0, <1>13, Zenon DEF TypeOK, LookUp
<1>14. ASSUME NEW u \in toAccept, AcceptWalletTransaction(u)
       PROVE  TypeOK'
  <2>1. /\ UNCHANGED <<chain, nHeight, raced, vResurrect, nRemoved, nDeleted, orphans,
                       byPrev, pending, noConflict, inputsOk, pass, toLook>>
        /\ Reaccept({u}) /\ toAccept' = {}
    BY <1>14, Zenon DEF AcceptWalletTransaction
  <2>2. {u} \subseteq WalletTxs \ Coinbase
    BY <1>0, Zenon DEF TypeOK
  <2>3. /\ mapTx' \subseteq Txs \ Coinbase /\ DOMAIN mapNextTx' \subseteq Outpoints
        /\ unchecked' \subseteq Txs
    BY <2>1, <2>2, ReacceptStep, Zenon
  <2>. QED
    BY <1>0, <2>1, <2>3, Zenon DEF TypeOK
<1>15. ASSUME NEW t \in Txs, BeginAccept(t)
       PROVE  TypeOK'
  BY <1>0, <1>15, Zenon DEF TypeOK, BeginAccept, Unrivalled
<1>16. ASSUME NEW t \in noConflict, FindInputs(t)
       PROVE  TypeOK'
  BY <1>0, <1>16, NotedType, Zenon DEF TypeOK, FindInputs
<1>17. ASSUME NEW t \in noConflict, MissInputs(t)
       PROVE  TypeOK'
  <2>1. t \in Txs /\ AddOrphanTx(t)
    BY <1>0, <1>17, Zenon DEF TypeOK, MissInputs
  <2>2. orphans' \subseteq Txs /\ byPrev' \in [Txs -> SUBSET Txs]
    BY <1>0, <2>1, OrphanStep, Zenon
  <2>. QED
    BY <1>0, <1>17, <2>2, Zenon DEF TypeOK, MissInputs
<1>18. ASSUME RefuseHeld
       PROVE  TypeOK'
  BY <1>0, <1>18, Zenon DEF TypeOK, RefuseHeld
<1>19. ASSUME NEW t \in inputsOk, Add(t)
       PROVE  /\ chain' = chain /\ nHeight' = nHeight
              /\ mapTx' \subseteq Txs \ Coinbase /\ DOMAIN mapNextTx' \subseteq Outpoints
              /\ UNCHANGED <<nRemoved, nDeleted, pending, unchecked, noConflict, toLook,
                             toAccept>>
              /\ raced' \in BOOLEAN /\ inputsOk' = {} /\ pass' \in PassStates
  <2>1. t \in Txs \ Coinbase /\ addUnchecked(t)
    BY <1>0, <1>19, Zenon DEF TypeOK, Add
  <2>2. /\ mapTx' \subseteq Txs \ Coinbase /\ DOMAIN mapNextTx' \subseteq Outpoints
        /\ raced' \in BOOLEAN
    BY <1>0, <2>1, AddType, Zenon
  <2>3. pass' \in PassStates
    BY <1>0, <1>19, Zenon DEF TypeOK, Add, PassStates
  <2>. QED
    BY <1>19, <2>2, <2>3, Zenon DEF Add
<1>20. ASSUME NEW t \in inputsOk, AddReceived(t)
       PROVE  TypeOK'
  <2>1. orphans' \subseteq Txs /\ byPrev' \in [Txs -> SUBSET Txs]
    BY <1>0, <1>20, EraseExact, Zenon DEF AddReceived
  <2>. QED
    BY <1>0, <1>19, <1>20, <2>1, Zenon DEF TypeOK, AddReceived
<1>21. ASSUME NEW t \in inputsOk, NEW e \in vResurrect, AddResurrected(t, e)
       PROVE  TypeOK'
  BY <1>0, <1>19, <1>21, Zenon DEF TypeOK, AddResurrected
<1>22. ASSUME Restart
       PROVE  TypeOK'
  <2>1. DOMAIN mapNextTx' = {} /\ Len(chain) \in Nat
    BY <1>0, <1>22 DEF TypeOK, Restart
  <2>2. /\ chain' \in Seq(Entry) /\ nHeight' \in Nat
        /\ nDeleted' \in 0 .. Len(chain') /\ nRemoved' \in 0 .. Len(chain')
    BY <1>0, <1>22, <2>1 DEF TypeOK, Restart
  <2>3. byPrev' \in [Txs -> SUBSET Txs] /\ pass' \in PassStates /\ raced' \in BOOLEAN
    BY <1>22, Zenon DEF Restart, PassStates
  <2>4. /\ mapTx' = {} /\ vResurrect' = {} /\ orphans' = {} /\ pending' = {}
        /\ unchecked' = {} /\ noConflict' = {} /\ inputsOk' = {} /\ toLook' = {}
        /\ toAccept' = {}
    BY <1>22, Zenon DEF Restart
  <2>. QED
    BY ONLY <2>1, <2>2, <2>3, <2>4, Zenon DEF TypeOK
<1>23. CASE UNCHANGED vars
  BY <1>0, <1>23, Zenon DEF TypeOK, vars
<1>. QED
  BY <1>1, <1>2, <1>3, <1>4, <1>5, <1>6, <1>7, <1>8, <1>9, <1>10, <1>11, <1>12, <1>13,
     <1>14, <1>15, <1>16, <1>17, <1>18, <1>20, <1>21, <1>22, <1>23 DEF Next

(* The chain stays valid where it does not change.                         *)
LEMMA ChainKept ==
    ASSUME ValidChain(chain), UNCHANGED chain
    PROVE  ValidChain(chain)'
  BY DEF ValidChain

(* A step that leaves the chain, the pool and the switch alone, but may    *)
(* change the orphans, keeps the rest of the invariant.                    *)
LEMMA PoolUntouched ==
    ASSUME IInv,
           UNCHANGED <<chain, mapTx, mapNextTx, vResurrect, nRemoved, nDeleted, unchecked,
                       raced>>
    PROVE  /\ ValidChain(chain)' /\ NextTxExact' /\ Deleting' /\ ResurrectNew'
           /\ SwitchPool' /\ SwitchInputs'
<1>1. /\ Confirmed' = Confirmed /\ Coins' = Coins /\ vDelete' = vDelete
      /\ vRemove' = vRemove
      /\ SpentBy(vDelete)' = SpentBy(vDelete) /\ SpentBy(mapTx)' = SpentBy(mapTx)
  BY DEF Confirmed, Coins, vDelete, vRemove, SpentBy
<1>2. ValidChain(chain)'
  BY ChainKept, Zenon DEF IInv
<1>3. NextTxExact'
  BY <1>1, Zenon DEF IInv, NextTxExact, Exact
<1>4. Deleting' /\ ResurrectNew' /\ SwitchPool'
  BY <1>1, Zenon DEF IInv, Deleting, ResurrectNew, SwitchPool
<1>5. SwitchInputs'
  BY <1>1, Zenon DEF IInv, SwitchInputs, Supplied
<1>. QED
  BY <1>2, <1>3, <1>4, <1>5, Zenon

(* A step that leaves the orphans alone.                                   *)
LEMMA OrphansUntouched ==
    ASSUME IInv, UNCHANGED orphanMaps
    PROVE  OrphanMapsExact'
  BY Zenon DEF IInv, OrphanMapsExact, orphanMaps

(* A step that leaves the chain alone and resurrects or deletes.           *)
LEMMA ChainUntouched ==
    ASSUME IInv, UNCHANGED <<chain, nRemoved>>, vResurrect' \subseteq vResurrect
    PROVE  ValidChain(chain)' /\ ResurrectNew'
<1>1. Confirmed' = Confirmed /\ vRemove' = vRemove
  BY Zenon DEF Confirmed, vRemove
<1>2. ValidChain(chain)'
  BY ChainKept, Zenon DEF IInv
<1>3. ResurrectNew'
  <2>1. ResurrectNew
    BY Zenon DEF IInv
  <2>. QED
    BY <1>1, <2>1, Zenon DEF ResurrectNew
<1>. QED
  BY <1>2, <1>3, Zenon

(* After a step that leaves no accept under way.                           *)
LEMMA NoneHeld ==
    ASSUME noConflict' = {}, inputsOk' = {}
    PROVE  Held'
  BY Zenon DEF Held

(* Whatever does not touch the switch, nor takes from the pool, nor fills  *)
(* it unless from the wallet, leaves an accept under way what it had.      *)
LEMMA HeldKept ==
    ASSUME IInv, UNCHANGED <<chain, vResurrect, nRemoved, nDeleted>>,
           noConflict' \subseteq noConflict, inputsOk' \subseteq inputsOk,
           mapTx \subseteq mapTx',
           unchecked' = {} => unchecked = {} /\ DOMAIN mapNextTx' = DOMAIN mapNextTx
    PROVE  Held'
<1>1. Confirmed' = Confirmed /\ Coins' = Coins /\ vRemove' = vRemove /\ Idle' = Idle
  BY DEF Confirmed, Coins, vRemove, Idle, SpentBy
<1>2. Held
  BY Zenon DEF IInv
<1>3. noConflict' = {} \/ inputsOk' = {}
  BY <1>2, Zenon DEF Held
<1>4. ASSUME NEW t \in noConflict' \cup inputsOk'
      PROVE  /\ Idle' \/ \E e \in vResurrect' : e.tx = t
             /\ unchecked' = {} => Ins[t] \cap DOMAIN mapNextTx' = {}
  <2>1. t \in noConflict \cup inputsOk
    BY Zenon
  <2>. QED
    BY <1>1, <1>2, <2>1, Zenon DEF Held
<1>5. ASSUME NEW t \in inputsOk'
      PROVE  /\ \A o \in Ins[t] : o \in Coins' \/ Creator[o] \in mapTx'
             /\ unchecked' = {} /\ t \in Confirmed' => t \in vRemove'
  <2>1. t \in inputsOk
    BY Zenon
  <2>2. /\ \A o \in Ins[t] : o \in Coins \/ Creator[o] \in mapTx
        /\ unchecked = {} /\ t \in Confirmed => t \in vRemove
    BY <1>2, <2>1, Zenon DEF Held
  <2>. QED
    BY <1>1, <2>2, Zenon
<1>. QED
  BY <1>3, <1>4, <1>5, Zenon DEF Held

(* accept in one piece, by a message, a call or the switch.                *)
LEMMA AcceptIInv ==
    ASSUME IInv, TypeOK', NEW STATE t, t \in Txs, Acceptable(t), addUnchecked(t),
           NoAccept, UNCHANGED <<chain, nRemoved, nDeleted, unchecked>>, UNCHANGED accepting,
           vResurrect' \subseteq vResurrect,
           \A e \in vResurrect : e \in vResurrect' \/ e.tx = t,
           Idle \/ \E e \in vResurrect : e.tx = t,
           OrphanMapsExact'
    PROVE  IInv'
<1>1. NextTxExact' /\ Deleting' /\ SwitchPool' /\ SwitchInputs'
  BY AcceptStep, Zenon
<1>2. ValidChain(chain)' /\ ResurrectNew'
  BY ChainUntouched, Zenon
<1>3. Held'
  BY NoneHeld, Zenon DEF NoAccept, accepting
<1>. QED
  BY <1>1, <1>2, <1>3, Zenon DEF IInv

(* The last part of an accept in three.                                    *)
LEMMA AddIInv ==
    ASSUME IInv, TypeOK', NEW t \in inputsOk, Add(t),
           vResurrect' \subseteq vResurrect,
           \A e \in vResurrect : e \in vResurrect' \/ e.tx = t,
           OrphanMapsExact'
    PROVE  IInv'
<1>1. /\ addUnchecked(t) /\ UNCHANGED <<chain, nRemoved, nDeleted, unchecked, noConflict>>
      /\ inputsOk' = {}
  BY Zenon DEF Add
<1>2. /\ Idle \/ \E e \in vResurrect : e.tx = t
      /\ unchecked = {} => Ins[t] \cap DOMAIN mapNextTx = {}
      /\ \A o \in Ins[t] : o \in Coins \/ Creator[o] \in mapTx
      /\ unchecked = {} /\ t \in Confirmed => t \in vRemove
      /\ noConflict = {}
  BY Zenon DEF IInv, Held
<1>3. t \in Txs \ Coinbase
  BY Zenon DEF IInv, TypeOK
<1>4. nRemoved = nDeleted
  <2>1. /\ nRemoved = nDeleted \/ nDeleted < nRemoved
        /\ nDeleted < nRemoved => vResurrect = {} /\ nDeleted < Len(chain)
    BY DEF IInv, TypeOK, Deleting
  <2>. QED
    BY <1>2, <2>1 DEF Idle
<1>5. NextTxExact' /\ Deleting' /\ SwitchPool' /\ SwitchInputs'
  BY <1>1, <1>2, <1>3, <1>4, AddStep, Zenon
<1>6. ValidChain(chain)' /\ ResurrectNew'
  BY <1>1, ChainUntouched, Zenon
<1>7. Held'
  BY <1>1, <1>2, NoneHeld, Zenon
<1>. QED
  BY <1>5, <1>6, <1>7, Zenon DEF IInv

(* The loop over vDelete runs with no accept under way.                    *)
LEMMA DeletingAlone ==
    ASSUME IInv, vResurrect = {}, nDeleted < Len(chain)
    PROVE  noConflict = {} /\ inputsOk = {}
  BY DEF IInv, TypeOK, Held, Idle

(* IInv is inductive.                                                      *)
LEMMA StepIInv == IInv /\ [Next]_vars => IInv'
<1>. SUFFICES ASSUME IInv, [Next]_vars
              PROVE  IInv'
  BY Zenon
<1>0. TypeOK' /\ TypeOK /\ OrphanMapsExact
  BY StepTypeOK, Zenon DEF IInv
<1>1. ASSUME NEW t \in Txs, SubmitTx(t)
      PROVE  IInv'
  <2>1. /\ Idle /\ NoAccept /\ Acceptable(t) /\ addUnchecked(t)
        /\ UNCHANGED <<chain, vResurrect, nRemoved, nDeleted, unchecked>>
        /\ UNCHANGED orphanMaps /\ UNCHANGED accepting
    BY <1>1, Zenon DEF SubmitTx, Alone, switch
  <2>2. OrphanMapsExact'
    BY <2>1, OrphansUntouched, Zenon
  <2>. QED
    BY <1>0, <2>1, <2>2, AcceptIInv, Zenon
<1>2. ASSUME NEW t \in Txs, RefuseTx(t)
      PROVE  IInv'
  <2>1. /\ UNCHANGED <<chain, mapTx, mapNextTx, vResurrect, nRemoved, nDeleted, unchecked,
                       raced, noConflict, inputsOk>>
        /\ UNCHANGED orphanMaps
    BY <1>2, Zenon DEF RefuseTx, pool, switch, accepting
  <2>2. Held'
    BY <2>1, HeldKept, Zenon
  <2>. QED
    BY <1>0, <2>1, <2>2, PoolUntouched, OrphansUntouched, Zenon DEF IInv
<1>3. ASSUME NEW t \in Txs, ReceiveTx(t)
      PROVE  IInv'
  <2>1. /\ Idle /\ NoAccept /\ Acceptable(t) /\ addUnchecked(t)
        /\ EraseOrphanTx(byPrev[t] \cup {t})
        /\ UNCHANGED <<chain, vResurrect, nRemoved, nDeleted, unchecked>>
        /\ UNCHANGED accepting
    BY <1>3, Zenon DEF ReceiveTx, Alone, switch
  <2>2. OrphanMapsExact'
    BY <1>0, <2>1, EraseExact, Zenon
  <2>. QED
    BY <1>0, <2>1, <2>2, AcceptIInv, Zenon
<1>4. ASSUME NEW t \in Txs, ReceiveOrphanTx(t)
      PROVE  IInv'
  <2>1. /\ UNCHANGED <<chain, mapTx, mapNextTx, vResurrect, nRemoved, nDeleted, unchecked,
                       raced, noConflict, inputsOk>>
        /\ AddOrphanTx(t)
    BY <1>4, Zenon DEF ReceiveOrphanTx, pool, switch, accepting
  <2>2. OrphanMapsExact'
    BY <1>0, <2>1, OrphanStep, Zenon
  <2>3. Held'
    BY <2>1, HeldKept, Zenon
  <2>. QED
    BY <1>0, <2>1, <2>2, <2>3, PoolUntouched, Zenon DEF IInv
<1>5. ASSUME NEW STATE U, U \subseteq WalletTxs \ Coinbase, Reaccept(U),
             UNCHANGED <<chain, raced, switch, orphanMaps, accepting>>
      PROVE  IInv'
  <2>1. UNCHANGED <<chain, vResurrect, nRemoved, nDeleted, raced, noConflict, inputsOk>>
        /\ UNCHANGED orphanMaps
    BY <1>5, Zenon DEF switch, accepting
  <2>2. /\ NextTxExact' /\ Deleting' /\ SwitchPool' /\ SwitchInputs' /\ mapTx \subseteq mapTx'
        /\ unchecked' = {} => unchecked = {} /\ DOMAIN mapNextTx' = DOMAIN mapNextTx
    BY <1>5, <2>1, ReacceptStep, Zenon
  <2>3. ValidChain(chain)' /\ ResurrectNew'
    BY <2>1, ChainUntouched, Zenon
  <2>4. Held'
    BY <2>1, <2>2, HeldKept, Zenon
  <2>. QED
    BY <1>0, <2>1, <2>2, <2>3, <2>4, OrphansUntouched, Zenon DEF IInv
<1>6. ASSUME ReacceptWalletTransactions
      PROVE  IInv'
  <2>. DEFINE U == WalletTxs \ (Coinbase \cup Confirmed)
  <2>1. Reaccept(U) /\ UNCHANGED <<chain, raced, switch, orphanMaps, accepting>>
    BY <1>6, Zenon DEF ReacceptWalletTransactions
  <2>2. U \subseteq WalletTxs \ Coinbase
    BY Zenon
  <2>. HIDE DEF U
  <2>. QED
    BY <1>5, <2>1, <2>2, Zenon
<1>7. ASSUME NEW u \in toAccept, AcceptWalletTransaction(u)
      PROVE  IInv'
  <2>1. Reaccept({u}) /\ UNCHANGED <<chain, raced, switch, orphanMaps, accepting>>
    BY <1>7, Zenon DEF AcceptWalletTransaction
  <2>2. {u} \subseteq WalletTxs \ Coinbase
    BY <1>0, Zenon DEF TypeOK
  <2>. QED
    BY <1>5, <2>1, <2>2, Zenon
<1>8. ASSUME NEW f \in 0 .. nHeight, NEW br \in Branches, NEW m \in 0 .. Len(chain),
             SetBestChain(f, br, m)
      PROVE  IInv'
  <2>1. f \in Nat
    BY <1>0 DEF TypeOK
  <2>2. ValidChain(chain)' /\ UNCHANGED orphanMaps
    BY <1>8, Zenon DEF SetBestChain, ValidChain
  <2>3. NextTxExact' /\ Deleting' /\ ResurrectNew' /\ SwitchPool' /\ SwitchInputs'
    BY <1>8, <2>1, SwitchStep, Zenon
  <2>4. Held'
    BY <1>8, NoneHeld, Zenon DEF SetBestChain, NoAccept, accepting
  <2>. QED
    BY <1>0, <2>2, <2>3, <2>4, OrphansUntouched, Zenon DEF IInv
<1>9. ASSUME NEW f \in 0 .. nHeight, NEW br \in Branches, NEW m \in 0 .. Len(chain),
             NEW n \in 1 .. Len(br), SetBestChainFails(f, br, m, n)
      PROVE  IInv'
  <2>1. /\ UNCHANGED <<chain, mapTx, mapNextTx, vResurrect, nRemoved, nDeleted, unchecked,
                       raced, noConflict, inputsOk>>
        /\ UNCHANGED orphanMaps
    BY <1>9, Zenon DEF SetBestChainFails, pool, switch, accepting
  <2>2. Held'
    BY <2>1, HeldKept, Zenon
  <2>. QED
    BY <1>0, <2>1, <2>2, PoolUntouched, OrphansUntouched, Zenon DEF IInv
<1>10. ASSUME NEW e \in vResurrect, Resurrect(e)
       PROVE  IInv'
  <2>. DEFINE t == e.tx
  <2>1. /\ NoAccept /\ Acceptable(t) /\ addUnchecked(t)
        /\ vResurrect' = vResurrect \ {e}
        /\ UNCHANGED <<chain, nRemoved, nDeleted, unchecked>> /\ UNCHANGED orphanMaps
        /\ UNCHANGED accepting
    BY <1>10, Zenon DEF Resurrect
  <2>2. t \in Txs /\ (\E g \in vResurrect : g.tx = t)
    BY <1>0, Zenon DEF TypeOK
  <2>3. \A g \in vResurrect : g \in vResurrect' \/ g.tx = t
    BY <2>1, Zenon
  <2>4. OrphanMapsExact'
    BY <2>1, OrphansUntouched, Zenon
  <2>. HIDE DEF t
  <2>. QED
    BY <1>0, <2>1, <2>2, <2>3, <2>4, AcceptIInv, Zenon
<1>11. ASSUME NEW e \in vResurrect, ResurrectFails(e)
       PROVE  IInv'
  <2>1. UNCHANGED <<chain, nRemoved>> /\ UNCHANGED orphanMaps
        /\ vResurrect' \subseteq vResurrect /\ noConflict' = {} /\ inputsOk' = {}
    BY <1>11, Zenon DEF ResurrectFails
  <2>2. NextTxExact' /\ Deleting' /\ SwitchPool' /\ SwitchInputs'
    BY <1>11, ResurrectFailsStep, Zenon
  <2>3. ValidChain(chain)' /\ ResurrectNew'
    BY <2>1, ChainUntouched, Zenon
  <2>4. Held' /\ OrphanMapsExact'
    BY <2>1, NoneHeld, OrphansUntouched, Zenon
  <2>. QED
    BY <1>0, <2>2, <2>3, <2>4, Zenon DEF IInv
<1>12. ASSUME DeleteConfirmed \/ removeConflicts
       PROVE  IInv'
  <2>1. UNCHANGED <<chain, noConflict, inputsOk>> /\ UNCHANGED orphanMaps
    BY <1>12, Zenon DEF DeleteConfirmed, removeConflicts, accepting
  <2>2. ValidChain(chain)'
    BY <2>1, ChainKept, Zenon DEF IInv
  <2>3. vResurrect = {} /\ nDeleted < Len(chain)
    <3>1. /\ nDeleted \in 0 .. Len(chain) /\ nRemoved \in 0 .. Len(chain) /\ Len(chain) \in Nat
          /\ nDeleted < nRemoved => vResurrect = {}
      BY <1>0 DEF TypeOK, IInv, Deleting
    <3>2. \/ vResurrect = {} /\ nRemoved = nDeleted /\ nRemoved < Len(chain)
          \/ nDeleted < nRemoved
      BY <1>12, Zenon DEF DeleteConfirmed, removeConflicts
    <3>. QED
      BY <3>1, <3>2
  <2>4. Held'
    BY <2>1, <2>3, DeletingAlone, NoneHeld, Zenon
  <2>5. NextTxExact' /\ Deleting' /\ ResurrectNew' /\ SwitchPool' /\ SwitchInputs'
    BY <1>12, DeleteStep, ConflictsStep, Zenon
  <2>. QED
    BY <1>0, <2>1, <2>2, <2>4, <2>5, OrphansUntouched, Zenon DEF IInv
<1>13. ASSUME BeginPass \/ EndPass \/ (\E u \in toLook : LookUp(u)) \/ RefuseHeld
       PROVE  IInv'
  <2>1. /\ UNCHANGED <<chain, mapTx, mapNextTx, vResurrect, nRemoved, nDeleted, unchecked,
                       raced>>
        /\ UNCHANGED orphanMaps
        /\ noConflict' \subseteq noConflict /\ inputsOk' \subseteq inputsOk
    BY <1>13, Zenon DEF BeginPass, EndPass, LookUp, RefuseHeld, pool, switch, accepting
  <2>2. Held'
    BY <2>1, HeldKept, Zenon
  <2>. QED
    BY <1>0, <2>1, <2>2, PoolUntouched, OrphansUntouched, Zenon DEF IInv
<1>14. ASSUME NEW t \in Txs, BeginAccept(t)
       PROVE  IInv'
  <2>1. /\ UNCHANGED <<chain, mapTx, mapNextTx, vResurrect, nRemoved, nDeleted, unchecked,
                       raced, inputsOk>>
        /\ UNCHANGED orphanMaps
        /\ noConflict' = {t} /\ inputsOk = {} /\ Offered(t) /\ Unrivalled(t)
    BY <1>14, Zenon DEF BeginAccept, NoAccept, pool, switch
  <2>2. Idle' = Idle /\ (Idle \/ \E e \in vResurrect : e.tx = t)
    BY <2>1, Zenon DEF Offered, Idle
  <2>3. Ins[t] \cap DOMAIN mapNextTx' = {}
    BY <2>1, Zenon DEF Unrivalled
  <2>4. Held'
    BY <2>1, <2>2, <2>3, Zenon DEF Held
  <2>. QED
    BY <1>0, <2>1, <2>4, PoolUntouched, OrphansUntouched, Zenon DEF IInv
<1>15. ASSUME NEW t \in noConflict, FindInputs(t)
       PROVE  IInv'
  <2>1. /\ UNCHANGED <<chain, mapTx, mapNextTx, vResurrect, nRemoved, nDeleted, unchecked,
                       raced>>
        /\ UNCHANGED orphanMaps
        /\ noConflict' = {} /\ inputsOk' = {t} /\ FindsInputs(t)
    BY <1>15, Zenon DEF FindInputs, pool, switch
  <2>2. /\ t \in Txs \ Coinbase /\ (Idle \/ \E e \in vResurrect : e.tx = t)
        /\ unchecked = {} => Ins[t] \cap DOMAIN mapNextTx = {}
    BY <1>0, Zenon DEF IInv, TypeOK, Held
  <2>3. /\ \A o \in Ins[t] : o \in Coins \/ Creator[o] \in mapTx
        /\ unchecked = {} /\ t \in Confirmed => t \in vRemove
    BY <2>1, <2>2, FoundNew, Zenon
  <2>4. Confirmed' = Confirmed /\ Coins' = Coins /\ vRemove' = vRemove /\ Idle' = Idle
    BY <2>1 DEF Confirmed, Coins, vRemove, Idle, SpentBy
  <2>5. Held'
    BY <2>1, <2>2, <2>3, <2>4, Zenon DEF Held
  <2>. QED
    BY <1>0, <2>1, <2>5, PoolUntouched, OrphansUntouched, Zenon DEF IInv
<1>16. ASSUME NEW t \in noConflict, MissInputs(t)
       PROVE  IInv'
  <2>1. /\ UNCHANGED <<chain, mapTx, mapNextTx, vResurrect, nRemoved, nDeleted, unchecked,
                       raced, inputsOk>>
        /\ noConflict' = {} /\ AddOrphanTx(t) /\ t \in Txs
    BY <1>0, <1>16, Zenon DEF MissInputs, pool, switch, TypeOK
  <2>2. OrphanMapsExact'
    BY <1>0, <2>1, OrphanStep, Zenon
  <2>3. Held'
    BY <2>1, HeldKept, Zenon
  <2>. QED
    BY <1>0, <2>1, <2>2, <2>3, PoolUntouched, Zenon DEF IInv
<1>17. ASSUME NEW t \in inputsOk, AddReceived(t)
       PROVE  IInv'
  <2>1. Add(t) /\ vResurrect' = vResurrect /\ EraseOrphanTx(byPrev[t] \cup {t})
    BY <1>17, Zenon DEF AddReceived
  <2>2. OrphanMapsExact'
    BY <1>0, <2>1, EraseExact, Zenon
  <2>. QED
    BY <1>0, <2>1, <2>2, AddIInv, Zenon
<1>18. ASSUME NEW t \in inputsOk, NEW e \in vResurrect, AddResurrected(t, e)
       PROVE  IInv'
  <2>1. /\ Add(t) /\ vResurrect' = vResurrect \ {e} /\ e.tx = t /\ UNCHANGED orphanMaps
    BY <1>18, Zenon DEF AddResurrected
  <2>2. OrphanMapsExact'
    BY <2>1, OrphansUntouched, Zenon
  <2>. QED
    BY <1>0, <2>1, <2>2, AddIInv, Zenon
<1>19. ASSUME Restart
       PROVE  IInv'
  <2>1. OrphanMapsExact'
    BY <1>19, MemPoolAssumption, FS_EmptySet DEF Restart, OrphanMapsExact
  <2>2. ValidChain(chain)'
    BY <1>19, ChainKept, Zenon DEF Restart, IInv
  <2>3. NextTxExact' /\ ResurrectNew' /\ SwitchPool' /\ SwitchInputs'
    BY <1>19, Zenon DEF Restart, NextTxExact, Exact, SpentBy, ResurrectNew, SwitchPool, SwitchInputs
  <2>4. Held' /\ Deleting'
    BY <1>0, <1>19, NoneHeld, Zenon DEF Restart, Deleting, TypeOK
  <2>. QED
    BY <1>0, <2>1, <2>2, <2>3, <2>4, Zenon DEF IInv
<1>20. CASE UNCHANGED vars
  <2>1. /\ UNCHANGED <<chain, mapTx, mapNextTx, vResurrect, nRemoved, nDeleted, unchecked,
                       raced, noConflict, inputsOk>>
        /\ UNCHANGED orphanMaps
    BY <1>20, Zenon DEF vars, orphanMaps
  <2>2. Held'
    BY <2>1, HeldKept, Zenon
  <2>. QED
    BY <1>0, <2>1, <2>2, PoolUntouched, OrphansUntouched, Zenon DEF IInv
<1>. QED
  BY Zenon, <1>1, <1>2, <1>3, <1>4, <1>6, <1>7, <1>8, <1>9, <1>10, <1>11, <1>12, <1>13, <1>14,
     <1>15, <1>16, <1>17, <1>18, <1>19, <1>20 DEF Next

(* The pool, the orphans, a switch and an accept under way stay consistent *)
(* whatever messages, calls, blocks and restarts come, and whenever the    *)
(* wallet's pass cuts in.                                                  *)
THEOREM IInvHolds == Spec => []IInv
  BY InitIInv, StepIInv, PTL DEF Spec

(* At rest nothing is left to delete, so the switch's promises are kept.   *)
LEMMA AtRest == IInv => PoolUnconfirmed /\ InputsAvailable
<1>. SUFFICES ASSUME IInv, Idle
              PROVE  PoolUnconfirmed /\ InputsAvailable
  BY Zenon DEF PoolUnconfirmed, InputsAvailable
<1>1. vDelete = {} /\ vRemove = {} /\ vResurrect = {}
  <2>1. /\ DOMAIN chain = 1 .. Len(chain) /\ Len(chain) \in Nat
        /\ nDeleted = Len(chain) /\ nRemoved = Len(chain) /\ vResurrect = {}
    BY DEF IInv, TypeOK, Idle, Deleting
  <2>. QED
    BY <2>1 DEF vDelete, vRemove
<1>2. PoolUnconfirmed
  BY <1>1, Zenon DEF IInv, SwitchPool, PoolUnconfirmed
<1>3. InputsAvailable
  BY <1>1, Zenon DEF IInv, SwitchInputs, Supplied, SpentBy, InputsAvailable
<1>. QED
  BY <1>2, <1>3, Zenon

(* mapNextTx is the spending side of mapTx, so the pool never spends an    *)
(* outpoint twice: unless an addition has overwritten an entry, and then   *)
(* the wallet has put transactions into the pool unchecked.                *)
THEOREM NextTxExactHolds == Spec => []NextTxExact
<1>1. IInv => NextTxExact
  BY Zenon DEF IInv
<1>. QED
  BY <1>1, IInvHolds, PTL

(* Between switches, what the chain has confirmed is not in the pool.      *)
THEOREM PoolUnconfirmedHolds == Spec => []PoolUnconfirmed
  BY AtRest, IInvHolds, PTL

(* Between switches, every checked transaction of the pool has its inputs, *)
(* coinbases of lost blocks and overwritten entries of mapNextTx aside.    *)
THEOREM InputsAvailableHolds == Spec => []InputsAvailable
  BY AtRest, IInvHolds, PTL

(* The two orphan maps agree and their size is bounded.                    *)
THEOREM OrphanMapsExactHolds == Spec => []OrphanMapsExact
<1>1. IInv => OrphanMapsExact
  BY Zenon DEF IInv
<1>. QED
  BY <1>1, IInvHolds, PTL
===============================================================================
