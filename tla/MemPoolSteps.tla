------------------------------ MODULE MemPoolSteps -----------------------------
(***************************************************************************)
(* The inductive invariant of MemPool, and what one step of each kind does *)
(* to it, for any transactions, chain and branches.                        *)
(*                                                                         *)
(* NextTxExact and OrphanMapsExact hold in every state, but                *)
(* PoolUnconfirmed and InputsAvailable only between two switches.  In the  *)
(* middle of one, a transaction of the pool may be confirmed and its input *)
(* gone: then SetBestChain still has the transaction to delete, or the     *)
(* creator of the input to resurrect.  SwitchPool and SwitchInputs say so. *)
(* Held says what an accept that the wallet's pass has cut in two may      *)
(* still rely on.                                                          *)
(***************************************************************************)
EXTENDS MemPool, FiniteSetTheorems, TLAPS

(* The entries of the chain SetBestChain still has to take out of the pool, *)
(* and those whose conflicts it still has to.                               *)
vRemove == {chain[i].tx : i \in {j \in DOMAIN chain : j > nRemoved}}
vDelete == {chain[i].tx : i \in {j \in DOMAIN chain : j > nDeleted}}

(* The loop over vDelete is before or after its first call.  After it the  *)
(* transaction is not in the pool, unless the wallet has just put it back. *)
Deleting ==
    /\ nRemoved = nDeleted \/ nRemoved = nDeleted + 1
    /\ nDeleted < nRemoved => vResurrect = {} /\ chain[nRemoved].tx \notin mapTx \ unchecked

(* What is still to be resurrected has left the chain, or is in the new    *)
(* branch and will be deleted.                                             *)
ResurrectNew == \A e \in vResurrect : e.tx \in Confirmed => e.tx \in vRemove

(* A transaction of the pool that is in the chain will be deleted.         *)
SwitchPool == unchecked = {} => mapTx \cap Confirmed \subseteq vRemove

(* An input that is not available will be resurrected, or its spender in   *)
(* the pool will be deleted as a conflict.                                 *)
Supplied(o) ==
    \/ o \in Coins
    \/ Creator[o] \in mapTx \cup Coinbase
    \/ \E e \in vResurrect : e.tx = Creator[o]
    \/ o \in SpentBy(vDelete)
SwitchInputs == ~raced => \A t \in mapTx \ unchecked : \A o \in Ins[t] : Supplied(o)

(* The transaction inside accept is a message's or the one to resurrect.   *)
(* It has no conflict that the wallet has not put there; past the look at  *)
(* the inputs, they are there, and it is in the chain only if the switch   *)
(* will remove it.                                                         *)
Held ==
    /\ noConflict = {} \/ inputsOk = {}
    /\ \A t \in noConflict \cup inputsOk :
          /\ Idle \/ \E e \in vResurrect : e.tx = t
          /\ unchecked = {} => Ins[t] \cap DOMAIN mapNextTx = {}
    /\ \A t \in inputsOk :
          /\ \A o \in Ins[t] : o \in Coins \/ Creator[o] \in mapTx
          /\ unchecked = {} /\ t \in Confirmed => t \in vRemove

IInv ==
    /\ TypeOK
    /\ ValidChain(chain)
    /\ NextTxExact
    /\ OrphanMapsExact
    /\ Deleting
    /\ ResurrectNew
    /\ SwitchPool
    /\ SwitchInputs
    /\ Held

-------------------------------------------------------------------------------
(* The pool's two maps.                                                    *)

(* remove leaves no spender of a removed output behind: following mapNextTx *)
(* finds them all.                                                          *)
LEMMA DescendantsClosed ==
    ASSUME Exact, NEW STATE S
    PROVE  /\ S \subseteq Descendants(S)
           /\ \A t \in Descendants(S) : Spenders(t) \subseteq Descendants(S)
<1>1. S \subseteq Descendants(S)
  BY Zenon DEF Descendants
<1>2. ASSUME NEW t \in Descendants(S), NEW u \in Spenders(t)
      PROVE  u \in Descendants(S)
  <2>1. PICK o \in DOMAIN mapNextTx : u = mapNextTx[o]
    BY <1>2, Zenon DEF Spenders
  <2>2. u \in mapTx
    BY <2>1 DEF Exact, SpentBy
  <2>3. ASSUME NEW D \in SUBSET (mapTx \cup S), S \subseteq D, Closed(D)
        PROVE  u \in D
    BY <1>2, <2>3, Zenon DEF Descendants, Closed
  <2>. QED
    BY <2>2, <2>3, Zenon DEF Descendants
<1>. QED
  BY <1>1, <1>2, Zenon

(* Taking any set of transactions out of the pool keeps mapNextTx exact.   *)
LEMMA WithoutExact ==
    ASSUME Exact, NEW STATE R, Without(R)
    PROVE  Exact'
<1>1. ASSUME NEW t \in mapTx, NEW o \in Ins[t]
      PROVE  o \in SpentBy(R \cap mapTx) <=> t \in R
  BY DEF Exact, SpentBy
<1>2. DOMAIN mapNextTx' = SpentBy(mapTx')
  <2>1. DOMAIN mapNextTx' = SpentBy(mapTx) \ SpentBy(R \cap mapTx)
    BY Zenon DEF Exact, Without
  <2>2. SpentBy(mapTx) \ SpentBy(R \cap mapTx) = SpentBy(mapTx \ R)
    BY <1>1 DEF SpentBy
  <2>. QED
    BY <2>1, <2>2, Zenon DEF Without
<1>3. ASSUME NEW t \in mapTx', NEW o \in Ins[t]
      PROVE  mapNextTx'[o] = t
  <2>1. t \in mapTx /\ t \notin R
    BY Zenon DEF Without
  <2>2. o \in DOMAIN mapNextTx /\ o \notin SpentBy(R \cap mapTx)
    BY <1>1, <2>1 DEF Exact, SpentBy
  <2>. QED
    BY <2>1, <2>2, Zenon DEF Without, Exact
<1>. QED
  BY <1>2, <1>3, Zenon DEF Exact, SpentBy

(* So does adding one, where it overwrites nobody else's entry.            *)
LEMMA AddExact ==
    ASSUME Exact, NEW STATE t, addUnchecked(t),
           \A o \in Ins[t] \cap DOMAIN mapNextTx : mapNextTx[o] = t
    PROVE  Exact'
<1>1. DOMAIN mapNextTx' = SpentBy(mapTx')
  <2>1. DOMAIN mapNextTx' = SpentBy(mapTx) \cup Ins[t]
    BY Zenon DEF Exact, addUnchecked
  <2>2. SpentBy(mapTx) \cup Ins[t] = SpentBy(mapTx \cup {t})
    BY Zenon DEF SpentBy
  <2>. QED
    BY <2>1, <2>2, Zenon DEF addUnchecked
<1>2. ASSUME NEW u \in mapTx', NEW o \in Ins[u]
      PROVE  mapNextTx'[o] = u
  <2>1. o \in DOMAIN mapNextTx'
    BY <1>1, Zenon DEF SpentBy
  <2>2. CASE u = t
    BY <2>1, <2>2, Zenon DEF addUnchecked
  <2>3. CASE u \in mapTx /\ u # t
    <3>1. o \in DOMAIN mapNextTx /\ mapNextTx[o] = u
      BY <2>3 DEF Exact, SpentBy
    <3>2. o \notin Ins[t]
      BY <2>3, <3>1, Zenon
    <3>. QED
      BY <2>1, <3>1, <3>2, Zenon DEF addUnchecked
  <2>. QED
    BY <2>2, <2>3, Zenon DEF addUnchecked
<1>. QED
  BY <1>1, <1>2, Zenon DEF Exact, SpentBy

-------------------------------------------------------------------------------
(* One step of each kind.                                                  *)

(* A transaction that accept adds: its inputs are available, and it is in  *)
(* the chain only if it will be removed.                                   *)
LEMMA AddStep ==
    ASSUME IInv, NEW STATE t, t \in Txs \ Coinbase, addUnchecked(t),
           \A o \in Ins[t] : o \in Coins \/ Creator[o] \in mapTx,
           unchecked = {} => Ins[t] \cap DOMAIN mapNextTx = {},
           unchecked = {} /\ t \in Confirmed => t \in vRemove,
           UNCHANGED <<chain, nRemoved, nDeleted, unchecked>>,
           vResurrect' \subseteq vResurrect,
           \A e \in vResurrect : e \in vResurrect' \/ e.tx = t,
           nRemoved = nDeleted
    PROVE  /\ mapTx' \subseteq Txs \ Coinbase /\ DOMAIN mapNextTx' \subseteq Outpoints
           /\ raced' \in BOOLEAN
           /\ NextTxExact' /\ Deleting'
           /\ SwitchPool'
           /\ SwitchInputs'
<1>. USE MemPoolAssumption
<1>1. /\ mapTx' = mapTx \cup {t}
      /\ raced' = (raced \/ \E o \in Ins[t] \cap DOMAIN mapNextTx : mapNextTx[o] # t)
  BY Zenon DEF addUnchecked
<1>2. /\ Confirmed' = Confirmed /\ Coins' = Coins /\ vDelete' = vDelete
      /\ vRemove' = vRemove /\ SpentBy(vDelete)' = SpentBy(vDelete)
  BY DEF Confirmed, Coins, vDelete, vRemove, SpentBy
<1>3. /\ mapTx' \subseteq Txs \ Coinbase /\ DOMAIN mapNextTx' \subseteq Outpoints
      /\ raced' \in BOOLEAN
  BY <1>1, Zenon DEF IInv, TypeOK, addUnchecked
<1>4. NextTxExact'
  <2>1. CASE raced'
    <3>1. raced \/ Ins[t] \cap DOMAIN mapNextTx # {}
      BY <1>1, <2>1, Zenon
    <3>2. unchecked # {}
      BY <3>1, Zenon DEF IInv, NextTxExact
    <3>. QED
      BY <2>1, <3>2, Zenon DEF NextTxExact
  <2>2. CASE ~raced'
    <3>1. ~raced /\ \A o \in Ins[t] \cap DOMAIN mapNextTx : mapNextTx[o] = t
      BY <1>1, <2>2, Zenon
    <3>2. Exact
      BY <3>1, Zenon DEF IInv, NextTxExact
    <3>3. Exact'
      BY <3>1, <3>2, AddExact, Zenon
    <3>. QED
      BY <2>2, <3>3, Zenon DEF NextTxExact
  <2>. QED
    BY <2>1, <2>2, Zenon
<1>5. SwitchInputs'
  <2>1. SUFFICES ASSUME ~raced', NEW u \in mapTx' \ unchecked, NEW o \in Ins[u]
                 PROVE  \/ o \in Coins
                        \/ Creator[o] \in mapTx' \cup Coinbase
                        \/ \E e \in vResurrect' : e.tx = Creator[o]
                        \/ o \in SpentBy(vDelete)
    BY <1>2, Zenon DEF SwitchInputs, Supplied
  <2>2. CASE u = t
    BY <1>1, <2>2, Zenon
  <2>3. CASE u \in mapTx
    <3>1. Supplied(o)
      BY <1>1, <2>1, <2>3, Zenon DEF IInv, SwitchInputs
    <3>. QED
      BY <1>1, <3>1, Zenon DEF Supplied
  <2>. QED
    BY <1>1, <2>2, <2>3, Zenon
<1>6. SwitchPool'
  BY <1>1, <1>2, Zenon DEF IInv, SwitchPool
<1>7. Deleting'
  BY DEF Deleting, IInv, TypeOK
<1>. QED
  BY <1>3, <1>4, <1>5, <1>6, <1>7, Zenon

(* A transaction whose inputs accept has found is not in the chain, unless *)
(* it is resurrected from the old branch and is in the new one.            *)
LEMMA FoundNew ==
    ASSUME IInv, NEW t \in Txs \ Coinbase, FindsInputs(t),
           Idle \/ \E e \in vResurrect : e.tx = t
    PROVE  /\ \A o \in Ins[t] : o \in Coins \/ Creator[o] \in mapTx
           /\ unchecked = {} /\ t \in Confirmed => t \in vRemove
<1>. USE MemPoolAssumption
<1>1. \A o \in Ins[t] : o \in Coins \/ Creator[o] \in mapTx
  BY Zenon DEF FindsInputs, IsAvailable
<1>2. CASE \E e \in vResurrect : e.tx = t
  BY <1>1, <1>2 DEF IInv, ResurrectNew
<1>3. CASE Idle
  <2>1. SUFFICES ASSUME unchecked = {}, t \in Confirmed
                 PROVE  FALSE
    BY <1>1, Zenon
  <2>2. vRemove = {}
    BY <1>3 DEF IInv, TypeOK, Idle, Deleting, vRemove
  <2>3. mapTx \cap Confirmed = {}
    BY <2>1, <2>2, Zenon DEF IInv, SwitchPool
  <2>4. PICK o \in Ins[t] : TRUE
    BY Zenon
  <2>5. o \notin Coins
    BY <2>1, Zenon DEF Coins, SpentBy
  <2>6. Creator[o] \in Confirmed
    BY <2>1 DEF IInv, ValidChain, Confirmed
  <2>. QED
    BY <1>1, <2>3, <2>4, <2>5, <2>6, Zenon
<1>. QED
  BY <1>2, <1>3, Zenon

(* accept in one piece.                                                    *)
LEMMA AcceptStep ==
    ASSUME IInv, NEW STATE t, t \in Txs, Acceptable(t), addUnchecked(t),
           UNCHANGED <<chain, nRemoved, nDeleted, unchecked>>,
           vResurrect' \subseteq vResurrect,
           \A e \in vResurrect : e \in vResurrect' \/ e.tx = t,
           Idle \/ \E e \in vResurrect : e.tx = t
    PROVE  /\ mapTx' \subseteq Txs \ Coinbase /\ DOMAIN mapNextTx' \subseteq Outpoints
           /\ raced' \in BOOLEAN
           /\ NextTxExact' /\ Deleting'
           /\ SwitchPool'
           /\ SwitchInputs'
<1>1. t \in Txs \ Coinbase /\ Ins[t] \cap DOMAIN mapNextTx = {} /\ FindsInputs(t)
  BY Zenon DEF Acceptable, Unrivalled
<1>2. /\ \A o \in Ins[t] : o \in Coins \/ Creator[o] \in mapTx
      /\ unchecked = {} /\ t \in Confirmed => t \in vRemove
  BY <1>1, FoundNew, Zenon
<1>3. nRemoved = nDeleted
  BY DEF IInv, TypeOK, Deleting, Idle
<1>. QED
  BY <1>1, <1>2, <1>3, AddStep, Zenon

(* remove of a transaction that could not be resurrected: the pool loses   *)
(* everything that depends on it.                                          *)
LEMMA ResurrectFailsStep ==
    ASSUME IInv, NEW e \in vResurrect, ResurrectFails(e)
    PROVE  NextTxExact' /\ Deleting' /\ SwitchPool' /\ SwitchInputs'
<1>. USE MemPoolAssumption
<1>. DEFINE D == Descendants({e.tx})
<1>1. /\ Without(D) /\ UNCHANGED <<chain, nRemoved, nDeleted, unchecked, raced>>
      /\ vResurrect' = vResurrect \ {e}
  BY Zenon DEF ResurrectFails, remove
<1>2. mapTx' = mapTx \ D
  BY <1>1, Zenon DEF Without
<1>3. /\ Confirmed' = Confirmed /\ Coins' = Coins /\ vDelete' = vDelete
      /\ vRemove' = vRemove /\ SpentBy(vDelete)' = SpentBy(vDelete)
  BY <1>1 DEF Confirmed, Coins, vDelete, vRemove, SpentBy
<1>4. ~raced => Exact
  BY Zenon DEF IInv, NextTxExact
<1>5. NextTxExact'
  <2>. HIDE DEF D
  <2>1. ~raced => Exact'
    BY <1>1, <1>4, WithoutExact, Zenon
  <2>. QED
    BY <1>1, <2>1, Zenon DEF IInv, NextTxExact
<1>6. ~raced => e.tx \in D /\ \A t \in D : Spenders(t) \subseteq D
  BY <1>4, DescendantsClosed, Zenon
<1>7. SwitchPool'
  BY <1>1, <1>2, <1>3, Zenon DEF IInv, SwitchPool
<1>8. Deleting'
  <2>. HIDE DEF D
  <2>. QED
    BY <1>1, <1>2, Zenon DEF IInv, TypeOK, Deleting
<1>9. SwitchInputs'
  <2>. HIDE DEF D
  <2>1. SUFFICES ASSUME ~raced, NEW u \in mapTx' \ unchecked, NEW o \in Ins[u]
                 PROVE  \/ o \in Coins
                        \/ Creator[o] \in mapTx' \cup Coinbase
                        \/ \E g \in vResurrect' : g.tx = Creator[o]
                        \/ o \in SpentBy(vDelete)
    BY <1>1, <1>3, Zenon DEF SwitchInputs, Supplied
  <2>2. u \in mapTx /\ u \notin D
    BY <1>2, Zenon
  <2>3. o \in Outpoints /\ o \in DOMAIN mapNextTx /\ mapNextTx[o] = u
    BY <1>4, <2>1, <2>2 DEF IInv, TypeOK, Exact, SpentBy
  <2>4. Creator[o] \notin D
    BY <1>6, <2>1, <2>2, <2>3 DEF Spenders, Outs
  <2>5. Supplied(o)
    BY <2>1, <2>2, Zenon DEF IInv, SwitchInputs
  <2>. QED
    BY <1>1, <1>2, <1>6, <2>1, <2>4, <2>5, Zenon DEF Supplied
<1>. QED
  BY <1>5, <1>7, <1>8, <1>9, Zenon

(* A transaction of the new branch is removed.  An output of it that the   *)
(* pool spends is now the chain's, unless a later transaction of the       *)
(* branch spends it: that one is dealt with later, as the chain is in      *)
(* order.                                                                  *)
LEMMA DeleteStep ==
    ASSUME IInv, DeleteConfirmed
    PROVE  NextTxExact' /\ Deleting' /\ ResurrectNew' /\ SwitchPool' /\ SwitchInputs'
<1>. USE MemPoolAssumption
<1>. DEFINE n == nRemoved + 1
            x == chain[n].tx
<1>1. /\ Without({x}) /\ nRemoved' = n /\ nRemoved = nDeleted
      /\ UNCHANGED <<chain, nDeleted, unchecked, raced, vResurrect>> /\ vResurrect = {}
  BY Zenon DEF DeleteConfirmed, remove
<1>2. n \in DOMAIN chain /\ nRemoved \in Nat
  BY DEF DeleteConfirmed, IInv, TypeOK
<1>3. mapTx' = mapTx \ {x}
  BY <1>1, Zenon DEF Without
<1>4. /\ Confirmed' = Confirmed /\ Coins' = Coins
      /\ vDelete' = vDelete /\ SpentBy(vDelete)' = SpentBy(vDelete)
      /\ vRemove \subseteq vRemove' \cup {x}
      /\ \A i \in DOMAIN chain : i > n => chain[i].tx \in vDelete
  BY <1>1, <1>2 DEF Confirmed, Coins, vDelete, vRemove, SpentBy, IInv, TypeOK
<1>. HIDE DEF x
<1>5. NextTxExact'
  <2>1. ~raced => Exact'
    BY <1>1, WithoutExact, Zenon DEF IInv, NextTxExact
  <2>. QED
    BY <1>1, <2>1, Zenon DEF IInv, NextTxExact
<1>6. SwitchPool'
  BY <1>1, <1>3, <1>4, Zenon DEF IInv, SwitchPool
<1>7. ResurrectNew'
  BY <1>1, Zenon DEF ResurrectNew
<1>8. Deleting'
  BY <1>1, <1>2, <1>3, Zenon DEF Deleting, x
<1>9. SwitchInputs'
  <2>1. SUFFICES ASSUME ~raced, NEW u \in mapTx' \ unchecked, NEW o \in Ins[u]
                 PROVE  \/ o \in Coins
                        \/ Creator[o] \in mapTx' \cup Coinbase
                        \/ o \in SpentBy(vDelete)
    BY <1>1, <1>4, Zenon DEF SwitchInputs, Supplied
  <2>2. u \in mapTx /\ o \in Outpoints
    BY <1>3, Zenon DEF IInv, TypeOK
  <2>3. Supplied(o)
    BY <2>1, <2>2, Zenon DEF IInv, SwitchInputs
  <2>4. CASE Creator[o] = x /\ o \notin Coins
    <3>1. Creator[o] \in Confirmed
      BY <1>2, <2>4, Zenon DEF Confirmed, x
    <3>2. PICK j \in DOMAIN chain : o \in Ins[chain[j].tx]
      BY <2>2, <2>4, <3>1 DEF Coins, SpentBy, Confirmed
    <3>3. PICK k \in DOMAIN chain : k < j /\ chain[k].tx = x
      BY <2>4, <3>2 DEF IInv, ValidChain
    <3>4. k = n
      BY <1>2, <3>3 DEF IInv, ValidChain, TypeOK, x
    <3>5. chain[j].tx \in vDelete
      BY <1>4, <3>3, <3>4, Zenon
    <3>. QED
      BY <3>2, <3>5 DEF SpentBy
  <2>. QED
    BY <1>1, <1>3, <2>3, <2>4, Zenon DEF Supplied
<1>. QED
  BY <1>5, <1>6, <1>7, <1>8, <1>9, Zenon

(* Then its conflicts are: no other transaction of the pool is left that   *)
(* spends what it spends.                                                  *)
LEMMA ConflictsStep ==
    ASSUME IInv, removeConflicts
    PROVE  NextTxExact' /\ Deleting' /\ ResurrectNew' /\ SwitchPool' /\ SwitchInputs'
<1>. USE MemPoolAssumption
<1>. DEFINE x == chain[nRemoved].tx
            D == Descendants(Conflicts(x))
<1>1. /\ Without(D) /\ nDeleted' = nRemoved
      /\ UNCHANGED <<chain, nRemoved, unchecked, raced, vResurrect>>
  BY Zenon DEF removeConflicts
<1>2. /\ nRemoved \in DOMAIN chain /\ nRemoved = nDeleted + 1 /\ nDeleted \in Nat
      /\ vResurrect = {} /\ x \notin mapTx \ unchecked
  BY DEF removeConflicts, IInv, TypeOK, Deleting
<1>3. mapTx' = mapTx \ D
  BY <1>1, Zenon DEF Without
<1>4. /\ Confirmed' = Confirmed /\ Coins' = Coins /\ vRemove' = vRemove
      /\ vDelete \subseteq vDelete' \cup {x}
  BY <1>1, <1>2 DEF Confirmed, Coins, vDelete, vRemove, IInv, TypeOK
<1>5. ~raced => Exact
  BY Zenon DEF IInv, NextTxExact
<1>6. ~raced => Conflicts(x) \subseteq D /\ \A t \in D : Spenders(t) \subseteq D
  BY <1>5, DescendantsClosed, Zenon
<1>. HIDE DEF D, x
<1>7. NextTxExact'
  <2>1. ~raced => Exact'
    BY <1>1, <1>5, WithoutExact, Zenon
  <2>. QED
    BY <1>1, <2>1, Zenon DEF IInv, NextTxExact
<1>8. SwitchPool'
  BY <1>1, <1>3, <1>4, Zenon DEF IInv, SwitchPool
<1>9. ResurrectNew'
  BY <1>1, <1>2, Zenon DEF ResurrectNew
<1>10. Deleting'
  BY <1>1, <1>2 DEF Deleting
<1>11. SwitchInputs'
  <2>1. SUFFICES ASSUME ~raced, NEW u \in mapTx' \ unchecked, NEW o \in Ins[u]
                 PROVE  \/ o \in Coins
                        \/ Creator[o] \in mapTx' \cup Coinbase
                        \/ o \in SpentBy(vDelete)'
    BY <1>1, <1>4, Zenon DEF SwitchInputs, Supplied, SpentBy
  <2>2. u \in mapTx /\ u # x /\ u \notin D
    BY <1>2, <1>3, Zenon
  <2>3. o \in Outpoints /\ o \in DOMAIN mapNextTx /\ mapNextTx[o] = u
    BY <1>5, <2>1, <2>2 DEF IInv, TypeOK, Exact, SpentBy
  <2>4. Creator[o] \notin D
    BY <1>6, <2>1, <2>2, <2>3 DEF Spenders, Outs
  <2>5. o \notin Ins[x]
    BY <1>6, <2>1, <2>2, <2>3, Zenon DEF Conflicts
  <2>6. CASE o \in SpentBy(vDelete)
    BY <1>4, <2>5, <2>6 DEF SpentBy
  <2>7. Supplied(o)
    BY <2>1, <2>2, Zenon DEF IInv, SwitchInputs
  <2>. QED
    BY <1>2, <1>3, <2>4, <2>6, <2>7, Zenon DEF Supplied
<1>. QED
  BY <1>7, <1>8, <1>9, <1>10, <1>11, Zenon

(* The length of a concatenation.                                          *)
LEMMA ConcatLen == \A S : \A s, t \in Seq(S) : Len(s \o t) = Len(s) + Len(t)
  OBVIOUS

(* The chain after SetBestChain: what is kept, and what is attached.       *)
LEMMA AttachFacts ==
    ASSUME TypeOK, NEW f \in Nat, NEW br \in Branches, NEW m \in 0 .. Len(chain),
           SetBestChain(f, br, m)
    PROVE  /\ chain' \in Seq(Entry)
           /\ Len(chain') = m + Len(br)
           /\ \A i \in 1 .. m : chain'[i] = chain[i]
           /\ nDeleted' = m /\ nRemoved' = m
           /\ 1 .. m \subseteq DOMAIN chain' /\ 1 .. m \subseteq DOMAIN chain
<1>. DEFINE kept == SubSeq(chain, 1, m)
            new == Attached(f, br)
<1>1. br \in Seq(Placed) /\ chain \in Seq(Entry)
  BY MemPoolAssumption, Zenon DEF TypeOK
<1>2. kept \in Seq(Entry) /\ Len(kept) = m /\ \A i \in 1 .. m : kept[i] = chain[i]
  BY <1>1
<1>3. new \in Seq(Entry) /\ Len(new) = Len(br)
  <2>1. DOMAIN br = 1 .. Len(br) /\ Len(br) \in Nat
    BY <1>1
  <2>2. \A i \in 1 .. Len(br) : [tx |-> br[i].tx, height |-> f + br[i].up] \in Entry
    <3>1. ASSUME NEW i \in 1 .. Len(br)
          PROVE  br[i].tx \in Txs /\ br[i].up \in Nat
      <4>1. br[i] \in Placed
        BY <1>1
      <4>. QED
        BY <4>1, Zenon DEF Placed
    <3>. QED
      BY <3>1 DEF Entry
  <2>3. new \in [1 .. Len(br) -> Entry]
    BY <2>1, <2>2, Zenon DEF Attached
  <2>. QED
    BY <2>1, <2>3
<1>4. chain' = kept \o new /\ nDeleted' = m /\ nRemoved' = m
  BY Zenon DEF SetBestChain
<1>. HIDE DEF kept, new
<1>5. chain' \in Seq(Entry) /\ Len(chain') = m + Len(br)
  <2>1. chain' \in Seq(Entry)
    BY <1>2, <1>3, <1>4
  <2>2. Len(chain') = Len(kept) + Len(new)
    BY <1>2, <1>3, <1>4, ConcatLen, Zenon
  <2>. QED
    BY <1>2, <1>3, <2>1, <2>2, Zenon
<1>6. \A i \in 1 .. m : chain'[i] = kept[i]
  BY <1>1, <1>2, <1>3, <1>4
<1>. QED
  BY <1>1, <1>2, <1>4, <1>5, <1>6

(* The start of a switch: what the pool loses is still to be dealt with.   *)
LEMMA SwitchStep ==
    ASSUME IInv, NEW f \in Nat, NEW br \in Branches, NEW m \in 0 .. Len(chain),
           SetBestChain(f, br, m)
    PROVE  NextTxExact' /\ Deleting' /\ ResurrectNew' /\ SwitchPool' /\ SwitchInputs'
<1>. USE MemPoolAssumption
<1>1. /\ chain' \in Seq(Entry)
      /\ \A i \in 1 .. m : chain'[i] = chain[i]
      /\ nDeleted' = m /\ nRemoved' = m
      /\ 1 .. m \subseteq DOMAIN chain' /\ 1 .. m \subseteq DOMAIN chain
  BY AttachFacts, Zenon DEF IInv
<1>2. /\ mapTx' = mapTx /\ mapNextTx' = mapNextTx /\ unchecked' = unchecked
      /\ raced' = raced /\ Idle
  BY Zenon DEF SetBestChain, pool
<1>3. /\ DOMAIN chain = 1 .. Len(chain) /\ DOMAIN chain' = 1 .. Len(chain')
      /\ Len(chain) \in Nat /\ Len(chain') \in Nat
  BY <1>1 DEF IInv, TypeOK
<1>4. ASSUME NEW i \in DOMAIN chain'
      PROVE  i \in 1 .. m \/ (chain'[i].tx \in vDelete' /\ chain'[i].tx \in vRemove')
  BY <1>1, <1>3 DEF vDelete, vRemove
<1>5. vDelete = {} /\ vRemove = {} /\ vResurrect = {}
  BY <1>2, <1>3 DEF vDelete, vRemove, Idle, IInv, TypeOK, Deleting
<1>6. NextTxExact'
  BY <1>2, Zenon DEF IInv, NextTxExact, Exact, SpentBy
<1>7. ResurrectNew'
  <2>1. SUFFICES ASSUME NEW e \in vResurrect', e.tx \in Confirmed'
                 PROVE  e.tx \in vRemove'
    BY Zenon DEF ResurrectNew
  <2>2. PICK i \in m + 1 .. Len(chain) : e.tx = chain[i].tx
    BY DEF SetBestChain
  <2>3. PICK j \in DOMAIN chain' : e.tx = chain'[j].tx
    BY <2>1, Zenon DEF Confirmed
  <2>4. j \notin 1 .. m
    <3>1. SUFFICES ASSUME j \in 1 .. m
                   PROVE  FALSE
      BY Zenon
    <3>2. j < i /\ i \in DOMAIN chain /\ j \in DOMAIN chain
      BY <1>1, <1>3, <2>2, <3>1
    <3>3. chain[j].tx # chain[i].tx
      BY <3>2 DEF IInv, ValidChain
    <3>. QED
      BY <1>1, <2>2, <2>3, <3>1, <3>3, Zenon
  <2>. QED
    BY <1>4, <2>3, <2>4, Zenon
<1>8. SwitchPool'
  <2>1. SUFFICES ASSUME unchecked = {}, NEW t \in mapTx, t \in Confirmed'
                 PROVE  t \in vRemove'
    BY <1>2, Zenon DEF SwitchPool
  <2>2. t \notin Confirmed
    BY <1>5, <2>1, Zenon DEF IInv, SwitchPool
  <2>3. PICK j \in DOMAIN chain' : t = chain'[j].tx
    BY <2>1, Zenon DEF Confirmed
  <2>. QED
    BY <1>1, <1>4, <2>2, <2>3, Zenon DEF Confirmed
<1>9. SwitchInputs'
  <2>1. SUFFICES ASSUME ~raced, NEW t \in mapTx \ unchecked, NEW o \in Ins[t]
                 PROVE  \/ o \in Coins'
                        \/ Creator[o] \in mapTx \cup Coinbase
                        \/ \E e \in vResurrect' : e.tx = Creator[o]
                        \/ o \in SpentBy(vDelete)'
    BY <1>2, Zenon DEF SwitchInputs, Supplied
  <2>2. CASE Creator[o] \in mapTx \cup Coinbase
    BY <2>2, Zenon
  <2>3. CASE o \in Coins /\ Creator[o] \notin Coinbase
    <3>1. PICK i \in DOMAIN chain : chain[i].tx = Creator[o]
      BY <2>3, Zenon DEF Coins, Confirmed
    <3>2. o \in Outpoints /\ \A j \in DOMAIN chain : o \notin Ins[chain[j].tx]
      BY <2>3 DEF Coins, Confirmed, SpentBy
    <3>3. CASE Creator[o] \notin Confirmed'
      <4>1. i \in m + 1 .. Len(chain)
        BY <1>1, <1>3, <3>1, <3>3 DEF Confirmed
      <4>2. [tx |-> chain[i].tx, height |-> chain[i].height, pos |-> i] \in vResurrect'
        BY <2>3, <3>1, <4>1, Zenon DEF SetBestChain
      <4>. QED
        BY <3>1, <4>2, Zenon
    <3>4. CASE Creator[o] \in Confirmed' /\ o \notin Coins'
      <4>1. PICK j \in DOMAIN chain' : o \in Ins[chain'[j].tx]
        BY <3>2, <3>4 DEF Coins, SpentBy, Confirmed
      <4>2. j \notin 1 .. m
        BY <1>1, <3>2, <4>1, Zenon
      <4>. QED
        BY <1>4, <4>1, <4>2 DEF SpentBy
    <3>. QED
      BY <3>3, <3>4, Zenon
  <2>. QED
    BY <1>5, <2>1, <2>2, <2>3 DEF IInv, SwitchInputs, Supplied, SpentBy
<1>10. Deleting'
  BY <1>1, <1>2, <1>5 DEF Deleting
<1>. QED
  BY <1>6, <1>7, <1>8, <1>9, <1>10, Zenon

(* What the wallet puts back conflicts with nothing in the pool.           *)
LEMMA ReacceptStep ==
    ASSUME IInv, NEW STATE U, U \subseteq WalletTxs \ Coinbase, Reaccept(U),
           UNCHANGED <<chain, vResurrect, nRemoved, nDeleted, raced>>
    PROVE  /\ mapTx' \subseteq Txs \ Coinbase /\ DOMAIN mapNextTx' \subseteq Outpoints
           /\ unchecked' \subseteq Txs
           /\ NextTxExact' /\ Deleting' /\ SwitchPool' /\ SwitchInputs'
           /\ mapTx \subseteq mapTx'
           /\ unchecked' = {} => unchecked = {} /\ DOMAIN mapNextTx' = DOMAIN mapNextTx
<1>. USE MemPoolAssumption
<1>1. PICK S \in SUBSET (Txs \ Coinbase) :
         /\ \A t \in S : t \notin mapTx /\ Ins[t] \cap DOMAIN mapNextTx = {}
         /\ \A t, u \in S : t # u => Ins[t] \cap Ins[u] = {}
         /\ mapTx' = mapTx \cup S
         /\ mapNextTx' = [o \in DOMAIN mapNextTx \cup SpentBy(S) |->
                            IF o \in DOMAIN mapNextTx THEN mapNextTx[o]
                            ELSE CHOOSE t \in S : o \in Ins[t]]
         /\ unchecked' = unchecked \cup S
  <2>. DEFINE prev == {t \in UNION {vtxPrev[u] : u \in U} : t \notin Coinbase /\ TipHas(t)}
              fresh == {t \in U \cup prev :
                           t \notin mapTx /\ Ins[t] \cap DOMAIN mapNextTx = {}}
  <2>1. prev \subseteq Txs \ Coinbase
    OBVIOUS
  <2>2. fresh \subseteq Txs \ Coinbase
    BY <2>1, Zenon
  <2>3. \A t \in fresh : t \notin mapTx /\ Ins[t] \cap DOMAIN mapNextTx = {}
    BY Zenon
  <2>4. PICK S \in SUBSET fresh :
             /\ \A t, u \in S : t # u => Ins[t] \cap Ins[u] = {}
             /\ mapTx' = mapTx \cup S
             /\ mapNextTx' = [o \in DOMAIN mapNextTx \cup SpentBy(S) |->
                                IF o \in DOMAIN mapNextTx THEN mapNextTx[o]
                                ELSE CHOOSE t \in S : o \in Ins[t]]
             /\ unchecked' = unchecked \cup S
    BY Zenon DEF Reaccept
  <2>. HIDE DEF fresh
  <2>5. S \in SUBSET (Txs \ Coinbase)
    BY <2>2, Zenon
  <2>6. \A t \in S : t \notin mapTx /\ Ins[t] \cap DOMAIN mapNextTx = {}
    BY <2>3, Zenon
  <2>. QED
    BY <2>4, <2>5, <2>6, Zenon
<1>2. unchecked' = {} => unchecked = {} /\ S = {}
  BY <1>1, Zenon
<1>3. /\ Confirmed' = Confirmed /\ Coins' = Coins /\ vDelete' = vDelete
      /\ vRemove' = vRemove /\ SpentBy(vDelete)' = SpentBy(vDelete)
  BY DEF Confirmed, Coins, vDelete, vRemove, SpentBy
<1>4. /\ mapTx' \subseteq Txs \ Coinbase /\ DOMAIN mapNextTx' \subseteq Outpoints
      /\ unchecked' \subseteq Txs
  BY <1>1 DEF IInv, TypeOK, SpentBy
<1>5. ASSUME ~raced
      PROVE  Exact'
  <2>0. Exact
    BY <1>5, Zenon DEF IInv, NextTxExact
  <2>1. DOMAIN mapNextTx' = SpentBy(mapTx')
    <3>1. DOMAIN mapNextTx' = SpentBy(mapTx) \cup SpentBy(S)
      BY <1>1, <2>0, Zenon DEF Exact
    <3>2. SpentBy(mapTx) \cup SpentBy(S) = SpentBy(mapTx \cup S)
      BY Zenon DEF SpentBy
    <3>. QED
      BY <1>1, <3>1, <3>2, Zenon
  <2>2. ASSUME NEW t \in mapTx', NEW o \in Ins[t]
        PROVE  mapNextTx'[o] = t
    <3>1. o \in DOMAIN mapNextTx \cup SpentBy(S)
      BY <1>1, <2>1 DEF SpentBy
    <3>2. CASE t \in mapTx
      <4>1. o \in DOMAIN mapNextTx /\ mapNextTx[o] = t
        BY <2>0, <3>2, Zenon DEF Exact, SpentBy
      <4>. QED
        BY <1>1, <3>1, <4>1, Zenon
    <3>3. CASE t \in S
      <4>1. o \notin DOMAIN mapNextTx
        BY <1>1, <3>3, Zenon
      <4>2. (CHOOSE u \in S : o \in Ins[u]) = t
        BY <1>1, <3>3, Zenon
      <4>. QED
        BY <1>1, <3>1, <4>1, <4>2, Zenon
    <3>. QED
      BY <1>1, <3>2, <3>3, Zenon
  <2>. QED
    BY <2>1, <2>2, Zenon DEF Exact, SpentBy
<1>6. NextTxExact'
  <2>1. raced => unchecked' # {}
    BY <1>2, Zenon DEF IInv, NextTxExact
  <2>. QED
    BY <1>5, <2>1, Zenon DEF NextTxExact
<1>7. SwitchPool'
  BY <1>1, <1>3, Zenon DEF IInv, SwitchPool
<1>8. SwitchInputs'
  <2>1. SUFFICES ASSUME ~raced, NEW t \in mapTx' \ unchecked', NEW o \in Ins[t]
                 PROVE  \/ o \in Coins
                        \/ Creator[o] \in mapTx' \cup Coinbase
                        \/ \E e \in vResurrect : e.tx = Creator[o]
                        \/ o \in SpentBy(vDelete)
    BY <1>3, Zenon DEF SwitchInputs, Supplied
  <2>2. t \in mapTx \ unchecked
    BY <1>1, Zenon
  <2>3. Supplied(o)
    BY <2>1, <2>2, Zenon DEF IInv, SwitchInputs
  <2>. QED
    BY <1>1, <2>3, Zenon DEF Supplied
<1>9. Deleting'
  <2>1. mapTx' \ unchecked' \subseteq mapTx \ unchecked
    BY <1>1, Zenon
  <2>. QED
    BY <2>1, Zenon DEF IInv, Deleting
<1>10. unchecked' = {} => unchecked = {} /\ DOMAIN mapNextTx' = DOMAIN mapNextTx
  BY <1>1, <1>2 DEF SpentBy
<1>. QED
  BY <1>1, <1>4, <1>6, <1>7, <1>8, <1>9, <1>10, Zenon

-------------------------------------------------------------------------------
(* The orphans' two maps.                                                  *)

(* Erasing orphans takes them out of both maps.                            *)
LEMMA EraseExact ==
    ASSUME OrphanMapsExact, TypeOK, NEW STATE E, EraseOrphanTx(E)
    PROVE  OrphanMapsExact' /\ orphans' \subseteq Txs /\ byPrev' \in [Txs -> SUBSET Txs]
<1>. USE MemPoolAssumption
<1>1. orphans' = orphans \ E
  BY Zenon DEF EraseOrphanTx
<1>2. byPrev' = [p \in Txs |-> {t \in orphans' : p \in Parents(t)}]
  BY Zenon DEF EraseOrphanTx, OrphanMapsExact
<1>3. Cardinality(orphans') <= MaxOrphans
  <2>1. IsFiniteSet(orphans) /\ orphans' \subseteq orphans
    BY <1>1, FS_Subset, Zenon DEF TypeOK
  <2>2. /\ Cardinality(orphans') <= Cardinality(orphans)
        /\ Cardinality(orphans) \in Nat /\ Cardinality(orphans') \in Nat
    BY <2>1, FS_Subset, FS_CardinalityType, Zenon
  <2>. QED
    BY <2>2 DEF OrphanMapsExact
<1>. QED
  BY <1>1, <1>2, <1>3, Zenon DEF OrphanMapsExact, TypeOK, Parents

(* So does an eviction, and an addition puts the orphan into both.         *)
LEMMA OrphanStep ==
    ASSUME OrphanMapsExact, TypeOK, NEW t \in Txs, AddOrphanTx(t)
    PROVE  OrphanMapsExact' /\ orphans' \subseteq Txs /\ byPrev' \in [Txs -> SUBSET Txs]
<1>. USE MemPoolAssumption
<1>. DEFINE added == IF t \in LargeTxs THEN {} ELSE {t} \ orphans
            all == orphans \cup added
<1>1. PICK evicted \in SUBSET all :
         /\ Cardinality(all \ evicted) <= MaxOrphans
         /\ orphans' = all \ evicted
         /\ byPrev' = [p \in Txs |->
                         (byPrev[p] \cup {u \in added : p \in Parents(u)}) \ evicted]
  BY Zenon DEF AddOrphanTx
<1>2. added \subseteq Txs
  BY Zenon
<1>. HIDE DEF added
<1>3. byPrev' = [p \in Txs |-> {u \in orphans' : p \in Parents(u)}]
  BY <1>1, Zenon DEF OrphanMapsExact
<1>4. Cardinality(orphans') <= MaxOrphans
  BY <1>1, Zenon
<1>. QED
  BY <1>1, <1>2, <1>3, <1>4 DEF OrphanMapsExact, TypeOK
===============================================================================
