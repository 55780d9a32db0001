-------------------------------- MODULE MemPool --------------------------------
(***************************************************************************)
(* The memory pool of unconfirmed transactions (CTxMemPool), the orphan    *)
(* transactions that wait for a parent, and the alias operations that the  *)
(* RPCs take for pending, all moving with the best chain.                  *)
(*                                                                         *)
(* A transaction spends outpoints and creates outpoints; nothing else of   *)
(* it matters here.  The chain is the list of its transactions, each with  *)
(* the height of its block, and pcoinsTip is what the chain leaves unspent.*)
(* cs_main makes a message, an RPC and a switch of the best chain atomic,  *)
(* for one another.  The switch's two loops over the pool are modelled     *)
(* call by call.  The exception is the pass over the wallet that a node    *)
(* makes after it has started: it holds cs_wallet and not cs_main, so its  *)
(* calls fall between those of a switch, and between the checks of an      *)
(* accept and the addition that accept makes after them.                   *)
(***************************************************************************)
EXTENDS Integers, Sequences, FiniteSets

CONSTANTS
    Txs, Outpoints,
    Creator,        \* Creator[o]: the transaction that creates outpoint o
    Ins,            \* Ins[t]: the outpoints t spends
    Coinbase,       \* the coinbase transactions among Txs
    AliasTxs,       \* activations and updates of aliases
    WalletTxs,      \* transactions kept in the wallet
    vtxPrev,        \* vtxPrev[t]: the supporting transactions stored with one of them
    LargeTxs,       \* transactions above the size limit for orphans
    Base,           \* the chain the node starts from, and its height
    BaseHeight,
    Branches,       \* what a new branch may hold: [tx, up], up blocks above the fork
    Maturity,       \* COINBASE_MATURITY
    MaxOrphans,     \* MAX_ORPHAN_TRANSACTIONS
    MaxHeight       \* bound: the height at which no more blocks arrive

Outs(t) == {o \in Outpoints : Creator[o] = t}
Parents(t) == {Creator[o] : o \in Ins[t]}
Entry == [tx : Txs, height : Nat]
Placed == [tx : Txs, up : Nat]

(* Every input is created by an earlier transaction, and mature; nothing   *)
(* is spent or confirmed twice.  What ConnectBlock makes sure of.          *)
ValidChain(ch) ==
    /\ \A i, j \in DOMAIN ch : i < j =>
          /\ ch[i].height <= ch[j].height
          /\ ch[i].tx # ch[j].tx
          /\ Ins[ch[i].tx] \cap Ins[ch[j].tx] = {}
    /\ \A i \in DOMAIN ch : \A o \in Ins[ch[i].tx] : \E j \in DOMAIN ch :
          /\ j < i /\ ch[j].tx = Creator[o]
          /\ Creator[o] \in Coinbase => ch[i].height - ch[j].height >= Maturity

ASSUME MemPoolAssumption ==
    /\ IsFiniteSet(Txs)
    /\ Coinbase \subseteq Txs /\ LargeTxs \subseteq Txs
    /\ AliasTxs \subseteq Txs \ Coinbase
    /\ WalletTxs \subseteq Txs /\ vtxPrev \in [WalletTxs -> SUBSET Txs]
    /\ Creator \in [Outpoints -> Txs]
    /\ Ins \in [Txs -> SUBSET Outpoints]
    /\ \A t \in Txs : Ins[t] = {} <=> t \in Coinbase
    /\ Base \in Seq(Entry) /\ ValidChain(Base) /\ BaseHeight \in Nat
    /\ \A br \in Branches : br \in Seq(Placed)
    /\ Maturity \in Nat /\ MaxOrphans \in Nat /\ MaxHeight \in Nat

VARIABLES
    chain,       \* the transactions of the best chain, in order, with their heights
    nHeight,     \* the height of pindexBest
    mapTx,       \* the transactions in the pool
    mapNextTx,   \* outpoint -> the pool's transaction that spends it
    vResurrect,  \* disconnected transactions not yet offered to the pool again
    nRemoved,    \* vDelete: the entries of chain after this one are still to be
    nDeleted,    \* removed from the pool, and after this one their conflicts are
    orphans,     \* mapOrphanTransactions
    byPrev,      \* mapOrphanTransactionsByPrev
    pending,     \* the transactions in mapAliasesPending
    unchecked,   \* history: accepted from the wallet without a look at their inputs
    raced,       \* history: an addition has overwritten an entry of mapNextTx
    noConflict,  \* {t} while accept(t) is past its look at mapTx and mapNextTx
    inputsOk,    \* {t} while accept(t) is past its look at the inputs
    pass,        \* the wallet's pass after the start, see below
    toLook,      \* the wallet's transactions it has not looked at yet
    toAccept     \* {u} while it has found u unconfirmed and not yet accepted it

pool == <<mapTx, mapNextTx>>
orphanMaps == <<orphans, byPrev>>
switch == <<vResurrect, nRemoved, nDeleted>>
accepting == <<noConflict, inputsOk>>
walletPass == <<pass, toLook, toAccept>>
vars == <<chain, nHeight, mapTx, mapNextTx, vResurrect, nRemoved, nDeleted, orphans,
          byPrev, pending, unchecked, raced, noConflict, inputsOk, pass, toLook,
          toAccept>>

(* Before and after the pass cs_wallet is free.  A pass is "flushing" when *)
(* it began while a switch had told the wallets of its blocks and not yet  *)
(* flushed them, and "awaited" when the thread that holds cs_main has come *)
(* to SyncWithWallets, where it stays until the pass ends.                 *)
PassStates == {"before", "running", "flushing", "awaited", "over"}

Idle == vResurrect = {} /\ nDeleted = Len(chain)
NoAccept == noConflict = {} /\ inputsOk = {}

(* Nobody holds cs_main, and cs_wallet is free: one call at a time.        *)
Alone == Idle /\ NoAccept /\ pass \in {"before", "over"}

-------------------------------------------------------------------------------
(* What accept looks at.                                                   *)

Confirmed == {chain[i].tx : i \in DOMAIN chain}
SpentBy(S) == UNION {Ins[t] : t \in S}
Coins == {o \in Outpoints : Creator[o] \in Confirmed /\ o \notin SpentBy(Confirmed)}

(* pcoinsTip keeps a transaction while one of its outputs is unspent; the  *)
(* pool's own outputs are looked up behind it.                             *)
TipHas(t) == \E o \in Coins : Creator[o] = t
HaveCoins(t) == TipHas(t) \/ t \in mapTx
IsAvailable(o) == IF TipHas(Creator[o]) THEN o \in Coins ELSE Creator[o] \in mapTx

(* Coinbase outputs are spent at the next height, if mature.               *)
Mature(t) ==
    \A i \in DOMAIN chain : chain[i].tx \in Parents(t) \cap Coinbase =>
        nHeight + 1 - chain[i].height >= Maturity

(* Not in the pool, and in conflict with nothing in it.                    *)
Unrivalled(t) ==
    /\ t \notin Coinbase
    /\ t \notin mapTx
    /\ Ins[t] \cap DOMAIN mapNextTx = {}
MissesInputs(t) ==
    /\ ~HaveCoins(t)
    /\ \E o \in Ins[t] : ~HaveCoins(Creator[o])
FindsInputs(t) ==
    /\ ~HaveCoins(t)
    /\ \A o \in Ins[t] : HaveCoins(Creator[o]) /\ IsAvailable(o)
Acceptable(t) == Unrivalled(t) /\ FindsInputs(t) /\ Mature(t)

(* accept notes an alias operation before CheckInputs has its say.         *)
Noted(t) == IF t \in AliasTxs THEN pending \cup {t} ELSE pending

(* Nothing is looked at again: whoever spends an input of t by now loses   *)
(* its entry in mapNextTx.                                                 *)
addUnchecked(t) ==
    /\ mapTx' = mapTx \cup {t}
    /\ mapNextTx' = [o \in DOMAIN mapNextTx \cup Ins[t] |->
                        IF o \in Ins[t] THEN t ELSE mapNextTx[o]]
    /\ raced' = (raced \/ \E o \in Ins[t] \cap DOMAIN mapNextTx : mapNextTx[o] # t)

-------------------------------------------------------------------------------
(* Taking transactions out.                                                *)

(* The recursion of remove follows mapNextTx from outputs to spenders.     *)
Spenders(t) == {mapNextTx[o] : o \in Outs(t) \cap DOMAIN mapNextTx}
Closed(D) == \A t \in D : Spenders(t) \subseteq D
Descendants(S) ==
    {t \in mapTx \cup S : \A D \in SUBSET (mapTx \cup S) :
                              S \subseteq D /\ Closed(D) => t \in D}

(* Variant: removal forgets mapNextTx.                                     *)
WithoutKeepingSpends(R) ==
    /\ mapTx' = mapTx \ R
    /\ mapNextTx' = mapNextTx

Without(R) ==
    /\ mapTx' = mapTx \ R
    /\ mapNextTx' = [o \in DOMAIN mapNextTx \ SpentBy(R \cap mapTx) |-> mapNextTx[o]]

(* Variant: the spenders of what is removed stay.                          *)
RemoveAlone(t, fRecursive) == Without({t})

remove(t, fRecursive) == Without(IF fRecursive THEN Descendants({t}) ELSE {t})

(* Transactions of the pool that spend what t spends.                      *)
Conflicts(t) == {mapNextTx[o] : o \in Ins[t] \cap DOMAIN mapNextTx} \ {t}

-------------------------------------------------------------------------------
Init ==
    /\ chain = Base /\ nHeight = BaseHeight
    /\ mapTx = {} /\ mapNextTx = [o \in {} |-> o]
    /\ vResurrect = {} /\ nRemoved = Len(Base) /\ nDeleted = Len(Base)
    /\ orphans = {} /\ byPrev = [t \in Txs |-> {}]
    /\ pending = {} /\ unchecked = {} /\ raced = FALSE
    /\ noConflict = {} /\ inputsOk = {}
    /\ pass = "before" /\ toLook = {} /\ toAccept = {}

(* CommitTransaction and sendrawtransaction: accept, with no look at the   *)
(* orphans.  The RPC holds cs_main and cs_wallet.                          *)
SubmitTx(t) ==
    /\ Alone
    /\ Acceptable(t)
    /\ addUnchecked(t)
    /\ pending' = Noted(t)
    /\ UNCHANGED <<chain, nHeight, switch, orphanMaps, unchecked, accepting, walletPass>>

(* CheckInputs, the last check of accept, refuses t.                       *)
RefuseTx(t) ==
    /\ Alone
    /\ Unrivalled(t) /\ FindsInputs(t)
    /\ pending' = Noted(t)
    /\ UNCHANGED <<chain, nHeight, pool, raced, switch, orphanMaps, unchecked, accepting,
                   walletPass>>

(* Variant: an erased orphan stays listed under its parents.               *)
EraseFromOneMap(E) ==
    /\ orphans' = orphans \ E
    /\ byPrev' = byPrev

EraseOrphanTx(E) ==
    /\ orphans' = orphans \ E
    /\ byPrev' = [p \in Txs |-> byPrev[p] \ {t \in E \cap orphans : p \in Parents(t)}]

(* The "tx" message.  For every orphan that waits for t the handler calls  *)
(* accept on t once more, which finds t in the pool: the orphan is erased  *)
(* as invalid.                                                             *)
ReceiveTx(t) ==
    /\ Alone
    /\ Acceptable(t)
    /\ addUnchecked(t)
    /\ pending' = Noted(t)
    /\ EraseOrphanTx(byPrev[t] \cup {t})
    /\ UNCHANGED <<chain, nHeight, switch, unchecked, accepting, walletPass>>

(* AddOrphanTx, then LimitOrphanTxSize evicts at random.                   *)
AddOrphanTx(t) ==
    LET added == IF t \in LargeTxs THEN {} ELSE {t} \ orphans
        all == orphans \cup added
    IN  \E evicted \in SUBSET all :
          /\ Cardinality(all \ evicted) <= MaxOrphans
          /\ evicted = {} \/ Cardinality(all \ evicted) = MaxOrphans
          /\ orphans' = all \ evicted
          /\ byPrev' = [p \in Txs |->
                          (byPrev[p] \cup {u \in added : p \in Parents(u)}) \ evicted]

(* The "tx" message for a transaction with an unknown input.               *)
ReceiveOrphanTx(t) ==
    /\ Alone
    /\ Unrivalled(t) /\ MissesInputs(t)
    /\ AddOrphanTx(t)
    /\ UNCHANGED <<chain, nHeight, pool, raced, switch, pending, unchecked, accepting,
                   walletPass>>

(* The wallet's transactions of U and, before each, those of its           *)
(* supporting transactions that the chain has unspent outputs of: accept   *)
(* without fCheckInputs, one after the other in the order of their hashes, *)
(* so that the first of two conflicting wins.                              *)
Reaccept(U) ==
    LET prev == {t \in UNION {vtxPrev[u] : u \in U} : t \notin Coinbase /\ TipHas(t)}
        fresh == {t \in U \cup prev : t \notin mapTx /\ Ins[t] \cap DOMAIN mapNextTx = {}}
    IN  \E S \in SUBSET fresh :
          /\ \A t, u \in S : t # u => Ins[t] \cap Ins[u] = {}
          /\ \A t \in fresh \ S : Ins[t] \cap SpentBy(S) # {}
          /\ mapTx' = mapTx \cup S
          /\ mapNextTx' = [o \in DOMAIN mapNextTx \cup SpentBy(S) |->
                             IF o \in DOMAIN mapNextTx THEN mapNextTx[o]
                             ELSE CHOOSE t \in S : o \in Ins[t]]
          /\ unchecked' = unchecked \cup S

(* The importprivkey RPC ends with a pass over the wallet, under both      *)
(* locks.                                                                  *)
ReacceptWalletTransactions ==
    /\ Alone
    /\ Reaccept(WalletTxs \ (Coinbase \cup Confirmed))
    /\ UNCHANGED <<chain, nHeight, raced, switch, orphanMaps, pending, accepting,
                   walletPass>>

-------------------------------------------------------------------------------
(* The pass after the start, one transaction at a time, under cs_wallet    *)
(* alone.  Peers are connected by then.                                    *)

BeginPass ==
    /\ pass = "before"
    /\ \/ pass' = "running"
       \/ Idle /\ NoAccept /\ pass' = "flushing"
    /\ toLook' = WalletTxs \ Coinbase
    /\ UNCHANGED <<chain, nHeight, pool, raced, switch, orphanMaps, pending, unchecked,
                   accepting, toAccept>>

(* Is u in the chain?                                                      *)
LookUp(u) ==
    /\ toAccept = {}
    /\ toLook' = toLook \ {u}
    /\ toAccept' = {u} \ Confirmed
    /\ UNCHANGED <<chain, nHeight, pool, raced, switch, orphanMaps, pending, unchecked,
                   accepting, pass>>

(* Under mempool.cs, so that it is one step for the others.                *)
AcceptWalletTransaction(u) ==
    /\ Reaccept({u})
    /\ toAccept' = {}
    /\ UNCHANGED <<chain, nHeight, raced, switch, orphanMaps, pending, accepting, pass,
                   toLook>>

(* The pass is repeated when it has found spent coins of its own.          *)
EndPass ==
    /\ pass \in {"running", "flushing", "awaited"} /\ toLook = {} /\ toAccept = {}
    /\ pass' \in {"before", "over"}
    /\ UNCHANGED <<chain, nHeight, pool, raced, switch, orphanMaps, pending, unchecked,
                   accepting, toLook, toAccept>>

-------------------------------------------------------------------------------
(* The switch of the best chain.                                           *)

(* SetBestChain to a branch br that leaves the chain above height f and is *)
(* one block longer: chain and coins change, then the pool follows.        *)
(* CheckAliasInputs takes the branch's alias operations out of the pending *)
(* ones, except at the height of the old pindexBest.                       *)
Kept(f, m) ==
    \A i \in DOMAIN chain : i <= m <=> chain[i].height <= f
Attached(f, br) == [i \in DOMAIN br |-> [tx |-> br[i].tx, height |-> f + br[i].up]]
SetBestChain(f, br, m) ==
    /\ Idle /\ NoAccept /\ pass \in {"before", "flushing", "over"}
    /\ nHeight < MaxHeight
    /\ \A i \in DOMAIN br : br[i].up \in 1 .. nHeight + 1 - f
    /\ Kept(f, m)
    /\ chain' = SubSeq(chain, 1, m) \o Attached(f, br)
    /\ ValidChain(chain')
    /\ nHeight' = nHeight + 1
    /\ nRemoved' = m /\ nDeleted' = m
    /\ vResurrect' = {[tx |-> chain[i].tx, height |-> chain[i].height, pos |-> i] :
                         i \in {j \in m + 1 .. Len(chain) : chain[j].tx \notin Coinbase}}
    /\ pending' = pending \ {br[i].tx : i \in {j \in DOMAIN br : f + br[j].up # nHeight}}
    /\ pass' = IF pass = "flushing" THEN "running" ELSE pass
    /\ UNCHANGED <<pool, raced, orphanMaps, unchecked, accepting, toLook, toAccept>>

(* A switch that ends at some transaction of br which does not connect:    *)
(* the coins are dropped, but not what CheckAliasInputs did to the ones    *)
(* before.                                                                 *)
SetBestChainFails(f, br, m, n) ==
    /\ Alone
    /\ nHeight < MaxHeight
    /\ \A i \in DOMAIN br : br[i].up \in 1 .. nHeight + 1 - f
    /\ Kept(f, m)
    /\ ValidChain(SubSeq(chain, 1, m) \o SubSeq(Attached(f, br), 1, n))
    /\ pending' = pending \ {br[i].tx : i \in {j \in 1 .. n : f + br[j].up # nHeight}}
    /\ UNCHANGED <<chain, nHeight, pool, raced, switch, orphanMaps, unchecked, accepting,
                   walletPass>>

(* The next one to resurrect: the blocks from the tip down to the fork,    *)
(* each in its own order.                                                  *)
IsNext(e) ==
    \A g \in vResurrect : \/ g.height < e.height
                          \/ g.height = e.height /\ e.pos <= g.pos
Resurrect(e) ==
    /\ IsNext(e) /\ NoAccept /\ pass \in {"before", "over"}
    /\ Acceptable(e.tx)
    /\ addUnchecked(e.tx)
    /\ pending' = Noted(e.tx)
    /\ vResurrect' = vResurrect \ {e}
    /\ UNCHANGED <<chain, nHeight, nRemoved, nDeleted, orphanMaps, unchecked, accepting,
                   walletPass>>

(* Not accepted, by the checks above or by the policy of accept.           *)
ResurrectFails(e) ==
    /\ IsNext(e) /\ pass # "awaited"
    /\ remove(e.tx, TRUE)
    /\ pending' \in {pending} \cup
                    {Noted(t) : t \in {u \in {e.tx} : Unrivalled(u) /\ FindsInputs(u)}}
    /\ vResurrect' = vResurrect \ {e}
    /\ noConflict' = {} /\ inputsOk' = {}
    /\ UNCHANGED <<chain, nHeight, raced, nRemoved, nDeleted, orphanMaps, unchecked,
                   walletPass>>

(* Variant: a transaction of the new branch stays in the pool.             *)
KeepConfirmed ==
    /\ vResurrect = {} /\ pass # "awaited"
    /\ nRemoved = nDeleted /\ nRemoved < Len(chain)
    /\ nRemoved' = nRemoved + 1
    /\ UNCHANGED <<chain, nHeight, pool, raced, vResurrect, nDeleted, orphanMaps, pending,
                   unchecked, accepting, walletPass>>

(* A transaction of the new branch leaves the pool.                        *)
DeleteConfirmed ==
    /\ vResurrect = {} /\ pass # "awaited"
    /\ nRemoved = nDeleted /\ nRemoved < Len(chain)
    /\ remove(chain[nRemoved + 1].tx, FALSE)
    /\ nRemoved' = nRemoved + 1
    /\ UNCHANGED <<chain, nHeight, raced, vResurrect, nDeleted, orphanMaps, pending,
                   unchecked, accepting, walletPass>>

(* Then whatever conflicts with it.                                        *)
removeConflicts ==
    /\ nDeleted < nRemoved /\ pass # "awaited"
    /\ Without(Descendants(Conflicts(chain[nRemoved].tx)))
    /\ nDeleted' = nRemoved
    /\ UNCHANGED <<chain, nHeight, raced, vResurrect, nRemoved, orphanMaps, pending,
                   unchecked, accepting, walletPass>>

-------------------------------------------------------------------------------
(* accept in its three parts, while the pass goes on: for a message, or    *)
(* for a transaction the switch resurrects.                                *)

Offered(t) == Idle \/ \E e \in vResurrect : IsNext(e) /\ e.tx = t

BeginAccept(t) ==
    /\ pass = "running" /\ NoAccept
    /\ Offered(t)
    /\ Unrivalled(t)
    /\ noConflict' = {t}
    /\ UNCHANGED <<chain, nHeight, pool, raced, switch, orphanMaps, pending, unchecked,
                   inputsOk, walletPass>>

FindInputs(t) ==
    /\ FindsInputs(t)
    /\ noConflict' = {} /\ inputsOk' = {t}
    /\ pending' = Noted(t)
    /\ UNCHANGED <<chain, nHeight, pool, raced, switch, orphanMaps, unchecked, walletPass>>

MissInputs(t) ==
    /\ Idle
    /\ MissesInputs(t)
    /\ AddOrphanTx(t)
    /\ noConflict' = {}
    /\ UNCHANGED <<chain, nHeight, pool, raced, switch, pending, unchecked, inputsOk,
                   walletPass>>

(* By any of the checks that are left.                                     *)
RefuseHeld ==
    /\ Idle /\ ~NoAccept
    /\ noConflict' = {} /\ inputsOk' = {}
    /\ UNCHANGED <<chain, nHeight, pool, raced, switch, orphanMaps, pending, unchecked,
                   walletPass>>

(* addUnchecked, then SyncWithWallets.                                     *)
Add(t) ==
    /\ Mature(t)
    /\ addUnchecked(t)
    /\ inputsOk' = {}
    /\ pass' = IF pass = "running" THEN "awaited" ELSE pass
    /\ UNCHANGED <<chain, nHeight, nRemoved, nDeleted, pending, unchecked, noConflict,
                   toLook, toAccept>>
AddReceived(t) ==
    /\ Idle
    /\ Add(t)
    /\ EraseOrphanTx(byPrev[t] \cup {t})
    /\ UNCHANGED vResurrect
AddResurrected(t, e) ==
    /\ IsNext(e) /\ e.tx = t
    /\ Add(t)
    /\ vResurrect' = vResurrect \ {e}
    /\ UNCHANGED orphanMaps

-------------------------------------------------------------------------------
(* Nothing but the chain survives a restart.                               *)
Restart ==
    /\ mapTx' = {} /\ mapNextTx' = [o \in {} |-> o]
    /\ vResurrect' = {} /\ nRemoved' = Len(chain) /\ nDeleted' = Len(chain)
    /\ orphans' = {} /\ byPrev' = [t \in Txs |-> {}]
    /\ pending' = {} /\ unchecked' = {} /\ raced' = FALSE
    /\ noConflict' = {} /\ inputsOk' = {}
    /\ pass' = "before" /\ toLook' = {} /\ toAccept' = {}
    /\ UNCHANGED <<chain, nHeight>>

Next ==
    \/ \E t \in Txs : SubmitTx(t) \/ RefuseTx(t) \/ ReceiveTx(t) \/ ReceiveOrphanTx(t)
    \/ ReacceptWalletTransactions
    \/ BeginPass \/ EndPass
    \/ \E u \in toLook : LookUp(u)
    \/ \E u \in toAccept : AcceptWalletTransaction(u)
    \/ \E t \in Txs : BeginAccept(t)
    \/ \E t \in noConflict : FindInputs(t) \/ MissInputs(t)
    \/ RefuseHeld
    \/ \E t \in inputsOk : AddReceived(t) \/ \E e \in vResurrect : AddResurrected(t, e)
    \/ \E f \in 0 .. nHeight, br \in Branches, m \in 0 .. Len(chain) :
          \/ SetBestChain(f, br, m)
          \/ \E n \in 1 .. Len(br) : SetBestChainFails(f, br, m, n)
    \/ \E e \in vResurrect : Resurrect(e) \/ ResurrectFails(e)
    \/ DeleteConfirmed \/ removeConflicts
    \/ Restart

Spec == Init /\ [][Next]_vars

-------------------------------------------------------------------------------
(* Correctness.                                                            *)

(* Type correctness of the pool, the orphans and the work of a switch.     *)
TypeOK ==
    /\ chain \in Seq(Entry) /\ nHeight \in Nat
    /\ mapTx \subseteq Txs \ Coinbase
    /\ DOMAIN mapNextTx \subseteq Outpoints
    /\ vResurrect \subseteq [tx : Txs \ Coinbase, height : Nat, pos : Nat]
    /\ nDeleted \in 0 .. Len(chain) /\ nRemoved \in 0 .. Len(chain)
    /\ orphans \subseteq Txs /\ byPrev \in [Txs -> SUBSET Txs]
    /\ pending \subseteq AliasTxs /\ unchecked \subseteq Txs /\ raced \in BOOLEAN
    /\ noConflict \subseteq Txs \ Coinbase /\ inputsOk \subseteq Txs \ Coinbase
    /\ pass \in PassStates
    /\ toLook \subseteq WalletTxs \ Coinbase /\ toAccept \subseteq WalletTxs \ Coinbase

(* mapNextTx is exactly the spending side of mapTx, whatever was removed   *)
(* recursively or replaced by a block; so no outpoint is spent twice in    *)
(* the pool.  The one way around it: accept does not look at mapNextTx     *)
(* again before it adds, so a conflicting transaction that the wallet's    *)
(* pass has put into the pool in the meantime stays there without its      *)
(* entry, until the next restart.                                          *)
Exact ==
    /\ DOMAIN mapNextTx = SpentBy(mapTx)
    /\ \A t \in mapTx : \A o \in Ins[t] : mapNextTx[o] = t
NextTxExact == IF raced THEN unchecked # {} ELSE Exact

(* Between two switches no transaction is both in the pool and in the      *)
(* chain, unless the wallet has put some there unchecked.                  *)
PoolUnconfirmed == Idle /\ unchecked = {} => mapTx \cap Confirmed = {}

(* Between two switches every input of a transaction in the pool is an     *)
(* unspent output of the chain or an output of the pool: what the miner    *)
(* relies on.  Three ways around it are left out: the wallet's unchecked   *)
(* transactions themselves, coinbases that a reorganisation takes away,    *)
(* and everything after an addition has overwritten an entry of mapNextTx, *)
(* from where on removeConflicts may miss a conflict.                      *)
InputsAvailable ==
    Idle /\ ~raced => \A t \in mapTx \ unchecked : \A o \in Ins[t] :
                o \in Coins \/ Creator[o] \in mapTx \cup Coinbase

(* mapOrphanTransactionsByPrev lists exactly the orphans that wait for a   *)
(* transaction, after any additions, erasures and evictions, and there are *)
(* never too many of them.                                                 *)
OrphanMapsExact ==
    /\ byPrev = [p \in Txs |-> {t \in orphans : p \in Parents(t)}]
    /\ Cardinality(orphans) <= MaxOrphans
===============================================================================
