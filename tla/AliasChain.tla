------------------------------ MODULE AliasChain ------------------------------
(***************************************************************************)
(* The block chain of one node and the alias index kept beside it.         *)
(*                                                                         *)
(* main.cpp keeps three records of the same history: the block index       *)
(* (mapBlockIndex, setBlockIndexValid, pindexBest), the unspent outputs    *)
(* (pcoinsTip over the coin database) and, through alias.cpp, a database   *)
(* with the history of every alias (paliasdb).  A switch of the best chain *)
(* changes the outputs in a scratch view that is dropped when a block does *)
(* not connect, but it changes the alias database in place, one            *)
(* transaction at a time.  This module says how the three move together:   *)
(* extending the chain, reorganising, blocks that do not connect, a lazy   *)
(* coin flush, crashes, and the verification and the rescan of a start.    *)
(*                                                                         *)
(* Every block carries the same work, so the chain work of a block is its  *)
(* height.  A transaction stands for its one output that matters here: the *)
(* alias output of an alias operation, or the coin that pays for an        *)
(* aliasnew.  cs_main makes every action below atomic, except for a crash. *)
(***************************************************************************)
EXTENDS Integers, Sequences, FiniteSets, FiniteSetsExt, SequencesExt, TLC

CONSTANTS
    Txs,                 \* the transactions that may be mined
    Op,                  \* Op[t]: "new", "activate", "update" or "plain"
    Name,                \* Name[t]: the alias t is about (for "new": commits to)
    Input,               \* Input[t]: the transaction whose output t spends
    Funding,             \* coins that exist from the genesis block on
    Base,                \* the bodies of the blocks the node starts from
    Bodies,              \* the lists of transactions a later block may carry
    Seals,               \* does a block pass the checks after its transactions?
    MinActivateDepth,    \* GetMinActivateDepth()
    ExpirationDepth,     \* GetAliasExpirationDepth()
    CheckDepth,          \* -checkblocks
    CheckLevels,         \* the values of -checklevel in use
    LocatorPeriod,       \* heights between two records of the best block in the wallet
    MaxBlocks            \* bound: blocks the node ever receives, genesis included

Coins == Txs \cup Funding
Names == {Name[t] : t \in {u \in Txs : Op[u] # "plain"}}
AliasOps == {"new", "activate", "update"}

ASSUME AliasChainAssumption ==
    /\ \A c \in Coins : Op[c] \in AliasOps \cup {"plain"}
    /\ \A t \in Txs : Input[t] \in Coins
    /\ Funding \cap Txs = {} /\ \A f \in Funding : Op[f] = "plain"
    /\ \A vtx \in Bodies \cup ToSet(Base) : IsInjective(vtx) /\ ToSet(vtx) \subseteq Txs
    /\ Seals \subseteq BOOLEAN
    /\ MinActivateDepth \in Nat /\ ExpirationDepth \in Nat \ {0}
    /\ CheckDepth \in Nat /\ CheckLevels \subseteq 0 .. 4
    /\ LocatorPeriod \in Nat \ {0} /\ MaxBlocks \in Nat \ {0}

VARIABLES
    tree,        \* mapBlockIndex, on disk at once: blocks 1..Len(tree), 1 the genesis
    failed,      \* blocks with BLOCK_FAILED_MASK
    valid,       \* setBlockIndexValid
    best,        \* pindexBest
    coins,       \* pcoinsTip: output -> height of the block that created it
    disk,        \* the coin database, with its best block
    aliasdb,     \* paliasdb: alias -> sequence of [tx, height]
    walletBest,  \* the best block recorded in the wallet
    pc,          \* "idle", "connect" (in ConnectBestBlock) or "down"
    clean,       \* history: nothing has yet put the index at odds with the chain
    indexed      \* history: the block whose chain the index describes

chain == <<tree, failed, valid, best, coins, disk>>
vars == <<tree, failed, valid, best, coins, disk, aliasdb, walletBest, pc,
          clean, indexed>>

Genesis == 1
Blocks == DOMAIN tree

(* The blocks after the genesis block on the way to b, as the pprev links  *)
(* give them; nHeight is their number.                                     *)
Chain(b) == tree[b].path
Height(b) == Len(tree[b].path)

-------------------------------------------------------------------------------
(* One transaction of a block.                                             *)

(* Variant: no entry is ever replaced. *)
AppendToAliasList(list, e) == Append(list, e)

(* The entry of the same height, or of the same transaction, is replaced.  *)
PutToAliasList(list, e) ==
    LET hits == {i \in DOMAIN list : list[i].height = e.height \/ list[i].tx = e.tx}
    IN  IF hits = {} THEN Append(list, e) ELSE [list EXCEPT ![Max(hits)] = e]

(* Depth of the spent output below a block at height h, or -1 if it is too *)
(* deep or not below that block.                                           *)
CheckTransactionAtRelativeDepth(h, created, maxDepth) ==
    IF h - created < maxDepth THEN h - created ELSE -1

(* What an alias operation must satisfy at height h.  No rule applies to a *)
(* plain transaction: CheckInputs only calls CheckAliasInputs for one that *)
(* is itself an alias operation.  fJustCheck, set for memory pool checks   *)
(* and for a block template, leaves an aliasactivate unchecked.            *)
CheckAliasInputs(t, h, view, fJustCheck) ==
    LET prevOp == Op[Input[t]]
        found == prevOp \in AliasOps
        depth(max) == CheckTransactionAtRelativeDepth(h, view[Input[t]], max)
    IN  CASE Op[t] = "plain" -> TRUE
          [] Op[t] = "new" -> ~found
          [] Op[t] = "activate" ->
                \/ fJustCheck
                \/ /\ prevOp = "new"
                   /\ Name[Input[t]] = Name[t]
                   /\ depth(MinActivateDepth) = -1
                   /\ depth(ExpirationDepth) # -1
          [] Op[t] = "update" ->
                \/ fJustCheck /\ ~found
                \/ /\ prevOp \in {"activate", "update"}
                   /\ Name[Input[t]] = Name[t]
                   /\ depth(ExpirationDepth) # -1

Indexed(t) == Op[t] \in {"activate", "update"}

(* CheckAliasInputs ends by recording the operation, unless the block is   *)
(* as high as pindexBest: the test that keeps mempool checks out.          *)
IndexAlias(db, t, h, bestHeight) ==
    IF Indexed(t) /\ h # bestHeight
    THEN [db EXCEPT ![Name[t]] = PutToAliasList(@, [tx |-> t, height |-> h])]
    ELSE db

UpdateCoins(view, t, h) ==
    (t :> h) @@ [c \in DOMAIN view \ {Input[t]} |-> view[c]]

(* s is the state of a switch: the scratch view, the alias database, and   *)
(* the verdict so far.  "invalid" is a failure recorded in CValidationState;*)
(* a refused alias operation just returns false.                           *)
ConnectTx(s, t, h, bestHeight) ==
    CASE s.verdict # "valid" -> s
      [] s.verdict = "valid" /\ Input[t] \notin DOMAIN s.coins ->
            [s EXCEPT !.verdict = "invalid"]
      [] s.verdict = "valid" /\ Input[t] \in DOMAIN s.coins ->
            IF CheckAliasInputs(t, h, s.coins, FALSE)
            THEN [s EXCEPT !.coins = UpdateCoins(@, t, h),
                           !.db = IndexAlias(@, t, h, bestHeight)]
            ELSE [s EXCEPT !.verdict = "refused"]

ConnectBlock(s, b, bestHeight) ==
    LET vtx == tree[b].vtx
        overwrites == ToSet(vtx) \cap DOMAIN s.coins # {}
        connected == FoldLeft(LAMBDA r, t : ConnectTx(r, t, Height(b), bestHeight),
                              s, vtx)
    IN  CASE s.verdict # "valid" -> s
          [] s.verdict = "valid" /\ overwrites ->
                [s EXCEPT !.verdict = "invalid", !.at = b]
          [] s.verdict = "valid" /\ ~overwrites ->
                IF connected.verdict = "valid" /\ ~tree[b].seal
                THEN [connected EXCEPT !.verdict = "invalid", !.at = b]
                ELSE [connected EXCEPT !.at = b]

(* The last entry goes if it is this transaction's.                        *)
DisconnectAlias(db, t) ==
    LET list == db[Name[t]]
    IN  IF Indexed(t) /\ list # <<>> /\ Last(list).tx = t
        THEN [db EXCEPT ![Name[t]] = Front(list)]
        ELSE db

(* The height the undo data of b holds for an output spent in b.           *)
UndoHeight(b, c) ==
    IF c \in Funding THEN 0
    ELSE CHOOSE h \in 1 .. Height(b) : c \in ToSet(tree[Chain(b)[h]].vtx)

(* The view must hold t's output as b created it, and not the one that t   *)
(* spent: if not, DisconnectBlock goes on but is not clean.                *)
DisconnectTx(s, t, b) ==
    LET fClean == /\ t \in DOMAIN s.coins /\ s.coins[t] = Height(b)
                  /\ Input[t] \notin DOMAIN s.coins
    IN  [s EXCEPT
              !.verdict = IF fClean THEN @ ELSE "unclean",
              !.coins = (Input[t] :> UndoHeight(b, Input[t]))
                            @@ [c \in DOMAIN @ \ {t} |-> @[c]],
              !.db = DisconnectAlias(@, t)]

DisconnectBlock(s, b) ==
    FoldLeft(LAMBDA r, t : DisconnectTx(r, t, b), s, Reverse(tree[b].vtx))

(* SetBestChain gives up at the first block that is not clean.             *)
Disconnected(s, bs) ==
    FoldLeft(LAMBDA r, b : IF r.verdict = "valid" THEN DisconnectBlock(r, b) ELSE r, s, bs)
Connected(s, bs, bestHeight) ==
    FoldLeft(LAMBDA r, b : ConnectBlock(r, b, bestHeight), s, bs)

(* What a node that only ever saw the chain of b would hold.               *)
Replay(b) ==
    Connected([verdict |-> "valid", at |-> b, coins |-> [f \in Funding |-> 0],
               db |-> [n \in Names |-> <<>>]], Chain(b), -1)

-------------------------------------------------------------------------------
(* Blocks arrive, and the node moves to the chain with the most work.      *)

(* A node that has connected the blocks of Base, one on top of the other,  *)
(* and flushed.                                                            *)
Init ==
    /\ tree = [b \in 1 .. Len(Base) + 1 |->
                 [path |-> [h \in 1 .. b - 1 |-> h + 1], seal |-> TRUE,
                  vtx |-> IF b = Genesis THEN <<>> ELSE Base[b - 1]]]
    /\ failed = {} /\ valid = Blocks /\ best = Len(tree)
    /\ coins = Replay(best).coins
    /\ disk = [best |-> best, coins |-> coins]
    /\ aliasdb = Replay(best).db
    /\ walletBest = best
    /\ pc = "idle"
    /\ clean = TRUE /\ indexed = best

(* ProcessBlock, AcceptBlock and AddToBlockIndex for a block whose parent  *)
(* is known; ConnectBestBlock follows.                                     *)
ReceiveBlock(p, vtx, seal) ==
    LET b == Len(tree) + 1
    IN  /\ pc = "idle" /\ b <= MaxBlocks
        /\ tree' = Append(tree, [path |-> Append(Chain(p), b),
                                 vtx |-> vtx, seal |-> seal])
        /\ valid' = valid \cup {b}
        /\ pc' = "connect"
        /\ UNCHANGED <<failed, best, coins, disk, aliasdb, walletBest, clean, indexed>>

(* The candidates with the most work, and the failed ancestors of one.     *)
(* The code breaks a tie by the block hashes: here any of them may win.    *)
MostWork == {b \in valid : \A c \in valid : Height(c) <= Height(b)}
FailedAncestors(b) == ToSet(Chain(b)) \cap failed

(* Variant: a chain must lead by two blocks to be worth a switch. *)
NothingToDoBelowTwo ==
    /\ pc = "connect"
    /\ \E b \in MostWork : Height(b) <= Height(best) + 1
    /\ pc' = "idle"
    /\ UNCHANGED <<chain, aliasdb, walletBest, clean, indexed>>

(* ConnectBestBlock: the best candidate has no more work than pindexBest.  *)
NothingToDo ==
    /\ pc = "connect"
    /\ \E b \in MostWork : Height(b) = Height(best)
    /\ pc' = "idle"
    /\ UNCHANGED <<chain, aliasdb, walletBest, clean, indexed>>

(* ConnectBestBlock: the best candidate descends from a failed block, so   *)
(* everything between the two fails with it; look for another candidate.   *)
FailDescendants ==
    /\ pc = "connect"
    /\ \E b \in MostWork :
         /\ Height(b) > Height(best)
         /\ FailedAncestors(b) # {}
         /\ LET top == CHOOSE f \in FailedAncestors(b) :
                          \A g \in FailedAncestors(b) : Height(g) <= Height(f)
                children == {c \in ToSet(Chain(b)) : Height(c) > Height(top)}
            IN  /\ failed' = failed \cup children
                /\ valid' = valid \ children
    /\ UNCHANGED <<tree, best, coins, disk, aliasdb, walletBest, pc, clean, indexed>>

(* The height where the chains of pindexBest and b part.                   *)
ForkHeight(b) ==
    Cardinality({h \in DOMAIN Chain(best) \cap DOMAIN Chain(b) :
                     Chain(best)[h] = Chain(b)[h]})

(* Variant: the first block above the fork is not taken off.               *)
DisconnectAboveFork(b) == Reverse(SubSeq(Chain(best), ForkHeight(b) + 2, Height(best)))

(* The blocks a switch from pindexBest to b takes off and puts on.         *)
ToDisconnect(b) == Reverse(SubSeq(Chain(best), ForkHeight(b) + 1, Height(best)))
ToConnect(b) == SubSeq(Chain(b), ForkHeight(b) + 1, Height(b))

(* Variant: the attached blocks start at the fork.                         *)
FirstAboveFork(b) == Chain(b)[ForkHeight(b) + 1]

(* vAttach, whose blocks are switched to one by one: the ones with more    *)
(* work than pindexBest.  This is the next of them.                        *)
Towards(b) == Chain(b)[Height(best) + 1]

Scratch == [verdict |-> "valid", at |-> best, coins |-> coins, db |-> aliasdb]
SwitchUpTo(b, i, j) ==
    Connected(Disconnected(Scratch, SubSeq(ToDisconnect(b), 1, i)),
              SubSeq(ToConnect(b), 1, j), Height(best))
Switch(b) == SwitchUpTo(b, Len(ToDisconnect(b)), Len(ToConnect(b)))

(* Does one of these blocks hold an operation the index records?           *)
Touches(bs) == \E b \in ToSet(bs) : \E t \in ToSet(tree[b].vtx) : Indexed(t)
IsAncestor(a, b) == a = Genesis \/ a \in ToSet(Chain(b))

(* The index after a switch to b describes a chain as long as no recorded  *)
(* operation fell on the height of the old pindexBest, and it did not lead *)
(* the coins on another branch.                                            *)
SwitchKeepsIndex(b) ==
    /\ ~Touches(SelectSeq(ToConnect(b), LAMBDA c : Height(c) = Height(best)))
    /\ IsAncestor(indexed, b) \/ IsAncestor(b, indexed) \/ indexed = best

(* Variant: the best block is written at once, the coins when there is time. *)
FlushBestFirst(flush, b, view) ==
    [best |-> b, coins |-> IF flush THEN view ELSE disk.coins]

(* The coin database is written unless the node is still downloading the   *)
(* chain and has room in its cache: one batch of coins and best block.     *)
Flush(flush, b, view) ==
    IF flush THEN [best |-> b, coins |-> view] ELSE disk

(* SetBestChain for the next block on the way to a candidate b.  The       *)
(* wallet learns of every 144th block.                                     *)
SetBestChain(flush) ==
    /\ pc = "connect"
    /\ \E b \in MostWork :
         LET next == Towards(b)
         IN  /\ Height(b) > Height(best)
             /\ FailedAncestors(b) = {}
             /\ \E s \in {Switch(next)} :
                 /\ s.verdict = "valid"
                 /\ best' = next /\ coins' = s.coins /\ aliasdb' = s.db
                 /\ disk' = Flush(flush, next, s.coins)
                 /\ walletBest' = IF Height(next) % LocatorPeriod = 0 THEN next ELSE walletBest
                 /\ clean' = (clean /\ SwitchKeepsIndex(next))
                 /\ indexed' = IF IsAncestor(next, indexed) THEN indexed ELSE next
    /\ UNCHANGED <<tree, failed, valid, pc>>

(* Variant: a block that does not connect stays a candidate. *)
InvalidBlockStaysCandidate(s) ==
    /\ failed' = IF s.verdict = "invalid" THEN failed \cup {s.at} ELSE failed
    /\ UNCHANGED valid

(* A block is marked only if the validation state says invalid.            *)
InvalidBlockFound(s) ==
    /\ failed' = IF s.verdict = "invalid" THEN failed \cup {s.at} ELSE failed
    /\ valid' = IF s.verdict = "invalid" THEN valid \ {s.at} ELSE valid

(* SetBestChain when a block of the new branch does not connect: the view  *)
(* is dropped, the alias database keeps what was written to it.            *)
SetBestChainFails ==
    /\ pc = "connect"
    /\ \E b \in MostWork :
         LET next == Towards(b)
         IN  /\ Height(b) > Height(best)
             /\ FailedAncestors(b) = {}
             /\ \E s \in {Switch(next)} :
                 /\ s.verdict # "valid"
                 /\ aliasdb' = s.db
                 /\ InvalidBlockFound(s)
                 /\ clean' = (clean /\ ~Touches(ToDisconnect(next) \o ToConnect(next)))
    /\ pc' = "idle"
    /\ UNCHANGED <<tree, best, coins, disk, walletBest, indexed>>

-------------------------------------------------------------------------------
(* Stopping, crashing and starting.                                        *)

(* Shutdown flushes the coins and the wallet's locator.  A thread that is  *)
(* importing blocks may be interrupted between two steps of a switch.      *)
Shutdown ==
    /\ pc # "down"
    /\ disk' = [best |-> best, coins |-> coins]
    /\ walletBest' = best
    /\ pc' = "down"
    /\ UNCHANGED <<tree, failed, valid, best, coins, aliasdb, clean, indexed>>

Crash ==
    /\ pc # "down"
    /\ pc' = "down"
    /\ UNCHANGED <<chain, aliasdb, walletBest, clean, indexed>>

(* A crash after a switch has gone through some of its blocks.             *)
CrashInSwitch ==
    /\ pc = "connect"
    /\ \E b \in MostWork :
         /\ Height(b) > Height(best)
         /\ FailedAncestors(b) = {}
         /\ LET next == Towards(b)
                off == ToDisconnect(next)
                on == ToConnect(next)
            IN  \E i \in 0 .. Len(off), j \in 0 .. Len(on) :
                  /\ j > 0 => i = Len(off)
                  /\ i + j > 0
                  /\ aliasdb' = SwitchUpTo(next, i, j).db
                  /\ clean' = (clean /\ ~Touches(SubSeq(off, 1, i) \o SubSeq(on, 1, j)))
    /\ pc' = "down"
    /\ UNCHANGED <<chain, walletBest, indexed>>

(* The blocks VerifyDB disconnects below block b, from the lowest up.      *)
Verified(b) ==
    LET depth == IF CheckDepth = 0 THEN Height(b) ELSE Min({CheckDepth, Height(b)})
    IN  SubSeq(Chain(b), Max({1, Height(b) - depth}), Height(b))

(* VerifyDB disconnects them in a scratch view (level 3) and reconnects    *)
(* them (level 4), with everything DisconnectBlock and ConnectBlock do.    *)
VerifyDB(b, view, db, level) ==
    LET s == [verdict |-> "valid", at |-> b, coins |-> view, db |-> db]
        off == IF level >= 3 THEN FoldLeft(DisconnectBlock, s, Reverse(Verified(b))) ELSE s
    IN  IF level >= 4 THEN Connected(off, Verified(b), Height(b)) ELSE off

(* The blocks whose operations VerifyDB takes off without a replacement.   *)
Dropped(b, level) ==
    CASE level < 3 -> <<>>
      [] level = 3 -> Verified(b)
      [] level > 3 -> SelectSeq(Verified(b), LAMBDA c : c = b)

(* The RPC verifychain.                                                    *)
VerifyChain(level) ==
    /\ pc = "idle"
    /\ aliasdb' = VerifyDB(best, coins, aliasdb, level).db
    /\ clean' = (clean /\ ~Touches(Dropped(best, level)))
    /\ UNCHANGED <<chain, walletBest, pc, indexed>>

(* CBlockLocator::GetBlockIndex: where the wallet's chain left this one.   *)
Locate(b) ==
    IF \E a \in ToSet(Chain(walletBest)) : IsAncestor(a, b)
    THEN CHOOSE a \in ToSet(Chain(walletBest)) :
            IsAncestor(a, b) /\ \A c \in ToSet(Chain(walletBest)) :
                                   IsAncestor(c, b) => Height(c) <= Height(a)
    ELSE Genesis

(* ReconstructNameIndex along pnext from block a up to b.                  *)
ReconstructNameIndex(db, a, b) ==
    LET scan == SelectSeq(Chain(b), LAMBDA c : Height(c) >= Height(a))
        block(d, c) == FoldLeft(LAMBDA e, t : IndexAlias(e, t, Height(c), -1),
                                d, tree[c].vtx)
    IN  FoldLeft(block, db, scan)

(* The index survives a start if it leads the coins on their own branch,   *)
(* and a rescan from below puts back what VerifyDB took off.               *)
StartKeepsIndex(b, level, from) ==
    /\ IsAncestor(b, indexed)
    /\ \/ ~Touches(Dropped(b, level))
       \/ from # b /\ Height(from) <= Height(Dropped(b, level)[1])

(* AppInit2: load the block index and the coins, verify, rescan when the   *)
(* wallet is behind, then look for better chains.  A node whose coins do   *)
(* not verify does not start (it would have to reindex).                   *)
Start(level, rescan) ==
    LET b == disk.best
        from == IF rescan THEN Genesis ELSE Locate(b)
        checked == VerifyDB(b, disk.coins, aliasdb, level)
    IN  /\ pc = "down"
        /\ checked.verdict = "valid"
        /\ valid' = Blocks \ failed
        /\ best' = b /\ coins' = disk.coins
        /\ aliasdb' = IF from = b THEN checked.db
                      ELSE ReconstructNameIndex(checked.db, from, b)
        /\ walletBest' = IF from = b THEN walletBest ELSE b
        /\ clean' = (clean /\ StartKeepsIndex(b, level, from))
        /\ pc' = "connect"
        /\ UNCHANGED <<tree, failed, disk, indexed>>

Next ==
    \/ \E p \in Blocks, vtx \in Bodies, seal \in Seals : ReceiveBlock(p, vtx, seal)
    \/ NothingToDo
    \/ FailDescendants
    \/ \E flush \in BOOLEAN : SetBestChain(flush)
    \/ SetBestChainFails
    \/ Shutdown
    \/ Crash
    \/ CrashInSwitch
    \/ \E level \in CheckLevels : VerifyChain(level)
    \/ \E level \in CheckLevels, rescan \in BOOLEAN : Start(level, rescan)

Spec == Init /\ [][Next]_vars

-------------------------------------------------------------------------------
(* Mining.                                                                 *)

(* Variant: each transaction is held against the coins of the tip.         *)
SelectAgainstTip(order) ==
    SelectSeq(order, LAMBDA t : Input[t] \in DOMAIN coins
                                /\ CheckAliasInputs(t, Height(best), coins, FALSE))

(* CreateNewBlock takes the pool's transactions in some order, each one    *)
(* that CheckInputs passes at the height of pindexBest ...                 *)
CreateNewBlock(order) ==
    LET take(s, t) ==
            IF Input[t] \in DOMAIN s.view /\ CheckAliasInputs(t, Height(best), s.view, FALSE)
            THEN [view |-> UpdateCoins(s.view, t, Height(best) + 1),
                  vtx |-> Append(s.vtx, t)]
            ELSE s
    IN  FoldLeft(take, [view |-> coins, vtx |-> <<>>], order).vtx

(* ... and throws unless they connect, fJustCheck, at the next height.     *)
TemplateConnects(vtx) ==
    LET check(s, t) ==
            [ok |-> /\ s.ok /\ Input[t] \in DOMAIN s.view
                    /\ CheckAliasInputs(t, Height(best) + 1, s.view, TRUE),
             view |-> UpdateCoins(s.view, t, Height(best) + 1)]
    IN  FoldLeft(check, [ok |-> TRUE, view |-> coins], vtx).ok

-------------------------------------------------------------------------------
(* Correctness.                                                            *)

(* Type correctness of the block index, the coins and the alias database;  *)
(* a failed block is no candidate (or ConnectBestBlock would spin on it).  *)
TypeOK ==
    /\ \A b \in Blocks : \A h \in DOMAIN Chain(b) : Chain(b)[h] \in Blocks
    /\ failed \cup valid \subseteq Blocks /\ failed \cap valid = {}
    /\ {best, disk.best, walletBest, indexed} \subseteq Blocks
    /\ DOMAIN coins \subseteq Coins /\ DOMAIN disk.coins \subseteq Coins
    /\ \A n \in Names : \A i \in DOMAIN aliasdb[n] :
          aliasdb[n][i].tx \in Txs /\ aliasdb[n][i].height \in Nat
    /\ pc \in {"idle", "connect", "down"}

(* Disconnecting undoes connecting: whatever reorganisations, failures and *)
(* crashes lie behind it, the coin view (pcoinsTip) is the one a replay of *)
(* the best chain from the genesis block gives, and every block of that    *)
(* chain connects.                                                         *)
CoinsExact ==
    LET s == Replay(best)
    IN  pc # "down" => s.verdict = "valid" /\ s.coins = coins

(* A restart never finds a corrupted database: VerifyDB passes on what the *)
(* last flush left, whenever the node stops.                               *)
RestartVerifies == VerifyDB(disk.best, disk.coins, aliasdb, 4).verdict = "valid"

(* The alias database is exactly what the indexed chain gives, through     *)
(* reorganisations, replays after a crash with unflushed coins, verifying  *)
(* and rescanning, as long as none of the events that clean records has    *)
(* happened.                                                               *)
IndexExact == clean => aliasdb = Replay(indexed).db

(* A chain that connects is passed over only behind one with as much work  *)
(* that does not: the loop of ConnectBestBlock ends at the best candidate. *)
BestUnlessObstructed ==
    pc = "idle" =>
        \A b \in Blocks : Replay(b).verdict = "valid" /\ Height(b) > Height(best) =>
            \E c \in Blocks : Replay(c).verdict # "valid" /\ Height(c) >= Height(b)

(* ConnectBestBlock always returns: every turn of its loop that does not   *)
(* end it either moves pindexBest to more work or removes a candidate.     *)
ConnectProgress ==
    [][pc = "connect" /\ pc' = "connect" =>
          Height(best)' > Height(best) \/ (valid' \subseteq valid /\ valid' # valid)]_vars

(* alias.cpp:436 refuses an "aliasactivate on an unexpired alias".         *)
NoActivationOfUnexpired ==
    LET ops(b) == {t \in ToSet(tree[b].vtx) : Indexed(t)}
    IN  \A b, c \in ToSet(Chain(best)) : \A t \in ops(b), u \in ops(c) :
            Op[u] = "activate" /\ Name[t] = Name[u] /\ Height(b) < Height(c)
                => Height(c) - Height(b) >= ExpirationDepth

(* A block template never makes CreateNewBlock throw (main.cpp:5072),      *)
(* whichever transactions the pool holds and in whichever order they are   *)
(* taken, unless it has an update of an alias that expires at exactly the  *)
(* height of the new block: the selection asks for the height before.      *)
TemplateConnectsUnlessExpiring ==
    pc = "idle" => \A t \in {x \in Txs : Input[x] \in DOMAIN coins}, u \in Txs :
        LET vtx == CreateNewBlock(<<t, u>>)
            expiring(w) == /\ Op[w] = "update" /\ Input[w] \in DOMAIN coins
                           /\ Height(best) + 1 - coins[Input[w]] = ExpirationDepth
        IN  TemplateConnects(vtx) \/ \E w \in ToSet(vtx) : expiring(w)
===============================================================================
