------------------------------ MODULE CoinsCache ------------------------------
(***************************************************************************)
(* The unspent outputs, in three layers: the coin database (CCoinsViewDB), *)
(* the cache pcoinsTip above it, and the scratch view in which a switch of *)
(* the best chain connects and disconnects blocks.                         *)
(*                                                                         *)
(* A layer maps a transaction to the outputs it has left and the height it *)
(* was mined at, or does not know it (Absent).  An entry without outputs   *)
(* is pruned: it hides the layer below, and the database erases it.        *)
(* Looking something up copies it into every cache on the way.             *)
(*                                                                         *)
(* A block stands for its transactions; the coinbase every block has is    *)
(* among them when something spends it.                                    *)
(***************************************************************************)
EXTENDS Integers, Sequences, FiniteSets

CONSTANTS
    Txs,
    Ins,        \* Ins[t]: the outpoints [tx, n] t spends, in order
    Outs,       \* Outs[t]: the outputs of t, a set of numbers
    Bodies,     \* the blocks there can be, sequences of transactions
    MaxHeight,  \* bound: height of the chain
    MaxBlocks,  \* bound: blocks ever connected, on all branches
    Absent

Outpoint == [tx : Txs, n : Nat]

ASSUME CoinsAssumption ==
    /\ Ins \in [Txs -> Seq(Outpoint)]
    /\ Outs \in [Txs -> SUBSET Nat]
    /\ \A b \in Bodies : b \in Seq(Txs)
    /\ MaxHeight \in Nat /\ MaxBlocks \in Nat

VARIABLES
    db, dbChain,    \* the database, and the chain of the best block in it
    tip, chain,     \* pcoinsTip
    view, vChain,   \* the scratch view; it is new when vChain = chain
    undos           \* the undo data on disk: the chain up to a block -> CBlockUndo

vars == <<db, dbChain, tip, chain, view, vChain, undos>>

Empty == [t \in Txs |-> Absent]

(* A lookup through a cache.                                               *)
See(cache, base) == [t \in Txs |-> IF cache[t] = Absent THEN base[t] ELSE cache[t]]
Tip == See(tip, db)
View == See(view, Tip)

HaveCoins(c, t) == c[t] # Absent
IsPruned(c) == c.outs = {}
IsAvailable(c, o) == HaveCoins(c, o.tx) /\ o.n \in c[o.tx].outs

-------------------------------------------------------------------------------
(* Spending an output, and the undo data for it: the height, only when it  *)
(* was the last output of its transaction.                                 *)

(* Variant: the undo data always has the height.                           *)
UndoWithHeight(c, o) == [n |-> o.n, height |-> c[o.tx].height]

UndoFor(c, o) ==
    [n |-> o.n, height |-> IF c[o.tx].outs = {o.n} THEN c[o.tx].height ELSE 0]
Spend(c, o) == [c EXCEPT ![o.tx].outs = @ \ {o.n}]

(* The coins before the i-th input of t is spent.                          *)
BeforeInput(c, t, i) ==
    LET f[j \in 1 .. Len(Ins[t]) + 1] == IF j = 1 THEN c ELSE Spend(f[j - 1], Ins[t][j - 1])
    IN  f[i]

HaveInputs(c, t) == \A i \in DOMAIN Ins[t] : IsAvailable(c, Ins[t][i])
UpdateCoins(c, t, h) ==
    [BeforeInput(c, t, Len(Ins[t]) + 1) EXCEPT ![t] = [outs |-> Outs[t], height |-> h]]
TxUndo(c, t) == [i \in DOMAIN Ins[t] |-> UndoFor(BeforeInput(c, t, i), Ins[t][i])]

(* The coins before the i-th transaction of block b at height h.           *)
BeforeTx(c, b, h, i) ==
    LET f[j \in 1 .. Len(b) + 1] == IF j = 1 THEN c ELSE UpdateCoins(f[j - 1], b[j - 1], h)
    IN  f[i]

(* No transaction is overwritten unless it is spent completely, and every  *)
(* input is there.                                                         *)
Connects(c, b, h) ==
    /\ \A i \in DOMAIN b : HaveCoins(c, b[i]) => IsPruned(c[b[i]])
    /\ \A i \in DOMAIN b : HaveInputs(BeforeTx(c, b, h, i), b[i])
BlockUndo(c, b, h) == [i \in DOMAIN b |-> TxUndo(BeforeTx(c, b, h, i), b[i])]

-------------------------------------------------------------------------------
(* Undoing a block: its transactions, and the inputs of each, backwards.   *)

NoCoins == [outs |-> {}, height |-> 0]

(* Is what the undo data goes into what it should be?                      *)
CleanInput(c, o, undo) ==
    /\ undo.height # 0 <=> ~HaveCoins(c, o.tx) \/ IsPruned(c[o.tx])
    /\ ~IsAvailable(c, o)
RestoreInput(c, o, undo) ==
    LET was == IF undo.height # 0 \/ ~HaveCoins(c, o.tx)
               THEN [outs |-> {}, height |-> undo.height] ELSE c[o.tx]
    IN  [c EXCEPT ![o.tx] = [was EXCEPT !.outs = @ \cup {o.n}]]

(* The coins after the inputs from the i-th on are restored.               *)
AfterInput(c, t, undo, i) ==
    LET n == Len(Ins[t])
        f[j \in 0 .. n] == IF j = 0 THEN c
                           ELSE RestoreInput(f[j - 1], Ins[t][n + 1 - j], undo[n + 1 - j])
    IN  f[n + 1 - i]

UndoTx(c, t, undo) == AfterInput([c EXCEPT ![t] = NoCoins], t, undo, 1)
CleanTx(c, t, undo, h) ==
    /\ c[t] = [outs |-> Outs[t], height |-> h]
    /\ \A i \in DOMAIN Ins[t] :
          CleanInput(AfterInput([c EXCEPT ![t] = NoCoins], t, undo, i + 1), Ins[t][i], undo[i])

(* The coins after the transactions from the i-th on are undone.           *)
AfterTx(c, b, undo, i) ==
    LET n == Len(b)
        f[j \in 0 .. n] == IF j = 0 THEN c ELSE UndoTx(f[j - 1], b[n + 1 - j], undo[n + 1 - j])
    IN  f[n + 1 - i]
CleanBlock(c, b, undo, h) ==
    \A i \in DOMAIN b : CleanTx(AfterTx(c, b, undo, i + 1), b[i], undo[i], h)

-------------------------------------------------------------------------------
(* The caches.                                                             *)

(* What connecting or undoing a block looks up.                            *)
Touched(b) == {b[i] : i \in DOMAIN b}
              \cup UNION {{Ins[b[i]][j].tx : j \in DOMAIN Ins[b[i]]} : i \in DOMAIN b}
FetchCoins(S) ==
    tip' = [t \in Txs |-> IF t \in S /\ view[t] = Absent THEN Tip[t] ELSE tip[t]]
Cached(c, S) == [t \in Txs |-> IF t \in S THEN c[t] ELSE view[t]]

(* Variants: a pruned entry is written; one is passed over.                *)
WritePruned(cache, base) == See(cache, base)
PassOverPruned(cache, base) ==
    [t \in Txs |-> IF cache[t] = Absent \/ IsPruned(cache[t]) THEN base[t] ELSE cache[t]]

(* A pruned entry erases what the database has.                            *)
BatchWriteCoins(cache, base) ==
    [t \in Txs |-> IF cache[t] = Absent THEN base[t]
                   ELSE IF IsPruned(cache[t]) THEN Absent ELSE cache[t]]

(* Variant: the best block is left for later.                              *)
WriteCoinsOnly(cache, ch) == db' = BatchWriteCoins(cache, db) /\ dbChain' = dbChain

(* One batch for the coins and the best block.                             *)
BatchWrite(cache, ch) == db' = BatchWriteCoins(cache, db) /\ dbChain' = ch

-------------------------------------------------------------------------------
(* SetBestChain first disconnects, then connects; a block that fails, or   *)
(* cannot be read, ends it and the scratch view is gone.                   *)

Fork == Len(vChain) <= Len(chain) /\ vChain = SubSeq(chain, 1, Len(vChain))

ConnectBlock(b) ==
    LET h == Len(vChain) + 1
    IN  /\ h <= MaxHeight
        /\ Connects(View, b, h)
        /\ FetchCoins(Touched(b))
        /\ view' = Cached(BeforeTx(View, b, h, Len(b) + 1), Touched(b))
        /\ vChain' = Append(vChain, b)
        /\ Cardinality(DOMAIN undos \cup {vChain'}) <= MaxBlocks
        /\ undos' = [ch \in DOMAIN undos \cup {vChain'} |->
                        IF ch \in DOMAIN undos THEN undos[ch] ELSE BlockUndo(View, b, h)]
        /\ UNCHANGED <<db, dbChain, chain>>

DisconnectBlock ==
    LET h == Len(vChain)
        b == vChain[h]
        undo == undos[vChain]
    IN  /\ Fork /\ h > 0
        /\ CleanBlock(View, b, undo, h)
        /\ FetchCoins(Touched(b))
        /\ view' = Cached(AfterTx(View, b, undo, 1), Touched(b))
        /\ vChain' = SubSeq(vChain, 1, h - 1)
        /\ UNCHANGED <<db, dbChain, chain, undos>>

(* Block b is not connected, or not undone: its inputs, its scripts, the   *)
(* services, the undo data, the disk.  Some of what it needs has been      *)
(* looked up by then.                                                      *)
Fails(b) ==
    /\ \E S \in SUBSET Touched(b) : FetchCoins(S)
    /\ view' = Empty /\ vChain' = chain
    /\ UNCHANGED <<db, dbChain, chain, undos>>

(* The end of SetBestChain: the view goes into pcoinsTip, and pcoinsTip    *)
(* into the database unless a download is going on and the cache is small. *)
SetBestChain(flush) ==
    /\ Len(vChain) > Len(chain)
    /\ chain' = vChain
    /\ view' = Empty
    /\ IF flush
       THEN BatchWrite(See(view, tip), vChain) /\ tip' = Empty
       ELSE tip' = See(view, tip) /\ UNCHANGED <<db, dbChain>>
    /\ UNCHANGED <<vChain, undos>>

(* At shutdown, when nothing is being switched.                            *)
Flush ==
    /\ view = Empty /\ vChain = chain
    /\ BatchWrite(tip, chain) /\ tip' = Empty
    /\ UNCHANGED <<chain, view, vChain, undos>>

Crash ==
    /\ tip' = Empty /\ chain' = dbChain
    /\ view' = Empty /\ vChain' = dbChain
    /\ UNCHANGED <<db, dbChain, undos>>

Init ==
    /\ db = Empty /\ tip = Empty /\ view = Empty
    /\ dbChain = <<>> /\ chain = <<>> /\ vChain = <<>>
    /\ undos = [ch \in {} |-> <<>>]

Next ==
    \/ \E b \in Bodies : ConnectBlock(b) \/ Fails(b)
    \/ DisconnectBlock
    \/ \E flush \in BOOLEAN : SetBestChain(flush)
    \/ Flush
    \/ Crash

Spec == Init /\ [][Next]_vars

-------------------------------------------------------------------------------
(* What is checked.                                                        *)

Coins == [outs : SUBSET UNION {Outs[t] : t \in Txs}, height : 0 .. MaxHeight]

(* The types of the layers.  "only !IsPruned() CCoins can be serialized":  *)
(* nothing pruned is in the database.                                      *)
TypeOK ==
    /\ db \in [Txs -> {c \in Coins : ~IsPruned(c)} \cup {Absent}]
    /\ tip \in [Txs -> Coins \cup {Absent}]
    /\ view \in [Txs -> Coins \cup {Absent}]

(* What is unspent after a chain, told from the chain alone: the outputs   *)
(* of the last copy of a transaction that nothing after it spends.         *)
Places(ch) == UNION {{<<h, i>> : i \in DOMAIN ch[h]} : h \in DOMAIN ch}
Before(p, q) == p[1] < q[1] \/ (p[1] = q[1] /\ p[2] < q[2])
Unspent(ch) ==
    LET TxAt(p) == ch[p[1]][p[2]]
        Copies(t) == {p \in Places(ch) : TxAt(p) = t}
        LastCopy(t) == CHOOSE p \in Copies(t) : \A q \in Copies(t) : ~Before(p, q)
        Left(t) == {n \in Outs[t] : \A q \in Places(ch) : Before(LastCopy(t), q) =>
                        \A i \in DOMAIN Ins[TxAt(q)] : Ins[TxAt(q)][i] # [tx |-> t, n |-> n]}
    IN  [t \in Txs |-> IF Copies(t) = {} \/ Left(t) = {} THEN Absent
                       ELSE [outs |-> Left(t), height |-> LastCopy(t)[1]]]

(* What a reader can tell of a layer: a pruned entry has no outputs, like  *)
(* a missing one.                                                          *)
Visible(c) == [t \in Txs |-> IF c[t] = Absent THEN Absent
                             ELSE IF IsPruned(c[t]) THEN Absent ELSE c[t]]

(* Each layer, looked at through what is above the database, holds exactly *)
(* the unspent outputs of its own chain: over blocks connected and undone  *)
(* in one scratch view, caches filled by lookups, flushes that come early, *)
(* late or never, failures and crashes (UpdateCoins, DisconnectBlock,      *)
(* Flush).                                                                 *)
LayersExact ==
    /\ Visible(db) = Unspent(dbChain)
    /\ Visible(Tip) = Unspent(chain)
    /\ Visible(View) = Unspent(vChain)

(* Whatever has been connected can be disconnected without DisconnectBlock *)
(* finding the database corrupted: the undo data written when a block was  *)
(* first connected fits, also after another branch, a crash, or a          *)
(* transaction that is mined again once it is spent completely.            *)
DisconnectsClean ==
    vChain # <<>> =>
        CleanBlock(View, vChain[Len(vChain)], undos[vChain], Len(vChain))

Store == INSTANCE CoinsStore WITH
    coins <- [at |-> chain, map |-> Visible(Tip)],
    edit  <- [at |-> vChain, map |-> Visible(View)],
    saved <- [at |-> dbChain, map |-> Visible(db)]

(* The three layers behave as one store: a switch of the best chain shows  *)
(* all at once or not at all, coins and best block reach the disk together *)
(* and a crash goes back to what was saved.                                *)
ImplementsStore == Store!Spec
===============================================================================
