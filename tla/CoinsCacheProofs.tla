--------------------------- MODULE CoinsCacheProofs ---------------------------
(***************************************************************************)
(* The layers of coins views implement CoinsStore, for any transactions,   *)
(* blocks and bounds.  No invariant is needed: what a layer shows depends  *)
(* on the layers alone, so each step is followed by lemmas on lookups and  *)
(* flushes.                                                                *)
(***************************************************************************)
EXTENDS CoinsCache, TLAPS

(* Looking coins up (FetchCoins) copies them into pcoinsTip and changes    *)
(* nothing that can be seen through it.                                    *)
LEMMA FetchKeepsTip ==
    ASSUME NEW S, FetchCoins(S), db' = db
    PROVE  Tip' = Tip
BY DEF FetchCoins, Tip, See

(* A new view shows what is below it.                                      *)
LEMMA EmptyShowsBase ==
    ASSUME NEW c
    PROVE  Visible(See(Empty, c)) = Visible(c)
BY DEF Visible, See, Empty

(* Flushing a cache into the database (BatchWrite) leaves there what was   *)
(* seen through the cache, the erased entries included.                    *)
LEMMA FlushKeepsVisible ==
    ASSUME NEW cache, NEW base
    PROVE  Visible(BatchWriteCoins(cache, base)) = Visible(See(cache, base))
BY DEF Visible, See, BatchWriteCoins, IsPruned

(* Flushing a view into the cache below it (Flush) leaves the same entries *)
(* to be seen.                                                             *)
LEMMA SeeAssociative ==
    ASSUME NEW a, NEW b, NEW c
    PROVE  See(See(a, b), c) = See(a, See(b, c))
BY DEF See

(* The initial state maps to an initial state.                             *)
LEMMA InitImplements == Init => Store!Init
<1>1. SUFFICES ASSUME Init PROVE Store!Init
  OBVIOUS
<1>2. Visible(Tip) = Visible(db)
  BY <1>1, EmptyShowsBase DEF Init, Tip
<1>3. Visible(View) = Visible(Tip)
  BY <1>1, EmptyShowsBase DEF Init, View
<1>4. QED
  BY <1>1, <1>2, <1>3 DEF Init, Store!Init

(* Every step of the layers is a step of the store, or changes nothing of  *)
(* it.                                                                     *)
LEMMA StepImplements == [Next]_vars => [Store!Next]_Store!vars
<1> SUFFICES ASSUME [Next]_vars PROVE [Store!Next]_Store!vars
  OBVIOUS
<1>1. ASSUME NEW b \in Bodies, ConnectBlock(b) PROVE Store!Edit
  <2>1. Tip' = Tip
    BY <1>1, FetchKeepsTip DEF ConnectBlock
  <2>2. QED
    BY <1>1, <2>1 DEF ConnectBlock, Store!Edit, Visible
<1>2. CASE DisconnectBlock
  <2>1. Tip' = Tip
    BY <1>2, FetchKeepsTip DEF DisconnectBlock
  <2>2. Store!Edit
    BY <1>2, <2>1 DEF DisconnectBlock, Store!Edit, Visible
  <2>3. QED
    BY <2>2 DEF Store!Next
<1>3. ASSUME NEW b \in Bodies, Fails(b) PROVE Store!Abandon
  <2>1. PICK S \in SUBSET Touched(b) : FetchCoins(S)
    BY <1>3 DEF Fails
  <2>2. Tip' = Tip
    BY <1>3, <2>1, FetchKeepsTip DEF Fails
  <2>3. Visible(View)' = Visible(Tip)
    BY <1>3, <2>2, EmptyShowsBase DEF Fails, View
  <2>4. Visible(Tip)' = Visible(Tip) /\ Visible(db)' = Visible(db)
    BY <1>3, <2>2 DEF Fails, Visible
  <2>5. QED
    BY <1>3, <2>3, <2>4 DEF Fails, Store!Abandon
<1>4. ASSUME NEW flush \in BOOLEAN, SetBestChain(flush) PROVE Store!Commit
  <2>1. Visible(See(See(view, tip), db)) = Visible(View)
    BY SeeAssociative DEF View, Tip
  <2>2. CASE flush = TRUE
    <3>1. db' = BatchWriteCoins(See(view, tip), db) /\ dbChain' = vChain /\ tip' = Empty
      BY <1>4, <2>2 DEF SetBestChain, BatchWrite
    <3>2. Visible(db') = Visible(View)
      BY <2>1, <3>1, FlushKeepsVisible
    <3>3. Visible(Tip') = Visible(View)
      BY <3>1, <3>2, EmptyShowsBase DEF Tip
    <3>4. Visible(View') = Visible(View)
      BY <1>4, <3>3, EmptyShowsBase DEF SetBestChain, View
    <3>5. QED
      BY <1>4, <3>1, <3>2, <3>3, <3>4 DEF SetBestChain, Store!Commit
  <2>3. CASE flush = FALSE
    <3>1. tip' = See(view, tip) /\ db' = db /\ dbChain' = dbChain
      BY <1>4, <2>3 DEF SetBestChain
    <3>2. Visible(Tip') = Visible(View)
      BY <2>1, <3>1 DEF Tip
    <3>3. Visible(View') = Visible(View)
      BY <1>4, <3>2, EmptyShowsBase DEF SetBestChain, View
    <3>4. QED
      BY <1>4, <3>1, <3>2, <3>3 DEF SetBestChain, Store!Commit
  <2>4. QED
    BY <2>2, <2>3
<1>5. CASE Flush
  <2>1. db' = BatchWriteCoins(tip, db) /\ dbChain' = chain /\ tip' = Empty
    BY <1>5 DEF Flush, BatchWrite
  <2>2. Visible(db') = Visible(Tip)
    BY <2>1, FlushKeepsVisible DEF Tip
  <2>3. Visible(Tip') = Visible(Tip)
    BY <2>1, <2>2, EmptyShowsBase DEF Tip
  <2>4. Visible(View) = Visible(Tip) /\ Visible(View') = Visible(Tip')
    BY <1>5, EmptyShowsBase DEF Flush, View
  <2>5. Store!Save
    BY <1>5, <2>1, <2>2, <2>3, <2>4 DEF Flush, Store!Save
  <2>6. QED
    BY <2>5 DEF Store!Next
<1>6. CASE Crash
  <2>1. Visible(Tip') = Visible(db)
    BY <1>6, EmptyShowsBase DEF Crash, Tip
  <2>2. Visible(View') = Visible(db)
    BY <1>6, <2>1, EmptyShowsBase DEF Crash, View
  <2>3. Store!Crash
    BY <1>6, <2>1, <2>2 DEF Crash, Store!Crash
  <2>4. QED
    BY <2>3 DEF Store!Next
<1>7. CASE UNCHANGED vars
  BY <1>7 DEF vars, Store!vars, View, Tip, See, Visible
<1>8. QED
  BY <1>1, <1>2, <1>3, <1>4, <1>5, <1>6, <1>7 DEF Next, Store!Next

(* For every choice of transactions and blocks, the coin database, the     *)
(* cache and the scratch view behave as one store that changes as a whole, *)
(* is saved with its best block as a whole, and comes back from a crash as *)
(* it was saved (SetBestChain, CCoinsViewCache::Flush,                     *)
(* CCoinsViewDB::BatchWrite).                                              *)
THEOREM CoinsImplementStore == Spec => ImplementsStore
BY InitImplements, StepImplements, PTL DEF Spec, ImplementsStore, Store!Spec
===============================================================================
