# A TLA+ model of syscoin

Syscoin is a node for a proof-of-work currency derived from Bitcoin 0.8, with
three services kept in the block chain: aliases (names that hold a value),
offers and certificates. This directory holds TLA+ specifications of its parts,
TLC configurations that check them on small instances, and proofs that TLAPS
checks. Source paths below are relative to the repository; `main.cpp` stands
for `src/main.cpp`, and so on.

## The system

| Part | State | Operations | What makes it hard |
| --- | --- | --- | --- |
| Script check queue (`checkqueue.h`) | queue, counters, verdict, under one mutex | add checks, execute batches, wait | threads that wait for each other, early failures, interruption |
| Best chain (`main.cpp`, `txdb.cpp`, `init.cpp`) | block index, candidates, coins, coin database | receive, connect, disconnect, flush, verify, start, stop | reorganisations that fail half way, crashes with unflushed coins |
| Alias service (`alias.cpp`) | a database with the history of every alias | new, activate, update; undo; rescan | the database is written in place while the coins are in a scratch view |
| Memory pool (`main.cpp`) | `mapTx`, `mapNextTx`, pending alias operations | accept, remove, resurrect, delete | dependent and conflicting transactions when the chain is reorganised |
| Orphan transactions (`main.cpp`) | two maps that mirror each other | add, erase, evict | parents that arrive late |
| Coin views (`main.cpp`, `txdb.cpp`) | two caches over a database, undo data | look up, spend, undo, flush | pruned entries that hide older ones, flushes that come late, crashes |
| Offers, certificates (`offer.cpp`, `cert.cpp`) | databases like that of the aliases | seven and five transaction kinds | undo code that is never reached, state copied along a chain of transactions |
| Fees and reward (`alias.cpp`, `offer.cpp`, `cert.cpp`, `main.cpp`) | three lists of fees | insert, subsidy | unsigned divisions, lists that never shrink |
| Block download (`main.cpp`, `net.cpp`) | orphan blocks, asked-for inventory, the sync node | inv, getdata, getblocks, block | connections lost with requests in flight, batches that continue only when their last block is asked for |
| Key pool and encryption (`wallet.cpp`, `walletdb.cpp`, `db.cpp`) | keys in memory and in `wallet.dat`, reservations | top up, reserve, keep, return, encrypt, rewrite | threads without the wallet's lock, a process that dies between two writes |
| Relocking (`rpcwallet.cpp`) | one time shared by the relocking threads | walletpassphrase, walletlock, walletpassphrasechange | threads that lock the wallet in the middle of a command |
| Wallet transactions (`wallet.cpp`) | transactions with spent flags | add, commit, select coins | conflicts seen in different orders |
| Address manager (`addrman.cpp`) | two bucketed tables, reference counts, a random permutation | add, good, attempt, select | four structures that must agree |
| Connections (`net.cpp`) | nodes, reference counts, bans, a semaphore | connect, disconnect, receive, send | a node freed while another thread uses it |
| Mining (`main.cpp`, `rpcmining.cpp`) | templates kept between calls | template, work, submit | templates that are stale when solved |

Almost all shared state is protected by `cs_main`, so a message, an RPC or the
arrival of a block is one atomic step. The exceptions, which the models take
apart, are the threads of the check queue, a crash in the middle of a switch of
the best chain, the wallet's pass over its transactions after the start, which
holds `cs_wallet` only, the reservations that are kept without `cs_wallet`, and
the threads that lock the wallet without it.

## Modules

`CheckQueue` models `checkqueue.h`. A critical section is a step; the order of
the queue is dropped, since the code itself says that it does not matter. A
thread is out of `Loop`, waiting, working on a batch or, after an interruption,
dead. The constructor of the control object reads the members without the
mutex, in two steps: first `nTotal` (`Construct`), then the others
(`Constructed`, or `AssertFails`, which ends the process). `SeenTotal`,
`SeenIdle`, `SeenTodo` and `SeenOk` are what such a read can return, the values
in the middle of a critical section included. `CheckVerdict` is what `ConnectBlock` relies on: a control object
collects checks and then delivers their conjunction. `CheckQueue` implements it
through the mapping in `ImplementsContract`.

`AliasChain` models one node's block tree, coins and alias database. A
transaction stands for its one output that matters: an alias output, or the
coin that pays for an `aliasnew`. All blocks carry the same work. The actions
are `ReceiveBlock`, the four outcomes of a turn of `ConnectBestBlock`
(`NothingToDo`, `FailDescendants`, `SetBestChain`, `SetBestChainFails`),
`Shutdown`, `Crash` and `CrashInSwitch`, `VerifyChain` (the RPC) and `Start`,
which verifies and rescans as `AppInit2` does. Inside, `ConnectBlock`,
`DisconnectBlock`, `VerifyDB` and `ReconstructNameIndex` are folds over the
transactions, with the effects on the coins and on the alias database that the
code has. The history variables `clean` and `indexed` record whether, and for
which chain, the alias database should be exact.

`MemPool` models `CTxMemPool`, the orphan transactions and
`mapAliasesPending`. A transaction is the outpoints it spends and creates; the
chain is a list of transactions with heights. A switch of the best chain
changes the chain in one step and then goes through its two loops
(`Resurrect`, `ResurrectFails`, `DeleteConfirmed`, `removeConflicts`) one
transaction at a time, with every other holder of `cs_main` disabled. `remove`
is the least set of transactions closed under `mapNextTx`.

Who puts back the wallet's transactions matters. `importprivkey` holds both
locks, and its `ReacceptWalletTransactions` is one step. The call after the
start (`init.cpp:1179`) comes when peers are already connected and holds
`cs_wallet` alone: `BeginPass`, then `LookUp` and `AcceptWalletTransaction` for
one transaction at a time, then `EndPass`. While it runs, an accept of another
thread is taken apart where the code holds no lock over the pool: `BeginAccept`
(no rival in `mapNextTx`), `FindInputs` or `MissInputs`, and the addition
(`Add`, `AddReceived`, `AddResurrected`) or `RefuseHeld`. A thread that wants to
tell the wallet of its addition waits for the pass to end (`awaited`), and a
switch goes on during a pass only with what comes after it has told the wallet
(`flushing`).

`Offers` models the offer service of a node that uses it: the five RPCs that
make transactions (`offernew`, `offeractivate`, `offerupdate`, `offeraccept`,
`offerpay`), `CheckOfferInputs` as blocks connect, the versions and accepts in
the offer database, the list of fee heights, and `mapTestPool`. `offernew` and
the others build a transaction from the database as it is at the call; it waits
in the pool until a block takes it, in any order the inputs allow.
`DisconnectBlocks` and `ConnectBlock` are a switch of the best chain, which may
fail half way. `VerifyDB` connects the last blocks again, over a scratch copy of
the coins but over the real offer database; it is called by `verifychain` and
by `Restart`, which may also lose the unflushed coins and may rescan. A start
whose verification fails is taken to be followed by one with a lower
`-checklevel`; starting over with `-reindex` is left out. `upsets` records what
else happened than that the chain grew: a failure after something was written,
an accept that a verification recorded although it had not fitted when its
block connected, a reorganisation, a crash, a rescan. The initial state has one offer announced and
activated.

`CoinsCache` models the three layers of unspent outputs: `CCoinsViewDB`,
`pcoinsTip` and the scratch view of `SetBestChain`. A layer is a function from
transactions to what is left of them; a lookup copies entries upwards
(`FetchCoins`), a spent transaction stays as a pruned entry until the database
erases it. The actions are the steps inside `SetBestChain` (`DisconnectBlock`,
`ConnectBlock`, `Fails`, and `SetBestChain` for its end, with or without a
flush to disk), `Flush` at shutdown and `Crash`. `undos` is the undo data on
disk, written once per block. `CoinsStore` is what the layers promise
together: one set of coins with its best block, changed, saved and restored as
a whole.

`AliasChain` also has coins, but as one map: there the question is how the
alias database, which has no scratch view, keeps up with them.

`AddrMan` models `CAddrMan`: its members are the fields of the record `am`,
and an operation is an operator that yields the set of its results, one for
each choice the random numbers and the clock can make (`Add`, `Good`,
`GetAddr`). Which buckets an address hashes to is a constant. `ShrinkNew`
removes any entry of the bucket, since which one is terrible or oldest depends
on times the model does not keep; `SelectTried` compares `nLastSuccess` as the
code does. `Restart` writes `peers.dat` and reads it again. A crash loads an
older file, written from an earlier state of the manager: the state it leads to
is one that `Restart` reached from there.

`KeyPool` models the keys that the wallet makes ahead of need: `setKeyPool` in
memory, the pool and key records of `wallet.dat`, and the reservations
(`CReserveKey`). An operation takes `cs_wallet` (`Ask`), fills the pool one key
at a time, with the key and its pool record written in two steps
(`GenerateNewKey`, `PoolKey`), and then reserves a key or gives it out
(`ReserveKeyFromKeyPool`). `KeepKey` needs no lock and `Lock` neither, so they
come between any two of these steps; `Relocked` is what an operation makes of
it. Encryption is `EncryptWallet` (up to the commit of the transaction that
replaces the keys), `EraseOld` and the same two steps for the new pool, and
the copy, removal and renaming of `CDB::Rewrite`. `Restart` ends the process at
any moment and loads what the file holds. Writes are durable once made and
succeed. Left out: the default key, which is shared on purpose; `AddReserveKey`,
which nothing calls; a second rewrite over the
leftover of a first; upgrades of the file.

`WalletRelock` models the time for which a wallet stays unlocked, with the
threads that `walletpassphrase` starts. A thread reads the clock, enters
`cs_nWalletUnlockTime`, sleeps and looks again, as
`ThreadCleanWalletPassphrase` does; `walletpassphrasechange` is four steps,
between which threads run. A time is the number of ticks left, so that time has
no bound. `due`, `owner` and `abandoned` are history: what was promised last,
by which thread, and whether an unlocked wallet was left without any. The
wallet is locked at the start. Left out are the two ways to unlock it without
a time, which no thread ends and which the properties would count as
`abandoned`: the graphical client, and the option `-walletpassword`
(`init.cpp:1077`).

`BlockSync` models several nodes that run the same code and get each other's
blocks: `ProcessMessages` for `inv`, `getdata`, `getblocks` and `block`,
`SendMessages`, `StartSync`, `ProcessBlock` with its orphans, `CheckWork` for a
block that is found, and connections that are made and lost with everything in
flight. A block is the sequence of choices that leads to it from the first
block, so that its ancestors are its prefixes; all are acceptable and carry the
same work. Repeated requests (`mapAskFor` with a time two minutes later) move
to the present by `RetryDue`. Left out: checkpoints, invalid blocks, the limits
on send buffers and on `setInventoryKnown`, and the rule of `ProcessGetData`
not to answer a peer that has asked for more blocks than 80 bytes each of what
was sent to it would make (`nBlocksRequested`, `main.cpp:3809`), which makes an
honest peer wait and does not drop its request; the exchange of versions is one
step; a locator names every block, which the code's does for the last ten.

`MC_*` modules give the constants values; `*Proofs` modules hold theorems.

## What TLC checks

| Run | Shows |
| --- | --- |
| `checkqueue` | between two blocks the queue is as new, no return before every check has run, the right verdict, the counter `nTodo`; refinement of `CheckVerdict` with liveness: no lost wakeup |
| `alias_reorg` | coins equal a replay of the best chain; a restart always verifies; the alias index is exact while `clean`; a block template connects unless it updates an alias that expires at the next height, which `CreateNewBlock` selects and then throws on |
| `alias_failures` | failed blocks never come back as candidates; a better chain is passed over only behind one that does not connect; every turn of `ConnectBestBlock` gains work or drops a candidate, so it returns |
| `mempool_spend` | the pool's maps agree, nothing confirmed stays, inputs are available, until an accept that the wallet's pass cut in two overwrites an entry of `mapNextTx`; the orphan maps agree |
| `offers` | versions and accepts in the database equal what the chain says while the chain only grows and verifies, and the fee heights are kept newest first; no more is sold than offered, unless the index was rescanned; a payment the RPC made can be connected |
| `coins` | each layer shows exactly what its own chain leaves unspent; everything connected can be undone without the "database corrupted" errors; the layers implement `CoinsStore` |
| `addrman` | `Check_`, the consistency check the code has for debugging, never fails; `peers.dat` restores every entry with its buckets; a tried address is never forgotten |
| `keypool` | no key is given out twice and the pool can be read, unless a pool record was written over while its number was reserved; keys given out survive a process that dies in the middle of encryption; before encryption no record is written over |
| `relock` | an unlocked wallet always has a thread that will lock it, unless it was left without one; no thread cuts the latest timeout short; the wallet is locked again |
| `blocksync` | an orphan never stays behind its parent; the index is closed and the best block the highest; nodes come to chains of the same length, apart from two cases in which the download stalls |

`alias_unexpired` and `relock_forever` are expected to be violated: each states
something that a comment or message of the repository says and that the code
does not do. `PROJECT.json` quotes the lines (`findings`). `relock_forever`
excludes the faults that `relock` allows (a thread that does not start, a
passphrase that cannot be turned into a key): what remains is a timeout that
comes while `walletpassphrasechange` is at work.

The exceptions in properties are behaviour of the code, not of the model.

The first assertion of `CCheckQueueControl`, `nTotal == nIdle`, can fail: it
reads both without the mutex, and a worker that starts has counted itself in
one of them only, while a worker that wakes (spuriously, or late) has left
`nIdle` for a moment. The model has this as `AssertFails`. What `QueueUnused`
claims is that the two are equal whenever no critical section is under way, and
that the other two assertions cannot fail wherever their reads fall. The
refinement of `CheckVerdict` speaks of rounds that begin; a process that aborts
begins none.

`accept` looks for rivals in `mapNextTx` under `mempool.cs`, gives the lock up
to look at inputs and scripts, and takes it again to add. If the wallet's pass
adds a rival in between, the addition overwrites its entry in `mapNextTx`
(`raced`). From then on the pool holds a double spend, and a block that
confirms one of the two leaves the other behind with its input gone, until a
restart. `NextTxExact` says that this needs a transaction put back unchecked by
the wallet, and with `InputsAvailable` that nothing else breaks the pool.

`VerifyDB` records the accepts below the tip again, unpaid, and does not reach
the payments in the tip. What keeps this from going unnoticed is
`mapTestPool`: the payment clashes with the accept written a moment ago, as an
update of an offer in the tip does with any operation on it below, and the
verification fails. The same start that would have lost the payment therefore
reports a corrupted block database, and leaves the accept unpaid in the offer
database. `AcceptsExact` holds through every verification that succeeds.

A pool emptied while the wallet is locked is numbered from 1 again, over the
records of keys still reserved (`overwritten`). A node whose own side chain is
at least as long as a batch is announced the same batch again and again, and a
node that has the last block of a batch already never asks for it, so that its
peer does not go on (`InSyncUnlessStalled`); both last until another block is
announced.

Bounds. `checkqueue` has a master, two workers and four checks of which two
may fail: the smallest numbers with a batch of more than one check, two threads
that fail and a thread that finds the queue empty. `alias_reorg` starts from three blocks and adds three: enough for a
branch of two blocks to replace one of one or two, to fail half way, and to be
followed by a crash, a restart and another block. `alias_failures` adds four
blocks to two. `mempool_spend` has a chain of
three dependent transactions, one that conflicts with the second of them, which
is the wallet's, branches of two
transactions in two blocks, one orphan and up to three blocks, so that a
transaction is confirmed, lost, resurrected and confirmed elsewhere, and put
back by the wallet between the check and the addition of its rival.
`offers` has two offers, two accepts of one unit each out of one, updates that
raise or lower it, four
blocks of which two are verified at a time, five transactions and at most one
upset; one wallet makes all of them,
which allows every RPC that several wallets could make. A late accept whose
verification succeeds needs a fifth block; with five blocks, verified at any
depth, and offers of one or two units the same properties hold on 2,283,420
states, which takes twenty minutes. `coins` has five blocks
on branches of height up to three, with two outputs spent one by one, by one
transaction, and in the block that makes them, and a transaction that is mined
again after it was spent. `addrman` has four addresses, one with two ports, two
new buckets of one entry and a tried bucket of two: an evicted entry finds its
own bucket free or full, and an address is in one bucket, in two or deleted.
`keypool` has two reservations, `-keypool` 1 and five keys: a pool is filled,
emptied, encrypted, made anew and emptied again. `relock` has three threads at a
time, one more than can wait for one time, and timeouts of up to two ticks.
`blocksync` has two nodes, batches of two blocks, one node two batches ahead
and the other on a side chain that may grow to the length of a batch, two more
blocks to be found and one lost connection.
`offers` does not check deadlock: it stops when the
blocks and transactions of its bounds are used up. Nor does `blocksync`: nodes
in sync are quiet.
`ExpirationDepth`, `MinActivateDepth`, `Maturity` and `LocatorPeriod` are small
numbers that make their boundaries reachable.

Fairness. `checkqueue` assumes weak fairness of every thread: the operating
system runs threads that are able to run. `relock` assumes the same of every
relocking thread, of a command that has begun and of the clock; nobody is
obliged to send a command. `blocksync` assumes it of each node's message
handler as a whole, which goes through its connections in turn for as long as
there is something to do, and that lost connections are made again; no block
need ever be found. The other runs check safety only.

## What is proved

`CheckQueueProofs`, for any number of workers and checks and any batch size:
an inductive invariant, types included, that ties `nTodo`, `fAllOk`, `nTotal`
and `nIdle` to the threads' batches, and from it `QueueUnused`,
`QueueFinished`, `VerdictExact` and `TodoExact`. The counting facts (the
batches are disjoint, so `nTodo` is the size of their union with the queue)
are the core of it.

`MemPoolSteps` (the invariant and what each operation does to it) and
`MemPoolProofs`, for any finite set of transactions, any chain, branches and
wallet: `NextTxExact`, `PoolUnconfirmed`, `InputsAvailable` and
`OrphanMapsExact`. `PoolUnconfirmed` and `InputsAvailable` only hold between
switches, so the invariant says what a switch still owes: an input that is
missing belongs to a transaction still to be resurrected, or its spender
conflicts with one still to be deleted (`SwitchInputs`); a confirmed
transaction in the pool is still to be deleted (`SwitchPool`). `Held` says what
an accept cut in two may still rely on when it adds: inputs once found stay,
since whoever could take them waits for `cs_main`, and a rival can only have
come from the wallet. `DeleteStep`
uses that a valid chain spends an output only after creating it, and
`DescendantsClosed` that a removal leaves no spender behind.

`CoinsCacheProofs`, for any transactions, blocks and bounds: the layers
implement `CoinsStore` (`CoinsImplementStore`). Two facts about lookups carry
it, that copying an entry upwards changes nothing that can be seen and that
looking through layers is associative, and one about flushes: writing a cache
into the database leaves there what was seen through the cache, because a
pruned entry erases. It needs no inductive invariant. That the coins are the
right ones (`LayersExact`) rests on folds over blocks and is left to TLC.

`KeyPoolProofs`, for any set of reservations, any `-keypool` and any number of
keys: `TypeOK`, `NeverTwice`, `PoolReadable`, `KeysKept` (`KeyPoolSafe`) and
`NumbersApart` (`UnencryptedApart`). The properties speak of keys while the
operations compare numbers; what links them is the pool on disk, which maps
numbers to different keys, none of them given out, and still holds the key of
every reservation (`Disk`, as long as nothing was overwritten). `Stored` says
where private keys are, `Rewriting` that the copy is exact while a rewrite is
under way. For `NumbersApart` the invariant adds that above every reserved
number there is one in memory (`Ahead`), so that the next number is above both;
this rests on the pool being filled to one more than asked before a number is
taken.

`WalletRelockProofs`, for any threads and timeouts: `TypeOK` and `Watched`
(`AlwaysWatched`) and `NotEarly` (`NeverEarly`). The invariant names the
sleeper of the time agreed on (`Sleeper`), asks for a thread also while a change
of passphrase is going to unlock the wallet for good (`Guarded`), and ties the
latest timeout to its own thread or to the time agreed on (`Promise`).

The invariants of these proofs contain the `TypeOK` of `CheckQueue`, `MemPool`,
`KeyPool` and `WalletRelock`, which the runs therefore do not repeat. The
assumptions are those on the constants, evaluated by TLC in every run.

## What is only model-checked, and what is not modelled

Liveness and the refinement of `CheckVerdict` are checked by TLC only. So is
everything about `AliasChain`, `Offers`, `AddrMan` and `BlockSync`, whose
operators are folds over sequences, yield sets of results, or rest on liveness.

Alias database writes are taken to survive a crash of the process (LevelDB has
its own log); power failures are not modelled. `PROJECT.json` lists every part
of the system with its modules or the reason it has none:

- hashing, signatures, scripts, proof of work, the difficulty, bloom filters
  and amounts are arithmetic on large numbers and byte strings; where a model
  depends on their outcome it is a constant or a choice;
- block files, sockets, formats, option parsing and the user interface are
  input and output;
- the certificate service has the structure of the offers and would need a
  module of its own, as would the spent flags and coin selection of the wallet,
  the flush thread of the wallet database, the reference counts of connections
  and the work caches of the mining RPCs; none of these is modelled.
