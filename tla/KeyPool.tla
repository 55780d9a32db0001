-------------------------------- MODULE KeyPool --------------------------------
(***************************************************************************)
(* The wallet's key pool: keys generated ahead of need, numbered, kept in  *)
(* wallet.dat and handed out oldest first.                                 *)
(*                                                                         *)
(* setKeyPool is the pool in memory, the "pool" records of wallet.dat the  *)
(* one on disk.  A reservation (CReserveKey) takes a number out of memory  *)
(* only, and either keeps it (erases the record, without the wallet's      *)
(* lock) or returns it.  The operations that hold cs_wallet are split      *)
(* where the process may die between two writes, where another thread may  *)
(* keep its key, or where the relocking thread may lock an encrypted       *)
(* wallet (it does not take cs_wallet).                                    *)
(*                                                                         *)
(* A write to wallet.dat is durable once made (a process dies, not the     *)
(* machine) and succeeds.  Keys are numbered in the order in which they    *)
(* are made.  The default key, handed out when the pool is empty, is       *)
(* shared on purpose and not tracked.                                      *)
(***************************************************************************)
EXTENDS Naturals, FiniteSets

CONSTANTS
    Holders,      \* the CReserveKey objects of the process
    Keypool,      \* the argument -keypool
    MaxKeys       \* bound: keys made

(* What holds cs_wallet, other than a reservation being made.              *)
Stages == {"none", "refill", "getkey", "erase", "newpool", "copied", "removed"}

ASSUME KeyPoolAssumption ==
    /\ Keypool \in Nat
    /\ MaxKeys \in Nat
    /\ Holders \cap Stages = {}

VARIABLES
    setKeyPool,   \* numbers of the keys to hand out
    dpool,        \* wallet.dat: number -> key
    dkeys,        \* wallet.dat: keys with their private part, plain or encrypted
    crypted,      \* wallet.dat has a master key (in memory: fUseCrypto)
    rewritten,    \* keys in wallet.dat.rewrite
    locked,       \* vMasterKey is empty
    nIndex,       \* Holders -> number reserved, or 0 (-1 in the code)
    vchPubKey,    \* Holders -> its key, or 0
    made,         \* keys made so far
    fresh,        \* key made but not yet in the pool, or 0
    job,          \* who holds cs_wallet, and how far the operation is
    topping,      \* ... in TopUpKeyPool
    used,         \* keys given out for good: as an address, or in a transaction or block
    overwritten   \* some pool record was written over while its number was reserved

file == <<dpool, dkeys, crypted, rewritten>>
reservation == <<nIndex, vchPubKey>>
vars == <<setKeyPool, file, locked, reservation, made, fresh, job, topping, used, overwritten>>

(* The number after the largest one, or 1 (a set of one number).           *)
NextIndex(S) == IF S = {} THEN {1} ELSE {i + 1 : i \in {j \in S : \A k \in S : k <= j}}

Oldest(S) == {j \in S : \A k \in S : j <= k}

WritePool(i, k) == [j \in DOMAIN dpool \cup {i} |-> IF j = i THEN k ELSE dpool[j]]

(* Variant: the record stays.                                              *)
NotErased(i) == dpool

ErasePool(i) == [j \in DOMAIN dpool \ {i} |-> dpool[j]]

IsReserved(i) == \E h \in Holders : nIndex[h] = i

Init ==
    /\ setKeyPool = {} /\ dpool = <<>> /\ dkeys = {} /\ rewritten = {}
    /\ crypted = FALSE /\ locked = FALSE
    /\ nIndex = [h \in Holders |-> 0] /\ vchPubKey = [h \in Holders |-> 0]
    /\ made = 0 /\ fresh = 0 /\ job = "none" /\ topping = FALSE
    /\ used = {} /\ overwritten = FALSE

---------------------------------------------------------------------------
(* Taking cs_wallet and, unless the wallet is locked, entering             *)
(* TopUpKeyPool: to refill the pool (keypoolrefill, ThreadTopUpKeyPool),   *)
(* to get a key (GetKeyFromPool) or to reserve one.                        *)
Ask(w) ==
    /\ job = "none"
    /\ w = "refill" => ~locked
    /\ w \in Holders => nIndex[w] = 0
    /\ job' = w /\ topping' = ~locked
    /\ UNCHANGED <<setKeyPool, file, locked, reservation, made, fresh, used, overwritten>>

(* Variant: TopUpKeyPool stops one key earlier.                            *)
WantingFewer ==
    /\ topping \/ job = "newpool"
    /\ Cardinality(setKeyPool) < Keypool

(* Keys are wanted: TopUpKeyPool fills up to one more than the argument,   *)
(* NewKeyPool makes as many as the argument says.                          *)
Wanting ==
    \/ topping /\ Cardinality(setKeyPool) < Keypool + 1
    \/ job = "newpool" /\ Cardinality(setKeyPool) < Keypool

GenerateNewKey ==
    /\ Wanting /\ fresh = 0 /\ ~locked
    /\ made < MaxKeys
    /\ made' = made + 1 /\ fresh' = made + 1
    /\ dkeys' = dkeys \cup {made + 1}
    /\ UNCHANGED <<setKeyPool, dpool, crypted, rewritten, locked, reservation, job, topping,
                   used, overwritten>>

PoolKey ==
    /\ fresh # 0
    /\ \E i \in NextIndex(setKeyPool) :
        /\ dpool' = WritePool(i, fresh)
        /\ setKeyPool' = setKeyPool \cup {i}
        /\ overwritten' = (overwritten \/ IsReserved(i))
    /\ fresh' = 0
    /\ UNCHANGED <<dkeys, crypted, rewritten, locked, reservation, made, job, topping, used>>

(* The wallet was locked during the operation.  If TopUpKeyPool has        *)
(* already looked, GenerateNewKey throws and the operation ends; if not,   *)
(* it goes on with the pool as it is.                                      *)
Relocked ==
    /\ topping /\ Wanting /\ locked /\ fresh = 0
    /\ topping' = FALSE
    /\ job' = "none" \/ (job # "refill" /\ UNCHANGED job)
    /\ UNCHANGED <<setKeyPool, file, locked, reservation, made, fresh, used, overwritten>>

(* The end of TopUpKeyPool for its own sake.                               *)
Refilled ==
    /\ job = "refill" /\ fresh = 0 /\ ~Wanting
    /\ job' = "none" /\ topping' = FALSE
    /\ UNCHANGED <<setKeyPool, file, locked, reservation, made, fresh, used, overwritten>>

Readable(i) == i \in DOMAIN dpool /\ dpool[i] \in dkeys

(* The rest of ReserveKeyFromKeyPool, for a reservation or for             *)
(* GetKeyFromPool, which keeps the key at once.  Without a key in the pool *)
(* nothing is reserved; with an unreadable record it throws.               *)
ReserveKeyFromKeyPool ==
    /\ job \in Holders \cup {"getkey"}
    /\ fresh = 0 /\ ~Wanting
    /\ job' = "none" /\ topping' = FALSE
    /\ \/ setKeyPool = {} /\ UNCHANGED <<setKeyPool, dpool, reservation, used>>
       \/ \E i \in Oldest(setKeyPool) :
            /\ setKeyPool' = setKeyPool \ {i}
            /\ \/ ~Readable(i) /\ UNCHANGED <<dpool, reservation, used>>
               \/ /\ Readable(i) /\ job = "getkey"
                  /\ dpool' = ErasePool(i) /\ used' = used \cup {dpool[i]}
                  /\ UNCHANGED reservation
               \/ /\ Readable(i) /\ job # "getkey"
                  /\ nIndex' = [nIndex EXCEPT ![job] = i]
                  /\ vchPubKey' = [vchPubKey EXCEPT ![job] = dpool[i]]
                  /\ UNCHANGED <<dpool, used>>
    /\ UNCHANGED <<dkeys, crypted, rewritten, locked, made, fresh, overwritten>>

(* Variant: the reservation is not forgotten, and is returned later.       *)
KeepOnly(h) ==
    /\ job \notin {"copied", "removed"}
    /\ nIndex[h] # 0
    /\ dpool' = ErasePool(nIndex[h]) /\ used' = used \cup {vchPubKey[h]}
    /\ UNCHANGED <<setKeyPool, dkeys, crypted, rewritten, locked, reservation, made, fresh,
                   job, topping, overwritten>>

(* Erasing the record needs the database, which Rewrite locks.             *)
KeepKey(h) ==
    /\ job \notin {"copied", "removed"}
    /\ nIndex[h] # 0
    /\ dpool' = ErasePool(nIndex[h]) /\ used' = used \cup {vchPubKey[h]}
    /\ nIndex' = [nIndex EXCEPT ![h] = 0] /\ vchPubKey' = [vchPubKey EXCEPT ![h] = 0]
    /\ UNCHANGED <<setKeyPool, dkeys, crypted, rewritten, locked, made, fresh, job, topping,
                   overwritten>>

ReturnKey(h) ==
    /\ job = "none"
    /\ nIndex[h] # 0
    /\ setKeyPool' = setKeyPool \cup {nIndex[h]}
    /\ nIndex' = [nIndex EXCEPT ![h] = 0] /\ vchPubKey' = [vchPubKey EXCEPT ![h] = 0]
    /\ UNCHANGED <<file, locked, made, fresh, job, topping, used, overwritten>>

---------------------------------------------------------------------------
Unlock ==
    /\ job = "none" /\ crypted /\ locked
    /\ locked' = FALSE
    /\ UNCHANGED <<setKeyPool, file, reservation, made, fresh, job, topping, used, overwritten>>

Encrypting == job \in {"erase", "newpool", "copied", "removed"}

Lock ==
    /\ crypted /\ ~locked /\ ~Encrypting
    /\ locked' = TRUE
    /\ UNCHANGED <<setKeyPool, file, reservation, made, fresh, job, topping, used, overwritten>>

(* EncryptWallet up to the commit of the transaction that replaces every   *)
(* key by its encrypted form; before the commit nothing has changed on     *)
(* disk.  A second rewrite over a leftover wallet.dat.rewrite is out of    *)
(* the model.                                                              *)
EncryptWallet ==
    /\ job = "none" /\ ~crypted /\ rewritten = {}
    /\ crypted' = TRUE
    /\ job' = "erase"
    /\ UNCHANGED <<setKeyPool, dpool, dkeys, rewritten, locked, reservation, made, fresh,
                   topping, used, overwritten>>

(* NewKeyPool erases the old numbers one by one, then makes new keys.      *)
EraseOld ==
    /\ job = "erase"
    /\ \/ \E i \in Oldest(setKeyPool) :
            dpool' = ErasePool(i) /\ setKeyPool' = setKeyPool \ {i} /\ UNCHANGED job
       \/ setKeyPool = {} /\ job' = "newpool" /\ UNCHANGED <<setKeyPool, dpool>>
    /\ UNCHANGED <<dkeys, crypted, rewritten, locked, reservation, made, fresh, topping,
                   used, overwritten>>

(* Variant: wallet.dat is removed before it is copied.                     *)
RewriteNoCopy ==
    /\ job = "newpool" /\ fresh = 0 /\ ~Wanting
    /\ locked' = TRUE /\ job' = "copied"
    /\ UNCHANGED <<setKeyPool, file, reservation, made, fresh, topping, used, overwritten>>

(* The wallet is locked and copied to wallet.dat.rewrite; wallet.dat is    *)
(* removed; the copy takes its name.                                       *)
RewriteCopy ==
    /\ job = "newpool" /\ fresh = 0 /\ ~Wanting
    /\ locked' = TRUE /\ rewritten' = dkeys /\ job' = "copied"
    /\ UNCHANGED <<setKeyPool, dpool, dkeys, crypted, reservation, made, fresh, topping,
                   used, overwritten>>

RewriteRemove ==
    /\ job = "copied" /\ job' = "removed"
    /\ UNCHANGED <<setKeyPool, file, locked, reservation, made, fresh, topping, used, overwritten>>

RewriteRename ==
    /\ job = "removed" /\ job' = "none"
    /\ rewritten' = {}
    /\ UNCHANGED <<setKeyPool, dpool, dkeys, crypted, locked, reservation, made, fresh, topping,
                   used, overwritten>>

(* The process ends, at any moment, and LoadWallet reads wallet.dat, which *)
(* is created empty if it is missing.                                      *)
Restart ==
    /\ IF job = "removed"
       THEN dpool' = <<>> /\ dkeys' = {} /\ crypted' = FALSE
       ELSE UNCHANGED <<dpool, dkeys, crypted>>
    /\ setKeyPool' = DOMAIN dpool' /\ locked' = crypted'
    /\ nIndex' = [h \in Holders |-> 0] /\ vchPubKey' = [h \in Holders |-> 0]
    /\ fresh' = 0 /\ job' = "none" /\ topping' = FALSE
    /\ UNCHANGED <<rewritten, made, used, overwritten>>

Next ==
    \/ \E w \in Holders \cup {"refill", "getkey"} : Ask(w)
    \/ GenerateNewKey \/ PoolKey \/ Relocked \/ Refilled \/ ReserveKeyFromKeyPool
    \/ \E h \in Holders : KeepKey(h) \/ ReturnKey(h)
    \/ Unlock \/ Lock
    \/ EncryptWallet \/ EraseOld \/ RewriteCopy \/ RewriteRemove \/ RewriteRename
    \/ Restart

Spec == Init /\ [][Next]_vars

---------------------------------------------------------------------------
(* Types: numbers and keys are positive, a key in any place has been made, *)
(* a holder has at most one reservation, and only an encrypted wallet is   *)
(* locked.                                                                 *)
TypeOK ==
    /\ setKeyPool \subseteq Nat \ {0}
    /\ DOMAIN dpool \subseteq Nat \ {0}
    /\ made \in 0 .. MaxKeys
    /\ \A i \in DOMAIN dpool : dpool[i] \in 1 .. made
    /\ dkeys \subseteq 1 .. made /\ rewritten \subseteq 1 .. made /\ used \subseteq 1 .. made
    /\ fresh \in 0 .. made
    /\ nIndex \in [Holders -> Nat] /\ vchPubKey \in [Holders -> 0 .. made]
    /\ \A h \in Holders : nIndex[h] = 0 <=> vchPubKey[h] = 0
    /\ crypted \in BOOLEAN /\ locked \in BOOLEAN /\ (locked => crypted)
    /\ overwritten \in BOOLEAN
    /\ job \in Holders \cup Stages /\ topping \in BOOLEAN

ReservedKeys == {vchPubKey[h] : h \in {g \in Holders : nIndex[g] # 0}}

(* A key that was given out or is reserved is never one that the pool      *)
(* would give out again, and no two reservations share a key.              *)
OnceOnly ==
    /\ \A g, h \in Holders : vchPubKey[g] = vchPubKey[h] => g = h \/ nIndex[h] = 0
    /\ used \cap ReservedKeys = {}
    /\ \A i \in setKeyPool : i \in DOMAIN dpool => dpool[i] \notin used \cup ReservedKeys

(* Through reservations kept without the wallet's lock, relocking in the   *)
(* middle of a refill, encryption, and restarts at any moment: no key is   *)
(* handed out twice, unless a pool record was written over while its       *)
(* number was reserved, which happens once a pool that was emptied while   *)
(* the wallet was locked is numbered from 1 again.                         *)
NeverTwice == ~overwritten => OnceOnly

(* ReserveKeyFromKeyPool does not throw "read failed" or "unknown key in   *)
(* key pool", under the same condition.                                    *)
PoolReadable == ~overwritten => \A i \in setKeyPool : Readable(i)

(* Whenever the process dies, EncryptWallet and Rewrite included, the      *)
(* private part of each key that was given out or is reserved is in        *)
(* wallet.dat or in wallet.dat.rewrite.                                    *)
KeysKept ==
    used \cup ReservedKeys \subseteq rewritten \cup (IF job = "removed" THEN {} ELSE dkeys)

(* While the wallet is not encrypted and -keypool is not 0, no pool record *)
(* is written over while its number is reserved: TopUpKeyPool fills to one *)
(* more than asked, so that a reservation never takes the last number.     *)
NumbersApart == [][~crypted /\ Keypool > 0 => overwritten' = overwritten]_vars
=============================================================================
