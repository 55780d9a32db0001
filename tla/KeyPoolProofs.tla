----------------------------- MODULE KeyPoolProofs -----------------------------
(***************************************************************************)
(* For any reservations, pool size and bound: no key is handed out twice   *)
(* and every number in the pool can be read, unless a record was written   *)
(* over while its number was reserved; and no key that was given out is    *)
(* lost.                                                                   *)
(*                                                                         *)
(* The properties speak of keys; the operations only compare numbers.      *)
(* What links them is the pool on disk: Disk says that it maps numbers to  *)
(* different keys, none of them given out, and that a reservation's number *)
(* still has its key there.                                                *)
(***************************************************************************)
EXTENDS KeyPool, FiniteSetTheorems, TLAPS

(* Where the keys are: a key in the pool, being made, reserved or used has *)
(* its private part on disk.                                               *)
Stored ==
    /\ \A i \in DOMAIN dpool : dpool[i] \in dkeys
    /\ fresh # 0 => fresh \in dkeys
    /\ used \subseteq dkeys \cup rewritten
    /\ \A h \in Holders : nIndex[h] # 0 => vchPubKey[h] \in dkeys \cup rewritten

(* The parts of TypeOK.                                                    *)
KeyTypes ==
    /\ made \in 0 .. MaxKeys /\ fresh \in 0 .. made
    /\ dkeys \subseteq 1 .. made /\ rewritten \subseteq 1 .. made /\ used \subseteq 1 .. made

FlagTypes ==
    /\ crypted \in BOOLEAN /\ locked \in BOOLEAN /\ (locked => crypted)
    /\ overwritten \in BOOLEAN
    /\ job \in Holders \cup Stages /\ topping \in BOOLEAN

PoolTypes ==
    /\ setKeyPool \subseteq Nat \ {0}
    /\ DOMAIN dpool \subseteq Nat \ {0}
    /\ \A i \in DOMAIN dpool : dpool[i] \in 1 .. made

ReservationTypes ==
    /\ nIndex \in [Holders -> Nat] /\ vchPubKey \in [Holders -> 0 .. made]
    /\ \A h \in Holders : nIndex[h] = 0 <=> vchPubKey[h] = 0

(* How far Rewrite is: no leftover copy before it, an exact one during it, *)
(* and no key being made.                                                  *)
Rewriting ==
    /\ Encrypting => crypted
    /\ topping => job \in Holders \cup {"refill", "getkey"}
    /\ job \in {"copied", "removed"} => fresh = 0
    /\ job \in {"erase", "newpool"} => rewritten = {}
    /\ job \in {"copied", "removed"} => rewritten = dkeys

(* The pool on disk, as long as no record of a reservation was overwritten.*)
Disk ==
    /\ \A i, j \in DOMAIN dpool : dpool[i] = dpool[j] => i = j
    /\ \A i \in DOMAIN dpool : dpool[i] \notin used /\ dpool[i] # fresh
    /\ fresh \notin used
    /\ setKeyPool \subseteq DOMAIN dpool
    /\ \A h \in Holders : nIndex[h] # 0 =>
        nIndex[h] \in DOMAIN dpool /\ dpool[nIndex[h]] = vchPubKey[h] /\ nIndex[h] \notin setKeyPool
    /\ \A g, h \in Holders : nIndex[g] = nIndex[h] => g = h \/ nIndex[h] = 0

IInv == TypeOK /\ Stored /\ Rewriting /\ (~overwritten => Disk)

(* The inductive invariant implies the three properties.                   *)
LEMMA Implied == IInv => NeverTwice /\ PoolReadable /\ KeysKept
<1> SUFFICES ASSUME IInv PROVE NeverTwice /\ PoolReadable /\ KeysKept
  OBVIOUS
<1> USE DEF IInv
<1>1. NeverTwice
  BY DEF NeverTwice, OnceOnly, ReservedKeys, Disk, TypeOK
<1>2. PoolReadable
  BY DEF PoolReadable, Readable, Disk, Stored
<1>3. KeysKept
  BY DEF KeysKept, ReservedKeys, Stored, Rewriting
<1> QED BY <1>1, <1>2, <1>3

(* A wallet that was just created satisfies the invariant.                 *)
LEMMA InitInv == Init => IInv
<1> SUFFICES ASSUME Init PROVE IInv
  OBVIOUS
<1> USE KeyPoolAssumption DEF Init
<1>1. DOMAIN dpool = {}
  OBVIOUS
<1>2. TypeOK
  <2>1. PoolTypes
    BY <1>1 DEF PoolTypes
  <2>2. ReservationTypes
    BY DEF ReservationTypes
  <2>3. KeyTypes
    BY DEF KeyTypes
  <2>4. FlagTypes
    BY DEF FlagTypes, Stages
  <2> QED BY <2>1, <2>2, <2>3, <2>4 DEF TypeOK, PoolTypes, ReservationTypes, KeyTypes, FlagTypes
<1>3. Stored /\ Disk
  BY <1>1 DEF Stored, Disk
<1>4. Rewriting
  BY DEF Rewriting, Encrypting
<1> QED BY <1>2, <1>3, <1>4 DEF IInv

(* Every step keeps the invariant.                                         *)
LEMMA StepInv == IInv /\ [Next]_vars => IInv'
<1> SUFFICES ASSUME IInv, [Next]_vars PROVE IInv'
  OBVIOUS
<1> USE KeyPoolAssumption
<1>0. TypeOK /\ Stored /\ Rewriting /\ (~overwritten => Disk)
  BY DEF IInv
<1>1. ASSUME NEW w \in Holders \cup {"refill", "getkey"}, Ask(w) PROVE IInv'
  <2>1. TypeOK'
    BY <1>0, <1>1 DEF file, reservation, Ask, TypeOK, Stages
  <2>2. Stored'
    BY <1>0, <1>1 DEF file, reservation, Ask, TypeOK, Stored, Rewriting
  <2>3. Rewriting'
    BY <1>0, <1>1 DEF file, reservation, Ask, TypeOK, Rewriting, Stages, Encrypting, Wanting
  <2>4. ~overwritten' => Disk'
    BY <1>0, <1>1 DEF file, reservation, Ask, TypeOK, Disk
  <2> QED BY <2>1, <2>2, <2>3, <2>4 DEF IInv
<1>2. CASE GenerateNewKey
  <2>1. TypeOK'
    BY <1>0, <1>2 DEF file, reservation, GenerateNewKey, Wanting, TypeOK, Stages
  <2>2. Stored'
    BY <1>0, <1>2 DEF file, reservation, GenerateNewKey, Wanting, TypeOK, Stored, Rewriting
  <2>3. Rewriting'
    BY <1>0, <1>2 DEF file, reservation, GenerateNewKey, Wanting, TypeOK, Rewriting, Stages, Encrypting, Wanting
  <2>4. ~overwritten' => Disk'
    BY <1>0, <1>2 DEF file, reservation, GenerateNewKey, Wanting, TypeOK, Disk
  <2> QED BY <2>1, <2>2, <2>3, <2>4 DEF IInv
<1>3. CASE PoolKey
  <2> PICK i \in NextIndex(setKeyPool) :
        /\ dpool' = WritePool(i, fresh)
        /\ setKeyPool' = setKeyPool \cup {i}
        /\ overwritten' = (overwritten \/ IsReserved(i))
    BY <1>3 DEF PoolKey
  <2>0. UNCHANGED <<dkeys, crypted, rewritten, locked, nIndex, vchPubKey, made, job, topping, used>>
        /\ fresh # 0 /\ fresh' = 0
    BY <1>3 DEF PoolKey, reservation
  <2>5. i \in Nat \ {0}
    BY <1>0 DEF NextIndex, TypeOK
  <2>6. /\ DOMAIN dpool' = DOMAIN dpool \cup {i}
        /\ dpool'[i] = fresh
        /\ \A j \in DOMAIN dpool : j # i => dpool'[j] = dpool[j]
    BY DEF WritePool
  <2>1. TypeOK'
    <3>1. PoolTypes'
      BY <1>0, <2>0, <2>5, <2>6 DEF TypeOK, PoolTypes
    <3>2. ReservationTypes'
      BY <1>0, <2>0 DEF TypeOK, ReservationTypes
    <3>3. KeyTypes'
      BY <1>0, <2>0 DEF TypeOK, KeyTypes
    <3>4. FlagTypes'
      BY <1>0, <2>0 DEF TypeOK, FlagTypes, IsReserved
    <3> QED BY <3>1, <3>2, <3>3, <3>4 DEF TypeOK, PoolTypes, ReservationTypes, KeyTypes, FlagTypes
  <2>2. Stored'
    BY <1>0, <2>0, <2>6 DEF Stored
  <2>3. Rewriting'
    BY <1>0, <2>0 DEF Rewriting, Encrypting
  <2>4. ASSUME ~overwritten' PROVE Disk'
    <3>1. ~overwritten /\ \A h \in Holders : nIndex[h] # i
      BY <2>4 DEF IsReserved
    <3>2. Disk /\ 0 \notin used /\ \A j \in DOMAIN dpool : dpool[j] # 0
      BY <1>0, <3>1 DEF TypeOK
    <3>3. \A j \in DOMAIN dpool' : dpool'[j] \notin used /\ dpool'[j] # 0
      BY <2>0, <2>6, <3>2 DEF Disk
    <3>4. \A j, k \in DOMAIN dpool' : dpool'[j] = dpool'[k] => j = k
      BY <2>0, <2>6, <3>2 DEF Disk
    <3> QED BY <2>0, <2>6, <3>1, <3>2, <3>3, <3>4 DEF Disk
  <2> QED BY <2>1, <2>2, <2>3, <2>4 DEF IInv
<1>4. CASE Relocked
  <2>1. TypeOK'
    BY <1>0, <1>4 DEF file, reservation, Relocked, TypeOK, Stages
  <2>2. Stored'
    BY <1>0, <1>4 DEF file, reservation, Relocked, TypeOK, Stored, Rewriting
  <2>3. Rewriting'
    BY <1>0, <1>4 DEF file, reservation, Relocked, TypeOK, Rewriting, Stages, Encrypting, Wanting
  <2>4. ~overwritten' => Disk'
    BY <1>0, <1>4 DEF file, reservation, Relocked, TypeOK, Disk
  <2> QED BY <2>1, <2>2, <2>3, <2>4 DEF IInv
<1>5. CASE Refilled
  <2>1. TypeOK'
    BY <1>0, <1>5 DEF file, reservation, Refilled, TypeOK, Stages
  <2>2. Stored'
    BY <1>0, <1>5 DEF file, reservation, Refilled, TypeOK, Stored, Rewriting
  <2>3. Rewriting'
    BY <1>0, <1>5 DEF file, reservation, Refilled, TypeOK, Rewriting, Stages, Encrypting, Wanting
  <2>4. ~overwritten' => Disk'
    BY <1>0, <1>5 DEF file, reservation, Refilled, TypeOK, Disk
  <2> QED BY <2>1, <2>2, <2>3, <2>4 DEF IInv
<1>6. CASE ReserveKeyFromKeyPool
  <2>0. /\ UNCHANGED <<dkeys, crypted, rewritten, locked, made, fresh, overwritten>>
        /\ job' = "none" /\ topping' = FALSE
    BY <1>6 DEF ReserveKeyFromKeyPool
  <2>1. CASE UNCHANGED <<setKeyPool, dpool, nIndex, vchPubKey, used>>
    BY <1>0, <2>0, <2>1 DEF IInv, TypeOK, Stages, Stored, Rewriting, Encrypting, Disk
  <2>2. ASSUME NEW i \in setKeyPool, setKeyPool' = setKeyPool \ {i},
               ~Readable(i), UNCHANGED <<dpool, nIndex, vchPubKey, used>>
        PROVE  IInv'
    BY <1>0, <2>0, <2>2 DEF IInv, TypeOK, Stages, Stored, Rewriting, Encrypting, Disk
  <2>3. ASSUME NEW i \in setKeyPool, setKeyPool' = setKeyPool \ {i}, Readable(i),
               dpool' = ErasePool(i), used' = used \cup {dpool[i]}, UNCHANGED <<nIndex, vchPubKey>>
        PROVE  IInv'
    <3>1. /\ DOMAIN dpool' = DOMAIN dpool \ {i}
          /\ \A j \in DOMAIN dpool' : dpool'[j] = dpool[j]
          /\ i \in DOMAIN dpool /\ dpool[i] \in dkeys
      BY <2>3 DEF ErasePool, Readable
    <3>2. TypeOK'
      BY <1>0, <2>0, <2>3, <3>1 DEF TypeOK, Stages
    <3>3. Stored' /\ Rewriting'
      BY <1>0, <2>0, <2>3, <3>1 DEF Stored, Rewriting, Encrypting
    <3>4. ~overwritten => Disk'
      BY <1>0, <2>0, <2>3, <3>1 DEF Disk
    <3> QED BY <2>0, <3>2, <3>3, <3>4 DEF IInv
  <2>4. ASSUME NEW i \in setKeyPool, setKeyPool' = setKeyPool \ {i}, Readable(i), job \in Holders,
               nIndex' = [nIndex EXCEPT ![job] = i],
               vchPubKey' = [vchPubKey EXCEPT ![job] = dpool[i]], UNCHANGED <<dpool, used>>
        PROVE  IInv'
    <3>1. /\ i \in DOMAIN dpool /\ i \in Nat \ {0}
          /\ dpool[i] \in dkeys /\ dpool[i] \in 1 .. made
      BY <1>0, <2>4 DEF TypeOK, Readable
    <3>2. /\ nIndex'[job] = i /\ vchPubKey'[job] = dpool[i]
          /\ \A h \in Holders : h # job => nIndex'[h] = nIndex[h] /\ vchPubKey'[h] = vchPubKey[h]
      BY <1>0, <2>4 DEF TypeOK
    <3>3. ReservationTypes'
      BY <1>0, <2>0, <2>4, <3>1, <3>2 DEF TypeOK, ReservationTypes
    <3>4. TypeOK'
      BY <1>0, <2>0, <2>4, <3>3 DEF TypeOK, ReservationTypes, Stages
    <3>5. Stored' /\ Rewriting'
      BY <1>0, <2>0, <2>4, <3>1, <3>2 DEF Stored, Rewriting, Encrypting
    <3>6. ~overwritten => Disk'
      BY <1>0, <2>0, <2>4, <3>1, <3>2 DEF Disk
    <3> QED BY <2>0, <3>4, <3>5, <3>6 DEF IInv
  <2> QED BY <1>6, <2>1, <2>2, <2>3, <2>4 DEF ReserveKeyFromKeyPool, Oldest, reservation
<1>7. ASSUME NEW h \in Holders, KeepKey(h) PROVE IInv'
  <2>1. TypeOK'
    <3>1. PoolTypes'
      BY <1>0, <1>7 DEF file, reservation, KeepKey, ErasePool, TypeOK, PoolTypes
    <3>2. ReservationTypes'
      BY <1>0, <1>7 DEF file, reservation, KeepKey, ErasePool, TypeOK, ReservationTypes
    <3>3. KeyTypes'
      <4>1. vchPubKey[h] \in 1 .. made
        BY <1>0, <1>7 DEF KeepKey, TypeOK
      <4> QED BY <1>0, <1>7, <4>1 DEF KeepKey, TypeOK, KeyTypes
    <3>4. FlagTypes'
      BY <1>0, <1>7 DEF file, reservation, KeepKey, ErasePool, TypeOK, FlagTypes, Stages, Rewriting, Encrypting
    <3> QED BY <3>1, <3>2, <3>3, <3>4 DEF TypeOK, PoolTypes, ReservationTypes, KeyTypes, FlagTypes
  <2>2. Stored'
    BY <1>0, <1>7 DEF file, reservation, KeepKey, ErasePool, TypeOK, Stored, Rewriting
  <2>3. Rewriting'
    BY <1>0, <1>7 DEF file, reservation, KeepKey, ErasePool, TypeOK, Rewriting, Stages, Encrypting, Wanting
  <2>4. ~overwritten' => Disk'
    BY <1>0, <1>7 DEF file, reservation, KeepKey, ErasePool, TypeOK, Disk
  <2> QED BY <2>1, <2>2, <2>3, <2>4 DEF IInv
<1>8. ASSUME NEW h \in Holders, ReturnKey(h) PROVE IInv'
  <2>1. TypeOK'
    <3>1. PoolTypes'
      BY <1>0, <1>8 DEF file, reservation, ReturnKey, TypeOK, PoolTypes
    <3>2. ReservationTypes'
      BY <1>0, <1>8 DEF file, reservation, ReturnKey, TypeOK, ReservationTypes
    <3>3. KeyTypes'
      BY <1>0, <1>8 DEF file, reservation, ReturnKey, TypeOK, KeyTypes
    <3>4. FlagTypes'
      BY <1>0, <1>8 DEF file, reservation, ReturnKey, TypeOK, FlagTypes, Stages, Rewriting, Encrypting
    <3> QED BY <3>1, <3>2, <3>3, <3>4 DEF TypeOK, PoolTypes, ReservationTypes, KeyTypes, FlagTypes
  <2>2. Stored'
    BY <1>0, <1>8 DEF file, reservation, ReturnKey, TypeOK, Stored, Rewriting
  <2>3. Rewriting'
    BY <1>0, <1>8 DEF file, reservation, ReturnKey, TypeOK, Rewriting, Stages, Encrypting, Wanting
  <2>4. ~overwritten' => Disk'
    <3>1. /\ nIndex'[h] = 0 /\ nIndex[h] # 0
          /\ \A g \in Holders : g # h => nIndex'[g] = nIndex[g] /\ vchPubKey'[g] = vchPubKey[g]
      BY <1>0, <1>8 DEF ReturnKey, TypeOK
    <3>2. /\ setKeyPool' = setKeyPool \cup {nIndex[h]}
          /\ UNCHANGED <<dpool, used, fresh, overwritten>>
      BY <1>8 DEF ReturnKey, file
    <3> QED BY <1>0, <3>1, <3>2 DEF Disk
  <2> QED BY <2>1, <2>2, <2>3, <2>4 DEF IInv
<1>9. CASE Unlock
  <2>1. TypeOK'
    BY <1>0, <1>9 DEF file, reservation, Unlock, TypeOK, Stages
  <2>2. Stored'
    BY <1>0, <1>9 DEF file, reservation, Unlock, TypeOK, Stored, Rewriting
  <2>3. Rewriting'
    BY <1>0, <1>9 DEF file, reservation, Unlock, TypeOK, Rewriting, Stages, Encrypting, Wanting
  <2>4. ~overwritten' => Disk'
    BY <1>0, <1>9 DEF file, reservation, Unlock, TypeOK, Disk
  <2> QED BY <2>1, <2>2, <2>3, <2>4 DEF IInv
<1>10. CASE Lock
  <2>1. TypeOK'
    BY <1>0, <1>10 DEF file, reservation, Lock, Encrypting, TypeOK, Stages
  <2>2. Stored'
    BY <1>0, <1>10 DEF file, reservation, Lock, Encrypting, TypeOK, Stored, Rewriting
  <2>3. Rewriting'
    BY <1>0, <1>10 DEF file, reservation, Lock, Encrypting, TypeOK, Rewriting, Stages, Encrypting, Wanting
  <2>4. ~overwritten' => Disk'
    BY <1>0, <1>10 DEF file, reservation, Lock, Encrypting, TypeOK, Disk
  <2> QED BY <2>1, <2>2, <2>3, <2>4 DEF IInv
<1>11. CASE EncryptWallet
  <2>1. TypeOK'
    BY <1>0, <1>11 DEF file, reservation, EncryptWallet, TypeOK, Stages
  <2>2. Stored'
    BY <1>0, <1>11 DEF file, reservation, EncryptWallet, TypeOK, Stored, Rewriting
  <2>3. Rewriting'
    BY <1>0, <1>11 DEF file, reservation, EncryptWallet, TypeOK, Rewriting, Stages, Encrypting, Wanting
  <2>4. ~overwritten' => Disk'
    BY <1>0, <1>11 DEF file, reservation, EncryptWallet, TypeOK, Disk
  <2> QED BY <2>1, <2>2, <2>3, <2>4 DEF IInv
<1>12. CASE EraseOld
  <2>1. TypeOK'
    BY <1>0, <1>12 DEF file, reservation, EraseOld, ErasePool, Oldest, TypeOK, Stages
  <2>2. Stored'
    BY <1>0, <1>12 DEF file, reservation, EraseOld, ErasePool, Oldest, TypeOK, Stored, Rewriting
  <2>3. Rewriting'
    BY <1>0, <1>12 DEF file, reservation, EraseOld, ErasePool, Oldest, TypeOK, Rewriting, Stages, Encrypting, Wanting
  <2>4. ~overwritten' => Disk'
    <3>1. UNCHANGED <<nIndex, vchPubKey, fresh, used, overwritten>>
      BY <1>12 DEF EraseOld, reservation
    <3>2. CASE UNCHANGED <<setKeyPool, dpool>>
      BY <1>0, <3>1, <3>2 DEF Disk
    <3>3. ASSUME NEW i \in setKeyPool, dpool' = ErasePool(i), setKeyPool' = setKeyPool \ {i}
          PROVE  ~overwritten' => Disk'
      <4>1. /\ DOMAIN dpool' = DOMAIN dpool \ {i}
            /\ \A j \in DOMAIN dpool' : dpool'[j] = dpool[j]
        BY <3>3 DEF ErasePool
      <4> QED BY <1>0, <3>1, <3>3, <4>1 DEF Disk
    <3> QED BY <1>12, <3>2, <3>3 DEF EraseOld, Oldest
  <2> QED BY <2>1, <2>2, <2>3, <2>4 DEF IInv
<1>13. CASE RewriteCopy
  <2>1. TypeOK'
    <3>1. PoolTypes'
      BY <1>0, <1>13 DEF file, reservation, RewriteCopy, TypeOK, PoolTypes
    <3>2. ReservationTypes'
      BY <1>0, <1>13 DEF file, reservation, RewriteCopy, TypeOK, ReservationTypes
    <3>3. KeyTypes'
      BY <1>0, <1>13 DEF file, reservation, RewriteCopy, TypeOK, KeyTypes
    <3>4. FlagTypes'
      BY <1>0, <1>13 DEF file, reservation, RewriteCopy, TypeOK, FlagTypes, Stages, Rewriting, Encrypting
    <3> QED BY <3>1, <3>2, <3>3, <3>4 DEF TypeOK, PoolTypes, ReservationTypes, KeyTypes, FlagTypes
  <2>2. Stored'
    BY <1>0, <1>13 DEF file, reservation, RewriteCopy, TypeOK, Stored, Rewriting
  <2>3. Rewriting'
    BY <1>0, <1>13 DEF file, reservation, RewriteCopy, TypeOK, Rewriting, Stages, Encrypting, Wanting
  <2>4. ~overwritten' => Disk'
    BY <1>0, <1>13 DEF file, reservation, RewriteCopy, TypeOK, Disk
  <2> QED BY <2>1, <2>2, <2>3, <2>4 DEF IInv
<1>14. CASE RewriteRemove
  <2>1. TypeOK'
    BY <1>0, <1>14 DEF file, reservation, RewriteRemove, TypeOK, Stages
  <2>2. Stored'
    BY <1>0, <1>14 DEF file, reservation, RewriteRemove, TypeOK, Stored, Rewriting
  <2>3. Rewriting'
    BY <1>0, <1>14 DEF file, reservation, RewriteRemove, TypeOK, Rewriting, Stages, Encrypting, Wanting
  <2>4. ~overwritten' => Disk'
    BY <1>0, <1>14 DEF file, reservation, RewriteRemove, TypeOK, Disk
  <2> QED BY <2>1, <2>2, <2>3, <2>4 DEF IInv
<1>15. CASE RewriteRename
  <2>1. TypeOK'
    BY <1>0, <1>15 DEF file, reservation, RewriteRename, TypeOK, Stages
  <2>2. Stored'
    BY <1>0, <1>15 DEF file, reservation, RewriteRename, TypeOK, Stored, Rewriting
  <2>3. Rewriting'
    BY <1>0, <1>15 DEF file, reservation, RewriteRename, TypeOK, Rewriting, Stages, Encrypting, Wanting
  <2>4. ~overwritten' => Disk'
    BY <1>0, <1>15 DEF file, reservation, RewriteRename, TypeOK, Disk
  <2> QED BY <2>1, <2>2, <2>3, <2>4 DEF IInv
<1>16. CASE Restart
  <2>1. TypeOK'
    <3>1. PoolTypes'
      BY <1>0, <1>16 DEF file, reservation, Restart, TypeOK, PoolTypes
    <3>2. ReservationTypes'
      BY <1>0, <1>16 DEF file, reservation, Restart, TypeOK, ReservationTypes
    <3>3. KeyTypes'
      <4>1. dkeys' \in {dkeys, {}} /\ UNCHANGED <<rewritten, made, used>> /\ fresh' = 0
        BY <1>16 DEF Restart
      <4> QED BY <1>0, <4>1 DEF TypeOK, KeyTypes
    <3>4. FlagTypes'
      BY <1>0, <1>16 DEF file, reservation, Restart, TypeOK, FlagTypes, Stages, Rewriting, Encrypting
    <3> QED BY <3>1, <3>2, <3>3, <3>4 DEF TypeOK, PoolTypes, ReservationTypes, KeyTypes, FlagTypes
  <2>2. Stored'
    BY <1>0, <1>16 DEF file, reservation, Restart, TypeOK, Stored, Rewriting
  <2>3. Rewriting'
    BY <1>0, <1>16 DEF file, reservation, Restart, TypeOK, Rewriting, Stages, Encrypting, Wanting
  <2>4. ~overwritten' => Disk'
    BY <1>0, <1>16 DEF file, reservation, Restart, TypeOK, Disk
  <2> QED BY <2>1, <2>2, <2>3, <2>4 DEF IInv
<1>17. CASE UNCHANGED vars
  <2>1. TypeOK'
    BY <1>0, <1>17 DEF vars, file, reservation, TypeOK, Stages
  <2>2. Stored'
    BY <1>0, <1>17 DEF vars, file, reservation, TypeOK, Stored, Rewriting
  <2>3. Rewriting'
    BY <1>0, <1>17 DEF vars, file, reservation, TypeOK, Rewriting, Stages, Encrypting, Wanting
  <2>4. ~overwritten' => Disk'
    BY <1>0, <1>17 DEF vars, file, reservation, TypeOK, Disk
  <2> QED BY <2>1, <2>2, <2>3, <2>4 DEF IInv
<1> QED BY <1>1, <1>2, <1>3, <1>4, <1>5, <1>6, <1>7, <1>8, <1>9, <1>10, <1>11, <1>12, <1>13, <1>14, <1>15, <1>16, <1>17 DEF Next

(* The types are right; no key is handed out twice unless a pool record    *)
(* was written over while its number was reserved; under the same          *)
(* condition every number in the pool can be read; and no key that was     *)
(* given out is lost.                                                      *)
THEOREM KeyPoolSafe == Spec => [](TypeOK /\ NeverTwice /\ PoolReadable /\ KeysKept)
<1>1. Init => IInv
  BY InitInv
<1>2. IInv /\ [Next]_vars => IInv'
  BY StepInv
<1>3. IInv => TypeOK /\ NeverTwice /\ PoolReadable /\ KeysKept
  BY Implied DEF IInv
<1> QED BY <1>1, <1>2, <1>3, PTL DEF Spec

---------------------------------------------------------------------------
(* An unencrypted wallet: a reservation always has a larger number than    *)
(* its own left in the pool, because the pool was filled to two or more    *)
(* before it was made.                                                     *)
Ahead ==
    /\ IsFiniteSet(setKeyPool) /\ IsFiniteSet(DOMAIN dpool)
    /\ ~crypted /\ job \in Holders \cup {"refill", "getkey"} => topping
    /\ ~crypted /\ Keypool > 0 =>
        \A h \in Holders : nIndex[h] # 0 => \E m \in setKeyPool : nIndex[h] < m

(* A set of two or more has an element beside any given one.               *)
LEMMA Another ==
  ASSUME NEW S, IsFiniteSet(S), NEW i \in S, ~(Cardinality(S) < 2)
  PROVE  \E j \in S : j # i
<1>1. SUFFICES ASSUME S \subseteq {i} PROVE FALSE
  OBVIOUS
<1>2. IsFiniteSet({i}) /\ Cardinality({i}) = 1
  BY FS_Singleton
<1>3. Cardinality(S) <= Cardinality({i}) /\ Cardinality(S) \in Nat
  BY <1>1, <1>2, FS_Subset, FS_CardinalityType
<1> QED BY <1>2, <1>3

(* Every step keeps Ahead, and no step that starts in an unencrypted       *)
(* wallet writes over a reserved number.                                   *)
LEMMA StepAhead ==
  ASSUME TypeOK, Ahead, Rewriting, [Next]_vars
  PROVE  Ahead' /\ (~crypted /\ Keypool > 0 => overwritten' = overwritten)
<1> USE KeyPoolAssumption
<1> USE DEF file, reservation
<1>1. ASSUME NEW w \in Holders \cup {"refill", "getkey"}, Ask(w)
      PROVE  Ahead' /\ overwritten' = overwritten
  BY <1>1 DEF Ask, Ahead, TypeOK
<1>2. CASE GenerateNewKey \/ Unlock \/ Lock \/ RewriteCopy \/ RewriteRemove \/ UNCHANGED vars
  BY <1>2 DEF GenerateNewKey, Unlock, Lock, RewriteCopy, RewriteRemove, vars, Ahead, Stages
<1>3. CASE PoolKey
  <2> PICK i \in NextIndex(setKeyPool) :
        /\ dpool' = WritePool(i, fresh)
        /\ setKeyPool' = setKeyPool \cup {i}
        /\ overwritten' = (overwritten \/ IsReserved(i))
    BY <1>3 DEF PoolKey
  <2>1. UNCHANGED <<crypted, nIndex, job, topping>>
    BY <1>3 DEF PoolKey
  <2>2. DOMAIN dpool' = DOMAIN dpool \cup {i}
    BY DEF WritePool
  <2>3. IsFiniteSet(setKeyPool') /\ IsFiniteSet(DOMAIN dpool')
    BY <2>2, FS_AddElement DEF Ahead
  <2>4. Ahead'
    BY <2>1, <2>3 DEF Ahead
  <2>5. ASSUME ~crypted, Keypool > 0 PROVE ~IsReserved(i)
    <3>1. i # 0 /\ \A m \in setKeyPool : m < i
      BY DEF NextIndex, TypeOK
    <3>2. \A h \in Holders : nIndex[h] # 0 => nIndex[h] < i
      BY <2>5, <3>1 DEF Ahead, TypeOK, NextIndex
    <3> QED BY <3>1, <3>2 DEF IsReserved, TypeOK
  <2> QED BY <2>4, <2>5 DEF TypeOK
<1>4. CASE Relocked
  BY <1>4 DEF Relocked, Ahead, TypeOK, Stages
<1>5. CASE Refilled \/ RewriteRename
  BY <1>5 DEF Refilled, RewriteRename, Ahead, Stages
<1>6. CASE ReserveKeyFromKeyPool
  <2>0. job' = "none" /\ UNCHANGED <<crypted, overwritten>>
    BY <1>6 DEF ReserveKeyFromKeyPool
  <2>1. CASE UNCHANGED <<setKeyPool, dpool, nIndex, vchPubKey, used>>
    BY <2>0, <2>1 DEF Ahead, Stages
  <2>2. ASSUME NEW i \in Oldest(setKeyPool), setKeyPool' = setKeyPool \ {i},
               dpool' = dpool \/ dpool' = ErasePool(i),
               \/ nIndex' = nIndex
               \/ job \in Holders /\ nIndex' = [nIndex EXCEPT ![job] = i]
        PROVE  Ahead'
    <3>1. DOMAIN dpool' = DOMAIN dpool \/ DOMAIN dpool' = DOMAIN dpool \ {i}
      BY <2>2 DEF ErasePool
    <3>2. IsFiniteSet(setKeyPool') /\ IsFiniteSet(DOMAIN dpool')
      BY <2>2, <3>1, FS_RemoveElement DEF Ahead
    <3>3. ASSUME ~crypted, Keypool > 0
          PROVE  \A h \in Holders : nIndex'[h] # 0 => \E m \in setKeyPool' : nIndex'[h] < m
      <4>1. topping /\ job \in Holders \cup {"getkey"}
        BY <1>6, <3>3 DEF ReserveKeyFromKeyPool, Ahead
      <4>2. ~(Cardinality(setKeyPool) < Keypool + 1)
        BY <1>6, <4>1 DEF ReserveKeyFromKeyPool, Wanting
      <4>3. Cardinality(setKeyPool) \in Nat
        BY FS_CardinalityType DEF Ahead
      <4>4. ~(Cardinality(setKeyPool) < 2)
        BY <3>3, <4>2, <4>3
      <4>5. PICK j \in setKeyPool : j # i
        BY <4>4, Another DEF Ahead, Oldest
      <4>6. i < j /\ j \in setKeyPool'
        BY <2>2, <4>5 DEF Oldest, TypeOK
      <4>7. \A h \in Holders : nIndex[h] # 0 => \E m \in setKeyPool' : nIndex[h] < m
        BY <2>2, <3>3, <4>6 DEF Ahead, Oldest, TypeOK
      <4>8. \A h \in Holders : nIndex'[h] \in {nIndex[h], i}
        BY <2>2 DEF TypeOK
      <4> QED BY <4>6, <4>7, <4>8
    <3> QED BY <2>0, <3>2, <3>3 DEF Ahead, Stages
  <2> QED BY <1>6, <2>0, <2>1, <2>2 DEF ReserveKeyFromKeyPool
<1>7. ASSUME NEW h \in Holders, KeepKey(h) PROVE Ahead' /\ overwritten' = overwritten
  <2>1. DOMAIN dpool' = DOMAIN dpool \ {nIndex[h]}
    BY <1>7 DEF KeepKey, ErasePool
  <2>2. IsFiniteSet(DOMAIN dpool')
    BY <2>1, FS_RemoveElement DEF Ahead
  <2>3. /\ \A g \in Holders : nIndex'[g] \in {nIndex[g], 0}
        /\ UNCHANGED <<setKeyPool, crypted, job, topping, overwritten>>
    BY <1>7 DEF KeepKey, TypeOK
  <2> QED BY <2>2, <2>3 DEF Ahead
<1>8. ASSUME NEW h \in Holders, ReturnKey(h) PROVE Ahead' /\ overwritten' = overwritten
  <2>1. setKeyPool' = setKeyPool \cup {nIndex[h]} /\ UNCHANGED <<dpool, crypted, job, topping, overwritten>>
    BY <1>8 DEF ReturnKey
  <2>2. IsFiniteSet(setKeyPool')
    BY <2>1, FS_AddElement DEF Ahead
  <2>3. \A g \in Holders : nIndex'[g] \in {nIndex[g], 0}
    BY <1>8 DEF ReturnKey, TypeOK
  <2> QED BY <2>1, <2>2, <2>3 DEF Ahead
<1>9. CASE EncryptWallet
  BY <1>9 DEF EncryptWallet, Ahead
<1>10. CASE EraseOld
  <2>1. crypted /\ UNCHANGED <<crypted, overwritten>>
    BY <1>10 DEF EraseOld, Rewriting, Encrypting
  <2>2. IsFiniteSet(setKeyPool') /\ IsFiniteSet(DOMAIN dpool')
    <3>1. CASE UNCHANGED <<setKeyPool, dpool>>
      BY <3>1 DEF Ahead
    <3>2. ASSUME NEW i, setKeyPool' = setKeyPool \ {i}, dpool' = ErasePool(i)
          PROVE  IsFiniteSet(setKeyPool') /\ IsFiniteSet(DOMAIN dpool')
      <4>1. DOMAIN dpool' = DOMAIN dpool \ {i}
        BY <3>2 DEF ErasePool
      <4> QED BY <3>2, <4>1, FS_RemoveElement DEF Ahead
    <3> QED BY <1>10, <3>1, <3>2 DEF EraseOld
  <2> QED BY <2>1, <2>2 DEF Ahead
<1>11. CASE Restart
  <2>1. DOMAIN dpool' = DOMAIN dpool \/ DOMAIN dpool' = {}
    BY <1>11 DEF Restart
  <2>2. IsFiniteSet(DOMAIN dpool') /\ setKeyPool' = DOMAIN dpool'
    BY <1>11, <2>1, FS_EmptySet DEF Restart, Ahead
  <2>3. job' = "none" /\ overwritten' = overwritten /\ \A h \in Holders : nIndex'[h] = 0
    BY <1>11 DEF Restart
  <2> QED BY <2>2, <2>3 DEF Ahead, Stages
<1> QED BY <1>1, <1>2, <1>3, <1>4, <1>5, <1>6, <1>7, <1>8, <1>9, <1>10, <1>11 DEF Next

(* While the wallet is not encrypted and the pool holds at least one key   *)
(* ahead, TopUpKeyPool never writes over the number of a reservation.      *)
THEOREM UnencryptedApart == Spec => NumbersApart
<1>1. Init => TypeOK /\ Rewriting /\ Ahead
  <2>1. Init => setKeyPool = {} /\ DOMAIN dpool = {} /\ job = "none" /\ \A h \in Holders : nIndex[h] = 0
    BY DEF Init
  <2>2. Init => Ahead
    BY <2>1, FS_EmptySet, KeyPoolAssumption DEF Ahead, Stages
  <2> QED BY <2>2, InitInv DEF IInv
<1>2. IInv /\ Ahead /\ [Next]_vars => IInv' /\ Ahead' /\ [~crypted /\ Keypool > 0 => overwritten' = overwritten]_vars
  BY StepInv, StepAhead DEF IInv
<1>3. Init => IInv /\ Ahead
  BY <1>1, InitInv
<1> QED BY <1>2, <1>3, PTL DEF Spec, NumbersApart
=============================================================================
