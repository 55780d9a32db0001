--------------------------- MODULE WalletRelockProofs ---------------------------
(***************************************************************************)
(* For any number of threads and any timeouts: an unlocked wallet is       *)
(* watched, and it is not locked before its time by a thread that could    *)
(* know better.                                                            *)
(***************************************************************************)
EXTENDS WalletRelock, TLAPS

Pending(t) == pc[t] \in {"new", "entering"}

Sleeper ==
    nWalletUnlockTime # Unset =>
        \E t \in Threads : pc[t] = "asleep" /\ until[t] <= nWalletUnlockTime

(* Also a change of passphrase that is going to unlock the wallet for good *)
(* must leave it with a thread.                                            *)
Guarded ==
    (locked = FALSE \/ (command \in {"begun", "locked"} /\ fWasLocked = FALSE)) /\ abandoned = FALSE =>
        \/ nWalletUnlockTime # Unset
        \/ \E t \in Threads : Pending(t)
        \/ command = "unlocked" /\ fWasLocked = TRUE

(* The latest timeout is known to its own thread or to all of them.        *)
Promise ==
    due > 0 =>
        \/ \E t \in owner : Pending(t) /\ due <= nMyWakeTime[t]
        \/ nWalletUnlockTime # Unset /\ due <= nWalletUnlockTime

IInv == TypeOK /\ Sleeper /\ Guarded /\ Promise

(* At the start no time is set and the wallet is locked.                   *)
LEMMA InitInv == Init => IInv
<1> SUFFICES ASSUME Init PROVE IInv
  OBVIOUS
<1>1. TypeOK
  BY DEF Init, TypeOK
<1>2. Sleeper /\ Promise
  BY DEF Init, Sleeper, Promise
<1>3. Guarded
  BY DEF Init, Guarded
<1> QED BY <1>1, <1>2, <1>3 DEF IInv

(* Every step of a command, of a thread and of the clock keeps IInv; the   *)
(* three ways on that a thread has are treated once for all of its steps.  *)
LEMMA StepInv == IInv /\ [Next]_vars => IInv'
<1> SUFFICES ASSUME IInv, [Next]_vars PROVE IInv'
  OBVIOUS
<1> USE RelockAssumption DEF threads, change, history, Pending
<1>0. TypeOK /\ Sleeper /\ Guarded /\ Promise
  BY DEF IInv
<1>1. ASSUME NEW n \in Timeouts, walletpassphrase(n) PROVE IInv'
  <2>0. /\ UNCHANGED <<nWalletUnlockTime, until, change>>
        /\ command = "none" /\ locked' = FALSE
    BY <1>1 DEF walletpassphrase
  <2>1. CASE due' = 0 /\ owner' = {} /\ abandoned' = TRUE /\ UNCHANGED <<pc, nMyWakeTime>>
    <3>1. TypeOK'
      BY <1>0, <2>0, <2>1 DEF TypeOK
    <3>2. Sleeper' /\ Promise'
      BY <1>0, <2>0, <2>1 DEF Sleeper, Promise
    <3>3. Guarded'
      BY <2>1 DEF Guarded
    <3> QED BY <3>1, <3>2, <3>3 DEF IInv
  <2>2. ASSUME NEW t \in Threads, pc[t] = "none", pc' = [pc EXCEPT ![t] = "new"],
               nMyWakeTime' = [nMyWakeTime EXCEPT ![t] = n],
               due' = n, owner' = {t}, abandoned' = FALSE
        PROVE  IInv'
    <3>1. pc'[t] = "new" /\ nMyWakeTime'[t] = n /\ \A u \in Threads : u # t => pc'[u] = pc[u]
      BY <1>0, <2>2 DEF TypeOK
    <3>2. TypeOK'
      BY <1>0, <2>0, <2>2 DEF TypeOK
    <3>3. Sleeper'
      BY <1>0, <2>0, <2>2, <3>1 DEF Sleeper
    <3>4. Guarded' /\ Promise'
      BY <2>2, <3>1 DEF Guarded, Promise
    <3> QED BY <3>2, <3>3, <3>4 DEF IInv
  <2> QED BY <1>1, <2>1, <2>2 DEF walletpassphrase
<1>2. CASE walletlock
  BY <1>0, <1>2 DEF walletlock, IInv, TypeOK, Sleeper, Guarded, Promise
<1>3. CASE ChangeBegins
  BY <1>0, <1>3 DEF ChangeBegins, IInv, TypeOK, Sleeper, Guarded, Promise
<1>4. CASE ChangeLocks
  BY <1>0, <1>4 DEF ChangeLocks, IInv, TypeOK, Sleeper, Guarded, Promise
<1>5. CASE ChangeUnlocks
  BY <1>0, <1>5 DEF ChangeUnlocks, IInv, TypeOK, Sleeper, Guarded, Promise
<1>6. CASE ChangeEnds
  <2>0. UNCHANGED <<nWalletUnlockTime, threads, fWasLocked, due, owner>> /\ command' = "none"
    BY <1>6 DEF ChangeEnds
  <2>1. locked' \in BOOLEAN /\ abandoned' \in BOOLEAN
    BY <1>0, <1>6 DEF ChangeEnds, TypeOK
  <2>2. TypeOK' /\ Sleeper' /\ Promise'
    BY <1>0, <2>0, <2>1 DEF TypeOK, Sleeper, Promise
  <2>3. locked' = FALSE /\ abandoned' = FALSE => locked = FALSE /\ abandoned = FALSE /\ fWasLocked = FALSE
    BY <1>0, <1>6 DEF ChangeEnds, TypeOK
  <2>4. Guarded'
    BY <1>0, <2>0, <2>3 DEF Guarded
  <2> QED BY <2>2, <2>4 DEF IInv
<1>7. ASSUME NEW t \in Threads, ThreadStarts(t) PROVE IInv'
  <2>1. pc'[t] = "entering" /\ pc[t] = "new" /\ \A u \in Threads : u # t => pc'[u] = pc[u]
    BY <1>0, <1>7 DEF ThreadStarts, TypeOK
  <2>2. TypeOK'
    BY <1>0, <1>7 DEF ThreadStarts, TypeOK
  <2>3. UNCHANGED <<locked, nWalletUnlockTime, nMyWakeTime, until, change, history>>
    BY <1>7 DEF ThreadStarts
  <2>4. Sleeper' /\ Guarded'
    BY <1>0, <2>1, <2>3 DEF Sleeper, Guarded
  <2>5. Promise'
    BY <1>0, <2>1, <2>3 DEF Promise, TypeOK
  <2> QED BY <2>2, <2>4, <2>5 DEF IInv
<1>8. ASSUME NEW t \in Threads, UNCHANGED change,
             Relock(t), nMyWakeTime' = nMyWakeTime \/ nMyWakeTime' = [nMyWakeTime EXCEPT ![t] = 0],
             \/ nWalletUnlockTime = 0 /\ pc[t] = "asleep"
             \/ nWalletUnlockTime = Unset /\ nMyWakeTime[t] = 0
      PROVE  IInv'
  <2>1. pc'[t] = "none" /\ \A u \in Threads : u # t => pc'[u] = pc[u] /\ nMyWakeTime'[u] = nMyWakeTime[u]
    BY <1>0, <1>8 DEF Relock, TypeOK
  <2>2. /\ nWalletUnlockTime' = Unset /\ locked' = TRUE
        /\ UNCHANGED <<until, due, owner, command, fWasLocked>>
    BY <1>8 DEF Relock
  <2>3. abandoned' \in BOOLEAN
    BY <1>8 DEF Relock
  <2>4. TypeOK'
    <3>1. pc' \in [Threads -> {"none", "new", "entering", "asleep"}] /\ nMyWakeTime' \in [Threads -> Nat]
      BY <1>0, <1>8 DEF Relock, TypeOK
    <3> QED BY <1>0, <2>2, <2>3, <3>1 DEF TypeOK
  <2>5. Sleeper'
    BY <2>2 DEF Sleeper
  <2>6. abandoned' = FALSE => ~(command \in {"begun", "locked"} /\ fWasLocked = FALSE)
    BY <1>0, <1>8 DEF Relock, TypeOK
  <2>7. Guarded'
    BY <2>2, <2>6 DEF Guarded
  <2>8. ASSUME due > 0 PROVE \E u \in owner : u # t /\ Pending(u) /\ due <= nMyWakeTime[u]
    BY <1>0, <1>8, <2>8 DEF Promise, TypeOK
  <2>9. Promise'
    BY <1>0, <2>1, <2>2, <2>8 DEF Promise, TypeOK
  <2> QED BY <2>4, <2>5, <2>7, <2>9 DEF IInv
<1>9. ASSUME NEW t \in Threads, NEW time \in Nat, UNCHANGED change, Sleep(t, time),
             nMyWakeTime' = nMyWakeTime \/ nMyWakeTime' = [nMyWakeTime EXCEPT ![t] = 0],
             \/ pc[t] = "entering" /\ time = nMyWakeTime[t] /\ nWalletUnlockTime = Unset
             \/ pc[t] = "asleep" /\ time = nWalletUnlockTime
      PROVE  IInv'
  <2>1. /\ pc'[t] = "asleep" /\ until'[t] = time
        /\ \A u \in Threads : u # t => pc'[u] = pc[u] /\ nMyWakeTime'[u] = nMyWakeTime[u]
    BY <1>0, <1>9 DEF Sleep, TypeOK
  <2>2. nWalletUnlockTime' = time /\ UNCHANGED <<locked, history, change>>
    BY <1>9 DEF Sleep
  <2>3. TypeOK'
    <3>1. /\ pc' \in [Threads -> {"none", "new", "entering", "asleep"}]
          /\ nMyWakeTime' \in [Threads -> Nat] /\ until' \in [Threads -> Nat]
      BY <1>0, <1>9 DEF Sleep, TypeOK
    <3> QED BY <1>0, <2>2, <3>1 DEF TypeOK
  <2>4. Sleeper'
    BY <2>1, <2>2 DEF Sleeper
  <2>5. Guarded'
    BY <2>2 DEF Guarded
  <2>6. Promise'
    BY <1>0, <1>9, <2>1, <2>2 DEF Promise, TypeOK
  <2> QED BY <2>3, <2>4, <2>5, <2>6 DEF IInv
<1>10. ASSUME NEW t \in Threads, UNCHANGED change, MoveBack(t), pc[t] = "entering",
              nWalletUnlockTime # Unset, nMyWakeTime' = [nMyWakeTime EXCEPT ![t] = 0]
       PROVE  IInv'
  <2>1. pc'[t] = "none" /\ \A u \in Threads : u # t => pc'[u] = pc[u] /\ nMyWakeTime'[u] = nMyWakeTime[u]
    BY <1>0, <1>10 DEF MoveBack, TypeOK
  <2>2. /\ nWalletUnlockTime' \in Nat /\ nWalletUnlockTime <= nWalletUnlockTime'
        /\ nMyWakeTime[t] <= nWalletUnlockTime'
        /\ UNCHANGED <<locked, until, history, change>>
    BY <1>0, <1>10 DEF MoveBack, TypeOK
  <2>3. TypeOK'
    <3>1. pc' \in [Threads -> {"none", "new", "entering", "asleep"}] /\ nMyWakeTime' \in [Threads -> Nat]
      BY <1>0, <1>10 DEF MoveBack, TypeOK
    <3> QED BY <1>0, <2>2, <3>1 DEF TypeOK
  <2>4. Sleeper'
    BY <1>0, <1>10, <2>1, <2>2 DEF Sleeper, TypeOK
  <2>5. Guarded'
    BY <2>2 DEF Guarded
  <2>6. Promise'
    BY <1>0, <1>10, <2>1, <2>2 DEF Promise, TypeOK
  <2> QED BY <2>3, <2>4, <2>5, <2>6 DEF IInv
<1>11. ASSUME NEW t \in Threads, ThreadEnters(t) PROVE IInv'
  BY <1>0, <1>8, <1>9, <1>10, <1>11 DEF ThreadEnters, TypeOK
<1>12. ASSUME NEW t \in Threads, ThreadWakes(t) PROVE IInv'
  <2>1. CASE nWalletUnlockTime = Unset /\ pc' = [pc EXCEPT ![t] = "none"]
             /\ UNCHANGED <<locked, nWalletUnlockTime, until, history, nMyWakeTime, change>>
    <3>1. pc[t] = "asleep" /\ \A u \in Threads : u # t => pc'[u] = pc[u]
      BY <1>0, <1>12, <2>1 DEF ThreadWakes, TypeOK
    <3>2. TypeOK' /\ Sleeper'
      BY <1>0, <2>1 DEF TypeOK, Sleeper
    <3>3. Guarded'
      BY <1>0, <2>1, <3>1 DEF Guarded
    <3>4. Promise'
      BY <1>0, <2>1, <3>1 DEF Promise, TypeOK
    <3> QED BY <3>2, <3>3, <3>4 DEF IInv
  <2>2. CASE nWalletUnlockTime # Unset
    BY <1>0, <1>8, <1>9, <1>12, <2>2 DEF ThreadWakes, TypeOK
  <2> QED BY <1>12, <2>1, <2>2 DEF ThreadWakes
<1>13. CASE Tick
  <2>1. \A n \in Nat : Less(n) \in Nat /\ Less(n) <= n /\ \A k \in Nat : k <= n => Less(k) <= Less(n)
    BY DEF Less
  <2>2. UNCHANGED <<locked, pc, change, owner, abandoned>> /\ due' = Less(due)
    BY <1>13 DEF Tick
  <2>3. /\ nWalletUnlockTime = Unset => nWalletUnlockTime' = Unset
        /\ nWalletUnlockTime # Unset => nWalletUnlockTime' = Less(nWalletUnlockTime)
    BY <1>13 DEF Tick
  <2>4. /\ until' \in [Threads -> Nat] /\ nMyWakeTime' \in [Threads -> Nat]
        /\ \A t \in Threads : until'[t] = Less(until[t])
        /\ \A t \in Threads : nMyWakeTime'[t] \in {nMyWakeTime[t], Less(nMyWakeTime[t])}
    BY <1>0, <1>13, <2>1 DEF Tick, TypeOK
  <2>5. nWalletUnlockTime # Unset => nWalletUnlockTime' \in Nat /\ nWalletUnlockTime' # Unset
    BY <1>0, <2>1, <2>3 DEF TypeOK
  <2>6. TypeOK'
    BY <1>0, <2>1, <2>2, <2>3, <2>4, <2>5 DEF TypeOK
  <2>7. Sleeper'
    BY <1>0, <2>1, <2>2, <2>3, <2>4 DEF Sleeper, TypeOK
  <2>8. Guarded'
    BY <1>0, <2>2, <2>3, <2>5 DEF Guarded
  <2>9. Promise'
    BY <1>0, <2>1, <2>2, <2>3, <2>4, <2>5 DEF Promise, TypeOK
  <2> QED BY <2>6, <2>7, <2>8, <2>9 DEF IInv
<1>14. CASE UNCHANGED vars
  BY <1>0, <1>14 DEF vars, IInv, TypeOK, Sleeper, Guarded, Promise
<1> QED BY <1>1, <1>2, <1>3, <1>4, <1>5, <1>6, <1>7, <1>11, <1>12, <1>13, <1>14
        DEF Next, Change, Thread

(* An unlocked wallet always has a thread that will lock it, and a time    *)
(* that is set has a thread that wakes for it; the types are right.        *)
THEOREM AlwaysWatched == Spec => [](TypeOK /\ Watched)
<1>1. IInv => TypeOK /\ Watched
  BY DEF IInv, Sleeper, Guarded, Watched, TypeOK, Pending
<1> QED BY <1>1, InitInv, StepInv, PTL DEF Spec

(* No thread cuts the latest walletpassphrase short, unless that call's    *)
(* own thread has not announced it yet.                                    *)
THEOREM NeverEarly == Spec => NotEarly
<1>1. ASSUME IInv, NEW t \in Threads, Thread(t), locked = FALSE, locked' = TRUE, due > 0
      PROVE  \E u \in owner : pc[u] \in {"new", "entering"}
  <2>1. nWalletUnlockTime = 0 \/ nWalletUnlockTime = Unset
    BY <1>1 DEF Thread, ThreadStarts, ThreadEnters, ThreadWakes, Sleep, MoveBack
  <2> QED BY <1>1, <2>1 DEF IInv, Promise, TypeOK, Pending
<1>2. IInv /\ IInv' /\ [Next]_vars =>
        [(\E t \in Threads : Thread(t)) /\ ~locked /\ locked' /\ due > 0 =>
            \E t \in owner : pc[t] \in {"new", "entering"}]_vars
  BY <1>1 DEF IInv, TypeOK
<1> QED BY <1>2, InitInv, StepInv, PTL DEF Spec, NotEarly
=================================================================================
