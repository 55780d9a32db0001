----------------------------- MODULE WalletRelock -----------------------------
(***************************************************************************)
(* The time for which an encrypted wallet stays unlocked.                  *)
(*                                                                         *)
(* walletpassphrase unlocks the wallet and starts a thread,                *)
(* ThreadCleanWalletPassphrase, that is to lock it again.  The threads     *)
(* agree on one time, nWalletUnlockTime, under cs_nWalletUnlockTime: the   *)
(* first one sets it and sleeps, a later one may only move it back.        *)
(* walletlock forgets it and leaves the sleepers to find out.  The RPCs    *)
(* run one at a time, under cs_wallet; the threads do not take that lock,  *)
(* so that they run between the steps of walletpassphrasechange, which     *)
(* locks and unlocks the wallet on its way.                                *)
(*                                                                         *)
(* A time is kept as the number of ticks left, so that the clock has no    *)
(* bound; a time that is past is 0.  Sleeping ends no earlier than asked.  *)
(* The daemon without a user interface, from a start with an encrypted     *)
(* wallet and without -walletpassword on.                                  *)
(***************************************************************************)
EXTENDS Naturals

CONSTANTS
    Threads,      \* bound: relocking threads alive at a time
    Timeouts,     \* the second argument of walletpassphrase
    Unset         \* nWalletUnlockTime is 0

ASSUME RelockAssumption == Timeouts \subseteq Nat /\ Unset \notin Nat

VARIABLES
    locked,             \* vMasterKey is empty
    nWalletUnlockTime,  \* ticks left, or Unset
    pc,                 \* of each thread
    nMyWakeTime,        \* of each thread; before it starts, the timeout it was given
    until,              \* when a thread's MilliSleep ends
    command,            \* where walletpassphrasechange is
    fWasLocked,         \* ... what it found
    due,                \* history: ticks left of the latest unlock
    owner,              \* history: the threads (at most one) it started
    abandoned           \* history: the latest unlock is left without a thread

threads == <<pc, nMyWakeTime, until>>
change == <<command, fWasLocked>>
history == <<due, owner, abandoned>>
vars == <<locked, nWalletUnlockTime, threads, change, history>>

Init ==
    /\ locked = TRUE
    /\ nWalletUnlockTime = Unset
    /\ pc = [t \in Threads |-> "none"]
    /\ nMyWakeTime = [t \in Threads |-> 0]
    /\ until = [t \in Threads |-> 0]
    /\ command = "none" /\ fWasLocked = FALSE
    /\ due = 0 /\ owner = {} /\ abandoned = FALSE

---------------------------------------------------------------------------
(* walletpassphrase with the right passphrase; the result of NewThread is  *)
(* not looked at.                                                          *)
walletpassphrase(n) ==
    /\ command = "none" /\ locked
    /\ locked' = FALSE
    /\ \/ \E t \in Threads :
            /\ pc[t] = "none"
            /\ pc' = [pc EXCEPT ![t] = "new"]
            /\ nMyWakeTime' = [nMyWakeTime EXCEPT ![t] = n]
            /\ due' = n /\ owner' = {t} /\ abandoned' = FALSE
       \/ due' = 0 /\ owner' = {} /\ abandoned' = TRUE /\ UNCHANGED <<pc, nMyWakeTime>>
    /\ UNCHANGED <<nWalletUnlockTime, until, change>>

walletlock ==
    /\ command = "none"
    /\ locked' = TRUE
    /\ nWalletUnlockTime' = Unset
    /\ due' = 0 /\ owner' = {}
    /\ UNCHANGED <<threads, change, abandoned>>

(* walletpassphrasechange: looks whether the wallet is locked, locks it,   *)
(* unlocks it with the old passphrase, and locks it again if it was        *)
(* locked.                                                                 *)
ChangeBegins ==
    /\ command = "none"
    /\ command' = "begun" /\ fWasLocked' = locked
    /\ UNCHANGED <<locked, nWalletUnlockTime, threads, history>>

ChangeLocks ==
    /\ command = "begun"
    /\ locked' = TRUE /\ command' = "locked"
    /\ UNCHANGED <<nWalletUnlockTime, threads, fWasLocked, history>>

(* With the wrong passphrase the wallet stays locked.                      *)
ChangeUnlocks ==
    /\ command = "locked"
    /\ \/ command' = "none" /\ UNCHANGED locked
       \/ command' = "unlocked" /\ locked' = FALSE
    /\ UNCHANGED <<nWalletUnlockTime, threads, fWasLocked, history>>

(* Variant: the wallet is left as it is.                                   *)
ChangeEndsUnlocked ==
    /\ command = "unlocked" /\ command' = "none"
    /\ UNCHANGED <<locked, nWalletUnlockTime, threads, fWasLocked, history>>

(* If the new passphrase cannot be turned into a key, the wallet stays     *)
(* unlocked, even if it was locked.                                        *)
ChangeEnds ==
    /\ command = "unlocked" /\ command' = "none"
    /\ \/ locked' = (locked \/ fWasLocked) /\ UNCHANGED abandoned
       \/ abandoned' = (abandoned \/ fWasLocked) /\ UNCHANGED locked
    /\ UNCHANGED <<nWalletUnlockTime, threads, fWasLocked, due, owner>>

---------------------------------------------------------------------------
(* The thread reads the clock: its time counts from here.                  *)
ThreadStarts(t) ==
    /\ pc[t] = "new"
    /\ pc' = [pc EXCEPT ![t] = "entering"]
    /\ UNCHANGED <<locked, nWalletUnlockTime, nMyWakeTime, until, change, history>>

(* The time has come: a change that has seen the wallet unlocked and not   *)
(* yet unlocked it itself will do so with no thread left.                  *)
Relock(t) ==
    /\ nWalletUnlockTime' = Unset /\ locked' = TRUE
    /\ pc' = [pc EXCEPT ![t] = "none"]
    /\ abandoned' = (abandoned \/ (command \in {"begun", "locked"} /\ ~fWasLocked))
    /\ UNCHANGED <<until, due, owner>>

Sleep(t, time) ==
    /\ pc' = [pc EXCEPT ![t] = "asleep"]
    /\ until' = [until EXCEPT ![t] = time]
    /\ nWalletUnlockTime' = time
    /\ UNCHANGED <<locked, history>>

(* Variant: a later thread does not move the time back.                    *)
ExitOnly(t) ==
    /\ pc' = [pc EXCEPT ![t] = "none"]
    /\ UNCHANGED <<locked, nWalletUnlockTime, until, history>>

(* Another thread waits already.                                           *)
MoveBack(t) ==
    /\ pc' = [pc EXCEPT ![t] = "none"]
    /\ nWalletUnlockTime' = IF nWalletUnlockTime < nMyWakeTime[t] THEN nMyWakeTime[t]
                            ELSE nWalletUnlockTime
    /\ UNCHANGED <<locked, until, history>>

ThreadEnters(t) ==
    /\ pc[t] = "entering"
    /\ \/ nWalletUnlockTime = Unset /\ nMyWakeTime[t] = 0 /\ Relock(t)
       \/ nWalletUnlockTime = Unset /\ nMyWakeTime[t] > 0 /\ Sleep(t, nMyWakeTime[t])
       \/ nWalletUnlockTime # Unset /\ MoveBack(t)
    /\ nMyWakeTime' = [nMyWakeTime EXCEPT ![t] = 0]
    /\ UNCHANGED change

(* Variant: the thread sleeps only once.                                   *)
WakesOnce(t) ==
    /\ pc[t] = "asleep" /\ until[t] = 0
    /\ \/ /\ nWalletUnlockTime # 0
          /\ pc' = [pc EXCEPT ![t] = "none"]
          /\ UNCHANGED <<locked, nWalletUnlockTime, until, history>>
       \/ nWalletUnlockTime = 0 /\ Relock(t)
    /\ UNCHANGED <<nMyWakeTime, change>>

(* The sleeper looks again, and exits if walletlock or another sleeper     *)
(* came first.                                                             *)
ThreadWakes(t) ==
    /\ pc[t] = "asleep" /\ until[t] = 0
    /\ \/ /\ nWalletUnlockTime = Unset
          /\ pc' = [pc EXCEPT ![t] = "none"]
          /\ UNCHANGED <<locked, nWalletUnlockTime, until, history>>
       \/ nWalletUnlockTime = 0 /\ Relock(t)
       \/ nWalletUnlockTime \notin {Unset, 0} /\ Sleep(t, nWalletUnlockTime)
    /\ UNCHANGED <<nMyWakeTime, change>>

Less(n) == IF n = 0 THEN 0 ELSE n - 1

(* A thread that has not read the clock yet loses nothing.                 *)
Tick ==
    /\ nWalletUnlockTime' = IF nWalletUnlockTime = Unset THEN Unset
                            ELSE Less(nWalletUnlockTime)
    /\ nMyWakeTime' = [t \in Threads |-> IF pc[t] = "new" THEN nMyWakeTime[t]
                                         ELSE Less(nMyWakeTime[t])]
    /\ until' = [t \in Threads |-> Less(until[t])]
    /\ due' = Less(due)
    /\ UNCHANGED <<locked, pc, change, owner, abandoned>>

Change == ChangeBegins \/ ChangeLocks \/ ChangeUnlocks \/ ChangeEnds

Thread(t) == ThreadStarts(t) \/ ThreadEnters(t) \/ ThreadWakes(t)

Next ==
    \/ \E n \in Timeouts : walletpassphrase(n)
    \/ walletlock
    \/ Change
    \/ \E t \in Threads : Thread(t)
    \/ Tick

(* Time passes, threads are scheduled, and a command that has begun goes   *)
(* on; nobody is obliged to send one.                                      *)
Fairness ==
    /\ WF_vars(Tick)
    /\ WF_vars(ChangeLocks \/ ChangeUnlocks \/ ChangeEnds)
    /\ \A t \in Threads : WF_vars(Thread(t))

Spec == Init /\ [][Next]_vars /\ Fairness

---------------------------------------------------------------------------
(* Types; only a thread that sleeps has a time to sleep until.             *)
TypeOK ==
    /\ locked \in BOOLEAN /\ fWasLocked \in BOOLEAN /\ abandoned \in BOOLEAN
    /\ nWalletUnlockTime \in Nat \cup {Unset}
    /\ pc \in [Threads -> {"none", "new", "entering", "asleep"}]
    /\ nMyWakeTime \in [Threads -> Nat]
    /\ until \in [Threads -> Nat]
    /\ command \in {"none", "begun", "locked", "unlocked"}
    /\ due \in Nat /\ owner \subseteq Threads

(* Whatever the order of commands and threads: there is a thread that will *)
(* wake no later than the time agreed on, and an unlocked wallet has a     *)
(* thread that will lock it, one that waits or one that is about to; apart *)
(* from a wallet that was left without one, and from a change of           *)
(* passphrase that will lock it itself.                                    *)
Watched ==
    /\ nWalletUnlockTime # Unset =>
        \E t \in Threads : pc[t] = "asleep" /\ until[t] <= nWalletUnlockTime
    /\ ~locked /\ ~abandoned =>
        \/ nWalletUnlockTime # Unset
        \/ \E t \in Threads : pc[t] \in {"new", "entering"}
        \/ command = "unlocked" /\ fWasLocked

(* A thread does not lock the wallet before the timeout of the latest      *)
(* walletpassphrase has passed, unless the thread of that call has not     *)
(* come to cs_nWalletUnlockTime yet.                                       *)
NotEarly ==
    [][(\E t \in Threads : Thread(t)) /\ ~locked /\ locked' /\ due > 0 =>
        \E t \in owner : pc[t] \in {"new", "entering"}]_vars

(* An unlocked wallet is locked again, unless it was left without a thread.*)
RelockedUnlessAbandoned == ~locked ~> locked \/ abandoned

(* The help of walletpassphrase: "Stores the wallet decryption key in      *)
(* memory for <timeout> seconds."  It does not hold: when the time comes   *)
(* while walletpassphrasechange is at work, the wallet stays unlocked.     *)
Relocked == ~locked ~> locked
=============================================================================
