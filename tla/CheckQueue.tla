----------------------------- MODULE CheckQueue -----------------------------
(***************************************************************************)
(* CCheckQueue and CCheckQueueControl (checkqueue.h): the pool of threads  *)
(* that verifies the script checks of one block while ConnectBlock runs.   *)
(* The thread inside ConnectBlock is the master; it adds batches of checks *)
(* and joins the pool in Wait().                                           *)
(*                                                                         *)
(* Loop() and Add() touch the queue's members under its mutex, and a       *)
(* critical section of Loop() ends in a return, in cond.wait or with a     *)
(* batch taken, so one critical section is one step.  The constructor of   *)
(* the control object reads the members without the mutex: it may see what *)
(* they are between two assignments of a critical section.  The order      *)
(* inside the queue is immaterial ("as the order of booleans doesn't       *)
(* matter"): the queue and a batch are sets of checks.                     *)
(***************************************************************************)
EXTENDS Integers, FiniteSets, FiniteSetsExt

CONSTANTS Master,      \* the thread that connects blocks
          Workers,     \* the threads running ThreadScriptCheck
          Checks,      \* the script checks a block can need
          MayFail,     \* the checks whose script may be false
          nBatchSize   \* constructor argument of the queue

Threads == Workers \cup {Master}

ASSUME CheckQueueAssumption ==
    /\ Master \notin Workers
    /\ IsFiniteSet(Workers)
    /\ IsFiniteSet(Checks)
    /\ MayFail \subseteq Checks
    /\ nBatchSize \in Nat \ {0}

VARIABLES
    invalid,      \* checks whose operator() returns false (input, never changes)
    queue,        \* checks nobody has taken yet
    nIdle, nTotal, nTodo, fAllOk,
    pc,           \* "out" of Loop, in cond."wait", at "work" on a batch, "dead"
    batch,        \* per thread: the checks taken, nNow = Cardinality(batch)
    left,         \* per thread: the part of vChecks not yet executed
    fOk,          \* per thread: the local result of Loop
    notified,     \* waiting threads whose condition variable was signalled
    interrupted,  \* threads that boost has already interrupted
    control,      \* control object: "done" (none alive), "asserting" (under
                  \* construction), "open", "waiting"; or the process has "aborted"
    seen,         \* nTotal as the constructor has read it
    added,        \* checks passed to Add since the control object was built
    verdict       \* result of the last Wait

members == <<nIdle, nTotal, nTodo, fAllOk>>
locals  == <<pc, batch, left, fOk>>
ghost   == <<control, seen, added, verdict>>
vars    == <<invalid, queue, members, locals, notified, interrupted, ghost>>

TypeOK ==
    /\ invalid \subseteq Checks
    /\ queue \subseteq Checks
    /\ nIdle \in Int /\ nTotal \in Int /\ nTodo \in Nat
    /\ fAllOk \in BOOLEAN
    /\ pc \in [Threads -> {"out", "wait", "work", "dead"}]
    /\ batch \in [Threads -> SUBSET Checks]
    /\ left \in [Threads -> SUBSET Checks]
    /\ fOk \in [Threads -> BOOLEAN]
    /\ notified \subseteq Threads
    /\ interrupted \subseteq Threads
    /\ control \in {"done", "asserting", "open", "waiting", "aborted"}
    /\ seen \in Int
    /\ added \subseteq Checks
    /\ verdict \in BOOLEAN

Init ==
    /\ invalid \in SUBSET MayFail
    /\ queue = {}
    /\ nIdle = 0 /\ nTotal = 0 /\ nTodo = 0 /\ fAllOk = TRUE
    /\ pc = [t \in Threads |-> "out"]
    /\ batch = [t \in Threads |-> {}]
    /\ left = [t \in Threads |-> {}]
    /\ fOk = [t \in Threads |-> TRUE]
    /\ notified = {} /\ interrupted = {}
    /\ control = "done" /\ seen = 0 /\ added = {} /\ verdict = TRUE

(* How many checks one batch takes. *)
nNow(total, idle) ==
    LET share == Cardinality(queue) \div (total + idle + 1)
        capped == IF share < nBatchSize THEN share ELSE nBatchSize
    IN  IF capped < 1 THEN 1 ELSE capped

(* Mutants of Return: the reset of fAllOk forgotten; the test of nTodo      *)
(* forgotten, so that an empty queue alone ends the wait.                   *)
ReturnKeepsStatus(t, total, idle, todo, ok) ==
    /\ queue = {} /\ t = Master /\ todo = 0
    /\ nTotal' = total - 1 /\ nIdle' = idle /\ nTodo' = todo
    /\ fAllOk' = ok
    /\ verdict' = ok /\ control' = "done"
    /\ pc' = [pc EXCEPT ![t] = "out"]
    /\ batch' = [batch EXCEPT ![t] = {}]
    /\ UNCHANGED <<queue, left, fOk, seen, added>>

ReturnOnEmptyQueue(t, total, idle, todo, ok) ==
    /\ queue = {} /\ t = Master
    /\ nTotal' = total - 1 /\ nIdle' = idle /\ nTodo' = todo
    /\ fAllOk' = TRUE
    /\ verdict' = ok /\ control' = "done"
    /\ pc' = [pc EXCEPT ![t] = "out"]
    /\ batch' = [batch EXCEPT ![t] = {}]
    /\ UNCHANGED <<queue, left, fOk, seen, added>>

(***************************************************************************)
(* The rest of a critical section, from `while (queue.empty())` on, for a  *)
(* thread that reaches it with the given values of the members: return,    *)
(* wait, or take a batch.                                                  *)
(***************************************************************************)
Return(t, total, idle, todo, ok) ==
    /\ queue = {} /\ t = Master /\ todo = 0
    /\ nTotal' = total - 1 /\ nIdle' = idle /\ nTodo' = todo
    /\ fAllOk' = TRUE
    /\ verdict' = ok /\ control' = "done"
    /\ pc' = [pc EXCEPT ![t] = "out"]
    /\ batch' = [batch EXCEPT ![t] = {}]
    /\ UNCHANGED <<queue, left, fOk, seen, added>>

Block(t, total, idle, todo, ok) ==
    /\ queue = {} /\ ~(t = Master /\ todo = 0)
    /\ nTotal' = total /\ nIdle' = idle + 1 /\ nTodo' = todo
    /\ fAllOk' = ok
    /\ pc' = [pc EXCEPT ![t] = "wait"]
    /\ batch' = [batch EXCEPT ![t] = {}]
    /\ control' = IF t = Master THEN "waiting" ELSE control
    /\ UNCHANGED <<queue, left, fOk, seen, added, verdict>>

Take(t, total, idle, todo, ok) ==
    /\ queue # {}
    /\ nTotal' = total /\ nIdle' = idle /\ nTodo' = todo
    /\ fAllOk' = ok
    /\ \E S \in kSubset(nNow(total, idle), queue) :
          /\ queue' = queue \ S
          /\ batch' = [batch EXCEPT ![t] = S]
          /\ left' = [left EXCEPT ![t] = S]
    /\ fOk' = [fOk EXCEPT ![t] = ok]
    /\ pc' = [pc EXCEPT ![t] = "work"]
    /\ control' = IF t = Master THEN "waiting" ELSE control
    /\ UNCHANGED <<seen, added, verdict>>

LoopTop(t, total, idle, todo, ok) ==
    \/ Return(t, total, idle, todo, ok)
    \/ Block(t, total, idle, todo, ok)
    \/ Take(t, total, idle, todo, ok)

(* The control object has been built and not yet waited for. *)
InRound == control \in {"open", "waiting"}

(* First iteration of Loop: a worker thread starts, or the master calls Wait *)
(* (explicitly, or from ~CCheckQueueControl).                                *)
EnterLoop(t) ==
    /\ pc[t] = "out"
    /\ t = Master => InRound
    /\ LoopTop(t, nTotal + 1, nIdle, nTodo, fAllOk)
    /\ UNCHANGED <<invalid, notified, interrupted>>

(* A thread executes the next check of its batch, or skips it once fOk is false. *)
ExecuteCheck(t) ==
    /\ pc[t] = "work"
    /\ \E c \in left[t] :
          /\ fOk' = [fOk EXCEPT ![t] = fOk[t] /\ c \notin invalid]
          /\ left' = [left EXCEPT ![t] = left[t] \ {c}]
    /\ UNCHANGED <<invalid, queue, members, pc, batch, notified, interrupted, ghost>>

(* Mutants of FinishBatch: `fAllOk = fOk` for `fAllOk &= fOk`; the master    *)
(* is not notified; the whole batch counted as one check.                    *)
FinishBatchOverwrites(t) ==
    /\ pc[t] = "work" /\ left[t] = {}
    /\ LET todo == nTodo - Cardinality(batch[t])
       IN  /\ notified' = IF todo = 0 /\ t # Master /\ pc[Master] = "wait"
                          THEN notified \cup {Master} ELSE notified
           /\ LoopTop(t, nTotal, nIdle, todo, fOk[t])
    /\ UNCHANGED <<invalid, interrupted>>

FinishBatchSilently(t) ==
    /\ pc[t] = "work" /\ left[t] = {}
    /\ LoopTop(t, nTotal, nIdle, nTodo - Cardinality(batch[t]), fAllOk /\ fOk[t])
    /\ UNCHANGED <<invalid, interrupted, notified>>

FinishBatchAsOne(t) ==
    /\ pc[t] = "work" /\ left[t] = {}
    /\ LET todo == nTodo - 1
       IN  /\ notified' = IF todo = 0 /\ t # Master /\ pc[Master] = "wait"
                          THEN notified \cup {Master} ELSE notified
           /\ LoopTop(t, nTotal, nIdle, todo, fAllOk /\ fOk[t])
    /\ UNCHANGED <<invalid, interrupted>>

(* A thread whose batch is executed re-enters the critical section: the      *)
(* clean-up of the previous iteration, then the loop.                        *)
FinishBatch(t) ==
    /\ pc[t] = "work" /\ left[t] = {}
    /\ LET todo == nTodo - Cardinality(batch[t])
       IN  /\ notified' = IF todo = 0 /\ t # Master /\ pc[Master] = "wait"
                          THEN notified \cup {Master} ELSE notified
           /\ LoopTop(t, nTotal, nIdle, todo, fAllOk /\ fOk[t])
    /\ UNCHANGED <<invalid, interrupted>>

(* cond.wait returns, after a notification or spuriously. *)
Wake(t) ==
    /\ pc[t] = "wait"
    /\ notified' = notified \ {t}
    /\ LoopTop(t, nTotal, nIdle - 1, nTodo, fAllOk)
    /\ UNCHANGED <<invalid, interrupted>>

(* threadGroup.interrupt_all() at shutdown: cond.wait throws.  nIdle and     *)
(* nTotal keep counting the thread.  A worker ends; for the master the       *)
(* destructor of the control object calls Wait again.                        *)
Interrupt(t) ==
    /\ pc[t] = "wait" /\ t \notin interrupted
    /\ interrupted' = interrupted \cup {t}
    /\ notified' = notified \ {t}
    /\ pc' = [pc EXCEPT ![t] = IF t = Master THEN "out" ELSE "dead"]
    /\ UNCHANGED <<invalid, queue, members, batch, left, fOk, ghost>>

(* What a read without the mutex can return: the member, or its value in     *)
(* the middle of a critical section.  A worker that starts has counted       *)
(* itself in nTotal and not yet in nIdle; one that cond.wait returns to has  *)
(* left nIdle and may be about to wait again; one with a batch to account    *)
(* for changes fAllOk and nTodo.                                             *)
SeenTotal == {nTotal} \cup {nTotal + 1 : w \in {x \in Workers : pc[x] = "out"}}
SeenIdle  == {nIdle} \cup {nIdle - 1 : w \in {x \in Workers : pc[x] = "wait"}}

Executed  == {w \in Workers : pc[w] = "work" /\ left[w] = {}}
SeenTodo  == {nTodo} \cup {nTodo - Cardinality(batch[w]) : w \in Executed}
SeenOk    == {fAllOk} \cup {fAllOk /\ fOk[w] : w \in Executed}

(* ConnectBlock builds a CCheckQueueControl, whose constructor reads nTotal  *)
(* and then the other members.                                               *)
Construct ==
    /\ control = "done"
    /\ control' = "asserting" /\ seen' \in SeenTotal
    /\ UNCHANGED <<invalid, queue, members, locals, notified, interrupted, added, verdict>>

Constructed ==
    /\ control = "asserting"
    /\ seen \in SeenIdle /\ 0 \in SeenTodo /\ TRUE \in SeenOk
    /\ control' = "open" /\ seen' = 0 /\ added' = {}
    /\ UNCHANGED <<invalid, queue, members, locals, notified, interrupted, verdict>>

(* An assertion fails, which ends the process and all its threads.           *)
AssertFails ==
    /\ control = "asserting"
    /\ SeenIdle # {seen} \/ SeenTodo # {0} \/ SeenOk # {TRUE}
    /\ control' = "aborted" /\ seen' = 0
    /\ pc' = [t \in Threads |-> "dead"] /\ notified' = {}
    /\ UNCHANGED <<invalid, queue, members, batch, left, fOk, interrupted, added, verdict>>

Aborted == control = "aborted" /\ UNCHANGED vars

SleepingWorkers == {w \in Workers : pc[w] = "wait"} \ notified

(* Add: one check signals one worker, several signal them all. *)
Add(S) ==
    /\ control = "open"
    /\ S # {} /\ S \cap added = {}
    /\ queue' = queue \cup S
    /\ nTodo' = nTodo + Cardinality(S)
    /\ added' = added \cup S
    /\ \/ /\ Cardinality(S) = 1 /\ SleepingWorkers # {}
          /\ \E w \in SleepingWorkers : notified' = notified \cup {w}
       \/ /\ Cardinality(S) = 1 /\ SleepingWorkers = {}
          /\ UNCHANGED notified
       \/ /\ Cardinality(S) > 1
          /\ notified' = notified \cup SleepingWorkers
    /\ UNCHANGED <<invalid, nIdle, nTotal, fAllOk, locals, interrupted, control, seen, verdict>>

Step(t) == EnterLoop(t) \/ ExecuteCheck(t) \/ FinishBatch(t) \/ Wake(t)

Next ==
    \/ Construct \/ Constructed \/ AssertFails \/ Aborted
    \/ \E S \in SUBSET Checks : Add(S)
    \/ \E t \in Threads : Step(t) \/ Interrupt(t)

Spec == Init /\ [][Next]_vars

(* The scheduler runs every thread that can run: a thread entering or inside *)
(* the loop, and a waiting thread that was signalled.                        *)
Fairness ==
    \A t \in Threads :
       /\ WF_vars(ExecuteCheck(t))
       /\ WF_vars(FinishBatch(t))
       /\ WF_vars(t \in notified /\ Wake(t))
       /\ WF_vars(t = Master /\ control = "open" /\ EnterLoop(t))
       /\ WF_vars(t = Master /\ control = "waiting" /\ EnterLoop(t))

FairSpec == Spec /\ Fairness
-----------------------------------------------------------------------------
(* Checks taken by a thread and not yet accounted for. *)
Held == UNION {batch[t] : t \in Threads}

Busy == {t \in Threads : pc[t] = "work"}

(* No control object is alive, or the next one is being built. *)
Unused == control \in {"done", "asserting"}

(* "passed queue is supposed to be unused": between two blocks nobody works  *)
(* and the members are as the three assertions of the constructor ask,       *)
(* whatever the last round went through, interrupted waits included.  The    *)
(* assertions on nTodo and fAllOk cannot fail although they are evaluated    *)
(* without the mutex.  The one on nTotal and nIdle can, and AssertFails is a *)
(* step of the model: the two are equal only outside the critical sections,  *)
(* and a worker may start, or wake and go back to sleep, while it is read.   *)
QueueUnused ==
    Unused => nTotal = nIdle /\ SeenTodo = {0} /\ SeenOk = {TRUE}

(* "Guarantees the passed queue is finished before continuing": once Wait    *)
(* has returned no check is queued or still referenced by a worker's batch,  *)
(* so the transactions the checks point into may be freed.                   *)
QueueFinished ==
    Unused => queue = {} /\ Held = {} /\ Busy = {}

(* Wait returns true exactly when every check added since construction is    *)
(* valid: no failure is lost between batches, none leaks into the next block *)
(* and skipping the rest of a failed batch never hides it.                   *)
VerdictExact ==
    Unused => (verdict <=> added \cap invalid = {})

(* nTodo counts exactly the checks queued or held by some batch, and no      *)
(* check is held twice: the unsigned subtraction in Loop never wraps.        *)
TodoExact ==
    /\ nTodo = Cardinality(queue \cup Held)
    /\ \A t, u \in Threads : t # u => batch[t] \cap batch[u] = {}
    /\ \A t \in Threads : batch[t] \cap queue = {}

(* The threads together implement the sequential contract of CheckVerdict:   *)
(* each round yields the conjunction of its checks, and every round ends.    *)
Contract == INSTANCE CheckVerdict WITH open <- InRound
ImplementsContract == Contract!Spec
=============================================================================
