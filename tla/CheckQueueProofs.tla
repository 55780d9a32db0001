-------------------------- MODULE CheckQueueProofs --------------------------
(***************************************************************************)
(* Proofs about CheckQueue, for every number of workers, every set of      *)
(* checks and every batch size.                                            *)
(***************************************************************************)
EXTENDS CheckQueue, FiniteSetTheorems, TLAPS

(* Checks held by the threads of S. *)
HeldBy(S) == UNION {batch[u] : u \in S}

(* A batch is non-empty exactly while its thread works on it; no check is   *)
(* in two places; everything in flight was added in this round.             *)
Batches ==
    /\ \A t \in Threads : pc[t] = "work" <=> batch[t] # {}
    /\ \A t \in Threads : left[t] \subseteq batch[t]
    /\ \A t, u \in Threads : t # u => batch[t] \cap batch[u] = {}
    /\ \A t \in Threads : batch[t] \cap queue = {}
    /\ queue \cup HeldBy(Threads) \subseteq added

Counts ==
    /\ nTodo = Cardinality(queue \cup HeldBy(Threads))
    /\ nTotal - nIdle = Cardinality(Busy)

(* fAllOk summarises the checks whose batch has been accounted for, fOk the *)
(* executed part of a batch.                                                *)
Results ==
    /\ InRound =>
          /\ fAllOk = TRUE => (added \ (queue \cup HeldBy(Threads))) \cap invalid = {}
          /\ fAllOk = FALSE => added \cap invalid # {}
    /\ \A t \in Threads : pc[t] = "work" =>
          /\ fOk[t] = TRUE => (batch[t] \ left[t]) \cap invalid = {}
          /\ fOk[t] = FALSE => added \cap invalid # {}

Rounds ==
    /\ control # "waiting" => pc[Master] \in {"out", "dead"}
    /\ ~InRound =>
          /\ queue = {} /\ HeldBy(Threads) = {} /\ fAllOk = TRUE
          /\ verdict = TRUE => added \cap invalid = {}
          /\ verdict = FALSE => added \cap invalid # {}

Inv == TypeOK /\ Batches /\ Counts /\ Results /\ Rounds
-----------------------------------------------------------------------------
LEMMA ThreadsFinite == IsFiniteSet(Threads) /\ Master \in Threads
  BY CheckQueueAssumption, FS_AddElement DEF Threads

LEMMA ChecksFinite ==
  ASSUME NEW S \in SUBSET Checks
  PROVE  IsFiniteSet(S) /\ Cardinality(S) \in Nat
  BY CheckQueueAssumption, FS_Subset, FS_CardinalityType

(* What a thread knows when it reaches the top of the inner loop with its   *)
(* own batch accounted for.                                                 *)
AtTop(t, total, idle, todo, ok) ==
    LET rest == queue \cup HeldBy(Threads \ {t})
    IN  /\ total \in Int /\ idle \in Int /\ todo \in Nat /\ ok \in BOOLEAN
        /\ total - idle = Cardinality(Busy \ {t}) + 1
        /\ todo = Cardinality(rest)
        /\ InRound =>
              /\ ok = TRUE => (added \ rest) \cap invalid = {}
              /\ ok = FALSE => added \cap invalid # {}
        /\ ~InRound => ok = TRUE
        /\ left[t] = {}
        /\ t = Master => InRound

(* Whatever the rest of the critical section does, it leads back to the     *)
(* invariant.                                                               *)
LEMMA LoopTopStep ==
  ASSUME TypeOK, Batches, Results, Rounds,
         NEW t \in Threads,
         NEW STATE total, NEW STATE idle, NEW STATE todo, NEW STATE ok,
         AtTop(t, total, idle, todo, ok),
         LoopTop(t, total, idle, todo, ok),
         invalid' = invalid, notified' \subseteq Threads, interrupted' \subseteq Threads
  PROVE  Inv'
<1> DEFINE rest == queue \cup HeldBy(Threads \ {t})
<1>a. /\ total \in Int /\ idle \in Int /\ todo \in Nat
      /\ total - idle = Cardinality(Busy \ {t}) + 1
      /\ todo = Cardinality(rest)
  BY DEF AtTop
<1>b. /\ ok \in BOOLEAN
      /\ InRound =>
            /\ ok = TRUE => (added \ rest) \cap invalid = {}
            /\ ok = FALSE => added \cap invalid # {}
      /\ ~InRound => ok = TRUE
  BY DEF AtTop
<1>c. /\ left[t] = {} /\ (t = Master => InRound)
  BY DEF AtTop
<1>0. /\ IsFiniteSet(rest) /\ IsFiniteSet(Busy \ {t}) /\ Cardinality(Busy \ {t}) \in Nat
      /\ rest \subseteq Checks
  <2>1. rest \subseteq Checks
    BY DEF HeldBy, TypeOK
  <2>2. IsFiniteSet(Busy \ {t}) /\ Cardinality(Busy \ {t}) \in Nat
    BY ThreadsFinite, FS_Subset, FS_CardinalityType DEF Busy
  <2>3. QED BY <2>1, <2>2, ChecksFinite
<1>1. CASE Return(t, total, idle, todo, ok)
  <2> USE <1>1 DEF Return
  <2>1. rest = {}
    BY <1>a, <1>0, FS_EmptySet
  <2>2. TypeOK'
    BY <1>a, <1>b DEF TypeOK
  <2>3. \A u \in Threads \ {t} : batch[u] = {}
    BY <2>1 DEF HeldBy
  <2>4. batch' = [u \in Threads |-> {}]
    BY <2>3 DEF TypeOK
  <2>5. HeldBy(Threads)' = {}
    BY <2>4 DEF HeldBy
  <2>6. Batches'
    <3>1. \A u \in Threads : pc'[u] # "work"
      BY <2>3 DEF Batches, TypeOK
    <3>2. \A u \in Threads : left'[u] = {}
      BY <1>c, <2>3 DEF Batches, TypeOK
    <3>3. QED BY <2>4, <2>5, <3>1, <3>2 DEF Batches
  <2>7. Busy' = {} /\ Busy \ {t} = {}
    BY <2>3, <2>6, <2>4 DEF Busy, Batches, TypeOK
  <2>8. Counts'
    <3>1. (queue \cup HeldBy(Threads))' = {}
      BY <2>5
    <3>a. Cardinality(Busy \ {t}) = 0
      BY <2>7, FS_EmptySet, Zenon
    <3>2. nTodo' = 0 /\ nTotal' - nIdle' = 0
      BY <1>a, <3>a DEF Return
    <3>3. QED BY <3>1, <3>2, <2>7, FS_EmptySet DEF Counts
  <2>9. Results'
    BY <2>7 DEF Results, Busy, InRound
  <2>10. Rounds'
    BY <2>5, <2>1, <1>b, <1>c, ThreadsFinite DEF Rounds, TypeOK
  <2>11. QED BY <2>2, <2>6, <2>8, <2>9, <2>10 DEF Inv
<1>2. CASE Block(t, total, idle, todo, ok)
  <2> USE <1>2 DEF Block
  <2>1. TypeOK'
    BY <1>a, <1>b, ThreadsFinite DEF TypeOK
  <2>2. /\ batch' \in [Threads -> SUBSET Checks]
        /\ batch'[t] = {} /\ \A u \in Threads \ {t} : batch'[u] = batch[u]
    BY DEF TypeOK
  <2>3. HeldBy(Threads)' = HeldBy(Threads \ {t})
    BY <2>2 DEF HeldBy
  <2>4. /\ pc'[t] = "wait" /\ \A u \in Threads \ {t} : pc'[u] = pc[u]
    BY DEF TypeOK
  <2>5. Busy' = Busy \ {t}
    BY <2>4 DEF Busy
  <2>6. Batches'
    BY <1>c, <2>2, <2>3, <2>4 DEF Batches, HeldBy
  <2>7. Counts'
    BY <1>a, <2>3, <2>5, <1>0 DEF Counts
  <2>8. Results'
    <3>1. \A u \in Threads : pc'[u] = "work" =>
             /\ fOk'[u] = TRUE => (batch'[u] \ left'[u]) \cap invalid = {}
             /\ fOk'[u] = FALSE => added \cap invalid # {}
      BY <2>2, <2>4 DEF Results
    <3>2. InRound' => InRound
      BY <1>c DEF InRound
    <3>3. /\ fAllOk' = ok /\ added' = added /\ invalid' = invalid
          /\ ((added \ (queue \cup HeldBy(Threads))) \cap invalid)' = (added \ rest) \cap invalid
      BY <2>3
    <3>4. InRound' =>
            /\ fAllOk' = TRUE => ((added \ (queue \cup HeldBy(Threads))) \cap invalid)' = {}
            /\ fAllOk' = FALSE => (added \cap invalid)' # {}
      BY <1>b, <3>2, <3>3, Zenon
    <3>5. QED BY <3>1, <3>3, <3>4, Zenon DEF Results
  <2>9. Rounds'
    BY <1>b, <1>c, <2>3, <2>4, <2>2, ThreadsFinite DEF Rounds, HeldBy, InRound
  <2>10. QED BY <2>1, <2>6, <2>7, <2>8, <2>9 DEF Inv
<1>3. CASE Take(t, total, idle, todo, ok)
  <2> USE <1>3 DEF Take
  <2>1. PICK S \in kSubset(nNow(total, idle), queue) :
          /\ queue' = queue \ S
          /\ batch' = [batch EXCEPT ![t] = S]
          /\ left' = [left EXCEPT ![t] = S]
    OBVIOUS
  <2>2. S \subseteq queue /\ S # {}
    <3>1. S \subseteq queue /\ Cardinality(S) = nNow(total, idle)
      BY DEF kSubset
    <3>2. nNow(total, idle) # 0
      BY DEF nNow
    <3>3. QED BY <3>1, <3>2, FS_EmptySet
  <2>3. TypeOK'
    BY <1>a, <1>b, <2>1, <2>2 DEF TypeOK
  <2>4. /\ batch'[t] = S /\ left'[t] = S
        /\ \A u \in Threads \ {t} : batch'[u] = batch[u] /\ left'[u] = left[u]
    BY <2>1 DEF TypeOK
  <2>5. HeldBy(Threads)' = HeldBy(Threads \ {t}) \cup S
    BY <2>4 DEF HeldBy
  <2>6. queue' \cup HeldBy(Threads)' = rest
    BY <2>1, <2>2, <2>5
  <2>7. /\ pc'[t] = "work" /\ fOk'[t] = ok
        /\ \A u \in Threads \ {t} : pc'[u] = pc[u] /\ fOk'[u] = fOk[u]
    BY DEF TypeOK
  <2>8. Busy' = (Busy \ {t}) \cup {t}
    BY <2>7 DEF Busy
  <2>9. Batches'
    <3>1. \A u \in Threads : pc'[u] = "work" <=> batch'[u] # {}
      BY <2>2, <2>4, <2>7 DEF Batches
    <3>2. \A u \in Threads : left'[u] \subseteq batch'[u]
      BY <2>4 DEF Batches
    <3>3. \A u \in Threads : batch'[u] \cap queue' = {}
      BY <2>1, <2>2, <2>4 DEF Batches
    <3>4. \A u, v \in Threads : u # v => batch'[u] \cap batch'[v] = {}
      BY <2>2, <2>4 DEF Batches
    <3>5. (queue \cup HeldBy(Threads))' \subseteq added'
      BY <2>6 DEF Batches, HeldBy
    <3>6. QED BY <3>1, <3>2, <3>3, <3>4, <3>5 DEF Batches
  <2>10. Counts'
    <3>1. Cardinality(Busy') = Cardinality(Busy \ {t}) + 1
      BY <2>8, <1>0, FS_AddElement
    <3>2. QED BY <1>a, <3>1, <2>6, <1>0 DEF Counts
  <2>11. Results'
    <3>1. InRound
      BY DEF Rounds
    <3>2. \A u \in Threads : pc'[u] = "work" =>
             /\ fOk'[u] = TRUE => (batch'[u] \ left'[u]) \cap invalid = {}
             /\ fOk'[u] = FALSE => added \cap invalid # {}
      BY <1>b, <2>4, <2>7, <3>1 DEF Results
    <3>3. /\ fAllOk' = ok /\ added' = added /\ invalid' = invalid
          /\ added \ rest = (added \ (queue \cup HeldBy(Threads)))'
      BY <2>6
    <3>a. /\ ok = TRUE => (added \ rest) \cap invalid = {}
          /\ ok = FALSE => added \cap invalid # {}
      BY <1>b, <3>1, Zenon
    <3>b. ((added \ (queue \cup HeldBy(Threads))) \cap invalid)' = (added \ rest) \cap invalid
      BY <3>3
    <3>4. /\ fAllOk' = TRUE => ((added \ (queue \cup HeldBy(Threads))) \cap invalid)' = {}
          /\ fAllOk' = FALSE => (added \cap invalid)' # {}
      BY <3>a, <3>b, <3>3, Zenon
    <3>5. QED BY <3>2, <3>3, <3>4, Zenon DEF Results
  <2>12. Rounds'
    BY <1>c, <2>7, ThreadsFinite DEF Rounds, HeldBy, Batches, TypeOK, InRound
  <2>13. QED BY <2>3, <2>9, <2>10, <2>11, <2>12 DEF Inv
<1>4. QED BY <1>1, <1>2, <1>3 DEF LoopTop

(* The conditions of LoopTopStep for a thread that holds no batch. *)
LEMMA FreshTop ==
  ASSUME Inv, NEW t \in Threads, pc[t] # "work", t = Master => InRound
  PROVE  AtTop(t, nTotal + 1, nIdle, nTodo, fAllOk) /\ AtTop(t, nTotal, nIdle - 1, nTodo, fAllOk)
<1>1. batch[t] = {} /\ left[t] = {} /\ Busy \ {t} = Busy
  BY DEF Inv, Batches, Busy
<1>2. HeldBy(Threads \ {t}) = HeldBy(Threads)
  BY <1>1 DEF HeldBy
<1>3. /\ nTotal \in Int /\ nIdle \in Int /\ nTodo \in Nat
      /\ nTotal - nIdle = Cardinality(Busy)
      /\ nTodo = Cardinality(queue \cup HeldBy(Threads \ {t}))
      /\ Cardinality(Busy) \in Nat
  BY <1>2, ThreadsFinite, FS_Subset, FS_CardinalityType DEF Inv, TypeOK, Counts, Busy
<1>4. /\ nTotal + 1 \in Int /\ nIdle - 1 \in Int
      /\ (nTotal + 1) - nIdle = Cardinality(Busy \ {t}) + 1
      /\ nTotal - (nIdle - 1) = Cardinality(Busy \ {t}) + 1
  <2>1. Cardinality(Busy \ {t}) = Cardinality(Busy)
    BY <1>1, Zenon
  <2>2. QED BY <2>1, <1>3
<1>5. /\ fAllOk \in BOOLEAN
      /\ InRound =>
            /\ fAllOk = TRUE => (added \ (queue \cup HeldBy(Threads \ {t}))) \cap invalid = {}
            /\ fAllOk = FALSE => added \cap invalid # {}
      /\ ~InRound => fAllOk = TRUE
  BY <1>2 DEF Inv, TypeOK, Results, Rounds
<1>6. AtTop(t, nTotal + 1, nIdle, nTodo, fAllOk)
  BY <1>1, <1>3, <1>4, <1>5, Zenon DEF AtTop
<1>7. AtTop(t, nTotal, nIdle - 1, nTodo, fAllOk)
  BY <1>1, <1>3, <1>4, <1>5, Zenon DEF AtTop
<1>8. QED BY <1>6, <1>7

LEMMA EnterLoopStep ==
  ASSUME Inv, NEW t \in Threads, EnterLoop(t)
  PROVE  Inv'
  BY FreshTop, LoopTopStep DEF EnterLoop, Inv, TypeOK

LEMMA WakeStep ==
  ASSUME Inv, NEW t \in Threads, Wake(t)
  PROVE  Inv'
<1>1. t = Master => InRound
  BY DEF Inv, Rounds, Wake, InRound
<1>2. AtTop(t, nTotal, nIdle - 1, nTodo, fAllOk)
  BY <1>1, FreshTop DEF Wake
<1>3. notified' \subseteq Threads /\ interrupted' \subseteq Threads /\ invalid' = invalid
  BY DEF Wake, Inv, TypeOK
<1>4. QED BY <1>2, <1>3, LoopTopStep DEF Wake, Inv

LEMMA FinishBatchStep ==
  ASSUME Inv, NEW t \in Threads, FinishBatch(t)
  PROVE  Inv'
<1> DEFINE todo == nTodo - Cardinality(batch[t])
           rest == queue \cup HeldBy(Threads \ {t})
           all  == queue \cup HeldBy(Threads)
<1>1. /\ batch[t] \subseteq Checks /\ rest \subseteq Checks /\ all \subseteq Checks
  BY DEF Inv, TypeOK, HeldBy
<1>2. all = rest \cup batch[t]
  BY DEF HeldBy
<1>3. rest \cap batch[t] = {}
  BY DEF HeldBy, Inv, Batches
<1>4. /\ Cardinality(rest) \in Nat /\ Cardinality(batch[t]) \in Nat
      /\ Cardinality(all) = Cardinality(rest) + Cardinality(batch[t])
  <2>1. /\ IsFiniteSet(rest) /\ Cardinality(rest) \in Nat
        /\ IsFiniteSet(batch[t]) /\ Cardinality(batch[t]) \in Nat
    BY <1>1, ChecksFinite
  <2>2. Cardinality(rest \cup batch[t]) =
          Cardinality(rest) + Cardinality(batch[t]) - Cardinality(rest \cap batch[t])
    BY <2>1, FS_Union
  <2>3. Cardinality(rest \cap batch[t]) = 0
    BY <1>3, FS_EmptySet, Zenon
  <2>4. Cardinality(all) = Cardinality(rest \cup batch[t])
    BY <1>2, Zenon
  <2>5. QED BY <2>1, <2>2, <2>3, <2>4
<1>5. todo = Cardinality(rest)
  BY <1>4 DEF Inv, Counts
<1>6. /\ IsFiniteSet(Busy) /\ t \in Busy
  BY ThreadsFinite, FS_Subset DEF Busy, FinishBatch
<1>7. Cardinality(Busy) = Cardinality(Busy \ {t}) + 1 /\ Cardinality(Busy \ {t}) \in Nat
  <2>1. /\ IsFiniteSet(Busy \ {t}) /\ Cardinality(Busy \ {t}) \in Nat
        /\ Cardinality(Busy) \in Nat /\ Cardinality(Busy \ {t}) = Cardinality(Busy) - 1
    BY <1>6, FS_RemoveElement, FS_CardinalityType
  <2>2. QED BY <2>1
<1>8. LET ok == fAllOk /\ fOk[t]
      IN  /\ ok \in BOOLEAN
          /\ InRound =>
                /\ ok = TRUE => (added \ rest) \cap invalid = {}
                /\ ok = FALSE => added \cap invalid # {}
  BY <1>2 DEF Inv, Results, TypeOK, FinishBatch
<1>9. InRound /\ left[t] = {}
  BY DEF Inv, Rounds, Batches, HeldBy, FinishBatch
<1>10. /\ nTotal \in Int /\ nIdle \in Int /\ todo \in Nat
       /\ nTotal - nIdle = Cardinality(Busy \ {t}) + 1
  BY <1>4, <1>5, <1>7 DEF Inv, TypeOK, Counts
<1>11. AtTop(t, nTotal, nIdle, todo, fAllOk /\ fOk[t])
  BY <1>5, <1>8, <1>9, <1>10, Zenon DEF AtTop
<1>12. notified' \subseteq Threads /\ interrupted' \subseteq Threads /\ invalid' = invalid
  BY ThreadsFinite DEF Inv, TypeOK, FinishBatch
<1>13. LoopTop(t, nTotal, nIdle, todo, fAllOk /\ fOk[t])
  BY DEF FinishBatch
<1>14. QED BY <1>11, <1>12, <1>13, LoopTopStep DEF Inv

LEMMA ExecuteCheckStep ==
  ASSUME Inv, NEW t \in Threads, ExecuteCheck(t)
  PROVE  Inv'
<1> USE DEF ExecuteCheck, members, ghost
<1>1. PICK c \in left[t] :
        /\ fOk' = [fOk EXCEPT ![t] = fOk[t] /\ c \notin invalid]
        /\ left' = [left EXCEPT ![t] = left[t] \ {c}]
  OBVIOUS
<1>2. TypeOK'
  BY <1>1 DEF Inv, TypeOK
<1>3. HeldBy(Threads)' = HeldBy(Threads) /\ Busy' = Busy
  BY DEF HeldBy, Busy
<1>4. /\ left'[t] = left[t] \ {c} /\ fOk'[t] = (fOk[t] /\ c \notin invalid)
      /\ \A u \in Threads \ {t} : left'[u] = left[u] /\ fOk'[u] = fOk[u]
  BY <1>1 DEF Inv, TypeOK
<1>5. Batches'
  BY <1>3, <1>4 DEF Inv, Batches
<1>6. Counts'
  BY <1>3 DEF Inv, Counts
<1>7. c \in added
  BY DEF Inv, Batches, HeldBy
<1>8. Results'
  <2>1. /\ fOk'[t] = TRUE => (batch[t] \ left'[t]) \cap invalid = {}
        /\ fOk'[t] = FALSE => added \cap invalid # {}
    <3>1. /\ fOk[t] \in BOOLEAN /\ pc[t] = "work"
          /\ fOk[t] = TRUE => (batch[t] \ left[t]) \cap invalid = {}
          /\ fOk[t] = FALSE => added \cap invalid # {}
      BY DEF Inv, Results, TypeOK
    <3>2. CASE c \in invalid
      <4>1. added \cap invalid # {} /\ fOk'[t] = FALSE
        BY <3>1, <3>2, <1>4, <1>7
      <4>2. QED BY <4>1
    <3>3. CASE c \notin invalid
      <4>1. fOk'[t] = fOk[t]
        BY <3>1, <3>3, <1>4
      <4>2. (batch[t] \ left'[t]) \cap invalid = (batch[t] \ left[t]) \cap invalid
        BY <3>3, <1>4
      <4>3. QED BY <3>1, <4>1, <4>2
    <3>4. QED BY <3>2, <3>3
  <2>2. \A u \in Threads : pc[u] = "work" =>
           /\ fOk'[u] = TRUE => (batch[u] \ left'[u]) \cap invalid = {}
           /\ fOk'[u] = FALSE => added \cap invalid # {}
    BY <2>1, <1>4 DEF Inv, Results
  <2>3. QED BY <2>2, <1>3 DEF Inv, Results, InRound
<1>9. Rounds'
  BY <1>3 DEF Inv, Rounds, InRound
<1>10. QED BY <1>2, <1>5, <1>6, <1>8, <1>9 DEF Inv

LEMMA InterruptStep ==
  ASSUME Inv, NEW t \in Threads, Interrupt(t)
  PROVE  Inv'
<1> USE DEF Interrupt, members, ghost
<1>1. TypeOK'
  BY DEF Inv, TypeOK
<1>2. /\ pc'[t] \in {"out", "dead"} /\ (t = Master => pc'[t] = "out")
      /\ \A u \in Threads \ {t} : pc'[u] = pc[u]
  BY DEF Inv, TypeOK
<1>3. HeldBy(Threads)' = HeldBy(Threads) /\ Busy' = Busy
  BY <1>2 DEF HeldBy, Busy
<1>4. Batches'
  BY <1>2, <1>3 DEF Inv, Batches
<1>5. Counts'
  BY <1>3 DEF Inv, Counts
<1>6. Results'
  BY <1>2, <1>3 DEF Inv, Results, InRound
<1>7. Rounds'
  BY <1>2, <1>3, ThreadsFinite DEF Inv, Rounds, InRound
<1>8. QED BY <1>1, <1>4, <1>5, <1>6, <1>7 DEF Inv

(* Outside a round nothing is queued, held or being executed. *)
LEMMA NobodyWorks ==
  ASSUME Inv, ~InRound
  PROVE  queue = {} /\ HeldBy(Threads) = {} /\ Busy = {} /\ \A t \in Threads : pc[t] # "work"
<1>1. queue = {} /\ HeldBy(Threads) = {}
  BY DEF Inv, Rounds
<1>2. \A t \in Threads : pc[t] # "work"
  BY <1>1 DEF Inv, Batches, HeldBy
<1>3. QED BY <1>1, <1>2 DEF Busy

LEMMA ConstructStep ==
  ASSUME Inv, Construct
  PROVE  Inv'
<1> USE DEF Construct, members, locals
<1>1. seen' \in Int
  BY DEF Inv, TypeOK, SeenTotal
<1>2. TypeOK'
  BY <1>1 DEF Inv, TypeOK
<1>3. HeldBy(Threads)' = HeldBy(Threads) /\ Busy' = Busy
  BY DEF HeldBy, Busy
<1>4. ~InRound /\ ~InRound'
  BY DEF InRound
<1>5. Batches'
  BY <1>3 DEF Inv, Batches
<1>6. Counts'
  BY <1>3 DEF Inv, Counts
<1>7. Results'
  BY <1>3, <1>4 DEF Inv, Results
<1>8. Rounds'
  BY <1>3, <1>4 DEF Inv, Rounds
<1>9. QED BY <1>2, <1>5, <1>6, <1>7, <1>8 DEF Inv

LEMMA ConstructedStep ==
  ASSUME Inv, Constructed
  PROVE  Inv'
<1> USE DEF Constructed, members, locals
<1>1. TypeOK'
  BY DEF Inv, TypeOK
<1>2. HeldBy(Threads)' = HeldBy(Threads) /\ Busy' = Busy
  BY DEF HeldBy, Busy
<1>3. ~InRound /\ InRound'
  BY DEF InRound
<1>4. queue = {} /\ HeldBy(Threads) = {} /\ \A t \in Threads : pc[t] # "work"
  BY <1>3, NobodyWorks
<1>5. Batches'
  BY <1>2, <1>4 DEF Inv, Batches
<1>6. Counts'
  BY <1>2 DEF Inv, Counts
<1>7. Results'
  BY <1>2, <1>3, <1>4 DEF Inv, Results, Rounds, TypeOK
<1>8. Rounds'
  BY <1>2, <1>3 DEF Inv, Rounds
<1>9. QED BY <1>1, <1>5, <1>6, <1>7, <1>8 DEF Inv

LEMMA AssertFailsStep ==
  ASSUME Inv, AssertFails
  PROVE  Inv'
<1> USE DEF AssertFails, members
<1>1. TypeOK'
  BY DEF Inv, TypeOK
<1>2. ~InRound /\ ~InRound'
  BY DEF InRound
<1>3. /\ queue = {} /\ HeldBy(Threads) = {} /\ Busy = {}
      /\ \A t \in Threads : pc[t] # "work"
  BY <1>2, NobodyWorks
<1>4. HeldBy(Threads)' = HeldBy(Threads)
  BY DEF HeldBy
<1>5. \A t \in Threads : pc'[t] = "dead"
  OBVIOUS
<1>6. Busy' = Busy
  BY <1>3, <1>5 DEF Busy
<1>7. Batches'
  BY <1>3, <1>4, <1>5 DEF Inv, Batches
<1>8. Counts'
  BY <1>4, <1>6 DEF Inv, Counts
<1>9. Results'
  BY <1>2, <1>5 DEF Inv, Results
<1>10. Rounds'
  BY <1>2, <1>4, <1>5, ThreadsFinite DEF Inv, Rounds
<1>11. QED BY <1>1, <1>7, <1>8, <1>9, <1>10 DEF Inv

LEMMA AddStep ==
  ASSUME Inv, NEW S \in SUBSET Checks, Add(S)
  PROVE  Inv'
<1> DEFINE all == queue \cup HeldBy(Threads)
<1> USE DEF Add, locals
<1>1. TypeOK'
  <2>1. Cardinality(S) \in Nat
    BY ChecksFinite
  <2>2. notified' \subseteq Threads
    BY DEF Inv, TypeOK, SleepingWorkers, Threads
  <2>3. QED BY <2>1, <2>2 DEF Inv, TypeOK
<1>2. HeldBy(Threads)' = HeldBy(Threads) /\ Busy' = Busy
  BY DEF HeldBy, Busy
<1>3. all \cap S = {} /\ all \subseteq added
  BY DEF Inv, Batches
<1>4. Batches'
  BY <1>2, <1>3 DEF Inv, Batches, HeldBy
<1>5. Counts'
  <2>1. /\ IsFiniteSet(all) /\ IsFiniteSet(S)
        /\ Cardinality(all) \in Nat /\ Cardinality(S) \in Nat
    BY ChecksFinite, <1>3 DEF Inv, TypeOK
  <2>2. Cardinality(all \cup S) = Cardinality(all) + Cardinality(S) - Cardinality(all \cap S)
    BY <2>1, FS_Union
  <2>3. Cardinality(all \cap S) = 0
    BY <1>3, FS_EmptySet, Zenon
  <2>4. (queue \cup HeldBy(Threads))' = all \cup S
    BY <1>2
  <2>5. Cardinality((queue \cup HeldBy(Threads))') = Cardinality(all) + Cardinality(S)
    <3>1. Cardinality((queue \cup HeldBy(Threads))') = Cardinality(all \cup S)
      BY <2>4, Zenon
    <3>2. QED BY <3>1, <2>1, <2>2, <2>3
  <2>6. nTodo' = Cardinality(all) + Cardinality(S)
    BY DEF Inv, Counts
  <2>7. QED BY <2>5, <2>6, <1>2 DEF Inv, Counts
<1>6. Results'
  <2>1. (added \ all)' = added \ all
    BY <1>2, <1>3
  <2>2. added \subseteq added'
    OBVIOUS
  <2>3. QED BY <2>1, <2>2 DEF Inv, Results, InRound
<1>7. Rounds'
  BY <1>2 DEF Inv, Rounds, InRound
<1>8. QED BY <1>1, <1>4, <1>5, <1>6, <1>7 DEF Inv
-----------------------------------------------------------------------------
(* Inv is inductive. *)
THEOREM InvHolds == Spec => []Inv
<1>1. Init => Inv
  <2> SUFFICES ASSUME Init PROVE Inv
    OBVIOUS
  <2> USE DEF Init
  <2>1. TypeOK
    BY CheckQueueAssumption DEF TypeOK
  <2>2. HeldBy(Threads) = {} /\ Busy = {}
    BY DEF HeldBy, Busy
  <2>3. Batches
    BY <2>2 DEF Batches
  <2>4. Counts
    BY <2>2, FS_EmptySet DEF Counts
  <2>5. Results
    BY DEF Results
  <2>6. Rounds
    BY <2>2, ThreadsFinite DEF Rounds
  <2>7. QED BY <2>1, <2>3, <2>4, <2>5, <2>6 DEF Inv
<1>2. Inv /\ [Next]_vars => Inv'
  <2> SUFFICES ASSUME Inv, [Next]_vars PROVE Inv'
    OBVIOUS
  <2>1. CASE Construct \/ Constructed \/ AssertFails
    BY <2>1, ConstructStep, ConstructedStep, AssertFailsStep
  <2>2. ASSUME NEW S \in SUBSET Checks, Add(S) PROVE Inv'
    BY <2>2, AddStep
  <2>3. ASSUME NEW t \in Threads, Step(t) PROVE Inv'
    BY <2>3, EnterLoopStep, ExecuteCheckStep, FinishBatchStep, WakeStep DEF Step
  <2>4. ASSUME NEW t \in Threads, Interrupt(t) PROVE Inv'
    BY <2>4, InterruptStep
  <2>5. CASE UNCHANGED vars
    <3>1. HeldBy(Threads)' = HeldBy(Threads) /\ Busy' = Busy
      BY <2>5 DEF HeldBy, Busy, vars, locals
    <3>2. QED BY <2>5, <3>1 DEF Inv, TypeOK, Batches, Counts, Results, Rounds, InRound,
                              vars, members, locals, ghost
  <2>6. QED BY <2>1, <2>2, <2>3, <2>4, <2>5 DEF Next, Aborted
<1>3. QED BY <1>1, <1>2, PTL DEF Spec

(* Between two rounds the members are as the constructor's assertions ask,  *)
(* and the two on nTodo and fAllOk hold wherever their unlocked reads fall. *)
THEOREM QueueUnusedHolds == Spec => []QueueUnused
<1>1. Inv => QueueUnused
  <2> SUFFICES ASSUME Inv, Unused PROVE nTotal = nIdle /\ SeenTodo = {0} /\ SeenOk = {TRUE}
    BY DEF QueueUnused
  <2>1. ~InRound
    BY DEF Unused, InRound
  <2>2. queue \cup HeldBy(Threads) = {} /\ Busy = {} /\ fAllOk = TRUE
    BY <2>1, NobodyWorks DEF Inv, Rounds
  <2>3. Cardinality(queue \cup HeldBy(Threads)) = 0 /\ Cardinality(Busy) = 0
    BY <2>2, FS_EmptySet, Zenon
  <2>4. nTotal = nIdle /\ nTodo = 0
    BY <2>3 DEF Inv, Counts, TypeOK
  <2>5. Executed = {}
    BY <2>2 DEF Executed, Busy, Threads
  <2>6. SeenTodo = {0} /\ SeenOk = {TRUE}
    BY <2>2, <2>4, <2>5 DEF SeenTodo, SeenOk
  <2>7. QED BY <2>4, <2>6
<1>2. QED BY <1>1, InvHolds, PTL

(* When Wait has returned nothing of the round is left in any thread. *)
THEOREM QueueFinishedHolds == Spec => []QueueFinished
<1>1. Inv => QueueFinished
  <2> SUFFICES ASSUME Inv, Unused PROVE queue = {} /\ Held = {} /\ Busy = {}
    BY DEF QueueFinished
  <2>1. ~InRound
    BY DEF Unused, InRound
  <2>2. QED BY <2>1, NobodyWorks DEF HeldBy, Held
<1>2. QED BY <1>1, InvHolds, PTL

(* Wait returns the conjunction of the checks of its round. *)
THEOREM VerdictExactHolds == Spec => []VerdictExact
<1>1. Inv => VerdictExact
  BY DEF Inv, Rounds, TypeOK, VerdictExact, Unused, InRound
<1>2. QED BY <1>1, InvHolds, PTL

(* nTodo is exact, so the unsigned subtraction cannot wrap. *)
THEOREM TodoExactHolds == Spec => []TodoExact
<1>1. Inv => TodoExact
  BY DEF Inv, Counts, Batches, HeldBy, Held, TodoExact
<1>2. QED BY <1>1, InvHolds, PTL
=============================================================================
