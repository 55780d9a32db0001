---------------------------- MODULE CheckVerdict ----------------------------
(***************************************************************************)
(* What CCheckQueueControl promises to ConnectBlock, without threads: a    *)
(* round collects checks, and its end yields the conjunction of their      *)
(* results.                                                                *)
(***************************************************************************)
CONSTANT Checks

VARIABLES invalid,   \* the checks that fail
          open,      \* a round is in progress
          added,     \* the checks of the round
          verdict    \* the result of the last finished round

Init ==
    /\ invalid \in SUBSET Checks
    /\ open = FALSE /\ added = {} /\ verdict = TRUE

Start ==
    /\ ~open
    /\ open' = TRUE /\ added' = {}
    /\ UNCHANGED <<invalid, verdict>>

Submit(S) ==
    /\ open
    /\ added' = added \cup S
    /\ UNCHANGED <<invalid, open, verdict>>

Finish ==
    /\ open
    /\ open' = FALSE
    /\ verdict' = (added \cap invalid = {})
    /\ UNCHANGED <<invalid, added>>

Next == Start \/ (\E S \in SUBSET Checks : Submit(S)) \/ Finish

vars == <<invalid, open, added, verdict>>

Safe == Init /\ [][Next]_vars

(* Every round that starts also ends. *)
Spec == Safe /\ WF_vars(Finish)
=============================================================================
