--------------------------- MODULE MC_CheckQueue ---------------------------
(* CheckQueue as TLC runs it.  Checks differ only in whether they fail, so  *)
(* two that may fail among four are enough: which threads take them, alone  *)
(* or in a larger batch, and when is left open.                             *)
EXTENDS CheckQueue
=============================================================================
