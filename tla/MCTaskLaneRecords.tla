------------------------- MODULE MCTaskLaneRecords -------------------------
(***************************************************************************)
(* Model-checking instance of TaskLaneRecords.                             *)
(***************************************************************************)
EXTENDS TaskLaneRecords, TLC

\* Handlers and sessions are interchangeable; columns are not (CHOOSE).
Symmetric == Permutations(Writers) \cup Permutations(Sessions)
=============================================================================
