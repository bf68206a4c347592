------------------------- MODULE MCKanbanSessionQueue -------------------------
(* Small instances of KanbanSessionQueue for TLC.                          *)
EXTENDS KanbanSessionQueue, TLC

CONSTANTS c1, c2, none, dev, blocked, p1, p2

\* Cards and calls are interchangeable (not used with liveness).
Symmetry == Permutations(Cards) \cup Permutations(Calls)
=============================================================================
