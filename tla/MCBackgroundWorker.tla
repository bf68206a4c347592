-------------------------- MODULE MCBackgroundWorker --------------------------
(* Small instances of BackgroundWorker for TLC.                            *)
EXTENDS BackgroundWorker

CONSTANTS none, g, d1, d2

\* One step; two steps in a row; two steps of one parallel group.
One == {<<none>>}
Chain == {<<none, none>>}
Pair == {<<g, g>>}
ChainOrPair == Chain \cup Pair

\* The prompt of the second step has a placeholder for the output of the first.
NoRefs == [t \in Tasks |-> {}]
RefsToFirst == [t \in Tasks |-> {1} \ {t}]
=============================================================================
