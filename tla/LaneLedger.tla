----------------------------- MODULE LaneLedger -----------------------------
(***************************************************************************)
(* What the task store promises about the lane records of one card: an     *)
(* append-only ledger.  A session's record appears once, may end, and is   *)
(* never forgotten or reopened while the card exists; a planned rerun time *)
(* written on a record stays on it.  Only deleting the card empties the    *)
(* ledger.  This is the contract in the header of lane-session-merge.ts,   *)
(* stated without copies, saves or merging.                                *)
(***************************************************************************)
EXTENDS LaneRecord

VARIABLE ledger

\* What may become of one record while its card is stored.
Grows(r, q) ==
  /\ Present(r) => Present(q) /\ q.column = r.column
  /\ Ended(r) => Ended(q)
  /\ r.retry => q.retry

Init == ledger \in [Sessions -> LaneRecord] /\ \A s \in Sessions : ~ Present(ledger[s])

Write == /\ ledger' \in [Sessions -> LaneRecord]
         /\ \A s \in Sessions : Grows(ledger[s], ledger'[s])

Erase == /\ ledger' \in [Sessions -> LaneRecord]
         /\ \A s \in Sessions : ~ Present(ledger'[s])

Next == Write \/ Erase

Spec == Init /\ [][Next]_ledger
=============================================================================
