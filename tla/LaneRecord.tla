----------------------------- MODULE LaneRecord -----------------------------
(***************************************************************************)
(* TaskLaneSession, the record a card keeps of each lane run, reduced to   *)
(* the fields the properties tell apart.                                   *)
(***************************************************************************)
CONSTANTS
  Sessions,     \* ids of the ACP sessions that may run a lane step
  Columns       \* column ids of the board

\* status "none": the card has no record of this session; "ended" stands for
\* completed, failed, timed_out and transitioned; retry: retryAfterAt is set.
LaneRecord ==
  [status : {"none", "running", "ended"}, column : Columns, retry : BOOLEAN]

Present(r) == r.status # "none"

Ended(r) == r.status = "ended"
=============================================================================
