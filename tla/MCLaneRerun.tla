----------------------------- MODULE MCLaneRerun -----------------------------
(***************************************************************************)
(* Model checking LaneRerun: two overlapping calls, three lane records.    *)
(***************************************************************************)
EXTENDS LaneRerun

CONSTANTS c1, c2

TwoCalls == {c1, c2}
Claimed == {"resume", "revive", "retry"}
All == AllKinds

(* A path of LaneRerunResume.cfg through a space too large to search: a        *)
(* restart, two retries (the second while the first one's run is being ended), *)
(* a revive, a move of the card and another revive; then a resume claims the   *)
(* lane, and the two revives save what they read.                              *)
Begun(kind) == \E c \in Calls : call[c].pc = "idle" /\ call'[c].kind = kind
ResumeAt(pc) == \E c \in Calls : call[c].kind = "resume" /\ call[c].pc = pc

InThisOrder ==
  /\ events' # events => CASE events = 0 -> boot' = "sweep"
                           [] events = 1 -> Begun("retry") /\ boot = "done"
                           [] events = 2 -> Begun("retry") /\ ender.sid = 2
                           [] events = 3 -> Begun("revive") /\ card.rec[3] = "running"
                           [] events = 4 -> ~ card'.inLane
                           [] OTHER -> Begun("revive")
  /\ \A c \in Calls : call[c].pc = "claim" /\ call'[c] # call[c] =>
       CASE call[c].kind = "resume" -> events = 6
         [] call[c].kind = "revive" -> ResumeAt(IF call[c].seen.rec[3] = "running" THEN "recheck" ELSE "enqueue")
         [] OTHER -> TRUE
=============================================================================
