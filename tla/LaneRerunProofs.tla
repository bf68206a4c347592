--------------------------- MODULE LaneRerunProofs ---------------------------
(***************************************************************************)
(* Proofs about LaneRerun: its types and the claim of the lane, and, as    *)
(* long as the rate-limit timer does not overlap another call, one agent   *)
(* per step and what a resume starts again.                                *)
(***************************************************************************)
EXTENDS LaneRerun, FiniteSetTheorems, WellFoundedInduction, TLAPS

-----------------------------------------------------------------------------
(* The largest of a set of runs *)

\* A nonempty set of natural numbers has a least element.
LEMMA LeastExists ==
  ASSUME NEW T \in SUBSET Nat, T # {}
  PROVE  \E x \in T : \A y \in T : x <= y
  <1>1. PICK x \in T : \A y \in T : ~ (<<y, x>> \in OpToRel(<, Nat))
    BY WFMin, NatLessThanWellFounded
  <1>2. ASSUME NEW y \in T PROVE x <= y
    <2>1. x \in Nat /\ y \in Nat
      OBVIOUS
    <2>2. ~ (y < x)
      BY <1>1, <2>1 DEF OpToRel
    <2> QED BY <2>1, <2>2
  <1> QED BY <1>2

\* The largest of a nonempty set of session ids, none included, is one of them.
LEMMA MaxOf ==
  ASSUME NEW S \in SUBSET (0..MaxRuns), S # {}
  PROVE  Max(S) \in S /\ \A x \in S : Max(S) >= x
  <1> DEFINE T == {MaxRuns - s : s \in S}
  <1>1. T \in SUBSET Nat /\ T # {}
    <2>1. \A s \in S : MaxRuns - s \in Nat
      BY RunsAssumption
    <2> QED BY <2>1
  <1>2. PICK m \in T : \A y \in T : m <= y
    BY <1>1, LeastExists
  <1>3. PICK s \in S : m = MaxRuns - s
    BY <1>2
  <1>4. ASSUME NEW x \in S PROVE s >= x
    <2>1. m <= MaxRuns - x
      BY <1>2
    <2> QED BY <1>3, <2>1, RunsAssumption
  <1> QED BY <1>3, <1>4 DEF Max

\* The largest of a nonempty set of runs is one of them.
LEMMA MaxIn ==
  ASSUME NEW S \in SUBSET Run, S # {}
  PROVE  Max(S) \in S
  <1>1. S \in SUBSET (0..MaxRuns)
    BY DEF Run
  <1> QED BY <1>1, MaxOf

-----------------------------------------------------------------------------
(* The parts of the type invariant, and what they need *)

Sid == Run \cup {NoRun}

\* The coherent cards.
Good == {t \in Card : Coherent(t)}

\* The fields of a call.
CallType == [kind : AllKinds \cup {"none"}, pc : Pcs, seen : Good, sid : Sid,
             force : BOOLEAN, own : BOOLEAN]

CardsOK == card \in Good /\ ender \in [sid : Sid, copy : Good]

CallsOK == call \in [Calls -> CallType]

RestOK ==
  /\ early \subseteq Run /\ up \subseteq Run /\ turn \subseteq up
  /\ fate \in [Run -> {"none"} \cup Ends]
  /\ auto \in [st : {"none", "queued", "running"}, sid : Sid]
  /\ job \in [st : {"none", "running"}, sid : Sid]
  /\ claim \in BOOLEAN /\ timer \in Sid /\ delayed \in BOOLEAN
  /\ boot \in {"sweep", "resume", "done"}
  /\ next \in 1..(MaxRuns + 1)
  /\ events \in Nat /\ disturbed \in BOOLEAN

\* A call in "spawned" has a session.
Spawned == \A c \in Calls : call[c].pc = "spawned" => call[c].sid # NoRun

\* The turn whose end is handled is over.
Fated == ender.sid # NoRun => fate[ender.sid] # "none" /\ ender.sid \notin turn

\* The card knows the run a call or the queue answers with.
Answers ==
  /\ job.sid # NoRun => card.rec[job.sid] # "none"
  /\ \A c \in Calls : call[c].pc # "spawned" /\ call[c].sid # NoRun
                        => card.rec[call[c].sid] # "none"

\* Sessions and recorded runs have been given out already.
Fresh ==
  /\ \A s \in up : s < next
  /\ ender.sid < next
  /\ \A s \in Run : card.rec[s] # "none" => s < next
  /\ \A c \in Calls : call[c].sid < next

\* The card knows every run a copy of it knows.
Known ==
  /\ \A s \in Run : ender.copy.rec[s] # "none" => card.rec[s] # "none"
  /\ \A c \in Calls, s \in Run : call[c].seen.rec[s] # "none" => card.rec[s] # "none"

Parts == CardsOK /\ CallsOK /\ RestOK /\ Spawned /\ Fated /\ Answers /\ Fresh /\ Known

\* The types together.
LEMMA TypeParts == TypeOK <=> CardsOK /\ CallsOK /\ RestOK
  <1>1. TypeOK => CardsOK /\ RestOK
    BY DEF TypeOK, CardsOK, RestOK, Good, Sid, Coherent
  <1>2. TypeOK => CallsOK
    BY DEF TypeOK, CallsOK, CallType, Good, Sid
  <1>3. CardsOK /\ CallsOK /\ RestOK => TypeOK
    BY DEF TypeOK, CardsOK, CallsOK, CallType, RestOK, Good, Sid
  <1> QED BY <1>1, <1>2, <1>3

-----------------------------------------------------------------------------
(* Operations on copies of the card *)

\* Session ids, and none.
LEMMA SidsType == NoRun \in Sid /\ \A s \in Run : s \in Sid
  BY DEF Sid

\* An idle call and an idle completion handler are well typed.
LEMMA IdleType == Idle \in CallType /\ Idle.seen \in Good /\ NoEnder \in [sid : Sid, copy : Good]
  BY DEF Idle, NoEnder, CallType, Good, Coherent, Card, Sid, Pcs, Status

\* The trigger of a good card is a session id or none.
LEMMA TriggerType == ASSUME NEW t \in Good PROVE t.trigger \in Sid
  BY DEF Good, Card, Sid

\* A saved copy is a good card that knows the runs of both.
LEMMA SavedGood ==
  ASSUME card \in Good, NEW t \in Good
  PROVE  /\ Saved(t) \in Good
         /\ Saved(t).trigger = t.trigger
         /\ \A s \in Run : Saved(t).rec[s] # "none" <=> (card.rec[s] # "none" \/ t.rec[s] # "none")
  BY DEF Good, Coherent, Card, Saved, MergeStatus, Status, Ended

\* What became of a record in a save.
LEMMA SavedRecords ==
  ASSUME card \in Good, NEW t \in Good, NEW s \in Run
  PROVE  /\ Ended(Saved(t).rec[s]) => Ended(card.rec[s]) \/ Ended(t.rec[s])
         /\ Saved(t).rec[s] = "running" => card.rec[s] = "running" \/ t.rec[s] = "running"
         /\ Ended(card.rec[s]) => Ended(Saved(t).rec[s])
  BY DEF Good, Coherent, Card, Saved, MergeStatus, Status, Ended

\* A sanitized copy is good and knows the same runs.
LEMMA SanitizedGood ==
  ASSUME fate \in [Run -> {"none"} \cup Ends], NEW t \in Good
  PROVE  /\ Sanitized(t) \in Good
         /\ \A s \in Run : Sanitized(t).rec[s] # "none" <=> t.rec[s] # "none"
         /\ \A s \in Run : Sanitized(t).rec[s] = "running" <=> t.rec[s] = "running" /\ s \in up
  BY DEF Good, Coherent, Card, Sanitized, StaleStatus, Status, Ends, NoRun

\* A copy without its trigger is good.
LEMMA ClearedGood ==
  ASSUME NEW t \in Good
  PROVE  /\ [t EXCEPT !.trigger = NoRun] \in Good
         /\ [t EXCEPT !.trigger = NoRun].rec = t.rec
  BY DEF Good, Coherent, Card

\* A copy with a new run is good.
LEMMA WithRunGood ==
  ASSUME NEW t \in Good, NEW s \in Run
  PROVE  /\ WithRun(t, s) \in Good
         /\ WithRun(t, s).trigger = s
         /\ \A r \in Run : WithRun(t, s).rec[r] = IF r = s THEN "running" ELSE t.rec[r]
  BY DEF Good, Coherent, Card, WithRun, Status

-----------------------------------------------------------------------------
(* Every step keeps the types *)

\* The updates of a call.
LEMMA CallUpdates ==
  ASSUME CallsOK, NEW c \in Calls, NEW p \in Pcs, NEW s \in Sid, NEW t \in Good
  PROVE  /\ [call EXCEPT ![c].pc = p, ![c].sid = s] \in [Calls -> CallType]
         /\ [call EXCEPT ![c].pc = p, ![c].seen = t] \in [Calls -> CallType]
         /\ [call EXCEPT ![c].pc = p, ![c].own = TRUE] \in [Calls -> CallType]
         /\ [call EXCEPT ![c].pc = p] \in [Calls -> CallType]
         /\ [call EXCEPT ![c] = Idle] \in [Calls -> CallType]
  <1>1. call[c] \in CallType /\ call \in [Calls -> CallType]
    BY DEF CallsOK
  <1>2. [call[c] EXCEPT !.pc = p] \in CallType
    BY <1>1 DEF CallType
  <1>3. [call[c] EXCEPT !.pc = p, !.sid = s] \in CallType
    BY <1>1 DEF CallType
  <1>4. [call[c] EXCEPT !.pc = p, !.seen = t] \in CallType
    BY <1>1 DEF CallType
  <1>5. [call[c] EXCEPT !.pc = p, !.own = TRUE] \in CallType
    BY <1>1 DEF CallType
  <1>6. ASSUME NEW r \in CallType PROVE [call EXCEPT ![c] = r] \in [Calls -> CallType]
    BY <1>1
  <1>7. /\ [call EXCEPT ![c].pc = p, ![c].sid = s] = [call EXCEPT ![c] = [call[c] EXCEPT !.pc = p, !.sid = s]]
        /\ [call EXCEPT ![c].pc = p, ![c].seen = t] = [call EXCEPT ![c] = [call[c] EXCEPT !.pc = p, !.seen = t]]
        /\ [call EXCEPT ![c].pc = p, ![c].own = TRUE] = [call EXCEPT ![c] = [call[c] EXCEPT !.pc = p, !.own = TRUE]]
        /\ [call EXCEPT ![c].pc = p] = [call EXCEPT ![c] = [call[c] EXCEPT !.pc = p]]
    BY <1>1
  <1> QED BY <1>2, <1>3, <1>4, <1>5, <1>6, <1>7, IdleType

\* Calls that lose their automation are still calls.
LEMMA DisownType ==
  ASSUME CallsOK, NEW x
  PROVE  /\ Disown(x) \in [Calls -> CallType]
         /\ \A c \in Calls : [Disown(x) EXCEPT ![c] = Idle] \in [Calls -> CallType]
         /\ \A c \in Calls : [Disown(x) EXCEPT ![c].pc = "clear", ![c].own = TRUE] \in [Calls -> CallType]
  <1>1. ASSUME NEW d \in Calls PROVE [call[d] EXCEPT !.own = FALSE] \in CallType
    BY DEF CallsOK, CallType
  <1>2. Disown(x) \in [Calls -> CallType]
    BY <1>1 DEF Disown
  <1>3. ASSUME NEW c \in Calls PROVE [Disown(x) EXCEPT ![c] = Idle] \in [Calls -> CallType]
    BY <1>2, IdleType
  <1>4. ASSUME NEW c \in Calls
        PROVE  [Disown(x) EXCEPT ![c].pc = "clear", ![c].own = TRUE] \in [Calls -> CallType]
    <2>1. [Disown(x)[c] EXCEPT !.pc = "clear", !.own = TRUE] \in CallType
      BY <1>2 DEF CallType, Pcs
    <2>2. [Disown(x) EXCEPT ![c].pc = "clear", ![c].own = TRUE]
            = [Disown(x) EXCEPT ![c] = [Disown(x)[c] EXCEPT !.pc = "clear", !.own = TRUE]]
      BY <1>2
    <2> QED BY <1>2, <2>1, <2>2
  <1> QED BY <1>2, <1>3, <1>4

\* Every step keeps the types of the calls.
LEMMA StepCalls == ASSUME Parts, [Next]_vars PROVE CallsOK'
  <1> USE DEF cardVars, procVars, memVars
  <1>1. ASSUME NEW c \in Calls, CallStep(c) \/ Wakes(c) PROVE CallsOK'
    <2>1. CASE StartupResume(c)
      BY IdleType, SidsType, KindsAssumption, <2>1 DEF StartupResume, Begin, InTurn, Parts, CallsOK, CardsOK, CallType, Pcs, AllKinds
    <2>2. CASE DelayedResume(c)
      BY IdleType, SidsType, KindsAssumption, <2>2 DEF DelayedResume, Begin, InTurn, Parts, CallsOK, CardsOK, CallType, Pcs, AllKinds
    <2>3. CASE TimerFires(c)
      <3>1. ASSUME Begin(c, "timer", FALSE, "adopt") PROVE CallsOK'
        BY <3>1, IdleType DEF Parts, Begin, CallsOK, CardsOK, CallType, Pcs, AllKinds
      <3> QED BY <2>3, <3>1 DEF Parts, TimerFires, CallsOK
    <2>4. CASE ClaimResume(c)
      BY IdleType, SidsType, KindsAssumption, <2>4 DEF ClaimResume, TakeClaim, Quit, Parts, CallsOK, CardsOK, CallType, Pcs, AllKinds
    <2>5. CASE ClaimRevive(c)
      <3>1. Sanitized(call[c].seen) \in Good
        BY SanitizedGood DEF Parts, RestOK, CallsOK, CallType
      <3> QED BY <2>5, <3>1, IdleType DEF Parts, ClaimRevive, TakeClaim, Quit, CallsOK, CallType, Pcs
    <2>6. CASE ClaimRetry(c)
      BY IdleType, SidsType, KindsAssumption, <2>6 DEF ClaimRetry, TakeClaim, Quit, Parts, CallsOK, CardsOK, CallType, Pcs, AllKinds
    <2>7. CASE GiveUp(c)
      BY IdleType, SidsType, KindsAssumption, <2>7 DEF GiveUp, Release, Quit, Parts, CallsOK, CardsOK, CallType, Pcs, AllKinds
    <2>8. CASE RecheckStarts(c)
      BY IdleType, SidsType, KindsAssumption, <2>8 DEF RecheckStarts, Step, Parts, CallsOK, CardsOK, CallType, Pcs, AllKinds
    <2>9. CASE ReEnter(c)
      BY <2>9, CallUpdates, SidsType, IdleType DEF Parts, ReEnter, CallsOK, Pcs
    <2>10. CASE RecheckRetry(c)
      <3> DEFINE ended == IF Live(card) = {} THEN {} ELSE {Max(Live(card))}
                 New(d) == [s \in Run |-> IF d = c /\ s \in ended /\ call[d].seen.rec[s] = "running"
                                          THEN "completed" ELSE call[d].seen.rec[s]]
      <3>1. ASSUME NEW d \in Calls PROVE [call[d].seen EXCEPT !.rec = New(d)] \in Good
        <4> HIDE DEF ended
        <4>1. call[d].seen \in Good
          BY DEF Parts, CallsOK, CallType
        <4> QED BY <4>1 DEF Good, Coherent, Card, Status
      <3>2. call' = [d \in Calls |-> [call[d] EXCEPT !.pc = IF d = c THEN "edit" ELSE @,
                                                    !.own = @ /\ Live(card) = {},
                                                    !.seen.rec = New(d)]]
        BY <2>10 DEF RecheckRetry
      <3>3. ASSUME NEW d \in Calls PROVE call'[d] \in CallType
        <4> HIDE DEF New
        <4>1. call[d] \in CallType
          BY DEF Parts, CallsOK
        <4>2. call'[d] = [call[d] EXCEPT !.pc = IF d = c THEN "edit" ELSE @,
                                         !.own = @ /\ Live(card) = {},
                                         !.seen = [call[d].seen EXCEPT !.rec = New(d)]]
          BY <3>2, <4>1 DEF CallType
        <4> QED BY <3>1, <4>1, <4>2 DEF CallType, Pcs
      <3> QED BY <3>2, <3>3 DEF CallsOK
    <2>11. CASE EditRetry(c)
      <3> DEFINE live == Live([call[c].seen EXCEPT !.trigger = NoRun])
                 p == IF live = {} THEN "enqueue" ELSE "started"
                 s == IF live = {} THEN NoRun ELSE Max(live)
      <3>1. live = {} \/ Max(live) \in Sid
        BY MaxIn DEF Live, RunningIn, Sid
      <3>2. p \in Pcs /\ s \in Sid
        BY <3>1, SidsType DEF Pcs
      <3>3. call' = [call EXCEPT ![c].pc = p, ![c].sid = s]
        BY <2>11 DEF EditRetry
      <3> HIDE DEF p, s, live
      <3> QED BY <3>2, <3>3, CallUpdates, IdleType DEF Parts, CallsOK
    <2>12. CASE AdoptRetry(c)
      <3>1. [call EXCEPT ![c] = Idle] \in [Calls -> CallType]
        BY IdleType DEF Parts, CallsOK
      <3> QED BY <2>12, <3>1, DisownType DEF Parts, AdoptRetry, Quit, CallsOK
    <2>13. CASE ClearRetry(c)
      BY IdleType, SidsType, KindsAssumption, <2>13 DEF ClearRetry, Step, Parts, CallsOK, CardsOK, CallType, Pcs, AllKinds
    <2>14. CASE Enter(c)
      <3> DEFINE p == IF card.trigger = NoRun THEN "enqueue" ELSE "started"
      <3>1. card.trigger \in Sid /\ CallsOK /\ p \in Pcs
        BY TriggerType DEF Parts, CardsOK, Pcs
      <3>2. call' = [call EXCEPT ![c].pc = p, ![c].sid = card.trigger]
        BY <2>14 DEF Enter
      <3> HIDE DEF p
      <3>3. [call EXCEPT ![c].pc = p, ![c].sid = card.trigger] \in [Calls -> CallType]
        BY <3>1, CallUpdates, IdleType
      <3> QED BY <2>14, <3>2, <3>3 DEF Parts, Enter, CallsOK
    <2>15. CASE EnqueueAnswers(c)
      <3>1. job.sid \in Sid
        BY DEF Parts, RestOK
      <3>2. CallsOK /\ "started" \in Pcs
        BY DEF Parts, Pcs
      <3>3. [call EXCEPT ![c].pc = "started", ![c].sid = job.sid] \in [Calls -> CallType]
        BY <3>1, <3>2, CallUpdates, IdleType
      <3> QED BY <2>15, <3>3 DEF Parts, EnqueueAnswers, CallsOK
    <2>16. CASE StartRefused(c)
      BY IdleType, SidsType, KindsAssumption, <2>16 DEF StartRefused, Step, Parts, CallsOK, CardsOK, CallType, Pcs, AllKinds
    <2>17. CASE StartReads(c)
      <3>1. card \in Good /\ CallsOK /\ "starting" \in Pcs
        BY DEF Parts, CardsOK, Pcs
      <3>2. [call EXCEPT ![c].pc = "starting", ![c].seen = card] \in [Calls -> CallType]
        BY <3>1, CallUpdates, SidsType
      <3> QED BY <2>17, <3>2 DEF Parts, StartReads, CallsOK
    <2>18. CASE Spawn(c)
      <3>1. next \in Sid /\ CallsOK /\ "spawned" \in Pcs
        BY <2>18, SidsType DEF Parts, Spawn, Pcs
      <3>2. [call EXCEPT ![c].pc = "spawned", ![c].sid = next] \in [Calls -> CallType]
        BY <3>1, CallUpdates, IdleType
      <3> QED BY <2>18, <3>2 DEF Parts, Spawn, CallsOK
    <2>19. CASE StoreRun(c)
      BY IdleType, SidsType, KindsAssumption, <2>19 DEF StoreRun, Step, Parts, CallsOK, CardsOK, CallType, Pcs, AllKinds
    <2>20. CASE Finish(c)
      <3>1. [call EXCEPT ![c] = Idle] \in [Calls -> CallType]
        BY IdleType DEF Parts, CallsOK
      <3>2. call' = [call EXCEPT ![c] = Idle] \/ call' = [Disown(c) EXCEPT ![c] = Idle]
        BY <2>20 DEF Finish, AdoptRun, OwnRun, Quit
      <3> QED BY <3>1, <3>2, DisownType DEF Parts, CallsOK
    <2> QED BY <1>1, <2>1, <2>2, <2>3, <2>4, <2>5, <2>6, <2>7, <2>8, <2>9, <2>10, <2>11, <2>12, <2>13, <2>14, <2>15, <2>16, <2>17, <2>18, <2>19, <2>20 DEF CallStep, Wakes
  <1>2. ASSUME NEW c \in Calls, NEW kind \in {"revive", "retry"}, NEW force \in BOOLEAN, Request(c, kind, force)
       PROVE CallsOK'
      BY IdleType, SidsType, KindsAssumption, <1>2 DEF Request, Event, Begin, InTurn, Parts, CallsOK, CardsOK, CallType, Pcs, AllKinds
  <1>3. ASSUME NEW c \in Calls, NEW why \in {"limited", "broken", "error"}, SpawnFails(c, why) PROVE CallsOK'
      BY IdleType, SidsType, KindsAssumption, <1>3 DEF SpawnFails, Step, Parts, CallsOK, CardsOK, CallType, Pcs, AllKinds
  <1>4. ASSUME NEW s \in Run, NEW how \in Ends, FollowedEnds(s, how) PROVE CallsOK'
      BY IdleType, SidsType, KindsAssumption, <1>4 DEF FollowedEnds, Turned, Adopted, Parts, CallsOK, CardsOK, CallType, Pcs, AllKinds
  <1>5. ASSUME NEW s \in Run, NEW how \in Ends, UnfollowedEnds(s, how) PROVE CallsOK'
      BY IdleType, SidsType, KindsAssumption, <1>5 DEF UnfollowedEnds, Turned, Adopted, Parts, CallsOK, CardsOK, CallType, Pcs, AllKinds
  <1>6. CASE EndSaved
      BY <1>6, DisownType DEF Parts, EndSaved, CallsOK
  <1>7. CASE TimePasses
      BY IdleType, SidsType, KindsAssumption, <1>7 DEF TimePasses, Parts, CallsOK, CardsOK, CallType, Pcs, AllKinds
  <1>8. CASE MoveAway
      BY <1>8, DisownType DEF Parts, MoveAway, CallsOK
  <1>9. CASE Restart
      BY IdleType, SidsType, KindsAssumption, <1>9 DEF Restart, Event, Parts, CallsOK, CardsOK, CallType, Pcs, AllKinds
  <1>10. CASE Sweep
      BY IdleType, SidsType, KindsAssumption, <1>10 DEF Sweep, Parts, CallsOK, CardsOK, CallType, Pcs, AllKinds
  <1>11. CASE UNCHANGED vars
      BY IdleType, SidsType, KindsAssumption, <1>11 DEF vars, Parts, CallsOK, CardsOK, CallType, Pcs, AllKinds
  <1> QED BY <1>1, <1>2, <1>3, <1>4, <1>5, <1>6, <1>7, <1>8, <1>9, <1>10, <1>11 DEF Next

\* Every step keeps the types of the card and its copies.
LEMMA StepCards == ASSUME Parts, [Next]_vars PROVE CardsOK'
  <1> USE DEF cardVars, procVars, memVars
  <1>1. ASSUME NEW c \in Calls, CallStep(c) \/ Wakes(c) PROVE CardsOK'
    <2>1. CASE StartupResume(c)
      BY IdleType, SidsType, <2>1 DEF StartupResume, Begin, InTurn, Parts, CardsOK, CallsOK, CallType
    <2>2. CASE DelayedResume(c)
      BY IdleType, SidsType, <2>2 DEF DelayedResume, Begin, InTurn, Parts, CardsOK, CallsOK, CallType
    <2>3. CASE TimerFires(c)
      BY IdleType, SidsType, <2>3 DEF TimerFires, Begin, InTurn, Parts, CardsOK, CallsOK, CallType
    <2>4. CASE ClaimResume(c)
      BY IdleType, SidsType, <2>4 DEF ClaimResume, TakeClaim, Quit, Parts, CardsOK, CallsOK, CallType
    <2>5. CASE ClaimRevive(c)
      BY <2>5, SavedGood, SanitizedGood DEF Parts, ClaimRevive, TakeClaim, Quit, CardsOK, CallsOK, CallType, RestOK
    <2>6. CASE ClaimRetry(c)
      BY IdleType, SidsType, <2>6 DEF ClaimRetry, TakeClaim, Quit, Parts, CardsOK, CallsOK, CallType
    <2>7. CASE GiveUp(c)
      BY IdleType, SidsType, <2>7 DEF GiveUp, Release, Quit, Parts, CardsOK, CallsOK, CallType
    <2>8. CASE RecheckStarts(c)
      BY IdleType, SidsType, <2>8 DEF RecheckStarts, Step, Parts, CardsOK, CallsOK, CallType
    <2>9. CASE ReEnter(c)
      BY IdleType, SidsType, <2>9 DEF ReEnter, Parts, CardsOK, CallsOK, CallType
    <2>10. CASE RecheckRetry(c)
      BY IdleType, SidsType, <2>10 DEF RecheckRetry, Parts, CardsOK, CallsOK, CallType
    <2>11. CASE EditRetry(c)
      <3>1. Saved([call[c].seen EXCEPT !.trigger = NoRun]) \in Good
        BY SavedGood, ClearedGood DEF Parts, CardsOK, CallsOK, CallType
      <3> QED BY <2>11, <3>1 DEF Parts, EditRetry, CardsOK
    <2>12. CASE AdoptRetry(c)
      BY IdleType, SidsType, <2>12 DEF AdoptRetry, Quit, Disown, Parts, CardsOK, CallsOK, CallType
    <2>13. CASE ClearRetry(c)
      <3>1. Saved([call[c].seen EXCEPT !.trigger = NoRun]) \in Good
        BY SavedGood, ClearedGood DEF Parts, CardsOK, CallsOK, CallType
      <3> QED BY <2>13, <3>1 DEF Parts, ClearRetry, Step, CardsOK
    <2>14. CASE Enter(c)
      BY IdleType, SidsType, <2>14 DEF Enter, Parts, CardsOK, CallsOK, CallType
    <2>15. CASE EnqueueAnswers(c)
      BY IdleType, SidsType, <2>15 DEF EnqueueAnswers, Parts, CardsOK, CallsOK, CallType
    <2>16. CASE StartRefused(c)
      BY IdleType, SidsType, <2>16 DEF StartRefused, Step, Parts, CardsOK, CallsOK, CallType
    <2>17. CASE StartReads(c)
      BY IdleType, SidsType, <2>17 DEF StartReads, Parts, CardsOK, CallsOK, CallType
    <2>18. CASE Spawn(c)
      BY IdleType, SidsType, <2>18 DEF Spawn, Parts, CardsOK, CallsOK, CallType
    <2>19. CASE StoreRun(c)
      <3>1. call[c].sid \in Run /\ call[c].seen \in Good
        BY <2>19 DEF Parts, StoreRun, CallsOK, CallType, Spawned, Sid
      <3>2. Saved(WithRun(call[c].seen, call[c].sid)) \in Good
        BY <3>1, SavedGood, WithRunGood DEF Parts, CardsOK
      <3> QED BY <2>19, <3>2 DEF Parts, StoreRun, Step, CardsOK
    <2>20. CASE Finish(c)
      <3>1. card' = card \/ (/\ call[c].kind = "retry" /\ call[c].sid # NoRun
                             /\ card' = [card EXCEPT !.trigger = call[c].sid])
        BY <2>20 DEF Finish
      <3>2. call[c].pc = "started" /\ ender' = ender
        BY <2>20 DEF Finish
      <3>3. call[c].sid \in Sid
        BY DEF Parts, CallsOK, CallType
      <3>4. card' \in Good
        BY <3>1, <3>2, <3>3 DEF Parts, CardsOK, Good, Coherent, Card, Answers, Sid
      <3> QED BY <3>2, <3>4 DEF Parts, CardsOK
    <2> QED BY <1>1, <2>1, <2>2, <2>3, <2>4, <2>5, <2>6, <2>7, <2>8, <2>9, <2>10, <2>11, <2>12, <2>13, <2>14, <2>15, <2>16, <2>17, <2>18, <2>19, <2>20 DEF CallStep, Wakes
  <1>2. ASSUME NEW c \in Calls, NEW kind \in {"revive", "retry"}, NEW force \in BOOLEAN, Request(c, kind, force)
       PROVE CardsOK'
      BY IdleType, SidsType, <1>2 DEF Request, Event, Begin, InTurn, Parts, CardsOK, CallsOK, CallType
  <1>3. ASSUME NEW c \in Calls, NEW why \in {"limited", "broken", "error"}, SpawnFails(c, why) PROVE CardsOK'
    <2>1. call[c].seen \in Good
      BY DEF Parts, CallsOK, CallType
    <2>2. why # "error" => [call[c].seen EXCEPT !.rec[next] = why] \in Good
      BY <1>3, <2>1 DEF SpawnFails, Good, Coherent, Card, Status
    <2>3. card' \in Good
      BY <1>3, <2>1, <2>2, SavedGood DEF Parts, SpawnFails, CardsOK
    <2> QED BY <1>3, <2>3 DEF Parts, SpawnFails, Step, CardsOK
  <1>4. ASSUME NEW s \in Run, NEW how \in Ends, FollowedEnds(s, how) PROVE CardsOK'
      BY IdleType, SidsType, <1>4 DEF FollowedEnds, Turned, Adopted, Parts, CardsOK, CallsOK, CallType
  <1>5. ASSUME NEW s \in Run, NEW how \in Ends, UnfollowedEnds(s, how) PROVE CardsOK'
    <2>1. card' \in Good
      BY <1>5 DEF Parts, UnfollowedEnds, Turned, CardsOK, Good, Coherent, Card, Status, Ends
    <2> QED BY <1>5, <2>1 DEF Parts, UnfollowedEnds, Turned, CardsOK
  <1>6. CASE EndSaved
    <2> DEFINE copy == IF ender.copy.rec[ender.sid] = "running"
                       THEN [ender.copy EXCEPT !.rec[ender.sid] = fate[ender.sid]] ELSE ender.copy
    <2>1. ender.sid \in Run /\ ender.copy \in Good
      BY <1>6 DEF EndSaved, Parts, CardsOK, Sid
    <2>2. fate[ender.sid] \in Ends
      BY <2>1 DEF Parts, RestOK, Fated, Run, NoRun
    <2>3. copy \in Good
      BY <2>1, <2>2 DEF Good, Coherent, Card, Status, Ends
    <2>4. card' = Saved(copy) /\ ender' = NoEnder
      BY <1>6 DEF EndSaved
    <2> HIDE DEF copy
    <2>5. Saved(copy) \in Good
      BY <2>3, SavedGood DEF Parts, CardsOK
    <2> QED BY <2>4, <2>5, IdleType, SidsType DEF CardsOK
  <1>7. CASE TimePasses
      BY IdleType, SidsType, <1>7 DEF TimePasses, Parts, CardsOK, CallsOK, CallType
  <1>8. CASE MoveAway
    <2>1. card' \in Good
      BY <1>8 DEF Parts, MoveAway, CardsOK, Good, Coherent, Card, Status, NoRun
    <2> QED BY <1>8, <2>1 DEF Parts, MoveAway, CardsOK
  <1>9. CASE Restart
      BY IdleType, SidsType, <1>9 DEF Restart, Event, Parts, CardsOK, CallsOK, CallType
  <1>10. CASE Sweep
    BY <1>10, SanitizedGood DEF Parts, Sweep, CardsOK, RestOK
  <1>11. CASE UNCHANGED vars
      BY IdleType, SidsType, <1>11 DEF vars, Parts, CardsOK, CallsOK, CallType
  <1> QED BY <1>1, <1>2, <1>3, <1>4, <1>5, <1>6, <1>7, <1>8, <1>9, <1>10, <1>11 DEF Next

\* Every step keeps the types of the other variables.
LEMMA StepRest == ASSUME Parts, [Next]_vars PROVE RestOK'
  <1> USE DEF cardVars, procVars, memVars
  <1>1. ASSUME NEW c \in Calls, CallStep(c) \/ Wakes(c) PROVE RestOK'
    <2>1. CASE StartupResume(c)
      BY TriggerType, RunsAssumption, <2>1 DEF StartupResume, Begin, InTurn, Parts, RestOK, CallsOK, CallType, CardsOK, NoAuto, NoJob, Sid, Run, NoRun, Ends
    <2>2. CASE DelayedResume(c)
      BY TriggerType, RunsAssumption, <2>2 DEF DelayedResume, Begin, InTurn, Parts, RestOK, CallsOK, CallType, CardsOK, NoAuto, NoJob, Sid, Run, NoRun, Ends
    <2>3. CASE TimerFires(c)
      BY TriggerType, RunsAssumption, <2>3 DEF TimerFires, Begin, InTurn, Parts, RestOK, CallsOK, CallType, CardsOK, NoAuto, NoJob, Sid, Run, NoRun, Ends
    <2>4. CASE ClaimResume(c)
      BY <2>4 DEF ClaimResume, TakeClaim, Quit, Parts, RestOK
    <2>5. CASE ClaimRevive(c)
      BY <2>5 DEF ClaimRevive, TakeClaim, Quit, Parts, RestOK
    <2>6. CASE ClaimRetry(c)
      BY <2>6 DEF ClaimRetry, TakeClaim, Quit, Parts, RestOK
    <2>7. CASE GiveUp(c)
      BY TriggerType, RunsAssumption, <2>7 DEF GiveUp, Release, Quit, Parts, RestOK, CallsOK, CallType, CardsOK, NoAuto, NoJob, Sid, Run, NoRun, Ends
    <2>8. CASE RecheckStarts(c)
      BY TriggerType, RunsAssumption, <2>8 DEF RecheckStarts, Step, Parts, RestOK, CallsOK, CallType, CardsOK, NoAuto, NoJob, Sid, Run, NoRun, Ends
    <2>9. CASE ReEnter(c)
      BY TriggerType, RunsAssumption, <2>9 DEF ReEnter, Parts, RestOK, CallsOK, CallType, CardsOK, NoAuto, NoJob, Sid, Run, NoRun, Ends
    <2>10. CASE RecheckRetry(c)
      <3>1. auto' = auto \/ auto' = NoAuto
        BY <2>10 DEF RecheckRetry
      <3>2. timer' = timer \/ timer' = NoRun
        BY <2>10 DEF RecheckRetry
      <3>3. up' \subseteq up /\ turn' \subseteq up'
        BY <2>10 DEF RecheckRetry, Parts, RestOK
      <3>4. UNCHANGED <<early, fate, next, job, delayed, claim, boot, events, disturbed>>
        BY <2>10 DEF RecheckRetry
      <3> QED BY <3>1, <3>2, <3>3, <3>4 DEF Parts, RestOK, NoAuto, Sid
    <2>11. CASE EditRetry(c)
      BY TriggerType, RunsAssumption, <2>11 DEF EditRetry, Parts, RestOK, CallsOK, CallType, CardsOK, NoAuto, NoJob, Sid, Run, NoRun, Ends
    <2>12. CASE AdoptRetry(c)
      BY TriggerType, RunsAssumption, <2>12 DEF AdoptRetry, Quit, Disown, Parts, RestOK, CallsOK, CallType, CardsOK, NoAuto, NoJob, Sid, Run, NoRun, Ends
    <2>13. CASE ClearRetry(c)
      BY TriggerType, RunsAssumption, <2>13 DEF ClearRetry, Step, Parts, RestOK, CallsOK, CallType, CardsOK, NoAuto, NoJob, Sid, Run, NoRun, Ends
    <2>14. CASE Enter(c)
      BY TriggerType, RunsAssumption, <2>14 DEF Enter, Parts, RestOK, CallsOK, CallType, CardsOK, NoAuto, NoJob, Sid, Run, NoRun, Ends
    <2>15. CASE EnqueueAnswers(c)
      BY TriggerType, RunsAssumption, <2>15 DEF EnqueueAnswers, Parts, RestOK, CallsOK, CallType, CardsOK, NoAuto, NoJob, Sid, Run, NoRun, Ends
    <2>16. CASE StartRefused(c)
      BY TriggerType, RunsAssumption, <2>16 DEF StartRefused, Step, Parts, RestOK, CallsOK, CallType, CardsOK, NoAuto, NoJob, Sid, Run, NoRun, Ends
    <2>17. CASE StartReads(c)
      BY TriggerType, RunsAssumption, <2>17 DEF StartReads, Parts, RestOK, CallsOK, CallType, CardsOK, NoAuto, NoJob, Sid, Run, NoRun, Ends
    <2>18. CASE Spawn(c)
      BY TriggerType, RunsAssumption, <2>18 DEF Spawn, Parts, RestOK, CallsOK, CallType, CardsOK, NoAuto, NoJob, Sid, Run, NoRun, Ends
    <2>19. CASE StoreRun(c)
      BY TriggerType, RunsAssumption, <2>19 DEF StoreRun, Step, Parts, RestOK, CallsOK, CallType, CardsOK, NoAuto, NoJob, Sid, Run, NoRun, Ends
    <2>20. CASE Finish(c)
      <3>1. auto' \in [st : {"none", "queued", "running"}, sid : Sid]
        <4>1. call[c].sid \in Sid
          BY DEF Parts, CallsOK, CallType
        <4>2. \/ auto' = auto \/ auto' = NoAuto
              \/ auto' = [st |-> "running", sid |-> call[c].sid]
          BY <2>20 DEF Finish, AdoptRun, OwnRun
        <4> QED BY <4>1, <4>2 DEF Parts, RestOK, NoAuto, Sid
      <3>2. claim' \in BOOLEAN
        BY <2>20 DEF Finish, Parts, RestOK
      <3> QED BY <2>20, <3>1, <3>2 DEF Finish, Parts, RestOK
    <2> QED BY <1>1, <2>1, <2>2, <2>3, <2>4, <2>5, <2>6, <2>7, <2>8, <2>9, <2>10, <2>11, <2>12, <2>13, <2>14, <2>15, <2>16, <2>17, <2>18, <2>19, <2>20 DEF CallStep, Wakes
  <1>2. ASSUME NEW c \in Calls, NEW kind \in {"revive", "retry"}, NEW force \in BOOLEAN, Request(c, kind, force)
       PROVE RestOK'
      BY TriggerType, RunsAssumption, <1>2 DEF Request, Event, Begin, InTurn, Parts, RestOK, CallsOK, CallType, CardsOK, NoAuto, NoJob, Sid, Run, NoRun, Ends
  <1>3. ASSUME NEW c \in Calls, NEW why \in {"limited", "broken", "error"}, SpawnFails(c, why) PROVE RestOK'
      BY TriggerType, RunsAssumption, <1>3 DEF SpawnFails, Step, Parts, RestOK, CallsOK, CallType, CardsOK, NoAuto, NoJob, Sid, Run, NoRun, Ends
  <1>4. ASSUME NEW s \in Run, NEW how \in Ends, FollowedEnds(s, how) PROVE RestOK'
      BY TriggerType, RunsAssumption, <1>4 DEF FollowedEnds, Turned, Adopted, Parts, RestOK, CallsOK, CallType, CardsOK, NoAuto, NoJob, Sid, Run, NoRun, Ends
  <1>5. ASSUME NEW s \in Run, NEW how \in Ends, UnfollowedEnds(s, how) PROVE RestOK'
      BY TriggerType, RunsAssumption, <1>5 DEF UnfollowedEnds, Turned, Adopted, Parts, RestOK, CallsOK, CallType, CardsOK, NoAuto, NoJob, Sid, Run, NoRun, Ends
  <1>6. CASE EndSaved
    <2>1. ender.sid \in Run
      BY <1>6 DEF EndSaved, Parts, CardsOK, Sid
    <2>2. early' \subseteq Run /\ timer' \in Sid
      BY <1>6, <2>1 DEF EndSaved, Parts, RestOK, Sid
    <2>3. auto' = auto \/ auto' = NoAuto
      BY <1>6 DEF EndSaved
    <2>4. up' \subseteq Run /\ turn' \subseteq up'
      BY <1>6, <2>1 DEF EndSaved, Parts, RestOK, Fated
    <2>5. UNCHANGED <<fate, next, job, delayed, claim, boot, events, disturbed>>
      BY <1>6 DEF EndSaved
    <2> QED BY <2>2, <2>3, <2>4, <2>5 DEF Parts, RestOK, NoAuto, Sid
  <1>7. CASE TimePasses
      BY TriggerType, RunsAssumption, <1>7 DEF TimePasses, Parts, RestOK, CallsOK, CallType, CardsOK, NoAuto, NoJob, Sid, Run, NoRun, Ends
  <1>8. CASE MoveAway
      BY TriggerType, RunsAssumption, <1>8 DEF MoveAway, Disown, Event, Parts, RestOK, CallsOK, CallType, CardsOK, NoAuto, NoJob, Sid, Run, NoRun, Ends
  <1>9. CASE Restart
    <2>1. up' = {} /\ turn' = {} /\ timer' = NoRun /\ auto' = NoAuto /\ job' = NoJob
      BY <1>9 DEF Restart
    <2>2. claim' \in BOOLEAN /\ delayed' \in BOOLEAN /\ boot' = "sweep"
      BY <1>9 DEF Restart
    <2>3. events' = events + 1 /\ UNCHANGED <<early, fate, next, disturbed>>
      BY <1>9 DEF Restart, Event
    <2> QED BY <2>1, <2>2, <2>3 DEF Parts, RestOK, NoAuto, NoJob, Sid
  <1>10. CASE Sweep
      BY TriggerType, RunsAssumption, <1>10 DEF Sweep, Parts, RestOK, CallsOK, CallType, CardsOK, NoAuto, NoJob, Sid, Run, NoRun, Ends
  <1>11. CASE UNCHANGED vars
      BY TriggerType, RunsAssumption, <1>11 DEF vars, Parts, RestOK, CallsOK, CallType, CardsOK, NoAuto, NoJob, Sid, Run, NoRun, Ends
  <1> QED BY <1>1, <1>2, <1>3, <1>4, <1>5, <1>6, <1>7, <1>8, <1>9, <1>10, <1>11 DEF Next

-----------------------------------------------------------------------------
(* What the larger actions change *)

\* The call of d is at the same place with the same copy.
Same(d) ==
  /\ call'[d].kind = call[d].kind /\ call'[d].pc = call[d].pc
  /\ call'[d].seen = call[d].seen /\ call'[d].sid = call[d].sid

\* An idle call knows no run.
LEMMA IdleSeen == \A s \in Run : Idle.seen.rec[s] = "none"
  BY DEF Idle

\* A new call.
LEMMA BeginFields ==
  ASSUME Parts, NEW c \in Calls, NEW kind \in AllKinds, NEW force \in BOOLEAN, NEW pc \in Pcs,
         Begin(c, kind, force, pc)
  PROVE  /\ \A d \in Calls \ {c} : Same(d)
         /\ call'[c].kind = kind /\ call'[c].pc = pc /\ call'[c].seen = card /\ call'[c].sid = NoRun
         /\ call[c].pc = "idle" /\ InTurn(kind) /\ boot # "sweep"
  BY DEF Begin, Idle, Parts, CallsOK, CallType, Same

\* The sessions of the calls and the queue are sessions.
LEMMA SidsIn == ASSUME Parts PROVE job.sid \in Sid /\ ender.sid \in Sid /\ \A c \in Calls : call[c].sid \in Sid
  BY DEF Parts, CallsOK, CallType, CardsOK, RestOK

\* Losing the automation changes nothing else of a call.
LEMMA DisownFields == ASSUME CallsOK, NEW x, NEW d \in Calls
  PROVE  /\ Disown(x)[d].kind = call[d].kind /\ Disown(x)[d].pc = call[d].pc
         /\ Disown(x)[d].seen = call[d].seen /\ Disown(x)[d].sid = call[d].sid
  BY DEF Disown, CallsOK, CallType

\* What AdoptRetry changes.
LEMMA AdoptFields == ASSUME Parts, NEW c \in Calls, AdoptRetry(c)
  PROVE  /\ \A d \in Calls \ {c} : Same(d)
         /\ \/ call'[c] = Idle
            \/ call'[c].pc = "clear" /\ call'[c].kind = call[c].kind
               /\ call'[c].seen = call[c].seen /\ call'[c].sid = call[c].sid
         /\ UNCHANGED <<cardVars, procVars, job, timer, delayed, claim, boot, ender, events, disturbed>>
  <1>1. CASE call' = [call EXCEPT ![c] = Idle]
    BY <1>1, AdoptRetry(c) DEF Parts, CallsOK, AdoptRetry, Same
  <1>2. CASE call' = [Disown(c) EXCEPT ![c].pc = "clear", ![c].own = TRUE]
    <2>1. \A d \in Calls \ {c} : call'[d] = Disown(c)[d]
      BY <1>2, DisownType DEF Parts
    <2>2. call'[c] = [Disown(c)[c] EXCEPT !.pc = "clear", !.own = TRUE]
      BY <1>2, DisownType DEF Parts
    <2>3. Disown(c)[c] \in CallType
      BY DisownType DEF Parts
    <2> QED BY AdoptRetry(c), <2>1, <2>2, <2>3, DisownFields DEF Parts, AdoptRetry, Same, CallType
  <1> QED BY <1>1, <1>2 DEF AdoptRetry, Quit

\* What Finish changes.
LEMMA FinishFields == ASSUME Parts, NEW c \in Calls, Finish(c)
  PROVE  /\ \A d \in Calls \ {c} : Same(d)
         /\ call'[c].pc = "idle" /\ call'[c].kind = "none" /\ call'[c].sid = NoRun
         /\ call'[c].seen = Idle.seen
         /\ call[c].pc = "started"
         /\ UNCHANGED <<early, procVars, job, timer, delayed, boot, ender, events, disturbed>>
         /\ card'.rec = card.rec
         /\ claim' = IF call[c].kind = "timer" THEN claim ELSE FALSE
  <1>1. ASSUME call' = [call EXCEPT ![c] = Idle]
        PROVE  (\A d \in Calls \ {c} : Same(d)) /\ call'[c] = Idle
    BY <1>1 DEF Parts, CallsOK, Same
  <1>2. ASSUME call' = [Disown(c) EXCEPT ![c] = Idle]
        PROVE  (\A d \in Calls \ {c} : Same(d)) /\ call'[c] = Idle
    BY <1>2, DisownType, DisownFields DEF Parts, Same
  <1>3. (\A d \in Calls \ {c} : Same(d)) /\ call'[c] = Idle
    BY <1>1, <1>2 DEF Finish, AdoptRun, OwnRun, Quit
  <1>4. card'.rec = card.rec
    BY DEF Finish, Parts, CardsOK, Good, Card
  <1>5. Idle.pc = "idle" /\ Idle.kind = "none" /\ Idle.sid = NoRun
    BY DEF Idle
  <1>6. /\ call[c].pc = "started"
        /\ UNCHANGED <<early, procVars, job, timer, delayed, boot, ender, events, disturbed>>
        /\ claim' = IF call[c].kind = "timer" THEN claim ELSE FALSE
    BY DEF Finish
  <1> QED BY <1>3, <1>4, <1>5, <1>6

\* What RecheckRetry changes.
LEMMA RetryFields == ASSUME Parts, NEW c \in Calls, RecheckRetry(c)
  PROVE  /\ \A d \in Calls \ {c} : Same(d)
         /\ call'[c].kind = call[c].kind /\ call'[c].pc = "edit" /\ call'[c].sid = call[c].sid
         /\ \A s \in Run : call'[c].seen.rec[s]
              = IF Live(card) # {} /\ s = Max(Live(card)) /\ call[c].seen.rec[s] = "running"
                THEN "completed" ELSE call[c].seen.rec[s]
         /\ call[c].pc = "recheck" /\ call[c].kind = "retry"
         /\ \A s : s \in up' <=> s \in up /\ ~ (Live(card) # {} /\ s = Max(Live(card)))
         /\ \A s : s \in turn' <=> s \in turn /\ ~ (Live(card) # {} /\ s = Max(Live(card)))
         /\ UNCHANGED <<cardVars, fate, next, job, delayed, claim, boot, ender, events, disturbed>>
  <1> DEFINE ended == IF Live(card) = {} THEN {} ELSE {Max(Live(card))}
             New(d) == [s \in Run |-> IF d = c /\ s \in ended /\ call[d].seen.rec[s] = "running"
                                      THEN "completed" ELSE call[d].seen.rec[s]]
             p(d) == IF d = c THEN "edit" ELSE call[d].pc
             o(d) == call[d].own /\ Live(card) = {}
  <1>1. call' = [d \in Calls |-> [call[d] EXCEPT !.pc = IF d = c THEN "edit" ELSE @,
                                                 !.own = @ /\ Live(card) = {},
                                                 !.seen.rec = New(d)]]
    BY DEF RecheckRetry
  <1>2. ASSUME NEW d \in Calls
        PROVE  call'[d] = [call[d] EXCEPT !.pc = p(d), !.own = o(d),
                                          !.seen = [call[d].seen EXCEPT !.rec = New(d)]]
    <2> HIDE DEF New
    <2>1. call[d] \in CallType
      BY DEF Parts, CallsOK
    <2> QED BY <1>1, <2>1 DEF CallType
  <1>3. ASSUME NEW d \in Calls \ {c} PROVE [call[d].seen EXCEPT !.rec = New(d)] = call[d].seen
    <2>1. call[d].seen \in Card
      BY DEF Parts, CallsOK, CallType, Good
    <2>2. New(d) = call[d].seen.rec
      BY <2>1 DEF Card
    <2> HIDE DEF New
    <2> QED BY <2>1, <2>2 DEF Card
  <1>4. ASSUME NEW d \in Calls \ {c} PROVE Same(d)
    <2>1. call[d] \in CallType /\ p(d) = call[d].pc
      BY DEF Parts, CallsOK
    <2> HIDE DEF New, p, o
    <2>2. call'[d] = [call[d] EXCEPT !.pc = call[d].pc, !.own = o(d), !.seen = call[d].seen]
      BY <1>2, <1>3, <2>1
    <2> QED BY <2>1, <2>2 DEF CallType, Same
  <1>5. /\ call'[c].kind = call[c].kind /\ call'[c].pc = "edit" /\ call'[c].sid = call[c].sid
        /\ call'[c].seen.rec = New(c)
    <2>1. call[c] \in CallType /\ call[c].seen \in Card /\ p(c) = "edit"
      BY DEF Parts, CallsOK, CallType, Good
    <2> HIDE DEF New, p, o
    <2>2. /\ call'[c].kind = call[c].kind /\ call'[c].pc = p(c) /\ call'[c].sid = call[c].sid
          /\ call'[c].seen = [call[c].seen EXCEPT !.rec = New(c)]
      BY <1>2, <2>1 DEF CallType
    <2>3. [call[c].seen EXCEPT !.rec = New(c)].rec = New(c)
      BY <2>1 DEF Card
    <2> QED BY <2>1, <2>2, <2>3
  <1>6. /\ call[c].pc = "recheck" /\ call[c].kind = "retry"
        /\ UNCHANGED <<cardVars, fate, next, job, delayed, claim, boot, ender, events, disturbed>>
    BY DEF RecheckRetry
  <1>7. \A s \in Run : New(c)[s]
              = IF Live(card) # {} /\ s = Max(Live(card)) /\ call[c].seen.rec[s] = "running"
                THEN "completed" ELSE call[c].seen.rec[s]
    OBVIOUS
  <1>8. up' = up \ ended /\ turn' = turn \ ended
    BY DEF RecheckRetry
  <1>9. /\ \A s : s \in up' <=> s \in up /\ ~ (Live(card) # {} /\ s = Max(Live(card)))
        /\ \A s : s \in turn' <=> s \in turn /\ ~ (Live(card) # {} /\ s = Max(Live(card)))
    BY <1>8
  <1> HIDE DEF New
  <1> QED BY <1>4, <1>5, <1>6, <1>7, <1>9

\* What MoveAway changes.
LEMMA MoveFields == ASSUME Parts, MoveAway
  PROVE  /\ \A d \in Calls : Same(d)
         /\ \A s \in Run : card'.rec[s] = IF card.rec[s] = "running" THEN "completed" ELSE card.rec[s]
  BY DisownFields DEF Parts, MoveAway, Same

\* What EndSaved changes.
LEMMA EndFields == ASSUME Parts, EndSaved
  PROVE  /\ \A d \in Calls : Same(d)
         /\ ender.sid \in Run /\ fate[ender.sid] \in Ends
         /\ \E copy \in Good :
              /\ card' = Saved(copy)
              /\ \A s \in Run : copy.rec[s] = IF s = ender.sid /\ ender.copy.rec[s] = "running"
                                              THEN fate[s] ELSE ender.copy.rec[s]
         /\ \A s \in Run : card.rec[s] # "none" => card'.rec[s] # "none"
         /\ \A s \in Run : card'.rec[s] # "none" => card.rec[s] # "none"
  <1>1. \A d \in Calls : Same(d)
    BY DisownFields DEF Parts, EndSaved, Same
  <1> DEFINE copy == IF ender.copy.rec[ender.sid] = "running"
                     THEN [ender.copy EXCEPT !.rec[ender.sid] = fate[ender.sid]] ELSE ender.copy
  <1>2. ender.sid \in Run /\ ender.copy \in Good
    BY DEF EndSaved, Parts, CardsOK, Sid
  <1>3. fate[ender.sid] \in Ends
    BY <1>2 DEF Parts, RestOK, Fated, Run, NoRun
  <1>4. /\ copy \in Good
        /\ \A s \in Run : copy.rec[s] = IF s = ender.sid /\ ender.copy.rec[s] = "running"
                                        THEN fate[s] ELSE ender.copy.rec[s]
    BY <1>2, <1>3 DEF Good, Coherent, Card, Status, Ends
  <1>5. card' = Saved(copy)
    BY DEF EndSaved
  <1> HIDE DEF copy
  <1>6. \A s \in Run : card'.rec[s] # "none" <=> card.rec[s] # "none" \/ copy.rec[s] # "none"
    BY <1>4, <1>5, SavedGood DEF Parts, CardsOK
  <1>7. \A s \in Run : copy.rec[s] # "none" => card.rec[s] # "none"
    BY <1>3, <1>4 DEF Parts, Known
  <1> QED BY <1>1, <1>2, <1>3, <1>4, <1>5, <1>6, <1>7

\* What StoreRun saves.
LEMMA StoreFields == ASSUME Parts, NEW c \in Calls, StoreRun(c)
  PROVE  /\ call[c].sid \in Run
         /\ WithRun(call[c].seen, call[c].sid) \in Good
         /\ card' = Saved(WithRun(call[c].seen, call[c].sid))
         /\ \A s \in Run : card'.rec[s] # "none" <=> card.rec[s] # "none" \/ s = call[c].sid
  <1>1. call[c].sid \in Run /\ call[c].seen \in Good
    BY DEF Parts, StoreRun, CallsOK, CallType, Spawned, Sid
  <1>2. card' = Saved(WithRun(call[c].seen, call[c].sid))
    BY DEF StoreRun
  <1>3. /\ WithRun(call[c].seen, call[c].sid) \in Good
        /\ \A s \in Run : WithRun(call[c].seen, call[c].sid).rec[s] # "none"
                            <=> s = call[c].sid \/ call[c].seen.rec[s] # "none"
    BY <1>1, WithRunGood
  <1> QED BY <1>1, <1>2, <1>3, SavedGood DEF Parts, CardsOK, Known

\* What SpawnFails saves.
LEMMA FailFields == ASSUME Parts, NEW c \in Calls, NEW why \in {"limited", "broken", "error"}, SpawnFails(c, why)
  PROVE  /\ \E copy \in Good :
              /\ card' = Saved(copy)
              /\ \A s \in Run : copy.rec[s] = IF why # "error" /\ s = next THEN why ELSE call[c].seen.rec[s]
         /\ why # "error" => next \in Run
         /\ \A s \in Run : card'.rec[s] # "none"
              <=> card.rec[s] # "none" \/ (why # "error" /\ s = next)
  <1> DEFINE copy == IF why # "error" THEN [call[c].seen EXCEPT !.rec[next] = why] ELSE call[c].seen
  <1>1. call[c].seen \in Good
    BY DEF Parts, CallsOK, CallType
  <1>2. why # "error" => next \in Run
    BY DEF SpawnFails
  <1>3. /\ copy \in Good
        /\ \A s \in Run : copy.rec[s] = IF why # "error" /\ s = next THEN why ELSE call[c].seen.rec[s]
    BY <1>1, <1>2 DEF Good, Coherent, Card, Status
  <1>4. card' = Saved(copy)
    BY DEF SpawnFails
  <1> HIDE DEF copy
  <1>5. \A s \in Run : card'.rec[s] # "none" <=> card.rec[s] # "none" \/ copy.rec[s] # "none"
    BY <1>3, <1>4, SavedGood DEF Parts, CardsOK
  <1> QED BY <1>2, <1>3, <1>4, <1>5 DEF Parts, Known

\* What UnfollowedEnds records.
LEMMA UnfollowedFields == ASSUME Parts, NEW s \in Run, NEW how \in Ends, UnfollowedEnds(s, how)
  PROVE  \A r \in Run : card'.rec[r] = IF r = s /\ card.rec[s] = "running" THEN how ELSE card.rec[r]
  BY DEF Parts, UnfollowedEnds, CardsOK, Good, Card

-----------------------------------------------------------------------------
(* Runs, answers and copies *)

\* A step loses no run of the card.
Grows == \A s \in Run : card.rec[s] # "none" => card'.rec[s] # "none"

\* A step fills a copy only from itself and from the card.
Copied ==
  /\ \A d \in Calls, s \in Run : call'[d].seen.rec[s] # "none"
                                   => call[d].seen.rec[s] # "none" \/ card.rec[s] # "none"
  /\ \A s \in Run : ender'.copy.rec[s] # "none"
                      => ender.copy.rec[s] # "none" \/ card.rec[s] # "none"

\* A spawned call keeps its session.
LEMMA StepSpawned == ASSUME Parts, [Next]_vars PROVE Spawned'
  <1> USE DEF cardVars, procVars, memVars
  <1>1. ASSUME NEW c \in Calls, CallStep(c) \/ Wakes(c) PROVE Spawned'
    <2>1. CASE StartupResume(c)
      BY <2>1 DEF StartupResume, Begin, Parts, CallsOK, CallType, Spawned, Idle, NoRun, Run
    <2>2. CASE DelayedResume(c)
      BY <2>2 DEF DelayedResume, Begin, Parts, CallsOK, CallType, Spawned, Idle, NoRun, Run
    <2>3. CASE TimerFires(c)
      BY <2>3 DEF TimerFires, Begin, Parts, CallsOK, CallType, Spawned, Idle, NoRun, Run
    <2>4. CASE ClaimResume(c)
      BY <2>4 DEF ClaimResume, TakeClaim, Quit, Parts, CallsOK, CallType, Spawned, Idle, NoRun, Run
    <2>5. CASE ClaimRevive(c)
      BY <2>5 DEF ClaimRevive, TakeClaim, Quit, Parts, CallsOK, CallType, Spawned, Idle, NoRun, Run
    <2>6. CASE ClaimRetry(c)
      BY <2>6 DEF ClaimRetry, TakeClaim, Quit, Parts, CallsOK, CallType, Spawned, Idle, NoRun, Run
    <2>7. CASE GiveUp(c)
      BY <2>7 DEF GiveUp, Release, Quit, Parts, CallsOK, CallType, Spawned, Idle, NoRun, Run
    <2>8. CASE RecheckStarts(c)
      BY <2>8 DEF RecheckStarts, Step, Parts, CallsOK, CallType, Spawned, Idle, NoRun, Run
    <2>9. CASE ReEnter(c)
      BY <2>9 DEF ReEnter, Parts, CallsOK, CallType, Spawned, Idle, NoRun, Run
    <2>10. CASE RecheckRetry(c)
      BY <2>10, RetryFields DEF Parts, Same, Spawned, Idle
    <2>11. CASE EditRetry(c)
      BY <2>11 DEF EditRetry, Parts, CallsOK, CallType, Spawned, Idle, NoRun, Run
    <2>12. CASE AdoptRetry(c)
      BY <2>12, AdoptFields DEF Parts, AdoptRetry, Same, Spawned, Idle
    <2>13. CASE ClearRetry(c)
      BY <2>13 DEF ClearRetry, Step, Parts, CallsOK, CallType, Spawned, Idle, NoRun, Run
    <2>14. CASE Enter(c)
      BY <2>14 DEF Enter, Parts, CallsOK, CallType, Spawned, Idle, NoRun, Run
    <2>15. CASE EnqueueAnswers(c)
      BY <2>15 DEF EnqueueAnswers, Parts, CallsOK, CallType, Spawned, Idle, NoRun, Run
    <2>16. CASE StartRefused(c)
      BY <2>16 DEF StartRefused, Step, Parts, CallsOK, CallType, Spawned, Idle, NoRun, Run
    <2>17. CASE StartReads(c)
      BY <2>17 DEF StartReads, Parts, CallsOK, CallType, Spawned, Idle, NoRun, Run
    <2>18. CASE Spawn(c)
      BY <2>18 DEF Spawn, Parts, CallsOK, CallType, Spawned, Idle, NoRun, Run
    <2>19. CASE StoreRun(c)
      BY <2>19 DEF StoreRun, Step, Parts, CallsOK, CallType, Spawned, Idle, NoRun, Run
    <2>20. CASE Finish(c)
      BY <2>20, FinishFields DEF Parts, Same, Spawned, Idle
    <2> QED BY <1>1, <2>1, <2>2, <2>3, <2>4, <2>5, <2>6, <2>7, <2>8, <2>9, <2>10, <2>11, <2>12, <2>13, <2>14, <2>15, <2>16, <2>17, <2>18, <2>19, <2>20 DEF CallStep, Wakes
  <1>2. ASSUME NEW c \in Calls, NEW kind \in {"revive", "retry"}, NEW force \in BOOLEAN, Request(c, kind, force)
       PROVE Spawned'
      BY <1>2 DEF Request, Event, Begin, Parts, CallsOK, CallType, Spawned, Idle, NoRun, Run
  <1>3. ASSUME NEW c \in Calls, NEW why \in {"limited", "broken", "error"}, SpawnFails(c, why) PROVE Spawned'
      BY <1>3 DEF SpawnFails, Step, Parts, CallsOK, CallType, Spawned, Idle, NoRun, Run
  <1>4. ASSUME NEW s \in Run, NEW how \in Ends, FollowedEnds(s, how) PROVE Spawned'
      BY <1>4 DEF FollowedEnds, Turned, Adopted, Parts, CallsOK, CallType, Spawned, Idle, NoRun, Run
  <1>5. ASSUME NEW s \in Run, NEW how \in Ends, UnfollowedEnds(s, how) PROVE Spawned'
      BY <1>5 DEF UnfollowedEnds, Turned, Adopted, Parts, CallsOK, CallType, Spawned, Idle, NoRun, Run
  <1>6. CASE EndSaved
      BY <1>6, EndFields DEF Parts, EndSaved, Same, Spawned, Idle
  <1>7. CASE TimePasses
      BY <1>7 DEF TimePasses, Parts, CallsOK, CallType, Spawned, Idle, NoRun, Run
  <1>8. CASE MoveAway
      BY <1>8, MoveFields DEF Parts, MoveAway, Same, Spawned, Idle
  <1>9. CASE Restart
      BY <1>9 DEF Restart, Event, Parts, CallsOK, CallType, Spawned, Idle, NoRun, Run
  <1>10. CASE Sweep
      BY <1>10 DEF Sweep, Parts, CallsOK, CallType, Spawned, Idle, NoRun, Run
  <1>11. CASE UNCHANGED vars
      BY <1>11 DEF vars, Parts, CallsOK, CallType, Spawned, Idle, NoRun, Run
  <1> QED BY <1>1, <1>2, <1>3, <1>4, <1>5, <1>6, <1>7, <1>8, <1>9, <1>10, <1>11 DEF Next

\* The handled turn stays over.
LEMMA StepFated == ASSUME Parts, [Next]_vars PROVE Fated'
  <1> USE DEF cardVars, procVars, memVars
  <1>1. ASSUME NEW c \in Calls, CallStep(c) \/ Wakes(c) PROVE Fated'
    <2>1. CASE StartupResume(c)
      BY RunsAssumption, <2>1 DEF StartupResume, Begin, InTurn, Parts, CardsOK, RestOK, Fated, Fresh, NoEnder, NoRun, Run, Sid, Ends
    <2>2. CASE DelayedResume(c)
      BY RunsAssumption, <2>2 DEF DelayedResume, Begin, InTurn, Parts, CardsOK, RestOK, Fated, Fresh, NoEnder, NoRun, Run, Sid, Ends
    <2>3. CASE TimerFires(c)
      BY RunsAssumption, <2>3 DEF TimerFires, Begin, InTurn, Parts, CardsOK, RestOK, Fated, Fresh, NoEnder, NoRun, Run, Sid, Ends
    <2>4. CASE ClaimResume(c)
      BY RunsAssumption, <2>4 DEF ClaimResume, TakeClaim, Quit, Parts, CardsOK, RestOK, Fated, Fresh, NoEnder, NoRun, Run, Sid, Ends
    <2>5. CASE ClaimRevive(c)
      BY RunsAssumption, <2>5 DEF ClaimRevive, TakeClaim, Quit, Parts, CardsOK, RestOK, Fated, Fresh, NoEnder, NoRun, Run, Sid, Ends
    <2>6. CASE ClaimRetry(c)
      BY RunsAssumption, <2>6 DEF ClaimRetry, TakeClaim, Quit, Parts, CardsOK, RestOK, Fated, Fresh, NoEnder, NoRun, Run, Sid, Ends
    <2>7. CASE GiveUp(c)
      BY RunsAssumption, <2>7 DEF GiveUp, Release, Quit, Parts, CardsOK, RestOK, Fated, Fresh, NoEnder, NoRun, Run, Sid, Ends
    <2>8. CASE RecheckStarts(c)
      BY RunsAssumption, <2>8 DEF RecheckStarts, Step, Parts, CardsOK, RestOK, Fated, Fresh, NoEnder, NoRun, Run, Sid, Ends
    <2>9. CASE ReEnter(c)
      BY RunsAssumption, <2>9 DEF ReEnter, Parts, CardsOK, RestOK, Fated, Fresh, NoEnder, NoRun, Run, Sid, Ends
    <2>10. CASE RecheckRetry(c)
      BY RunsAssumption, <2>10 DEF RecheckRetry, Parts, CardsOK, RestOK, Fated, Fresh, NoEnder, NoRun, Run, Sid, Ends
    <2>11. CASE EditRetry(c)
      BY RunsAssumption, <2>11 DEF EditRetry, Parts, CardsOK, RestOK, Fated, Fresh, NoEnder, NoRun, Run, Sid, Ends
    <2>12. CASE AdoptRetry(c)
      BY RunsAssumption, <2>12 DEF AdoptRetry, Quit, Disown, Parts, CardsOK, RestOK, Fated, Fresh, NoEnder, NoRun, Run, Sid, Ends
    <2>13. CASE ClearRetry(c)
      BY RunsAssumption, <2>13 DEF ClearRetry, Step, Parts, CardsOK, RestOK, Fated, Fresh, NoEnder, NoRun, Run, Sid, Ends
    <2>14. CASE Enter(c)
      BY RunsAssumption, <2>14 DEF Enter, Parts, CardsOK, RestOK, Fated, Fresh, NoEnder, NoRun, Run, Sid, Ends
    <2>15. CASE EnqueueAnswers(c)
      BY RunsAssumption, <2>15 DEF EnqueueAnswers, Parts, CardsOK, RestOK, Fated, Fresh, NoEnder, NoRun, Run, Sid, Ends
    <2>16. CASE StartRefused(c)
      BY RunsAssumption, <2>16 DEF StartRefused, Step, Parts, CardsOK, RestOK, Fated, Fresh, NoEnder, NoRun, Run, Sid, Ends
    <2>17. CASE StartReads(c)
      BY RunsAssumption, <2>17 DEF StartReads, Parts, CardsOK, RestOK, Fated, Fresh, NoEnder, NoRun, Run, Sid, Ends
    <2>18. CASE Spawn(c)
      BY RunsAssumption, <2>18 DEF Spawn, Parts, CardsOK, RestOK, Fated, Fresh, NoEnder, NoRun, Run, Sid, Ends
    <2>19. CASE StoreRun(c)
      BY RunsAssumption, <2>19 DEF StoreRun, Step, Parts, CardsOK, RestOK, Fated, Fresh, NoEnder, NoRun, Run, Sid, Ends
    <2>20. CASE Finish(c)
      BY RunsAssumption, <2>20 DEF Finish, AdoptRun, OwnRun, Quit, Disown, Parts, CardsOK, RestOK, Fated, Fresh, NoEnder, NoRun, Run, Sid, Ends
    <2> QED BY <1>1, <2>1, <2>2, <2>3, <2>4, <2>5, <2>6, <2>7, <2>8, <2>9, <2>10, <2>11, <2>12, <2>13, <2>14, <2>15, <2>16, <2>17, <2>18, <2>19, <2>20 DEF CallStep, Wakes
  <1>2. ASSUME NEW c \in Calls, NEW kind \in {"revive", "retry"}, NEW force \in BOOLEAN, Request(c, kind, force)
       PROVE Fated'
      BY RunsAssumption, <1>2 DEF Request, Event, Begin, InTurn, Parts, CardsOK, RestOK, Fated, Fresh, NoEnder, NoRun, Run, Sid, Ends
  <1>3. ASSUME NEW c \in Calls, NEW why \in {"limited", "broken", "error"}, SpawnFails(c, why) PROVE Fated'
      BY RunsAssumption, <1>3 DEF SpawnFails, Step, Parts, CardsOK, RestOK, Fated, Fresh, NoEnder, NoRun, Run, Sid, Ends
  <1>4. ASSUME NEW s \in Run, NEW how \in Ends, FollowedEnds(s, how) PROVE Fated'
      BY RunsAssumption, <1>4 DEF FollowedEnds, Turned, Adopted, Parts, CardsOK, RestOK, Fated, Fresh, NoEnder, NoRun, Run, Sid, Ends
  <1>5. ASSUME NEW s \in Run, NEW how \in Ends, UnfollowedEnds(s, how) PROVE Fated'
      BY RunsAssumption, <1>5 DEF UnfollowedEnds, Turned, Adopted, Parts, CardsOK, RestOK, Fated, Fresh, NoEnder, NoRun, Run, Sid, Ends
  <1>6. CASE EndSaved
      BY RunsAssumption, <1>6 DEF EndSaved, Disown, Parts, CardsOK, RestOK, Fated, Fresh, NoEnder, NoRun, Run, Sid, Ends
  <1>7. CASE TimePasses
      BY RunsAssumption, <1>7 DEF TimePasses, Parts, CardsOK, RestOK, Fated, Fresh, NoEnder, NoRun, Run, Sid, Ends
  <1>8. CASE MoveAway
      BY RunsAssumption, <1>8 DEF MoveAway, Disown, Event, Parts, CardsOK, RestOK, Fated, Fresh, NoEnder, NoRun, Run, Sid, Ends
  <1>9. CASE Restart
      BY RunsAssumption, <1>9 DEF Restart, Event, Parts, CardsOK, RestOK, Fated, Fresh, NoEnder, NoRun, Run, Sid, Ends
  <1>10. CASE Sweep
      BY RunsAssumption, <1>10 DEF Sweep, Parts, CardsOK, RestOK, Fated, Fresh, NoEnder, NoRun, Run, Sid, Ends
  <1>11. CASE UNCHANGED vars
      BY RunsAssumption, <1>11 DEF vars, Parts, CardsOK, RestOK, Fated, Fresh, NoEnder, NoRun, Run, Sid, Ends
  <1> QED BY <1>1, <1>2, <1>3, <1>4, <1>5, <1>6, <1>7, <1>8, <1>9, <1>10, <1>11 DEF Next

\* The card keeps the runs it knows.
LEMMA StepGrows == ASSUME Parts, [Next]_vars PROVE Grows
  <1> USE DEF cardVars, procVars, memVars
  <1>1. ASSUME NEW c \in Calls, CallStep(c) \/ Wakes(c) PROVE Grows
    <2>1. CASE StartupResume(c)
      BY <2>1 DEF StartupResume, Grows
    <2>2. CASE DelayedResume(c)
      BY <2>2 DEF DelayedResume, Grows
    <2>3. CASE TimerFires(c)
      BY <2>3 DEF TimerFires, Grows
    <2>4. CASE ClaimResume(c)
      BY <2>4 DEF ClaimResume, Grows
    <2>5. CASE ClaimRevive(c)
      BY <2>5, SanitizedGood, SavedGood DEF Parts, ClaimRevive, CardsOK, CallsOK, CallType, RestOK, Grows
    <2>6. CASE ClaimRetry(c)
      BY <2>6 DEF ClaimRetry, Grows
    <2>7. CASE GiveUp(c)
      BY <2>7 DEF GiveUp, Grows
    <2>8. CASE RecheckStarts(c)
      BY <2>8 DEF RecheckStarts, Grows
    <2>9. CASE ReEnter(c)
      BY <2>9 DEF ReEnter, Grows
    <2>10. CASE RecheckRetry(c)
      BY <2>10 DEF RecheckRetry, Grows
    <2>11. CASE EditRetry(c)
      BY <2>11, ClearedGood, SavedGood DEF Parts, EditRetry, CardsOK, CallsOK, CallType, RestOK, Grows
    <2>12. CASE AdoptRetry(c)
      BY <2>12 DEF AdoptRetry, Grows
    <2>13. CASE ClearRetry(c)
      BY <2>13, ClearedGood, SavedGood DEF Parts, ClearRetry, CardsOK, CallsOK, CallType, RestOK, Grows
    <2>14. CASE Enter(c)
      BY <2>14 DEF Enter, Grows
    <2>15. CASE EnqueueAnswers(c)
      BY <2>15 DEF EnqueueAnswers, Grows
    <2>16. CASE StartRefused(c)
      BY <2>16 DEF StartRefused, Grows
    <2>17. CASE StartReads(c)
      BY <2>17 DEF StartReads, Grows
    <2>18. CASE Spawn(c)
      BY <2>18 DEF Spawn, Grows
    <2>19. CASE StoreRun(c)
      BY <2>19, StoreFields DEF Grows
    <2>20. CASE Finish(c)
      BY <2>20 DEF Parts, Finish, CardsOK, Good, Card, Grows
    <2> QED BY <1>1, <2>1, <2>2, <2>3, <2>4, <2>5, <2>6, <2>7, <2>8, <2>9, <2>10, <2>11, <2>12, <2>13, <2>14, <2>15, <2>16, <2>17, <2>18, <2>19, <2>20 DEF CallStep, Wakes
  <1>2. ASSUME NEW c \in Calls, NEW kind \in {"revive", "retry"}, NEW force \in BOOLEAN, Request(c, kind, force)
       PROVE Grows
      BY <1>2 DEF Request, Event, Begin, InTurn, Grows
  <1>3. ASSUME NEW c \in Calls, NEW why \in {"limited", "broken", "error"}, SpawnFails(c, why) PROVE Grows
      BY <1>3, FailFields DEF Grows
  <1>4. ASSUME NEW s \in Run, NEW how \in Ends, FollowedEnds(s, how) PROVE Grows
      BY <1>4 DEF FollowedEnds, Turned, Adopted, Grows
  <1>5. ASSUME NEW s \in Run, NEW how \in Ends, UnfollowedEnds(s, how) PROVE Grows
      BY <1>5, UnfollowedFields DEF Grows, Ends
  <1>6. CASE EndSaved
      BY <1>6, EndFields DEF Grows
  <1>7. CASE TimePasses
      BY <1>7 DEF TimePasses, Grows
  <1>8. CASE MoveAway
      BY <1>8, MoveFields DEF Grows
  <1>9. CASE Restart
      BY <1>9 DEF Restart, Event, Grows
  <1>10. CASE Sweep
      BY <1>10, SanitizedGood DEF Parts, Sweep, CardsOK, CallsOK, CallType, RestOK, Grows
  <1>11. CASE UNCHANGED vars
      BY <1>11 DEF vars, Grows
  <1> QED BY <1>1, <1>2, <1>3, <1>4, <1>5, <1>6, <1>7, <1>8, <1>9, <1>10, <1>11 DEF Next

\* A copy gets its runs from the card.
LEMMA StepCopied == ASSUME Parts, [Next]_vars PROVE Copied
  <1> USE DEF cardVars, procVars, memVars
  <1>1. ASSUME NEW c \in Calls, CallStep(c) \/ Wakes(c) PROVE Copied
    <2>1. CASE StartupResume(c)
      BY <2>1 DEF StartupResume, Begin, Parts, CallsOK, CallType, Copied, Idle, NoEnder
    <2>2. CASE DelayedResume(c)
      BY <2>2 DEF DelayedResume, Begin, Parts, CallsOK, CallType, Copied, Idle, NoEnder
    <2>3. CASE TimerFires(c)
      <3>1. CASE Begin(c, "timer", FALSE, "adopt")
        BY <2>3, <3>1 DEF Parts, TimerFires, Begin, CallsOK, CallType, Copied, Idle
      <3> QED BY <2>3, <3>1 DEF TimerFires, Copied
    <2>4. CASE ClaimResume(c)
      BY <2>4 DEF ClaimResume, TakeClaim, Quit, Parts, CallsOK, CallType, Copied, Idle, NoEnder
    <2>5. CASE ClaimRevive(c)
      <3>1. \A s \in Run : Sanitized(call[c].seen).rec[s] # "none" <=> call[c].seen.rec[s] # "none"
        BY SanitizedGood DEF Parts, CallsOK, CallType, RestOK
      <3>2. \A d \in Calls :
              \/ call'[d].seen = call[d].seen
              \/ d = c /\ call'[c].seen = Sanitized(call[c].seen)
              \/ d = c /\ call'[c].seen = Idle.seen
        <4>1. \/ call' = [call EXCEPT ![c].pc = "recheck", ![c].seen = Sanitized(call[c].seen)]
              \/ call' = [call EXCEPT ![c] = Idle]
          BY <2>5 DEF ClaimRevive, TakeClaim, Quit
        <4>2. call \in [Calls -> CallType] /\ call[c] \in CallType
          BY DEF Parts, CallsOK
        <4>3. CASE call' = [call EXCEPT ![c] = Idle]
          BY <4>3, <4>2
        <4>4. CASE call' = [call EXCEPT ![c].pc = "recheck", ![c].seen = Sanitized(call[c].seen)]
          <5>1. call'[c] = [call[c] EXCEPT !.pc = "recheck", !.seen = Sanitized(call[c].seen)]
            BY <4>4, <4>2
          <5>2. \A d \in Calls \ {c} : call'[d] = call[d]
            BY <4>4, <4>2
          <5>3. call'[c].seen = Sanitized(call[c].seen)
            BY <5>1, <4>2 DEF CallType
          <5> QED BY <5>2, <5>3
        <4> QED BY <4>1, <4>3, <4>4
      <3> QED BY <2>5, <3>1, <3>2 DEF ClaimRevive, Copied, Idle
    <2>6. CASE ClaimRetry(c)
      BY <2>6 DEF ClaimRetry, TakeClaim, Quit, Parts, CallsOK, CallType, Copied, Idle, NoEnder
    <2>7. CASE GiveUp(c)
      BY <2>7 DEF GiveUp, Release, Quit, Parts, CallsOK, CallType, Copied, Idle, NoEnder
    <2>8. CASE RecheckStarts(c)
      BY <2>8 DEF RecheckStarts, Step, Parts, CallsOK, CallType, Copied, Idle, NoEnder
    <2>9. CASE ReEnter(c)
      BY <2>9 DEF ReEnter, Parts, CallsOK, CallType, Copied, Idle, NoEnder
    <2>10. CASE RecheckRetry(c)
      BY <2>10, RetryFields DEF Parts, Same, Copied, Idle, NoEnder
    <2>11. CASE EditRetry(c)
      BY <2>11 DEF EditRetry, Parts, CallsOK, CallType, Copied, Idle, NoEnder
    <2>12. CASE AdoptRetry(c)
      BY <2>12, AdoptFields DEF Parts, AdoptRetry, Same, Copied, Idle, NoEnder
    <2>13. CASE ClearRetry(c)
      BY <2>13 DEF ClearRetry, Step, Parts, CallsOK, CallType, Copied, Idle, NoEnder
    <2>14. CASE Enter(c)
      BY <2>14 DEF Enter, Parts, CallsOK, CallType, Copied, Idle, NoEnder
    <2>15. CASE EnqueueAnswers(c)
      BY <2>15 DEF EnqueueAnswers, Parts, CallsOK, CallType, Copied, Idle, NoEnder
    <2>16. CASE StartRefused(c)
      <3>1. \A d \in Calls : call'[d].seen = call[d].seen
        BY <2>16 DEF Parts, StartRefused, Step, CallsOK, CallType
      <3> QED BY <2>16, <3>1 DEF StartRefused, Copied
    <2>17. CASE StartReads(c)
      BY <2>17 DEF StartReads, Parts, CallsOK, CallType, Copied, Idle, NoEnder
    <2>18. CASE Spawn(c)
      BY <2>18 DEF Spawn, Parts, CallsOK, CallType, Copied, Idle, NoEnder
    <2>19. CASE StoreRun(c)
      BY <2>19 DEF StoreRun, Step, Parts, CallsOK, CallType, Copied, Idle, NoEnder
    <2>20. CASE Finish(c)
      <3>1. (\A d \in Calls \ {c} : Same(d)) /\ call'[c].seen = Idle.seen /\ ender' = ender
        BY <2>20, FinishFields
      <3> QED BY <3>1, IdleSeen DEF Same, Copied
    <2> QED BY <1>1, <2>1, <2>2, <2>3, <2>4, <2>5, <2>6, <2>7, <2>8, <2>9, <2>10, <2>11, <2>12, <2>13, <2>14, <2>15, <2>16, <2>17, <2>18, <2>19, <2>20 DEF CallStep, Wakes
  <1>2. ASSUME NEW c \in Calls, NEW kind \in {"revive", "retry"}, NEW force \in BOOLEAN, Request(c, kind, force)
       PROVE Copied
      BY <1>2 DEF Request, Event, Begin, Parts, CallsOK, CallType, Copied, Idle, NoEnder
  <1>3. ASSUME NEW c \in Calls, NEW why \in {"limited", "broken", "error"}, SpawnFails(c, why) PROVE Copied
      BY <1>3 DEF Parts, SpawnFails, Step, CallsOK, CallType, Copied
  <1>4. ASSUME NEW s \in Run, NEW how \in Ends, FollowedEnds(s, how) PROVE Copied
      BY <1>4 DEF FollowedEnds, Turned, Adopted, Parts, CallsOK, CallType, Copied, Idle, NoEnder
  <1>5. ASSUME NEW s \in Run, NEW how \in Ends, UnfollowedEnds(s, how) PROVE Copied
      BY <1>5 DEF UnfollowedEnds, Turned, Adopted, Parts, CallsOK, CallType, Copied, Idle, NoEnder
  <1>6. CASE EndSaved
      BY <1>6, EndFields DEF Parts, EndSaved, Same, Copied, Idle, NoEnder
  <1>7. CASE TimePasses
      BY <1>7 DEF TimePasses, Parts, CallsOK, CallType, Copied, Idle, NoEnder
  <1>8. CASE MoveAway
      BY <1>8, MoveFields DEF Parts, MoveAway, Same, Copied, Idle, NoEnder
  <1>9. CASE Restart
      BY <1>9 DEF Restart, Event, Parts, CallsOK, CallType, Copied, Idle, NoEnder
  <1>10. CASE Sweep
      BY <1>10 DEF Sweep, Parts, CallsOK, CallType, Copied, Idle, NoEnder
  <1>11. CASE UNCHANGED vars
      BY <1>11 DEF vars, Parts, CallsOK, CallType, Copied, Idle, NoEnder
  <1> QED BY <1>1, <1>2, <1>3, <1>4, <1>5, <1>6, <1>7, <1>8, <1>9, <1>10, <1>11 DEF Next

\* A copy never knows more than the card.
LEMMA StepKnown == ASSUME Parts, [Next]_vars PROVE Known'
  BY StepGrows, StepCopied DEF Parts, Known, Grows, Copied

\* A step records only runs that were given out.
Recorded == \A s \in Run : card'.rec[s] # "none" => card.rec[s] # "none" \/ s < next'

\* Runs are recorded after they are given out.
LEMMA StepRecorded == ASSUME Parts, [Next]_vars PROVE Recorded
  <1> USE DEF cardVars, procVars, memVars
  <1>1. ASSUME NEW c \in Calls, CallStep(c) \/ Wakes(c) PROVE Recorded
    <2>1. CASE StartupResume(c)
      BY <2>1 DEF StartupResume, Recorded
    <2>2. CASE DelayedResume(c)
      BY <2>2 DEF DelayedResume, Recorded
    <2>3. CASE TimerFires(c)
      BY <2>3 DEF TimerFires, Recorded
    <2>4. CASE ClaimResume(c)
      BY <2>4 DEF ClaimResume, Recorded
    <2>5. CASE ClaimRevive(c)
      BY <2>5, SanitizedGood, SavedGood DEF Parts, ClaimRevive, CardsOK, CallsOK, CallType, RestOK, Known, Recorded
    <2>6. CASE ClaimRetry(c)
      BY <2>6 DEF ClaimRetry, Recorded
    <2>7. CASE GiveUp(c)
      BY <2>7 DEF GiveUp, Recorded
    <2>8. CASE RecheckStarts(c)
      BY <2>8 DEF RecheckStarts, Recorded
    <2>9. CASE ReEnter(c)
      BY <2>9 DEF ReEnter, Recorded
    <2>10. CASE RecheckRetry(c)
      BY <2>10 DEF RecheckRetry, Recorded
    <2>11. CASE EditRetry(c)
      <3>1. call[c].seen \in Good /\ card \in Good
        BY DEF Parts, CallsOK, CallType, CardsOK
      <3> DEFINE t == [call[c].seen EXCEPT !.trigger = NoRun]
      <3>2. card' = Saved(t) /\ t \in Good /\ t.rec = call[c].seen.rec
        BY <2>11, <3>1, ClearedGood DEF EditRetry
      <3> HIDE DEF t
      <3>3. \A s \in Run : card'.rec[s] # "none" <=> card.rec[s] # "none" \/ call[c].seen.rec[s] # "none"
        BY <3>1, <3>2, SavedGood
      <3> QED BY <3>3 DEF Parts, Known, Recorded
    <2>12. CASE AdoptRetry(c)
      BY <2>12 DEF AdoptRetry, Recorded
    <2>13. CASE ClearRetry(c)
      <3>1. call[c].seen \in Good /\ card \in Good
        BY DEF Parts, CallsOK, CallType, CardsOK
      <3> DEFINE t == [call[c].seen EXCEPT !.trigger = NoRun]
      <3>2. card' = Saved(t) /\ t \in Good /\ t.rec = call[c].seen.rec
        BY <2>13, <3>1, ClearedGood DEF ClearRetry
      <3> HIDE DEF t
      <3>3. \A s \in Run : card'.rec[s] # "none" <=> card.rec[s] # "none" \/ call[c].seen.rec[s] # "none"
        BY <3>1, <3>2, SavedGood
      <3> QED BY <3>3 DEF Parts, Known, Recorded
    <2>14. CASE Enter(c)
      BY <2>14 DEF Enter, Recorded
    <2>15. CASE EnqueueAnswers(c)
      BY <2>15 DEF EnqueueAnswers, Recorded
    <2>16. CASE StartRefused(c)
      BY <2>16 DEF StartRefused, Recorded
    <2>17. CASE StartReads(c)
      BY <2>17 DEF StartReads, Recorded
    <2>18. CASE Spawn(c)
      BY <2>18 DEF Spawn, Recorded
    <2>19. CASE StoreRun(c)
      BY <2>19, StoreFields DEF StoreRun, Parts, Fresh, Recorded
    <2>20. CASE Finish(c)
      BY <2>20, FinishFields DEF Recorded
    <2> QED BY <1>1, <2>1, <2>2, <2>3, <2>4, <2>5, <2>6, <2>7, <2>8, <2>9, <2>10, <2>11, <2>12, <2>13, <2>14, <2>15, <2>16, <2>17, <2>18, <2>19, <2>20 DEF CallStep, Wakes
  <1>2. ASSUME NEW c \in Calls, NEW kind \in {"revive", "retry"}, NEW force \in BOOLEAN, Request(c, kind, force)
       PROVE Recorded
      BY <1>2 DEF Request, Event, Begin, InTurn, Recorded
  <1>3. ASSUME NEW c \in Calls, NEW why \in {"limited", "broken", "error"}, SpawnFails(c, why) PROVE Recorded
    <2>1. \A s \in Run : card'.rec[s] # "none" <=> card.rec[s] # "none" \/ (why # "error" /\ s = next)
      BY <1>3, FailFields
    <2>2. why # "error" => next < next'
      BY <1>3, RunsAssumption DEF SpawnFails, Run
    <2> QED BY <2>1, <2>2 DEF Recorded
  <1>4. ASSUME NEW s \in Run, NEW how \in Ends, FollowedEnds(s, how) PROVE Recorded
      BY <1>4 DEF FollowedEnds, Turned, Adopted, Recorded
  <1>5. ASSUME NEW s \in Run, NEW how \in Ends, UnfollowedEnds(s, how) PROVE Recorded
      BY <1>5, UnfollowedFields DEF Recorded, Ends
  <1>6. CASE EndSaved
      BY <1>6, EndFields DEF Recorded
  <1>7. CASE TimePasses
      BY <1>7 DEF TimePasses, Recorded
  <1>8. CASE MoveAway
      BY <1>8, MoveFields DEF Recorded
  <1>9. CASE Restart
      BY <1>9 DEF Restart, Event, Recorded
  <1>10. CASE Sweep
      BY <1>10, SanitizedGood DEF Parts, Sweep, CardsOK, CallsOK, CallType, RestOK, Known, Recorded
  <1>11. CASE UNCHANGED vars
      BY <1>11 DEF vars, Recorded
  <1> QED BY <1>1, <1>2, <1>3, <1>4, <1>5, <1>6, <1>7, <1>8, <1>9, <1>10, <1>11 DEF Next

\* The card knows its trigger.
LEMMA TriggerKnown == ASSUME Parts PROVE card.trigger # NoRun => card.trigger \in Run /\ card.rec[card.trigger] # "none"
  BY DEF Parts, CardsOK, Good, Coherent, Card, NoRun

\* The run a call answers with stays on the card.
LEMMA StepAnswers == ASSUME Parts, [Next]_vars PROVE Answers'
  <1> USE DEF cardVars, procVars, memVars
  <1>a. Grows
    BY StepGrows
  <1>1. ASSUME NEW c \in Calls, CallStep(c) \/ Wakes(c) PROVE Answers'
    <2>1. CASE StartupResume(c)
      BY <1>a, <2>1 DEF StartupResume, Begin, Parts, CallsOK, CallType, Answers, Grows, Idle, NoJob, RestOK, Sid
    <2>2. CASE DelayedResume(c)
      BY <1>a, <2>2 DEF DelayedResume, Begin, Parts, CallsOK, CallType, Answers, Grows, Idle, NoJob, RestOK, Sid
    <2>3. CASE TimerFires(c)
      <3>1. CASE Begin(c, "timer", FALSE, "adopt")
        <4>1. (\A d \in Calls \ {c} : Same(d)) /\ call'[c].pc = "adopt" /\ call'[c].sid = NoRun
          BY <3>1, BeginFields DEF AllKinds, Pcs
        <4> QED BY <2>3, <1>a, <4>1, SidsIn DEF TimerFires, Parts, Same, Answers, Grows, Sid
      <3> QED BY <2>3, <1>a, <3>1, SidsIn DEF TimerFires, Parts, Answers, Grows, Sid
    <2>4. CASE ClaimResume(c)
      <3>1. job' = job /\ card' = card
        BY <2>4 DEF ClaimResume
      <3>2. \A d \in Calls : \/ call'[d].sid = NoRun
                             \/ /\ call'[d].sid = call[d].sid
                                /\ call'[d].pc = call[d].pc \/ call[d].pc = "claim"
        BY <2>4 DEF ClaimResume, TakeClaim, Quit, Parts, CallsOK, CallType, Idle
      <3> QED BY <3>1, <3>2 DEF Parts, Answers
    <2>5. CASE ClaimRevive(c)
      BY <1>a, <2>5 DEF ClaimRevive, TakeClaim, Quit, Parts, CallsOK, CallType, Answers, Grows, Idle, NoJob, RestOK, Sid
    <2>6. CASE ClaimRetry(c)
      BY <1>a, <2>6 DEF ClaimRetry, TakeClaim, Quit, Parts, CallsOK, CallType, Answers, Grows, Idle, NoJob, RestOK, Sid
    <2>7. CASE GiveUp(c)
      BY <1>a, <2>7 DEF GiveUp, Release, Quit, Parts, CallsOK, CallType, Answers, Grows, Idle, NoJob, RestOK, Sid
    <2>8. CASE RecheckStarts(c)
      BY <1>a, <2>8 DEF RecheckStarts, Step, Parts, CallsOK, CallType, Answers, Grows, Idle, NoJob, RestOK, Sid
    <2>9. CASE ReEnter(c)
      BY <1>a, <2>9 DEF ReEnter, Parts, CallsOK, CallType, Answers, Grows, Idle, NoJob, RestOK, Sid
    <2>10. CASE RecheckRetry(c)
      BY <1>a, <2>10, RetryFields DEF Parts, Same, Answers, Grows, Idle, NoJob, Sid
    <2>11. CASE EditRetry(c)
      <3> DEFINE live == Live([call[c].seen EXCEPT !.trigger = NoRun])
      <3>1. live # {} => card.rec[Max(live)] # "none"
        <4>1. call[c].seen \in Good
          BY DEF Parts, CallsOK, CallType
        <4>2. live \in SUBSET {s \in Run : call[c].seen.rec[s] = "running"}
          BY <4>1, ClearedGood DEF Live, RunningIn
        <4> QED BY <4>2, MaxIn DEF Parts, Known
      <3>2. live # {} => Max(live) \in Run
        BY MaxIn DEF Live, RunningIn
      <3>3. /\ call' = [call EXCEPT ![c].pc = IF live = {} THEN "enqueue" ELSE "started",
                                    ![c].sid = IF live = {} THEN NoRun ELSE Max(live)]
            /\ job' = NoJob
        BY <2>11 DEF EditRetry
      <3> HIDE DEF live
      <3>4. \A d \in Calls \ {c} : call'[d] = call[d]
        BY <3>3 DEF Parts, CallsOK
      <3>5. call'[c].sid = IF live = {} THEN NoRun ELSE Max(live)
        BY <3>3 DEF Parts, CallsOK, CallType
      <3> QED BY <1>a, <3>1, <3>2, <3>3, <3>4, <3>5 DEF Parts, Answers, Grows, NoJob, CallsOK, CallType, Sid, RestOK
    <2>12. CASE AdoptRetry(c)
      BY <1>a, <2>12, AdoptFields DEF Parts, AdoptRetry, Same, Answers, Grows, Idle, NoJob, Sid
    <2>13. CASE ClearRetry(c)
      BY <1>a, <2>13 DEF ClearRetry, Step, Parts, CallsOK, CallType, Answers, Grows, Idle, NoJob, RestOK, Sid
    <2>14. CASE Enter(c)
      BY <1>a, TriggerKnown, <2>14 DEF Enter, Parts, CallsOK, CallType, Answers, Grows, Idle, NoJob, RestOK, Sid
    <2>15. CASE EnqueueAnswers(c)
      BY <1>a, <2>15 DEF EnqueueAnswers, Parts, CallsOK, CallType, Answers, Grows, Idle, NoJob, RestOK, Sid
    <2>16. CASE StartRefused(c)
      BY <1>a, TriggerKnown, <2>16 DEF StartRefused, Step, Parts, CallsOK, CallType, Answers, Grows, Idle, NoJob, RestOK, Sid
    <2>17. CASE StartReads(c)
      BY <1>a, <2>17 DEF StartReads, Parts, CallsOK, CallType, Answers, Grows, Idle, NoJob, RestOK, Sid
    <2>18. CASE Spawn(c)
      BY <1>a, <2>18 DEF Spawn, Parts, CallsOK, CallType, Answers, Grows, Idle, NoJob, RestOK, Sid
    <2>19. CASE StoreRun(c)
      <3>1. /\ \A d \in Calls : call'[d].sid = call[d].sid
            /\ \A d \in Calls \ {c} : call'[d].pc = call[d].pc
            /\ job'.sid = call[c].sid
        BY <2>19 DEF StoreRun, Step, Parts, CallsOK, CallType
      <3>2. call[c].sid \in Run /\ card'.rec[call[c].sid] # "none"
        BY <2>19, StoreFields
      <3>3. \A d \in Calls : call[d].sid \in Run \cup {NoRun}
        BY SidsIn DEF Sid
      <3> QED BY <1>a, <3>1, <3>2, <3>3 DEF Parts, Answers, Grows
    <2>20. CASE Finish(c)
      <3>1. /\ \A d \in Calls \ {c} : Same(d)
            /\ call'[c].sid = NoRun /\ job' = job /\ card'.rec = card.rec
        BY <2>20, FinishFields
      <3> QED BY <3>1 DEF Parts, Same, Answers
    <2> QED BY <1>1, <2>1, <2>2, <2>3, <2>4, <2>5, <2>6, <2>7, <2>8, <2>9, <2>10, <2>11, <2>12, <2>13, <2>14, <2>15, <2>16, <2>17, <2>18, <2>19, <2>20 DEF CallStep, Wakes
  <1>2. ASSUME NEW c \in Calls, NEW kind \in {"revive", "retry"}, NEW force \in BOOLEAN, Request(c, kind, force)
       PROVE Answers'
      BY <1>a, <1>2 DEF Request, Event, Begin, Parts, CallsOK, CallType, Answers, Grows, Idle, NoJob, RestOK, Sid
  <1>3. ASSUME NEW c \in Calls, NEW why \in {"limited", "broken", "error"}, SpawnFails(c, why) PROVE Answers'
      BY <1>a, <1>3 DEF SpawnFails, Step, Parts, CallsOK, CallType, Answers, Grows, Idle, NoJob, RestOK, Sid
  <1>4. ASSUME NEW s \in Run, NEW how \in Ends, FollowedEnds(s, how) PROVE Answers'
      BY <1>a, <1>4 DEF FollowedEnds, Turned, Adopted, Parts, CallsOK, CallType, Answers, Grows, Idle, NoJob, RestOK, Sid
  <1>5. ASSUME NEW s \in Run, NEW how \in Ends, UnfollowedEnds(s, how) PROVE Answers'
      BY <1>a, <1>5 DEF UnfollowedEnds, Turned, Adopted, Parts, CallsOK, CallType, Answers, Grows, Idle, NoJob, RestOK, Sid
  <1>6. CASE EndSaved
      <2>1. (\A d \in Calls : Same(d)) /\ job' = job
        BY <1>6, EndFields DEF EndSaved
      <2>2. (\A d \in Calls : call[d].sid \in Run \cup {NoRun}) /\ job.sid \in Run \cup {NoRun}
        BY SidsIn DEF Parts, RestOK, Sid
      <2> QED BY <1>a, <2>1, <2>2 DEF Parts, Same, Answers, Grows
  <1>7. CASE TimePasses
      BY <1>a, <1>7 DEF TimePasses, Parts, CallsOK, CallType, Answers, Grows, Idle, NoJob, RestOK, Sid
  <1>8. CASE MoveAway
      BY <1>a, <1>8, MoveFields, SidsIn DEF Parts, MoveAway, Same, Answers, Grows, Idle, NoJob, Sid
  <1>9. CASE Restart
      BY <1>a, <1>9 DEF Restart, Event, Parts, CallsOK, CallType, Answers, Grows, Idle, NoJob, RestOK, Sid
  <1>10. CASE Sweep
      BY <1>a, <1>10 DEF Sweep, Parts, CallsOK, CallType, Answers, Grows, Idle, NoJob, RestOK, Sid
  <1>11. CASE UNCHANGED vars
      BY <1>a, <1>11 DEF vars, Parts, CallsOK, CallType, Answers, Grows, Idle, NoJob, RestOK, Sid
  <1> QED BY <1>1, <1>2, <1>3, <1>4, <1>5, <1>6, <1>7, <1>8, <1>9, <1>10, <1>11 DEF Next

\* What has been given out.
LEMMA GivenOut == ASSUME Parts PROVE next \in Nat /\ NoRun < next /\ card.trigger < next /\ job.sid < next
  <1>1. next \in Nat /\ NoRun < next
    BY RunsAssumption DEF Parts, RestOK, NoRun
  <1>2. card.trigger < next
    BY <1>1, TriggerKnown DEF Parts, Fresh
  <1>3. job.sid \in Run \/ job.sid = NoRun
    BY DEF Parts, RestOK, Sid
  <1> QED BY <1>1, <1>2, <1>3 DEF Parts, Answers, Fresh

\* Session ids are given out once.
LEMMA StepFresh == ASSUME Parts, [Next]_vars PROVE Fresh'
  <1> USE DEF cardVars, procVars, memVars
  <1>a. Recorded
    BY StepRecorded
  <1>1. ASSUME NEW c \in Calls, CallStep(c) \/ Wakes(c) PROVE Fresh'
    <2>1. CASE StartupResume(c)
      BY <1>a, GivenOut, <2>1 DEF StartupResume, Begin, Parts, CallsOK, CallType, RestOK, Fresh, Recorded, Idle, NoEnder, NoRun, Run, Sid
    <2>2. CASE DelayedResume(c)
      BY <1>a, GivenOut, <2>2 DEF DelayedResume, Begin, Parts, CallsOK, CallType, RestOK, Fresh, Recorded, Idle, NoEnder, NoRun, Run, Sid
    <2>3. CASE TimerFires(c)
      <3>1. CASE Begin(c, "timer", FALSE, "adopt")
        <4>1. (\A d \in Calls \ {c} : Same(d)) /\ call'[c].pc = "adopt" /\ call'[c].sid = NoRun
          BY <3>1, BeginFields DEF AllKinds, Pcs
        <4> QED BY <2>3, <1>a, <4>1, GivenOut DEF TimerFires, Parts, Same, Fresh, Recorded
      <3> QED BY <2>3, <1>a, <3>1, GivenOut DEF TimerFires, Parts, Fresh, Recorded
    <2>4. CASE ClaimResume(c)
      BY <1>a, GivenOut, <2>4 DEF ClaimResume, TakeClaim, Quit, Parts, CallsOK, CallType, RestOK, Fresh, Recorded, Idle, NoEnder, NoRun, Run, Sid
    <2>5. CASE ClaimRevive(c)
      BY <1>a, GivenOut, <2>5 DEF ClaimRevive, TakeClaim, Quit, Parts, CallsOK, CallType, RestOK, Fresh, Recorded, Idle, NoEnder, NoRun, Run, Sid
    <2>6. CASE ClaimRetry(c)
      BY <1>a, GivenOut, <2>6 DEF ClaimRetry, TakeClaim, Quit, Parts, CallsOK, CallType, RestOK, Fresh, Recorded, Idle, NoEnder, NoRun, Run, Sid
    <2>7. CASE GiveUp(c)
      BY <1>a, GivenOut, <2>7 DEF GiveUp, Release, Quit, Parts, CallsOK, CallType, RestOK, Fresh, Recorded, Idle, NoEnder, NoRun, Run, Sid
    <2>8. CASE RecheckStarts(c)
      BY <1>a, GivenOut, <2>8 DEF RecheckStarts, Step, Parts, CallsOK, CallType, RestOK, Fresh, Recorded, Idle, NoEnder, NoRun, Run, Sid
    <2>9. CASE ReEnter(c)
      BY <1>a, GivenOut, <2>9 DEF ReEnter, Parts, CallsOK, CallType, RestOK, Fresh, Recorded, Idle, NoEnder, NoRun, Run, Sid
    <2>10. CASE RecheckRetry(c)
      BY <1>a, <2>10, RetryFields, GivenOut DEF Parts, Same, Fresh, Recorded, NoEnder, NoRun, RestOK
    <2>11. CASE EditRetry(c)
      <3>1. (\A d \in Calls : call'[d].sid = call[d].sid \/ call'[d].sid = NoRun \/ call'[d].sid \in up)
        <4> DEFINE live == Live([call[c].seen EXCEPT !.trigger = NoRun])
        <4>1. live \subseteq up /\ (live = {} \/ Max(live) \in live)
          BY MaxIn DEF Live, RunningIn
        <4>2. call' = [call EXCEPT ![c].pc = IF live = {} THEN "enqueue" ELSE "started",
                                   ![c].sid = IF live = {} THEN NoRun ELSE Max(live)]
          BY <2>11 DEF EditRetry
        <4> HIDE DEF live
        <4> QED BY <4>1, <4>2 DEF Parts, CallsOK, CallType
      <3>2. next' = next /\ up' = up /\ ender' = ender
        BY <2>11 DEF EditRetry
      <3> QED BY <1>a, <3>1, <3>2, GivenOut DEF Parts, Fresh, Recorded
    <2>12. CASE AdoptRetry(c)
      BY <1>a, <2>12, AdoptFields, GivenOut DEF Parts, AdoptRetry, Same, Fresh, Recorded, Idle, NoEnder, NoRun, RestOK
    <2>13. CASE ClearRetry(c)
      BY <1>a, GivenOut, <2>13 DEF ClearRetry, Step, Parts, CallsOK, CallType, RestOK, Fresh, Recorded, Idle, NoEnder, NoRun, Run, Sid
    <2>14. CASE Enter(c)
      BY <1>a, GivenOut, <2>14 DEF Enter, Parts, CallsOK, CallType, RestOK, Fresh, Recorded, Idle, NoEnder, NoRun, Run, Sid
    <2>15. CASE EnqueueAnswers(c)
      BY <1>a, GivenOut, <2>15 DEF EnqueueAnswers, Parts, CallsOK, CallType, RestOK, Fresh, Recorded, Idle, NoEnder, NoRun, Run, Sid
    <2>16. CASE StartRefused(c)
      <3>1. \A d \in Calls : call'[d].sid = call[d].sid \/ call'[d].sid = card.trigger
        BY <2>16 DEF Parts, StartRefused, Step, CallsOK, CallType
      <3> QED BY <2>16, <1>a, <3>1, GivenOut DEF StartRefused, Parts, Fresh, Recorded
    <2>17. CASE StartReads(c)
      BY <1>a, GivenOut, <2>17 DEF StartReads, Parts, CallsOK, CallType, RestOK, Fresh, Recorded, Idle, NoEnder, NoRun, Run, Sid
    <2>18. CASE Spawn(c)
      BY <1>a, GivenOut, <2>18 DEF Spawn, Parts, CallsOK, CallType, RestOK, Fresh, Recorded, Idle, NoEnder, NoRun, Run, Sid
    <2>19. CASE StoreRun(c)
      BY <1>a, GivenOut, <2>19 DEF StoreRun, Step, Parts, CallsOK, CallType, RestOK, Fresh, Recorded, Idle, NoEnder, NoRun, Run, Sid
    <2>20. CASE Finish(c)
      <3>1. /\ \A d \in Calls \ {c} : call'[d].sid = call[d].sid
            /\ call'[c].sid = NoRun /\ next' = next /\ up' = up /\ ender' = ender /\ card'.rec = card.rec
        BY <2>20, FinishFields DEF Same
      <3>2. NoRun < next
        BY GivenOut
      <3> QED BY <3>1, <3>2 DEF Parts, Fresh
    <2> QED BY <1>1, <2>1, <2>2, <2>3, <2>4, <2>5, <2>6, <2>7, <2>8, <2>9, <2>10, <2>11, <2>12, <2>13, <2>14, <2>15, <2>16, <2>17, <2>18, <2>19, <2>20 DEF CallStep, Wakes
  <1>2. ASSUME NEW c \in Calls, NEW kind \in {"revive", "retry"}, NEW force \in BOOLEAN, Request(c, kind, force)
       PROVE Fresh'
      BY <1>a, GivenOut, <1>2 DEF Request, Event, Begin, Parts, CallsOK, CallType, RestOK, Fresh, Recorded, Idle, NoEnder, NoRun, Run, Sid
  <1>3. ASSUME NEW c \in Calls, NEW why \in {"limited", "broken", "error"}, SpawnFails(c, why) PROVE Fresh'
    <2>1. \A d \in Calls : call'[d].sid = call[d].sid
      BY <1>3 DEF Parts, SpawnFails, Step, CallsOK, CallType
    <2>2. next' \in Nat /\ next <= next' /\ up' = up /\ ender' = ender
      BY <1>3, GivenOut DEF SpawnFails
    <2>3. up \subseteq Run /\ Run \subseteq Nat /\ Sid \subseteq Nat
      BY DEF Parts, RestOK, Run, Sid, NoRun
    <2>4. \A s \in up : s < next'
      BY <2>2, <2>3, GivenOut DEF Parts, Fresh
    <2>5. ender.sid < next' /\ \A d \in Calls : call[d].sid < next'
      <3>1. ender.sid \in Nat /\ \A d \in Calls : call[d].sid \in Nat
        BY <2>3, SidsIn
      <3>2. next \in Nat
        BY GivenOut
      <3>3. ender.sid < next /\ \A d \in Calls : call[d].sid < next
        BY DEF Parts, Fresh
      <3> QED BY <2>2, <3>1, <3>2, <3>3
    <2>6. \A s \in Run : card'.rec[s] # "none" => s < next'
      <3>1. next \in Nat /\ \A s \in Run : card.rec[s] # "none" => s < next
        BY GivenOut DEF Parts, Fresh
      <3> QED BY <1>a, <2>2, <2>3, <3>1 DEF Recorded
    <2> QED BY <2>1, <2>2, <2>4, <2>5, <2>6 DEF Fresh
  <1>4. ASSUME NEW s \in Run, NEW how \in Ends, FollowedEnds(s, how) PROVE Fresh'
      BY <1>a, GivenOut, <1>4 DEF FollowedEnds, Turned, Adopted, Parts, CallsOK, CallType, RestOK, Fresh, Recorded, Idle, NoEnder, NoRun, Run, Sid
  <1>5. ASSUME NEW s \in Run, NEW how \in Ends, UnfollowedEnds(s, how) PROVE Fresh'
      BY <1>a, GivenOut, <1>5 DEF UnfollowedEnds, Turned, Adopted, Parts, CallsOK, CallType, RestOK, Fresh, Recorded, Idle, NoEnder, NoRun, Run, Sid
  <1>6. CASE EndSaved
      BY <1>a, <1>6, EndFields, GivenOut DEF Parts, EndSaved, Same, Fresh, Recorded, Idle, NoEnder, NoRun, RestOK
  <1>7. CASE TimePasses
      BY <1>a, GivenOut, <1>7 DEF TimePasses, Parts, CallsOK, CallType, RestOK, Fresh, Recorded, Idle, NoEnder, NoRun, Run, Sid
  <1>8. CASE MoveAway
      BY <1>a, <1>8, MoveFields, GivenOut DEF Parts, MoveAway, Same, Fresh, Recorded, Idle, NoEnder, NoRun, RestOK
  <1>9. CASE Restart
      BY <1>a, GivenOut, <1>9 DEF Restart, Event, Parts, CallsOK, CallType, RestOK, Fresh, Recorded, Idle, NoEnder, NoRun, Run, Sid
  <1>10. CASE Sweep
      BY <1>a, GivenOut, <1>10 DEF Sweep, Parts, CallsOK, CallType, RestOK, Fresh, Recorded, Idle, NoEnder, NoRun, Run, Sid
  <1>11. CASE UNCHANGED vars
      BY <1>a, GivenOut, <1>11 DEF vars, Parts, CallsOK, CallType, RestOK, Fresh, Recorded, Idle, NoEnder, NoRun, Run, Sid
  <1> QED BY <1>1, <1>2, <1>3, <1>4, <1>5, <1>6, <1>7, <1>8, <1>9, <1>10, <1>11 DEF Next

-----------------------------------------------------------------------------
(* The type invariant *)

\* The parts hold initially.
LEMMA InitParts == ASSUME Init PROVE Parts
  <1>1. 1 \in Run /\ 1 \in Sid /\ NoRun \in Sid
    BY RunsAssumption DEF Run, Sid
  <1>2. card \in Good
    BY <1>1 DEF Init, Good, Coherent, Card, Status, NoRun
  <1>3. CardsOK
    BY <1>2, IdleType DEF Init, CardsOK
  <1>4. CallsOK
    BY IdleType DEF Init, CallsOK
  <1>5. RestOK
    <2>1. early = {} /\ up = {1} /\ turn = {1} /\ fate = [s \in Run |-> "none"] /\ next = 2 /\ events = 0
      BY DEF Init
    <2>2. auto = [st |-> "running", sid |-> 1] /\ job = [st |-> "running", sid |-> 1] /\ timer = NoRun /\ boot = "done"
      BY DEF Init
    <2>3. claim \in BOOLEAN /\ delayed \in BOOLEAN /\ disturbed \in BOOLEAN
      BY DEF Init
    <2> QED BY <1>1, <2>1, <2>2, <2>3, RunsAssumption DEF RestOK, Ends
  <1>6. Spawned /\ Fated
    BY DEF Init, Spawned, Fated, Idle, NoEnder
  <1>7. Answers
    BY <1>1, RunsAssumption DEF Init, Answers, Idle, Run
  <1>8. Fresh
    BY <1>1, RunsAssumption DEF Init, Fresh, Idle, NoEnder, NoRun, Run
  <1>9. Known
    BY IdleSeen DEF Init, Known, NoEnder
  <1> QED BY <1>3, <1>4, <1>5, <1>6, <1>7, <1>8, <1>9 DEF Parts

\* Every step keeps the parts of the type invariant.
LEMMA StepParts == ASSUME Parts, [Next]_vars PROVE Parts'
  <1>1. CardsOK' /\ CallsOK' /\ RestOK'
    BY StepCards, StepCalls, StepRest
  <1>2. Spawned' /\ Fated' /\ Answers' /\ Fresh' /\ Known'
    BY StepSpawned, StepFated, StepAnswers, StepFresh, StepKnown
  <1> QED BY <1>1, <1>2 DEF Parts

\* The types, and the coherence of the card and of every copy a call holds of it:
\* a save of an old copy never leaves a trigger without a lane record.
THEOREM Typing == Spec => []TypeOK
  <1>1. Init => Parts
    BY InitParts
  <1>2. Parts /\ [Next]_vars => Parts'
    BY StepParts
  <1>3. Parts => TypeOK
    BY TypeParts DEF Parts
  <1> QED BY <1>1, <1>2, <1>3, PTL DEF Spec

-----------------------------------------------------------------------------
(* The claim *)

\* Which paths reach which place.
Paths ==
  \A c \in Calls :
    /\ call[c].pc \in {"claim", "recheck", "edit"} => call[c].kind # "timer"
    /\ call[c].pc \in {"adopt", "clear"} => call[c].kind = "timer"
    /\ call[c].pc = "edit" => call[c].kind = "retry"
    /\ call[c].pc = "enter" => call[c].kind # "resume"
    /\ call[c].pc = "idle" => call[c].kind = "none"

Holder(c) == call[c].pc \in Holding /\ call[c].kind # "timer"

OneHolder == \A c, d \in Calls : Holder(c) /\ Holder(d) => c = d

ClaimHeld == claim <=> \E c \in Calls : Holder(c)

\* Every step keeps to the paths.
LEMMA StepPaths == ASSUME Parts, Paths, [Next]_vars PROVE Paths'
  <1> USE DEF cardVars, procVars, memVars
  <1>1. ASSUME NEW c \in Calls, CallStep(c) \/ Wakes(c) PROVE Paths'
    <2>1. CASE StartupResume(c)
      BY <2>1 DEF StartupResume, Begin, Parts, CallsOK, CallType, Paths, Idle
    <2>2. CASE DelayedResume(c)
      BY <2>2 DEF DelayedResume, Begin, Parts, CallsOK, CallType, Paths, Idle
    <2>3. CASE TimerFires(c)
      <3>1. CASE Begin(c, "timer", FALSE, "adopt")
        <4>1. /\ \A d \in Calls \ {c} : Same(d)
              /\ call'[c].kind = "timer" /\ call'[c].pc = "adopt" /\ call[c].pc = "idle" /\ InTurn("timer")
          BY <3>1, BeginFields DEF AllKinds, Pcs
        <4> QED BY <2>3, <4>1 DEF TimerFires, Same, Paths, Parts
      <3>2. CASE UNCHANGED call
        BY <2>3, <3>2 DEF TimerFires, Paths, Parts
      <3> QED BY <2>3, <3>1, <3>2 DEF TimerFires
    <2>4. CASE ClaimResume(c)
      BY <2>4 DEF ClaimResume, TakeClaim, Quit, Parts, CallsOK, CallType, Paths, Idle
    <2>5. CASE ClaimRevive(c)
      BY <2>5 DEF ClaimRevive, TakeClaim, Quit, Parts, CallsOK, CallType, Paths, Idle
    <2>6. CASE ClaimRetry(c)
      BY <2>6 DEF ClaimRetry, TakeClaim, Quit, Parts, CallsOK, CallType, Paths, Idle
    <2>7. CASE GiveUp(c)
      BY <2>7 DEF GiveUp, Release, Quit, Parts, CallsOK, CallType, Paths, Idle
    <2>8. CASE RecheckStarts(c)
      BY <2>8 DEF RecheckStarts, Step, Parts, CallsOK, CallType, Paths, Idle
    <2>9. CASE ReEnter(c)
      BY <2>9 DEF ReEnter, ReEnters, Parts, CallsOK, CallType, Paths, Idle
    <2>10. CASE RecheckRetry(c)
      BY <2>10, RetryFields DEF Same, Paths, Parts
    <2>11. CASE EditRetry(c)
      BY <2>11 DEF EditRetry, Parts, CallsOK, CallType, Paths, Idle
    <2>12. CASE AdoptRetry(c)
      <3>1. CASE call'[c] = Idle
        BY <2>12, <3>1, AdoptFields DEF Same, Paths, Parts, Idle
      <3> QED BY <2>12, <3>1, AdoptFields DEF Same, Paths, Parts, AdoptRetry
    <2>13. CASE ClearRetry(c)
      BY <2>13 DEF ClearRetry, Step, Parts, CallsOK, CallType, Paths, Idle
    <2>14. CASE Enter(c)
      BY <2>14 DEF Enter, Parts, CallsOK, CallType, Paths, Idle
    <2>15. CASE EnqueueAnswers(c)
      BY <2>15 DEF EnqueueAnswers, Parts, CallsOK, CallType, Paths, Idle
    <2>16. CASE StartRefused(c)
      BY <2>16 DEF StartRefused, Step, Parts, CallsOK, CallType, Paths, Idle
    <2>17. CASE StartReads(c)
      BY <2>17 DEF StartReads, Parts, CallsOK, CallType, Paths, Idle
    <2>18. CASE Spawn(c)
      BY <2>18 DEF Spawn, Parts, CallsOK, CallType, Paths, Idle
    <2>19. CASE StoreRun(c)
      BY <2>19 DEF StoreRun, Step, Parts, CallsOK, CallType, Paths, Idle
    <2>20. CASE Finish(c)
      <3>1. (\A d \in Calls \ {c} : Same(d)) /\ call'[c].pc = "idle" /\ call'[c].kind = "none"
        BY <2>20, FinishFields
      <3> QED BY <3>1 DEF Same, Paths
    <2> QED BY <1>1, <2>1, <2>2, <2>3, <2>4, <2>5, <2>6, <2>7, <2>8, <2>9, <2>10, <2>11, <2>12, <2>13, <2>14, <2>15, <2>16, <2>17, <2>18, <2>19, <2>20 DEF CallStep, Wakes
  <1>2. ASSUME NEW c \in Calls, NEW kind \in {"revive", "retry"}, NEW force \in BOOLEAN, Request(c, kind, force)
       PROVE Paths'
      BY <1>2 DEF Request, Event, Begin, Parts, CallsOK, CallType, Paths, Idle
  <1>3. ASSUME NEW c \in Calls, NEW why \in {"limited", "broken", "error"}, SpawnFails(c, why) PROVE Paths'
      BY <1>3 DEF SpawnFails, Step, Parts, CallsOK, CallType, Paths, Idle
  <1>4. ASSUME NEW s \in Run, NEW how \in Ends, FollowedEnds(s, how) PROVE Paths'
      BY <1>4 DEF FollowedEnds, Turned, Adopted, Parts, CallsOK, CallType, Paths, Idle
  <1>5. ASSUME NEW s \in Run, NEW how \in Ends, UnfollowedEnds(s, how) PROVE Paths'
      BY <1>5 DEF UnfollowedEnds, Turned, Adopted, Parts, CallsOK, CallType, Paths, Idle
  <1>6. CASE EndSaved
      BY <1>6, EndFields DEF EndSaved, Same, Paths, Parts
  <1>7. CASE TimePasses
      BY <1>7 DEF TimePasses, Parts, CallsOK, CallType, Paths, Idle
  <1>8. CASE MoveAway
      BY <1>8, MoveFields DEF MoveAway, Same, Paths, Parts
  <1>9. CASE Restart
      BY <1>9 DEF Restart, Event, Parts, CallsOK, CallType, Paths, Idle
  <1>10. CASE Sweep
      BY <1>10 DEF Sweep, Parts, CallsOK, CallType, Paths, Idle
  <1>11. CASE UNCHANGED vars
      BY <1>11 DEF vars, Parts, CallsOK, CallType, Paths, Idle
  <1> QED BY <1>1, <1>2, <1>3, <1>4, <1>5, <1>6, <1>7, <1>8, <1>9, <1>10, <1>11 DEF Next

\* At most one call holds the claim.
LEMMA StepOneHolder == ASSUME Parts, Paths, OneHolder, ClaimHeld, [Next]_vars PROVE OneHolder'
  <1> USE DEF cardVars, procVars, memVars
  <1>1. ASSUME NEW c \in Calls, CallStep(c) \/ Wakes(c) PROVE OneHolder'
    <2>1. CASE StartupResume(c)
      BY <2>1 DEF StartupResume, Begin, Parts, CallsOK, CallType, OneHolder, ClaimHeld, Paths, Idle, ClaimFree, Holder, Holding
    <2>2. CASE DelayedResume(c)
      BY <2>2 DEF DelayedResume, Begin, Parts, CallsOK, CallType, OneHolder, ClaimHeld, Paths, Idle, ClaimFree, Holder, Holding
    <2>3. CASE TimerFires(c)
      <3>1. CASE Begin(c, "timer", FALSE, "adopt")
        <4>1. /\ \A d \in Calls \ {c} : Same(d)
              /\ call'[c].kind = "timer" /\ call'[c].pc = "adopt" /\ call[c].pc = "idle" /\ InTurn("timer")
          BY <3>1, BeginFields DEF AllKinds, Pcs
        <4> QED BY <2>3, <4>1 DEF TimerFires, Same, OneHolder, ClaimHeld, Paths, Holder, Holding
      <3>2. CASE UNCHANGED call
        BY <2>3, <3>2 DEF TimerFires, OneHolder, ClaimHeld, Paths, Holder, Holding
      <3> QED BY <2>3, <3>1, <3>2 DEF TimerFires
    <2>4. CASE ClaimResume(c)
      BY <2>4 DEF ClaimResume, TakeClaim, Quit, Parts, CallsOK, CallType, OneHolder, ClaimHeld, Paths, Idle, ClaimFree, Holder, Holding
    <2>5. CASE ClaimRevive(c)
      BY <2>5 DEF ClaimRevive, TakeClaim, Quit, Parts, CallsOK, CallType, OneHolder, ClaimHeld, Paths, Idle, ClaimFree, Holder, Holding
    <2>6. CASE ClaimRetry(c)
      BY <2>6 DEF ClaimRetry, TakeClaim, Quit, Parts, CallsOK, CallType, OneHolder, ClaimHeld, Paths, Idle, ClaimFree, Holder, Holding
    <2>7. CASE GiveUp(c)
      BY <2>7 DEF GiveUp, Release, Quit, Parts, CallsOK, CallType, OneHolder, ClaimHeld, Paths, Idle, ClaimFree, Holder, Holding
    <2>8. CASE RecheckStarts(c)
      BY <2>8 DEF RecheckStarts, Step, Parts, CallsOK, CallType, OneHolder, ClaimHeld, Paths, Idle, ClaimFree, Holder, Holding
    <2>9. CASE ReEnter(c)
      BY <2>9 DEF ReEnter, Parts, CallsOK, CallType, OneHolder, ClaimHeld, Paths, Idle, ClaimFree, Holder, Holding
    <2>10. CASE RecheckRetry(c)
      BY <2>10, RetryFields DEF Same, OneHolder, ClaimHeld, Paths, Holder, Holding
    <2>11. CASE EditRetry(c)
      BY <2>11 DEF EditRetry, Parts, CallsOK, CallType, OneHolder, ClaimHeld, Paths, Idle, ClaimFree, Holder, Holding
    <2>12. CASE AdoptRetry(c)
      <3>1. CASE call'[c] = Idle
        BY <2>12, <3>1, AdoptFields DEF Same, OneHolder, ClaimHeld, Paths, Holder, Holding, Idle
      <3> QED BY <2>12, <3>1, AdoptFields DEF Same, OneHolder, ClaimHeld, Paths, Holder, Holding, AdoptRetry
    <2>13. CASE ClearRetry(c)
      BY <2>13 DEF ClearRetry, Step, Parts, CallsOK, CallType, OneHolder, ClaimHeld, Paths, Idle, ClaimFree, Holder, Holding
    <2>14. CASE Enter(c)
      BY <2>14 DEF Enter, Parts, CallsOK, CallType, OneHolder, ClaimHeld, Paths, Idle, ClaimFree, Holder, Holding
    <2>15. CASE EnqueueAnswers(c)
      BY <2>15 DEF EnqueueAnswers, Parts, CallsOK, CallType, OneHolder, ClaimHeld, Paths, Idle, ClaimFree, Holder, Holding
    <2>16. CASE StartRefused(c)
      BY <2>16 DEF StartRefused, Step, Parts, CallsOK, CallType, OneHolder, ClaimHeld, Paths, Idle, ClaimFree, Holder, Holding
    <2>17. CASE StartReads(c)
      BY <2>17 DEF StartReads, Parts, CallsOK, CallType, OneHolder, ClaimHeld, Paths, Idle, ClaimFree, Holder, Holding
    <2>18. CASE Spawn(c)
      BY <2>18 DEF Spawn, Parts, CallsOK, CallType, OneHolder, ClaimHeld, Paths, Idle, ClaimFree, Holder, Holding
    <2>19. CASE StoreRun(c)
      BY <2>19 DEF StoreRun, Step, Parts, CallsOK, CallType, OneHolder, ClaimHeld, Paths, Idle, ClaimFree, Holder, Holding
    <2>20. CASE Finish(c)
      <3>1. (\A d \in Calls \ {c} : Same(d)) /\ call'[c].pc = "idle" /\ call[c].pc = "started"
        BY <2>20, FinishFields
      <3> QED BY <3>1 DEF Same, OneHolder, Holder, Holding
    <2> QED BY <1>1, <2>1, <2>2, <2>3, <2>4, <2>5, <2>6, <2>7, <2>8, <2>9, <2>10, <2>11, <2>12, <2>13, <2>14, <2>15, <2>16, <2>17, <2>18, <2>19, <2>20 DEF CallStep, Wakes
  <1>2. ASSUME NEW c \in Calls, NEW kind \in {"revive", "retry"}, NEW force \in BOOLEAN, Request(c, kind, force)
       PROVE OneHolder'
      BY <1>2 DEF Request, Event, Begin, Parts, CallsOK, CallType, OneHolder, ClaimHeld, Paths, Idle, ClaimFree, Holder, Holding
  <1>3. ASSUME NEW c \in Calls, NEW why \in {"limited", "broken", "error"}, SpawnFails(c, why) PROVE OneHolder'
      BY <1>3 DEF SpawnFails, Step, Parts, CallsOK, CallType, OneHolder, ClaimHeld, Paths, Idle, ClaimFree, Holder, Holding
  <1>4. ASSUME NEW s \in Run, NEW how \in Ends, FollowedEnds(s, how) PROVE OneHolder'
      BY <1>4 DEF FollowedEnds, Turned, Adopted, Parts, CallsOK, CallType, OneHolder, ClaimHeld, Paths, Idle, ClaimFree, Holder, Holding
  <1>5. ASSUME NEW s \in Run, NEW how \in Ends, UnfollowedEnds(s, how) PROVE OneHolder'
      BY <1>5 DEF UnfollowedEnds, Turned, Adopted, Parts, CallsOK, CallType, OneHolder, ClaimHeld, Paths, Idle, ClaimFree, Holder, Holding
  <1>6. CASE EndSaved
      <2>1. (\A d \in Calls : Same(d)) /\ claim' = claim
        BY <1>6, EndFields DEF EndSaved
      <2> QED BY <2>1 DEF Same, OneHolder, ClaimHeld, Holder
  <1>7. CASE TimePasses
      BY <1>7 DEF TimePasses, Parts, CallsOK, CallType, OneHolder, ClaimHeld, Paths, Idle, ClaimFree, Holder, Holding
  <1>8. CASE MoveAway
      BY <1>8, MoveFields DEF MoveAway, Same, OneHolder, ClaimHeld, Paths, Holder, Holding
  <1>9. CASE Restart
      BY <1>9 DEF Restart, Event, Parts, CallsOK, CallType, OneHolder, ClaimHeld, Paths, Idle, ClaimFree, Holder, Holding
  <1>10. CASE Sweep
      BY <1>10 DEF Sweep, Parts, CallsOK, CallType, OneHolder, ClaimHeld, Paths, Idle, ClaimFree, Holder, Holding
  <1>11. CASE UNCHANGED vars
      BY <1>11 DEF vars, Parts, CallsOK, CallType, OneHolder, ClaimHeld, Paths, Idle, ClaimFree, Holder, Holding
  <1> QED BY <1>1, <1>2, <1>3, <1>4, <1>5, <1>6, <1>7, <1>8, <1>9, <1>10, <1>11 DEF Next

\* The claim is held while it is set, and only then.
LEMMA StepClaimHeld == ASSUME Parts, Paths, OneHolder, ClaimHeld, [Next]_vars PROVE ClaimHeld'
  <1> USE DEF cardVars, procVars, memVars
  <1>1. ASSUME NEW c \in Calls, CallStep(c) \/ Wakes(c) PROVE ClaimHeld'
    <2>1. CASE StartupResume(c)
      BY <2>1 DEF StartupResume, Begin, Parts, CallsOK, CallType, OneHolder, ClaimHeld, Paths, Idle, ClaimFree, Holder, Holding
    <2>2. CASE DelayedResume(c)
      BY <2>2 DEF DelayedResume, Begin, Parts, CallsOK, CallType, OneHolder, ClaimHeld, Paths, Idle, ClaimFree, Holder, Holding
    <2>3. CASE TimerFires(c)
      <3>1. CASE Begin(c, "timer", FALSE, "adopt")
        <4>1. /\ \A d \in Calls \ {c} : Same(d)
              /\ call'[c].kind = "timer" /\ call'[c].pc = "adopt" /\ call[c].pc = "idle" /\ InTurn("timer")
          BY <3>1, BeginFields DEF AllKinds, Pcs
        <4> QED BY <2>3, <4>1 DEF TimerFires, Same, OneHolder, ClaimHeld, Paths, Holder, Holding
      <3>2. CASE UNCHANGED call
        BY <2>3, <3>2 DEF TimerFires, OneHolder, ClaimHeld, Paths, Holder, Holding
      <3> QED BY <2>3, <3>1, <3>2 DEF TimerFires
    <2>4. CASE ClaimResume(c)
      BY <2>4 DEF ClaimResume, TakeClaim, Quit, Parts, CallsOK, CallType, OneHolder, ClaimHeld, Paths, Idle, ClaimFree, Holder, Holding
    <2>5. CASE ClaimRevive(c)
      BY <2>5 DEF ClaimRevive, TakeClaim, Quit, Parts, CallsOK, CallType, OneHolder, ClaimHeld, Paths, Idle, ClaimFree, Holder, Holding
    <2>6. CASE ClaimRetry(c)
      BY <2>6 DEF ClaimRetry, TakeClaim, Quit, Parts, CallsOK, CallType, OneHolder, ClaimHeld, Paths, Idle, ClaimFree, Holder, Holding
    <2>7. CASE GiveUp(c)
      BY <2>7 DEF GiveUp, Release, Quit, Parts, CallsOK, CallType, OneHolder, ClaimHeld, Paths, Idle, ClaimFree, Holder, Holding
    <2>8. CASE RecheckStarts(c)
      BY <2>8 DEF RecheckStarts, Step, Parts, CallsOK, CallType, OneHolder, ClaimHeld, Paths, Idle, ClaimFree, Holder, Holding
    <2>9. CASE ReEnter(c)
      BY <2>9 DEF ReEnter, Parts, CallsOK, CallType, OneHolder, ClaimHeld, Paths, Idle, ClaimFree, Holder, Holding
    <2>10. CASE RecheckRetry(c)
      BY <2>10, RetryFields DEF Same, OneHolder, ClaimHeld, Paths, Holder, Holding
    <2>11. CASE EditRetry(c)
      BY <2>11 DEF EditRetry, Parts, CallsOK, CallType, OneHolder, ClaimHeld, Paths, Idle, ClaimFree, Holder, Holding
    <2>12. CASE AdoptRetry(c)
      <3>1. Idle.pc = "idle"
        BY DEF Idle
      <3>2. claim' = claim /\ call[c].kind = "timer" /\ \A d \in Calls \ {c} : Same(d)
        BY <2>12, AdoptFields DEF AdoptRetry, Paths
      <3>3. call'[c].pc = "idle" \/ call'[c].kind = "timer"
        BY <2>12, <3>1, <3>2, AdoptFields
      <3> QED BY <3>2, <3>3 DEF Same, ClaimHeld, Holder, Holding
    <2>13. CASE ClearRetry(c)
      BY <2>13 DEF ClearRetry, Step, Parts, CallsOK, CallType, OneHolder, ClaimHeld, Paths, Idle, ClaimFree, Holder, Holding
    <2>14. CASE Enter(c)
      BY <2>14 DEF Enter, Parts, CallsOK, CallType, OneHolder, ClaimHeld, Paths, Idle, ClaimFree, Holder, Holding
    <2>15. CASE EnqueueAnswers(c)
      BY <2>15 DEF EnqueueAnswers, Parts, CallsOK, CallType, OneHolder, ClaimHeld, Paths, Idle, ClaimFree, Holder, Holding
    <2>16. CASE StartRefused(c)
      BY <2>16 DEF StartRefused, Step, Parts, CallsOK, CallType, OneHolder, ClaimHeld, Paths, Idle, ClaimFree, Holder, Holding
    <2>17. CASE StartReads(c)
      BY <2>17 DEF StartReads, Parts, CallsOK, CallType, OneHolder, ClaimHeld, Paths, Idle, ClaimFree, Holder, Holding
    <2>18. CASE Spawn(c)
      BY <2>18 DEF Spawn, Parts, CallsOK, CallType, OneHolder, ClaimHeld, Paths, Idle, ClaimFree, Holder, Holding
    <2>19. CASE StoreRun(c)
      BY <2>19 DEF StoreRun, Step, Parts, CallsOK, CallType, OneHolder, ClaimHeld, Paths, Idle, ClaimFree, Holder, Holding
    <2>20. CASE Finish(c)
      <3>1. (\A d \in Calls \ {c} : Same(d)) /\ call'[c].pc = "idle" /\ call[c].pc = "started"
        BY <2>20, FinishFields
      <3>2. CASE call[c].kind = "timer"
        <4>1. claim' = claim
          BY <2>20, <3>2 DEF Finish
        <4> QED BY <3>1, <3>2, <4>1 DEF Same, ClaimHeld, Holder, Holding
      <3>3. CASE call[c].kind # "timer"
        <4>1. claim' = FALSE
          BY <2>20, <3>3 DEF Finish
        <4> QED BY <3>1, <3>3, <4>1 DEF Same, OneHolder, ClaimHeld, Holder, Holding
      <3> QED BY <3>2, <3>3
    <2> QED BY <1>1, <2>1, <2>2, <2>3, <2>4, <2>5, <2>6, <2>7, <2>8, <2>9, <2>10, <2>11, <2>12, <2>13, <2>14, <2>15, <2>16, <2>17, <2>18, <2>19, <2>20 DEF CallStep, Wakes
  <1>2. ASSUME NEW c \in Calls, NEW kind \in {"revive", "retry"}, NEW force \in BOOLEAN, Request(c, kind, force)
       PROVE ClaimHeld'
      BY <1>2 DEF Request, Event, Begin, Parts, CallsOK, CallType, OneHolder, ClaimHeld, Paths, Idle, ClaimFree, Holder, Holding
  <1>3. ASSUME NEW c \in Calls, NEW why \in {"limited", "broken", "error"}, SpawnFails(c, why) PROVE ClaimHeld'
      BY <1>3 DEF SpawnFails, Step, Parts, CallsOK, CallType, OneHolder, ClaimHeld, Paths, Idle, ClaimFree, Holder, Holding
  <1>4. ASSUME NEW s \in Run, NEW how \in Ends, FollowedEnds(s, how) PROVE ClaimHeld'
      BY <1>4 DEF FollowedEnds, Turned, Adopted, Parts, CallsOK, CallType, OneHolder, ClaimHeld, Paths, Idle, ClaimFree, Holder, Holding
  <1>5. ASSUME NEW s \in Run, NEW how \in Ends, UnfollowedEnds(s, how) PROVE ClaimHeld'
      BY <1>5 DEF UnfollowedEnds, Turned, Adopted, Parts, CallsOK, CallType, OneHolder, ClaimHeld, Paths, Idle, ClaimFree, Holder, Holding
  <1>6. CASE EndSaved
      BY <1>6, EndFields DEF EndSaved, Same, OneHolder, ClaimHeld, Paths, Holder, Holding
  <1>7. CASE TimePasses
      BY <1>7 DEF TimePasses, Parts, CallsOK, CallType, OneHolder, ClaimHeld, Paths, Idle, ClaimFree, Holder, Holding
  <1>8. CASE MoveAway
      BY <1>8, MoveFields DEF MoveAway, Same, OneHolder, ClaimHeld, Paths, Holder, Holding
  <1>9. CASE Restart
      BY <1>9 DEF Restart, Event, Parts, CallsOK, CallType, OneHolder, ClaimHeld, Paths, Idle, ClaimFree, Holder, Holding
  <1>10. CASE Sweep
      BY <1>10 DEF Sweep, Parts, CallsOK, CallType, OneHolder, ClaimHeld, Paths, Idle, ClaimFree, Holder, Holding
  <1>11. CASE UNCHANGED vars
      BY <1>11 DEF vars, Parts, CallsOK, CallType, OneHolder, ClaimHeld, Paths, Idle, ClaimFree, Holder, Holding
  <1> QED BY <1>1, <1>2, <1>3, <1>4, <1>5, <1>6, <1>7, <1>8, <1>9, <1>10, <1>11 DEF Next


ClaimInv == Parts /\ Paths /\ OneHolder /\ ClaimHeld

\* The claim of the lane is held by one call while it is set and by none otherwise,
\* however many calls of however many paths overlap (lane-rerun-claim.ts).
THEOREM ClaimHeldOnce == Spec => []ClaimHeldByOne
  <1>1. Init => ClaimInv
    <2> SUFFICES ASSUME Init PROVE ClaimInv
      OBVIOUS
    <2>1. \A c \in Calls : call[c].pc = "idle" /\ call[c].kind = "none"
      BY DEF Init, Idle
    <2>2. ~ claim
      BY DEF Init
    <2> QED BY <2>1, <2>2, InitParts DEF ClaimInv, Paths, OneHolder, ClaimHeld, Holder, Holding
  <1>2. ClaimInv /\ [Next]_vars => ClaimInv'
    BY StepParts, StepPaths, StepOneHolder, StepClaimHeld DEF ClaimInv
  <1>3. ClaimInv => ClaimHeldByOne
    <2> SUFFICES ASSUME ClaimInv PROVE ClaimHeldByOne
      OBVIOUS
    <2>1. \A c : c \in Holders <=> c \in Calls /\ Holder(c)
      BY DEF Holders, Holder
    <2>2. CASE claim
      <3>1. PICK c \in Calls : Holder(c)
        BY <2>2 DEF ClaimInv, ClaimHeld
      <3>2. Holders = {c}
        BY <2>1, <3>1 DEF ClaimInv, OneHolder
      <3> QED BY <2>2, <3>2 DEF ClaimHeldByOne
    <2>3. CASE ~ claim
      <3>1. Holders = {}
        BY <2>1, <2>3 DEF ClaimInv, ClaimHeld
      <3> QED BY <2>3, <3>1 DEF ClaimHeldByOne
    <2> QED BY <2>2, <2>3
  <1> QED BY <1>1, <1>2, <1>3, PTL DEF Spec

-----------------------------------------------------------------------------
(* One agent per step *)

\* The timer's call and the others take turns.
TimerAlone == \A c, d \in Calls : call[c].kind = "timer" /\ c # d => call[d].pc = "idle"

\* After a restart nothing runs before the sweep.
Quiet == boot = "sweep" => up = {} /\ \A c \in Calls : call[c].pc = "idle"

\* s may be at work: running by its record and alive, or started and not stored yet.
Working(s) ==
  \/ card.rec[s] = "running" /\ s \in up
  \/ \E c \in Calls : call[c].pc = "spawned" /\ call[c].sid = s

OneWorking == \A s, t \in Run : Working(s) /\ Working(t) => s = t

\* No card and no copy has an ended record of a session at work.
Unended(s) ==
  /\ ~ Ended(card.rec[s]) /\ ~ Ended(ender.copy.rec[s])
  /\ \A c \in Calls : ~ Ended(call[c].seen.rec[s])

Spared == \A s \in turn : Unended(s)

InWork == \A s \in turn : Working(s)

\* Where a call has found the lane free and has not started its session yet.
Starting == {"edit", "adopt", "clear", "enter", "enqueue", "starting"}

Clear == \A c \in Calls : call[c].pc \in Starting => \A s \in Run : ~ Working(s)

\* What revive found on the card it listed.
NoneSeen == \A c \in Calls : call[c].pc = "recheck" /\ call[c].kind = "revive"
                               => Live(call[c].seen) = {}

\* The timer waits for its turn.
LEMMA StepTimerAlone == ASSUME Parts, Paths, TimerAlone, ~ TimerOverlaps, [Next]_vars PROVE TimerAlone'
  <1> USE DEF cardVars, procVars, memVars
  <1>1. ASSUME NEW c \in Calls, CallStep(c) \/ Wakes(c) PROVE TimerAlone'
    <2>1. CASE StartupResume(c)
      BY <2>1 DEF StartupResume, Begin, InTurn, Parts, CallsOK, CallType, TimerAlone, InTurn, Paths, Idle
    <2>2. CASE DelayedResume(c)
      BY <2>2 DEF DelayedResume, Begin, InTurn, Parts, CallsOK, CallType, TimerAlone, InTurn, Paths, Idle
    <2>3. CASE TimerFires(c)
      <3>1. CASE Begin(c, "timer", FALSE, "adopt")
        <4>1. /\ \A d \in Calls \ {c} : Same(d)
              /\ call'[c].kind = "timer" /\ call'[c].pc = "adopt" /\ call[c].pc = "idle" /\ InTurn("timer")
          BY <3>1, BeginFields DEF AllKinds, Pcs
        <4> QED BY <2>3, <4>1 DEF TimerFires, Same, TimerAlone, InTurn, Paths
      <3>2. CASE UNCHANGED call
        BY <2>3, <3>2 DEF TimerFires, TimerAlone, InTurn, Paths
      <3> QED BY <2>3, <3>1, <3>2 DEF TimerFires
    <2>4. CASE ClaimResume(c)
      BY <2>4 DEF ClaimResume, TakeClaim, Quit, Parts, CallsOK, CallType, TimerAlone, InTurn, Paths, Idle
    <2>5. CASE ClaimRevive(c)
      BY <2>5 DEF ClaimRevive, TakeClaim, Quit, Parts, CallsOK, CallType, TimerAlone, InTurn, Paths, Idle
    <2>6. CASE ClaimRetry(c)
      BY <2>6 DEF ClaimRetry, TakeClaim, Quit, Parts, CallsOK, CallType, TimerAlone, InTurn, Paths, Idle
    <2>7. CASE GiveUp(c)
      BY <2>7 DEF GiveUp, Release, Quit, Parts, CallsOK, CallType, TimerAlone, InTurn, Paths, Idle
    <2>8. CASE RecheckStarts(c)
      BY <2>8 DEF RecheckStarts, Step, Parts, CallsOK, CallType, TimerAlone, InTurn, Paths, Idle
    <2>9. CASE ReEnter(c)
      BY <2>9 DEF ReEnter, Parts, CallsOK, CallType, TimerAlone, InTurn, Paths, Idle
    <2>10. CASE RecheckRetry(c)
      BY <2>10, RetryFields DEF Same, TimerAlone, InTurn, Paths
    <2>11. CASE EditRetry(c)
      BY <2>11 DEF EditRetry, Parts, CallsOK, CallType, TimerAlone, InTurn, Paths, Idle
    <2>12. CASE AdoptRetry(c)
      <3>1. CASE call'[c] = Idle
        BY <2>12, <3>1, AdoptFields DEF Same, TimerAlone, InTurn, Paths, Idle
      <3> QED BY <2>12, <3>1, AdoptFields DEF Same, TimerAlone, InTurn, Paths, AdoptRetry
    <2>13. CASE ClearRetry(c)
      BY <2>13 DEF ClearRetry, Step, Parts, CallsOK, CallType, TimerAlone, InTurn, Paths, Idle
    <2>14. CASE Enter(c)
      BY <2>14 DEF Enter, Parts, CallsOK, CallType, TimerAlone, InTurn, Paths, Idle
    <2>15. CASE EnqueueAnswers(c)
      BY <2>15 DEF EnqueueAnswers, Parts, CallsOK, CallType, TimerAlone, InTurn, Paths, Idle
    <2>16. CASE StartRefused(c)
      BY <2>16 DEF StartRefused, Step, Parts, CallsOK, CallType, TimerAlone, InTurn, Paths, Idle
    <2>17. CASE StartReads(c)
      BY <2>17 DEF StartReads, Parts, CallsOK, CallType, TimerAlone, InTurn, Paths, Idle
    <2>18. CASE Spawn(c)
      BY <2>18 DEF Spawn, Parts, CallsOK, CallType, TimerAlone, InTurn, Paths, Idle
    <2>19. CASE StoreRun(c)
      BY <2>19 DEF StoreRun, Step, Parts, CallsOK, CallType, TimerAlone, InTurn, Paths, Idle
    <2>20. CASE Finish(c)
      <3>1. (\A d \in Calls \ {c} : Same(d)) /\ call'[c].pc = "idle" /\ call[c].pc = "started"
        BY <2>20, FinishFields
      <3>2. call'[c].kind = "none"
        BY <2>20, FinishFields
      <3> QED BY <3>1, <3>2 DEF Same, TimerAlone
    <2> QED BY <1>1, <2>1, <2>2, <2>3, <2>4, <2>5, <2>6, <2>7, <2>8, <2>9, <2>10, <2>11, <2>12, <2>13, <2>14, <2>15, <2>16, <2>17, <2>18, <2>19, <2>20 DEF CallStep, Wakes
  <1>2. ASSUME NEW c \in Calls, NEW kind \in {"revive", "retry"}, NEW force \in BOOLEAN, Request(c, kind, force)
       PROVE TimerAlone'
      BY <1>2 DEF Request, Event, Begin, InTurn, Parts, CallsOK, CallType, TimerAlone, InTurn, Paths, Idle
  <1>3. ASSUME NEW c \in Calls, NEW why \in {"limited", "broken", "error"}, SpawnFails(c, why) PROVE TimerAlone'
      BY <1>3 DEF SpawnFails, Step, Parts, CallsOK, CallType, TimerAlone, InTurn, Paths, Idle
  <1>4. ASSUME NEW s \in Run, NEW how \in Ends, FollowedEnds(s, how) PROVE TimerAlone'
      BY <1>4 DEF FollowedEnds, Turned, Adopted, Parts, CallsOK, CallType, TimerAlone, InTurn, Paths, Idle
  <1>5. ASSUME NEW s \in Run, NEW how \in Ends, UnfollowedEnds(s, how) PROVE TimerAlone'
      BY <1>5 DEF UnfollowedEnds, Turned, Adopted, Parts, CallsOK, CallType, TimerAlone, InTurn, Paths, Idle
  <1>6. CASE EndSaved
      BY <1>6, EndFields DEF EndSaved, Same, TimerAlone, InTurn, Paths
  <1>7. CASE TimePasses
      BY <1>7 DEF TimePasses, Parts, CallsOK, CallType, TimerAlone, InTurn, Paths, Idle
  <1>8. CASE MoveAway
      BY <1>8, MoveFields DEF MoveAway, Same, TimerAlone, InTurn, Paths
  <1>9. CASE Restart
      BY <1>9 DEF Restart, Event, Parts, CallsOK, CallType, TimerAlone, InTurn, Paths, Idle
  <1>10. CASE Sweep
      BY <1>10 DEF Sweep, Parts, CallsOK, CallType, TimerAlone, InTurn, Paths, Idle
  <1>11. CASE UNCHANGED vars
      BY <1>11 DEF vars, Parts, CallsOK, CallType, TimerAlone, InTurn, Paths, Idle
  <1> QED BY <1>1, <1>2, <1>3, <1>4, <1>5, <1>6, <1>7, <1>8, <1>9, <1>10, <1>11 DEF Next

\* The sweep comes first after a restart.
LEMMA StepQuiet == ASSUME Parts, Quiet, [Next]_vars PROVE Quiet'
  <1> USE DEF cardVars, procVars, memVars
  <1>1. ASSUME NEW c \in Calls, CallStep(c) \/ Wakes(c) PROVE Quiet'
    <2>1. CASE StartupResume(c)
      BY <2>1 DEF StartupResume, Begin, Quiet, Idle
    <2>2. CASE DelayedResume(c)
      BY <2>2 DEF DelayedResume, Begin, Quiet, Idle
    <2>3. CASE TimerFires(c)
      <3>1. CASE Begin(c, "timer", FALSE, "adopt")
        BY <2>3, <3>1 DEF TimerFires, Begin, Quiet
      <3>2. CASE UNCHANGED call
        BY <2>3, <3>2 DEF TimerFires, Quiet
      <3> QED BY <2>3, <3>1, <3>2 DEF TimerFires
    <2>4. CASE ClaimResume(c)
      BY <2>4 DEF ClaimResume, TakeClaim, Quit, Quiet, Idle
    <2>5. CASE ClaimRevive(c)
      BY <2>5 DEF ClaimRevive, TakeClaim, Quit, Quiet, Idle
    <2>6. CASE ClaimRetry(c)
      BY <2>6 DEF ClaimRetry, TakeClaim, Quit, Quiet, Idle
    <2>7. CASE GiveUp(c)
      BY <2>7 DEF GiveUp, Release, Quit, Quiet, Idle
    <2>8. CASE RecheckStarts(c)
      BY <2>8 DEF RecheckStarts, Step, Quiet, Idle
    <2>9. CASE ReEnter(c)
      BY <2>9 DEF ReEnter, Quiet, Idle
    <2>10. CASE RecheckRetry(c)
      BY <2>10, RetryFields DEF Quiet
    <2>11. CASE EditRetry(c)
      BY <2>11 DEF EditRetry, Quiet, Idle
    <2>12. CASE AdoptRetry(c)
      BY <2>12, AdoptFields DEF AdoptRetry, Quiet
    <2>13. CASE ClearRetry(c)
      BY <2>13 DEF ClearRetry, Step, Quiet, Idle
    <2>14. CASE Enter(c)
      BY <2>14 DEF Enter, Quiet, Idle
    <2>15. CASE EnqueueAnswers(c)
      BY <2>15 DEF EnqueueAnswers, Quiet, Idle
    <2>16. CASE StartRefused(c)
      BY <2>16 DEF StartRefused, Step, Quiet, Idle
    <2>17. CASE StartReads(c)
      BY <2>17 DEF StartReads, Quiet, Idle
    <2>18. CASE Spawn(c)
      BY <2>18 DEF Spawn, Quiet, Idle
    <2>19. CASE StoreRun(c)
      BY <2>19 DEF StoreRun, Step, Quiet, Idle
    <2>20. CASE Finish(c)
      BY <2>20, FinishFields DEF Quiet
    <2> QED BY <1>1, <2>1, <2>2, <2>3, <2>4, <2>5, <2>6, <2>7, <2>8, <2>9, <2>10, <2>11, <2>12, <2>13, <2>14, <2>15, <2>16, <2>17, <2>18, <2>19, <2>20 DEF CallStep, Wakes
  <1>2. ASSUME NEW c \in Calls, NEW kind \in {"revive", "retry"}, NEW force \in BOOLEAN, Request(c, kind, force)
       PROVE Quiet'
      BY <1>2 DEF Request, Event, Begin, Quiet, Idle
  <1>3. ASSUME NEW c \in Calls, NEW why \in {"limited", "broken", "error"}, SpawnFails(c, why) PROVE Quiet'
      BY <1>3 DEF SpawnFails, Step, Quiet, Idle
  <1>4. ASSUME NEW s \in Run, NEW how \in Ends, FollowedEnds(s, how) PROVE Quiet'
      BY <1>4 DEF FollowedEnds, Turned, Adopted, Quiet, Idle
  <1>5. ASSUME NEW s \in Run, NEW how \in Ends, UnfollowedEnds(s, how) PROVE Quiet'
      BY <1>5 DEF UnfollowedEnds, Turned, Adopted, Quiet, Idle
  <1>6. CASE EndSaved
      BY <1>6, EndFields DEF EndSaved, Same, Quiet
  <1>7. CASE TimePasses
      BY <1>7 DEF TimePasses, Quiet, Idle
  <1>8. CASE MoveAway
      BY <1>8 DEF MoveAway, Quiet
  <1>9. CASE Restart
      BY <1>9 DEF Restart, Event, Quiet, Idle
  <1>10. CASE Sweep
      BY <1>10 DEF Sweep, Quiet, Idle
  <1>11. CASE UNCHANGED vars
      BY <1>11 DEF vars, Quiet, Idle
  <1> QED BY <1>1, <1>2, <1>3, <1>4, <1>5, <1>6, <1>7, <1>8, <1>9, <1>10, <1>11 DEF Next

\* A save brings no record back to running.
LEMMA SavedRunning ==
  ASSUME Parts, NEW t \in Good, NEW s \in Run, Saved(t).rec[s] = "running", t.rec[s] # "none" => card.rec[s] # "none"
  PROVE  card.rec[s] = "running"
  BY DEF Parts, CardsOK, Good, Coherent, Card, Saved, MergeStatus, Status, Ended

\* A step brings no record to running except that of a session just stored.
Runs == \A s \in Run : card'.rec[s] = "running"
          => card.rec[s] = "running" \/ \E c \in Calls : call[c].pc = "spawned" /\ call[c].sid = s

\* Ended records stay ended.
LEMMA StepRuns == ASSUME Parts, [Next]_vars PROVE Runs
  <1> USE DEF cardVars, procVars, memVars
  <1>1. ASSUME NEW c \in Calls, CallStep(c) \/ Wakes(c) PROVE Runs
    <2>1. CASE StartupResume(c)
      BY <2>1 DEF StartupResume, Runs
    <2>2. CASE DelayedResume(c)
      BY <2>2 DEF DelayedResume, Runs
    <2>3. CASE TimerFires(c)
      BY <2>3 DEF TimerFires, Runs
    <2>4. CASE ClaimResume(c)
      BY <2>4 DEF ClaimResume, Runs
    <2>5. CASE ClaimRevive(c)
      <3>1. call[c].seen \in Good /\ card \in Good
        BY DEF Parts, CallsOK, CallType, CardsOK
      <3>2. /\ Sanitized(call[c].seen) \in Good
            /\ \A s \in Run : Sanitized(call[c].seen).rec[s] # "none" => call[c].seen.rec[s] # "none"
        BY <3>1, SanitizedGood DEF Parts, RestOK
      <3>3. card' = card \/ card' = Saved(Sanitized(call[c].seen))
        BY <2>5 DEF ClaimRevive
      <3> QED BY <3>2, <3>3, SavedRunning DEF Parts, Known, Runs
    <2>6. CASE ClaimRetry(c)
      BY <2>6 DEF ClaimRetry, Runs
    <2>7. CASE GiveUp(c)
      BY <2>7 DEF GiveUp, Runs
    <2>8. CASE RecheckStarts(c)
      BY <2>8 DEF RecheckStarts, Runs
    <2>9. CASE ReEnter(c)
      BY <2>9 DEF ReEnter, Runs
    <2>10. CASE RecheckRetry(c)
      BY <2>10 DEF RecheckRetry, Runs
    <2>11. CASE EditRetry(c)
      <3> DEFINE t == [call[c].seen EXCEPT !.trigger = NoRun]
      <3>1. call[c].seen \in Good
        BY DEF Parts, CallsOK, CallType
      <3>2. card' = Saved(t) /\ t \in Good /\ t.rec = call[c].seen.rec
        BY <2>11, <3>1, ClearedGood DEF EditRetry
      <3> HIDE DEF t
      <3> QED BY <3>2, SavedRunning DEF Parts, Known, Runs
    <2>12. CASE AdoptRetry(c)
      BY <2>12 DEF AdoptRetry, Runs
    <2>13. CASE ClearRetry(c)
      <3> DEFINE t == [call[c].seen EXCEPT !.trigger = NoRun]
      <3>1. call[c].seen \in Good
        BY DEF Parts, CallsOK, CallType
      <3>2. card' = Saved(t) /\ t \in Good /\ t.rec = call[c].seen.rec
        BY <2>13, <3>1, ClearedGood DEF ClearRetry
      <3> HIDE DEF t
      <3> QED BY <3>2, SavedRunning DEF Parts, Known, Runs
    <2>14. CASE Enter(c)
      BY <2>14 DEF Enter, Runs
    <2>15. CASE EnqueueAnswers(c)
      BY <2>15 DEF EnqueueAnswers, Runs
    <2>16. CASE StartRefused(c)
      BY <2>16 DEF StartRefused, Runs
    <2>17. CASE StartReads(c)
      BY <2>17 DEF StartReads, Runs
    <2>18. CASE Spawn(c)
      BY <2>18 DEF Spawn, Runs
    <2>19. CASE StoreRun(c)
      <3> DEFINE t == WithRun(call[c].seen, call[c].sid)
      <3>1. call[c].sid \in Run /\ call[c].seen \in Good /\ call[c].pc = "spawned"
        BY <2>19, StoreFields DEF Parts, CallsOK, CallType, StoreRun
      <3>2. /\ card' = Saved(t) /\ t \in Good
            /\ \A s \in Run : s # call[c].sid => t.rec[s] = call[c].seen.rec[s]
        BY <2>19, <3>1, WithRunGood DEF StoreRun
      <3> HIDE DEF t
      <3> QED BY <3>1, <3>2, SavedRunning DEF Parts, Known, Runs
    <2>20. CASE Finish(c)
      BY <2>20, FinishFields DEF Runs
    <2> QED BY <1>1, <2>1, <2>2, <2>3, <2>4, <2>5, <2>6, <2>7, <2>8, <2>9, <2>10, <2>11, <2>12, <2>13, <2>14, <2>15, <2>16, <2>17, <2>18, <2>19, <2>20 DEF CallStep, Wakes
  <1>2. ASSUME NEW c \in Calls, NEW kind \in {"revive", "retry"}, NEW force \in BOOLEAN, Request(c, kind, force)
       PROVE Runs
      BY <1>2 DEF Request, Event, Begin, InTurn, Runs
  <1>3. ASSUME NEW c \in Calls, NEW why \in {"limited", "broken", "error"}, SpawnFails(c, why) PROVE Runs
    <2>1. PICK t \in Good : /\ card' = Saved(t)
                           /\ \A s \in Run : t.rec[s] = IF why # "error" /\ s = next THEN why ELSE call[c].seen.rec[s]
      BY <1>3, FailFields
    <2>2. \A s \in Run : s # next \/ why = "error" => (t.rec[s] # "none" => card.rec[s] # "none")
      BY <2>1 DEF Parts, Known
    <2>3. why # "error" /\ next \in Run => Saved(t).rec[next] # "running"
      <3> SUFFICES ASSUME why # "error", next \in Run PROVE Saved(t).rec[next] # "running"
        OBVIOUS
      <3>1. t.rec[next] = why
        BY <2>1
      <3> QED BY <3>1 DEF Saved, MergeStatus, Parts, CardsOK, Good, Card
    <2> QED BY <2>1, <2>2, <2>3, SavedRunning DEF Runs
  <1>4. ASSUME NEW s \in Run, NEW how \in Ends, FollowedEnds(s, how) PROVE Runs
      BY <1>4 DEF FollowedEnds, Turned, Adopted, Runs
  <1>5. ASSUME NEW s \in Run, NEW how \in Ends, UnfollowedEnds(s, how) PROVE Runs
    BY <1>5, UnfollowedFields DEF Runs, Ends
  <1>6. CASE EndSaved
    <2>1. PICK t \in Good : /\ card' = Saved(t)
                           /\ \A s \in Run : t.rec[s] = IF s = ender.sid /\ ender.copy.rec[s] = "running"
                                                    THEN fate[s] ELSE ender.copy.rec[s]
      BY <1>6, EndFields
    <2>2. \A s \in Run : t.rec[s] # "none" => card.rec[s] # "none"
      BY <2>1 DEF Parts, Known
    <2> QED BY <2>1, <2>2, SavedRunning DEF Runs
  <1>7. CASE TimePasses
      BY <1>7 DEF TimePasses, Runs
  <1>8. CASE MoveAway
    BY <1>8, MoveFields DEF Runs
  <1>9. CASE Restart
      BY <1>9 DEF Restart, Event, Runs
  <1>10. CASE Sweep
    <2>1. \A s \in Run : Sanitized(card).rec[s] = "running" => card.rec[s] = "running"
      BY SanitizedGood DEF Parts, CardsOK, RestOK
    <2> QED BY <1>10, <2>1 DEF Sweep, Runs
  <1>11. CASE UNCHANGED vars
      BY <1>11 DEF vars, Runs
  <1> QED BY <1>1, <1>2, <1>3, <1>4, <1>5, <1>6, <1>7, <1>8, <1>9, <1>10, <1>11 DEF Next

\* Sessions are created by the start of a call.
Begins(c, s) == call[c].pc = "starting" /\ call'[c].pc = "spawned" /\ s = next

SpawnedFrom ==
  /\ \A s \in up' : s \in up \/ \E c \in Calls : Begins(c, s)
  /\ \A c \in Calls : call'[c].pc = "spawned"
       => \/ call[c].pc = "spawned" /\ call'[c].sid = call[c].sid
          \/ Begins(c, call'[c].sid)

\* Where processes and sessions come from.
LEMMA StepSpawnedFrom == ASSUME Parts, [Next]_vars PROVE SpawnedFrom
  <1> USE DEF cardVars, procVars, memVars
  <1>1. ASSUME NEW c \in Calls, CallStep(c) \/ Wakes(c) PROVE SpawnedFrom
    <2>1. CASE StartupResume(c)
      BY <2>1 DEF StartupResume, Begin, Parts, CallsOK, CallType, SpawnedFrom, Begins, Idle
    <2>2. CASE DelayedResume(c)
      BY <2>2 DEF DelayedResume, Begin, Parts, CallsOK, CallType, SpawnedFrom, Begins, Idle
    <2>3. CASE TimerFires(c)
      <3>1. CASE Begin(c, "timer", FALSE, "adopt")
        <4>1. (\A d \in Calls \ {c} : Same(d)) /\ call'[c].pc = "adopt"
          BY <3>1, BeginFields DEF AllKinds, Pcs
        <4> QED BY <2>3, <4>1 DEF TimerFires, Same, SpawnedFrom
      <3>2. CASE UNCHANGED call
        BY <2>3, <3>2 DEF TimerFires, SpawnedFrom
      <3> QED BY <2>3, <3>1, <3>2 DEF TimerFires
    <2>4. CASE ClaimResume(c)
      BY <2>4 DEF ClaimResume, TakeClaim, Quit, Parts, CallsOK, CallType, SpawnedFrom, Begins, Idle
    <2>5. CASE ClaimRevive(c)
      BY <2>5 DEF ClaimRevive, TakeClaim, Quit, Parts, CallsOK, CallType, SpawnedFrom, Begins, Idle
    <2>6. CASE ClaimRetry(c)
      BY <2>6 DEF ClaimRetry, TakeClaim, Quit, Parts, CallsOK, CallType, SpawnedFrom, Begins, Idle
    <2>7. CASE GiveUp(c)
      BY <2>7 DEF GiveUp, Release, Quit, Parts, CallsOK, CallType, SpawnedFrom, Begins, Idle
    <2>8. CASE RecheckStarts(c)
      BY <2>8 DEF RecheckStarts, Step, Parts, CallsOK, CallType, SpawnedFrom, Begins, Idle
    <2>9. CASE ReEnter(c)
      BY <2>9 DEF ReEnter, Parts, CallsOK, CallType, SpawnedFrom, Begins, Idle
    <2>10. CASE RecheckRetry(c)
      BY <2>10, RetryFields DEF Same, SpawnedFrom, Begins
    <2>11. CASE EditRetry(c)
      BY <2>11 DEF EditRetry, Parts, CallsOK, CallType, SpawnedFrom, Begins, Idle
    <2>12. CASE AdoptRetry(c)
      <3>1. CASE call'[c] = Idle
        BY <2>12, <3>1, AdoptFields DEF Same, SpawnedFrom, Begins, Idle
      <3> QED BY <2>12, <3>1, AdoptFields DEF Same, SpawnedFrom, Begins, AdoptRetry
    <2>13. CASE ClearRetry(c)
      BY <2>13 DEF ClearRetry, Step, Parts, CallsOK, CallType, SpawnedFrom, Begins, Idle
    <2>14. CASE Enter(c)
      BY <2>14 DEF Enter, Parts, CallsOK, CallType, SpawnedFrom, Begins, Idle
    <2>15. CASE EnqueueAnswers(c)
      BY <2>15 DEF EnqueueAnswers, Parts, CallsOK, CallType, SpawnedFrom, Begins, Idle
    <2>16. CASE StartRefused(c)
      BY <2>16 DEF StartRefused, Step, Parts, CallsOK, CallType, SpawnedFrom, Begins, Idle
    <2>17. CASE StartReads(c)
      BY <2>17 DEF StartReads, Parts, CallsOK, CallType, SpawnedFrom, Begins, Idle
    <2>18. CASE Spawn(c)
      BY <2>18 DEF Spawn, Parts, CallsOK, CallType, SpawnedFrom, Begins, Idle
    <2>19. CASE StoreRun(c)
      BY <2>19 DEF StoreRun, Step, Parts, CallsOK, CallType, SpawnedFrom, Begins, Idle
    <2>20. CASE Finish(c)
      BY <2>20, FinishFields DEF Same, SpawnedFrom, Begins
    <2> QED BY <1>1, <2>1, <2>2, <2>3, <2>4, <2>5, <2>6, <2>7, <2>8, <2>9, <2>10, <2>11, <2>12, <2>13, <2>14, <2>15, <2>16, <2>17, <2>18, <2>19, <2>20 DEF CallStep, Wakes
  <1>2. ASSUME NEW c \in Calls, NEW kind \in {"revive", "retry"}, NEW force \in BOOLEAN, Request(c, kind, force)
       PROVE SpawnedFrom
      BY <1>2 DEF Request, Event, Begin, Parts, CallsOK, CallType, SpawnedFrom, Begins, Idle
  <1>3. ASSUME NEW c \in Calls, NEW why \in {"limited", "broken", "error"}, SpawnFails(c, why) PROVE SpawnedFrom
      BY <1>3 DEF SpawnFails, Step, Parts, CallsOK, CallType, SpawnedFrom, Begins, Idle
  <1>4. ASSUME NEW s \in Run, NEW how \in Ends, FollowedEnds(s, how) PROVE SpawnedFrom
      BY <1>4 DEF FollowedEnds, Turned, Adopted, Parts, CallsOK, CallType, SpawnedFrom, Begins, Idle
  <1>5. ASSUME NEW s \in Run, NEW how \in Ends, UnfollowedEnds(s, how) PROVE SpawnedFrom
      BY <1>5 DEF UnfollowedEnds, Turned, Adopted, Parts, CallsOK, CallType, SpawnedFrom, Begins, Idle
  <1>6. CASE EndSaved
      BY <1>6, EndFields DEF EndSaved, Same, SpawnedFrom, Begins
  <1>7. CASE TimePasses
      BY <1>7 DEF TimePasses, Parts, CallsOK, CallType, SpawnedFrom, Begins, Idle
  <1>8. CASE MoveAway
      BY <1>8, MoveFields DEF MoveAway, Same, SpawnedFrom, Begins
  <1>9. CASE Restart
      BY <1>9 DEF Restart, Event, Parts, CallsOK, CallType, SpawnedFrom, Begins, Idle
  <1>10. CASE Sweep
      BY <1>10 DEF Sweep, Parts, CallsOK, CallType, SpawnedFrom, Begins, Idle
  <1>11. CASE UNCHANGED vars
      BY <1>11 DEF vars, Parts, CallsOK, CallType, SpawnedFrom, Begins, Idle
  <1> QED BY <1>1, <1>2, <1>3, <1>4, <1>5, <1>6, <1>7, <1>8, <1>9, <1>10, <1>11 DEF Next

\* Work begins with the start of a call.
LEMMA NewWork ==
  ASSUME Parts, [Next]_vars, NEW s \in Run, Working(s)'
  PROVE  Working(s) \/ \E c \in Calls : Begins(c, s)
  <1>1. Runs /\ SpawnedFrom
    BY StepRuns, StepSpawnedFrom
  <1>2. CASE card'.rec[s] = "running" /\ s \in up'
    <2>1. CASE \E c \in Calls : call[c].pc = "spawned" /\ call[c].sid = s
      BY <2>1 DEF Working
    <2>2. CASE card.rec[s] = "running"
      BY <1>1, <1>2, <2>2 DEF SpawnedFrom, Working
    <2> QED BY <1>1, <1>2, <2>1, <2>2 DEF Runs
  <1>3. CASE \E c \in Calls : call'[c].pc = "spawned" /\ call'[c].sid = s
    BY <1>1, <1>3 DEF SpawnedFrom, Working
  <1> QED BY <1>2, <1>3 DEF Working

\* Ended records of a saved card come from the card or from the copy.
LEMMA SavedEnded ==
  ASSUME Parts, NEW t \in Good, NEW s \in Run, ~ Ended(card.rec[s]), ~ Ended(t.rec[s])
  PROVE  ~ Ended(Saved(t).rec[s])
  BY SavedRecords DEF Parts, CardsOK

\* A session in its turn is a run.
LEMMA TurnRuns == ASSUME Parts PROVE turn \subseteq Run /\ turn \subseteq up
  BY DEF Parts, RestOK

\* Everything a copy does not know is not ended.
LEMMA UnknownUnended == Ended("none") = FALSE /\ Ended("running") = FALSE
  BY DEF Ended

\* revive replaces its copy by the sanitized one.
LEMMA ReviveCopies == ASSUME Parts, NEW c \in Calls, ClaimRevive(c)
  PROVE  \A d \in Calls :
              \/ call'[d].seen = call[d].seen
              \/ d = c /\ call'[c].seen = Sanitized(call[c].seen)
              \/ d = c /\ call'[c].seen = Idle.seen
  <1>1. \/ call' = [call EXCEPT ![c].pc = "recheck", ![c].seen = Sanitized(call[c].seen)]
        \/ call' = [call EXCEPT ![c] = Idle]
    BY DEF ClaimRevive, TakeClaim, Quit
  <1>2. call \in [Calls -> CallType] /\ call[c] \in CallType
    BY DEF Parts, CallsOK
  <1>3. CASE call' = [call EXCEPT ![c] = Idle]
    BY <1>3, <1>2
  <1>4. CASE call' = [call EXCEPT ![c].pc = "recheck", ![c].seen = Sanitized(call[c].seen)]
    <2>1. call'[c] = [call[c] EXCEPT !.pc = "recheck", !.seen = Sanitized(call[c].seen)]
      BY <1>4, <1>2
    <2>2. \A d \in Calls \ {c} : call'[d] = call[d]
      BY <1>4, <1>2
    <2>3. call'[c].seen = Sanitized(call[c].seen)
      BY <2>1, <1>2 DEF CallType
    <2> QED BY <2>2, <2>3
  <1> QED BY <1>1, <1>3, <1>4

\* No save marks a session at work as ended.
LEMMA StepSpared == ASSUME Parts, Quiet, Spared, [Next]_vars PROVE Spared'
  <1> USE DEF cardVars, procVars, memVars
  <1>1. ASSUME NEW c \in Calls, CallStep(c) \/ Wakes(c) PROVE Spared'
    <2>1. CASE StartupResume(c)
      <3>1. UNCHANGED <<card, turn, ender>>
        BY <2>1 DEF StartupResume
      <3>2. \A d \in Calls : call'[d].seen = call[d].seen \/ call'[d].seen = card
        BY <2>1, BeginFields DEF StartupResume, Same, AllKinds, Pcs
      <3> QED BY <3>1, <3>2 DEF Spared, Unended
    <2>2. CASE DelayedResume(c)
      <3>1. UNCHANGED <<card, turn, ender>>
        BY <2>2 DEF DelayedResume
      <3>2. \A d \in Calls : call'[d].seen = call[d].seen \/ call'[d].seen = card
        BY <2>2, BeginFields DEF DelayedResume, Same, AllKinds, Pcs
      <3> QED BY <3>1, <3>2 DEF Spared, Unended
    <2>3. CASE TimerFires(c)
      <3>1. UNCHANGED <<card, turn, ender>>
        BY <2>3 DEF TimerFires
      <3>2. CASE Begin(c, "timer", FALSE, "adopt")
        <4>1. \A d \in Calls : call'[d].seen = call[d].seen \/ call'[d].seen = card
          BY <3>2, BeginFields DEF Same, AllKinds, Pcs
        <4> QED BY <3>1, <4>1 DEF Spared, Unended
      <3>3. CASE UNCHANGED call
        BY <3>1, <3>3 DEF Spared, Unended
      <3> QED BY <2>3, <3>2, <3>3 DEF TimerFires
    <2>4. CASE ClaimResume(c)
      <3>1. UNCHANGED <<card, turn, ender>>
        BY <2>4 DEF ClaimResume
      <3>2. \A d \in Calls : call'[d].seen = call[d].seen \/ call'[d].seen = Idle.seen
        BY <2>4 DEF ClaimResume, TakeClaim, Quit, Parts, CallsOK, CallType
      <3> QED BY <3>1, <3>2, TurnRuns, IdleSeen, UnknownUnended DEF Spared, Unended
    <2>5. CASE ClaimRevive(c)
      <3>1. turn' = turn /\ ender' = ender
        BY <2>5 DEF ClaimRevive
      <3>2. call[c].seen \in Good /\ card \in Good
        BY DEF Parts, CallsOK, CallType, CardsOK
      <3>3. Sanitized(call[c].seen) \in Good
        BY <3>2, SanitizedGood DEF Parts, RestOK
      <3>4. \A s \in turn : ~ Ended(Sanitized(call[c].seen).rec[s])
        <4>1. \A s \in turn : s \in Run /\ s \in up /\ ~ Ended(call[c].seen.rec[s])
          BY TurnRuns DEF Spared, Unended
        <4> QED BY <3>2, <4>1 DEF Sanitized, Good, Card
      <3>5. card' = card \/ card' = Saved(Sanitized(call[c].seen))
        BY <2>5 DEF ClaimRevive
      <3>6. \A s \in turn : ~ Ended(card'.rec[s])
        BY <3>3, <3>4, <3>5, SavedEnded, TurnRuns DEF Spared, Unended
      <3>7. \A d \in Calls :
              \/ call'[d].seen = call[d].seen
              \/ d = c /\ call'[c].seen = Sanitized(call[c].seen)
              \/ d = c /\ call'[c].seen = Idle.seen
        BY <2>5, ReviveCopies
      <3> QED BY <3>1, <3>4, <3>6, <3>7, TurnRuns, IdleSeen, UnknownUnended DEF Spared, Unended
    <2>6. CASE ClaimRetry(c)
      <3>1. UNCHANGED <<card, turn, ender>>
        BY <2>6 DEF ClaimRetry
      <3>2. \A d \in Calls : call'[d].seen = call[d].seen \/ call'[d].seen = Idle.seen
        BY <2>6 DEF ClaimRetry, TakeClaim, Quit, Parts, CallsOK, CallType
      <3> QED BY <3>1, <3>2, TurnRuns, IdleSeen, UnknownUnended DEF Spared, Unended
    <2>7. CASE GiveUp(c)
      <3>1. UNCHANGED <<card, turn, ender>>
        BY <2>7 DEF GiveUp
      <3>2. \A d \in Calls : call'[d].seen = call[d].seen \/ call'[d].seen = Idle.seen
        BY <2>7 DEF GiveUp, Release, Quit, Parts, CallsOK, CallType
      <3> QED BY <3>1, <3>2, TurnRuns, IdleSeen, UnknownUnended DEF Spared, Unended
    <2>8. CASE RecheckStarts(c)
      <3>1. UNCHANGED <<card, turn, ender>>
        BY <2>8 DEF RecheckStarts
      <3>2. \A d \in Calls : call'[d].seen = call[d].seen
        BY <2>8 DEF RecheckStarts, Step, Parts, CallsOK, CallType
      <3> QED BY <3>1, <3>2 DEF Spared, Unended
    <2>9. CASE ReEnter(c)
      <3>1. UNCHANGED <<card, turn, ender>>
        BY <2>9 DEF ReEnter
      <3>2. \A d \in Calls : call'[d].seen = call[d].seen
        BY <2>9 DEF ReEnter, Parts, CallsOK, CallType
      <3> QED BY <3>1, <3>2 DEF Spared, Unended
    <2>10. CASE RecheckRetry(c)
      <3>1. turn' \subseteq turn /\ ender' = ender /\ card' = card
        BY <2>10, RetryFields
      <3>2. \A s \in turn' : ~ (Live(card) # {} /\ s = Max(Live(card)))
        BY <2>10, RetryFields
      <3>3. \A d \in Calls \ {c} : call'[d].seen = call[d].seen
        BY <2>10, RetryFields DEF Same
      <3>4. \A s \in turn' : call'[c].seen.rec[s] = call[c].seen.rec[s]
        BY <2>10, <3>1, <3>2, RetryFields, TurnRuns
      <3> QED BY <3>1, <3>3, <3>4 DEF Spared, Unended
    <2>11. CASE EditRetry(c)
      <3>1. turn' \subseteq turn /\ ender' = ender
        BY <2>11 DEF EditRetry
      <3>2. \A s \in turn : ~ Ended(card'.rec[s])
        <4> DEFINE t == [call[c].seen EXCEPT !.trigger = NoRun]
        <4>1. call[c].seen \in Good
          BY DEF Parts, CallsOK, CallType
        <4>2. card' = Saved(t) /\ t \in Good /\ t.rec = call[c].seen.rec
          BY <2>11, <4>1, ClearedGood DEF EditRetry
        <4> HIDE DEF t
        <4> QED BY <4>2, SavedEnded, TurnRuns DEF Spared, Unended
      <3>3. \A d \in Calls : call'[d].seen = call[d].seen
        BY <2>11 DEF EditRetry, Parts, CallsOK, CallType
      <3> QED BY <3>1, <3>2, <3>3, TurnRuns DEF Spared, Unended
    <2>12. CASE AdoptRetry(c)
      <3>1. turn' = turn /\ ender' = ender /\ card' = card
        BY <2>12 DEF AdoptRetry
      <3>2. \A d \in Calls : call'[d].seen = call[d].seen \/ call'[d].seen = Idle.seen
        BY <2>12, AdoptFields DEF Same
      <3> QED BY <3>1, <3>2, TurnRuns, IdleSeen, UnknownUnended DEF Spared, Unended
    <2>13. CASE ClearRetry(c)
      <3>1. turn' \subseteq turn /\ ender' = ender
        BY <2>13 DEF ClearRetry
      <3>2. \A s \in turn : ~ Ended(card'.rec[s])
        <4> DEFINE t == [call[c].seen EXCEPT !.trigger = NoRun]
        <4>1. call[c].seen \in Good
          BY DEF Parts, CallsOK, CallType
        <4>2. card' = Saved(t) /\ t \in Good /\ t.rec = call[c].seen.rec
          BY <2>13, <4>1, ClearedGood DEF ClearRetry
        <4> HIDE DEF t
        <4> QED BY <4>2, SavedEnded, TurnRuns DEF Spared, Unended
      <3>3. \A d \in Calls : call'[d].seen = call[d].seen
        BY <2>13 DEF ClearRetry, Step, Parts, CallsOK, CallType
      <3> QED BY <3>1, <3>2, <3>3, TurnRuns DEF Spared, Unended
    <2>14. CASE Enter(c)
      <3>1. UNCHANGED <<card, turn, ender>>
        BY <2>14 DEF Enter
      <3>2. \A d \in Calls : call'[d].seen = call[d].seen
        BY <2>14 DEF Enter, Parts, CallsOK, CallType
      <3> QED BY <3>1, <3>2 DEF Spared, Unended
    <2>15. CASE EnqueueAnswers(c)
      <3>1. UNCHANGED <<card, turn, ender>>
        BY <2>15 DEF EnqueueAnswers
      <3>2. \A d \in Calls : call'[d].seen = call[d].seen
        BY <2>15 DEF EnqueueAnswers, Parts, CallsOK, CallType
      <3> QED BY <3>1, <3>2 DEF Spared, Unended
    <2>16. CASE StartRefused(c)
      <3>1. UNCHANGED <<card, turn, ender>>
        BY <2>16 DEF StartRefused
      <3>2. \A d \in Calls : call'[d].seen = call[d].seen
        BY <2>16 DEF StartRefused, Step, Parts, CallsOK, CallType
      <3> QED BY <3>1, <3>2 DEF Spared, Unended
    <2>17. CASE StartReads(c)
      <3>1. UNCHANGED <<card, turn, ender>>
        BY <2>17 DEF StartReads
      <3>2. \A d \in Calls : call'[d].seen = call[d].seen \/ call'[d].seen = card
        BY <2>17 DEF StartReads, Parts, CallsOK, CallType
      <3> QED BY <3>1, <3>2 DEF Spared, Unended
    <2>18. CASE Spawn(c)
      <3>1. turn' = turn \cup {next} /\ UNCHANGED <<card, ender>> /\ next \in Run
        BY <2>18 DEF Spawn
      <3>2. \A d \in Calls : call'[d].seen = call[d].seen
        BY <2>18 DEF Spawn, Parts, CallsOK, CallType
      <3>3. card.rec[next] = "none"
        BY <3>1, GivenOut DEF Parts, Fresh
      <3>4. ender.copy.rec[next] = "none" /\ \A d \in Calls : call[d].seen.rec[next] = "none"
        BY <3>1, <3>3 DEF Parts, Known
      <3> QED BY <3>1, <3>2, <3>3, <3>4, UnknownUnended DEF Spared, Unended
    <2>19. CASE StoreRun(c)
      <3>1. turn' \subseteq turn /\ ender' = ender
        BY <2>19 DEF StoreRun
      <3>2. \A s \in turn : ~ Ended(card'.rec[s])
        <4> DEFINE t == WithRun(call[c].seen, call[c].sid)
        <4>1. call[c].sid \in Run /\ call[c].seen \in Good
          BY <2>19, StoreFields DEF Parts, CallsOK, CallType
        <4>2. /\ card' = Saved(t) /\ t \in Good
              /\ \A s \in Run : t.rec[s] = IF s = call[c].sid THEN "running" ELSE call[c].seen.rec[s]
          BY <2>19, <4>1, WithRunGood DEF StoreRun
        <4> HIDE DEF t
        <4>3. \A s \in turn : ~ Ended(t.rec[s])
          BY <4>2, TurnRuns, UnknownUnended DEF Spared, Unended
        <4> QED BY <4>2, <4>3, SavedEnded, TurnRuns DEF Spared, Unended
      <3>3. \A d \in Calls : call'[d].seen = call[d].seen
        BY <2>19 DEF StoreRun, Step, Parts, CallsOK, CallType
      <3> QED BY <3>1, <3>2, <3>3, TurnRuns DEF Spared, Unended
    <2>20. CASE Finish(c)
      <3>1. turn' = turn /\ ender' = ender /\ card'.rec = card.rec
        BY <2>20, FinishFields
      <3>2. \A d \in Calls : call'[d].seen = call[d].seen \/ call'[d].seen = Idle.seen
        BY <2>20, FinishFields DEF Same
      <3> QED BY <3>1, <3>2, TurnRuns, IdleSeen, UnknownUnended DEF Spared, Unended
    <2> QED BY <1>1, <2>1, <2>2, <2>3, <2>4, <2>5, <2>6, <2>7, <2>8, <2>9, <2>10, <2>11, <2>12, <2>13, <2>14, <2>15, <2>16, <2>17, <2>18, <2>19, <2>20 DEF CallStep, Wakes
  <1>2. ASSUME NEW c \in Calls, NEW kind \in {"revive", "retry"}, NEW force \in BOOLEAN, Request(c, kind, force)
       PROVE Spared'
    <2>1. UNCHANGED <<card, turn, ender>>
      BY <1>2 DEF Request
    <2>2. \A d \in Calls : call'[d].seen = call[d].seen \/ call'[d].seen = card
      BY <1>2, BeginFields DEF Request, Same, AllKinds, Pcs
    <2> QED BY <2>1, <2>2 DEF Spared, Unended
  <1>3. ASSUME NEW c \in Calls, NEW why \in {"limited", "broken", "error"}, SpawnFails(c, why) PROVE Spared'
    <2>1. turn' \subseteq turn /\ ender' = ender
      BY <1>3 DEF SpawnFails
    <2>2. \A s \in turn : ~ Ended(card'.rec[s])
      <3>1. PICK t \in Good : /\ card' = Saved(t)
                             /\ \A s \in Run : t.rec[s] = IF why # "error" /\ s = next THEN why ELSE call[c].seen.rec[s]
        BY <1>3, FailFields
      <3>2. \A s \in turn : s # next
        BY TurnRuns, GivenOut DEF Parts, Fresh
      <3>3. \A s \in turn : ~ Ended(t.rec[s])
        BY <3>1, <3>2, TurnRuns DEF Spared, Unended
      <3> QED BY <3>1, <3>3, SavedEnded, TurnRuns DEF Spared, Unended
    <2>3. \A d \in Calls : call'[d].seen = call[d].seen
      BY <1>3 DEF SpawnFails, Step, Parts, CallsOK, CallType
    <2> QED BY <2>1, <2>2, <2>3, TurnRuns DEF Spared, Unended
  <1>4. ASSUME NEW s \in Run, NEW how \in Ends, FollowedEnds(s, how) PROVE Spared'
    <2>1. turn' \subseteq turn /\ UNCHANGED <<call, card>> /\ ender'.copy = card
      BY <1>4 DEF FollowedEnds, Turned
    <2> QED BY <2>1, TurnRuns DEF Spared, Unended
  <1>5. ASSUME NEW s \in Run, NEW how \in Ends, UnfollowedEnds(s, how) PROVE Spared'
    <2>1. turn' = turn \ {s} /\ UNCHANGED <<call, ender>>
      BY <1>5 DEF UnfollowedEnds, Turned
    <2> QED BY <1>5, <2>1, UnfollowedFields, TurnRuns DEF Spared, Unended
  <1>6. CASE EndSaved
    <2>1. turn' = turn /\ ender' = NoEnder
      BY <1>6 DEF EndSaved
    <2>2. \A s \in turn : ~ Ended(card'.rec[s])
      <3>1. PICK t \in Good : /\ card' = Saved(t)
                             /\ \A s \in Run : t.rec[s] = IF s = ender.sid /\ ender.copy.rec[s] = "running"
                                                      THEN fate[s] ELSE ender.copy.rec[s]
        BY <1>6, EndFields
      <3>2. \A s \in turn : s # ender.sid
        BY <1>6 DEF EndSaved, Parts, Fated
      <3>3. \A s \in turn : ~ Ended(t.rec[s])
        BY <3>1, <3>2, TurnRuns DEF Spared, Unended
      <3> QED BY <3>1, <3>3, SavedEnded, TurnRuns DEF Spared, Unended
    <2>3. \A d \in Calls : call'[d].seen = call[d].seen
      BY <1>6, EndFields DEF Same
    <2>4. \A s \in Run : ~ Ended(NoEnder.copy.rec[s])
      BY DEF NoEnder, Idle, Ended
    <2> QED BY <2>1, <2>2, <2>3, <2>4, TurnRuns DEF Spared, Unended
  <1>7. CASE TimePasses
      BY <1>7 DEF TimePasses, Spared, Unended
  <1>8. CASE MoveAway
    <2>1. turn' = turn \ (RunningIn(card) \cup ({card.trigger} \ {NoRun})) /\ ender' = ender
      BY <1>8 DEF MoveAway
    <2>2. \A s \in turn' : s \in turn /\ card.rec[s] # "running"
      BY <2>1, TurnRuns DEF RunningIn
    <2> QED BY <1>8, <2>1, <2>2, MoveFields, TurnRuns DEF Same, Spared, Unended
  <1>9. CASE Restart
    BY <1>9 DEF Restart, Spared
  <1>10. CASE Sweep
    <2>1. turn' = {}
      BY <1>10, TurnRuns DEF Sweep, Quiet
    <2> QED BY <2>1 DEF Spared
  <1>11. CASE UNCHANGED vars
      BY <1>11 DEF vars, Spared, Unended
  <1> QED BY <1>1, <1>2, <1>3, <1>4, <1>5, <1>6, <1>7, <1>8, <1>9, <1>10, <1>11 DEF Next

\* A started session stays with its call until it is stored.
SpawnedStays ==
  /\ \A s \in turn' : s \in turn \/ \E c \in Calls : call'[c].pc = "spawned" /\ call'[c].sid = s
  /\ \A c \in Calls : call[c].pc = "spawned"
       => \/ call'[c].pc = "spawned" /\ call'[c].sid = call[c].sid
          \/ card'.rec[call[c].sid] # "none"
          \/ turn' = {}

\* Where a revive under its claim has its copy from.
RecheckFrom ==
  \A c \in Calls : call'[c].pc = "recheck" /\ call'[c].kind = "revive"
    => \/ call[c].pc = "recheck" /\ call[c].kind = "revive" /\ call'[c].seen = call[c].seen
       \/ Live(call'[c].seen) = {}

\* What becomes of a session in its turn.
LEMMA StepSpawnedStays == ASSUME Parts, [Next]_vars PROVE SpawnedStays
  <1> USE DEF cardVars, procVars, memVars
  <1>1. ASSUME NEW c \in Calls, CallStep(c) \/ Wakes(c) PROVE SpawnedStays
    <2>1. CASE StartupResume(c)
      BY <2>1 DEF StartupResume, Begin, Parts, CallsOK, CallType, SpawnedStays, Idle
    <2>2. CASE DelayedResume(c)
      BY <2>2 DEF DelayedResume, Begin, Parts, CallsOK, CallType, SpawnedStays, Idle
    <2>3. CASE TimerFires(c)
      <3>1. turn' = turn
        BY <2>3 DEF TimerFires
      <3>2. CASE Begin(c, "timer", FALSE, "adopt")
        <4>1. (\A d \in Calls \ {c} : Same(d)) /\ call[c].pc = "idle"
          BY <3>2, BeginFields DEF AllKinds, Pcs
        <4> QED BY <3>1, <4>1 DEF Same, SpawnedStays
      <3>3. CASE UNCHANGED call
        BY <3>1, <3>3 DEF SpawnedStays
      <3> QED BY <2>3, <3>2, <3>3 DEF TimerFires
    <2>4. CASE ClaimResume(c)
      BY <2>4 DEF ClaimResume, TakeClaim, Quit, Parts, CallsOK, CallType, SpawnedStays, Idle
    <2>5. CASE ClaimRevive(c)
      BY <2>5 DEF ClaimRevive, TakeClaim, Quit, Parts, CallsOK, CallType, SpawnedStays, Idle
    <2>6. CASE ClaimRetry(c)
      BY <2>6 DEF ClaimRetry, TakeClaim, Quit, Parts, CallsOK, CallType, SpawnedStays, Idle
    <2>7. CASE GiveUp(c)
      BY <2>7 DEF GiveUp, Release, Quit, Parts, CallsOK, CallType, SpawnedStays, Idle
    <2>8. CASE RecheckStarts(c)
      BY <2>8 DEF RecheckStarts, Step, Parts, CallsOK, CallType, SpawnedStays, Idle
    <2>9. CASE ReEnter(c)
      BY <2>9 DEF ReEnter, Parts, CallsOK, CallType, SpawnedStays, Idle
    <2>10. CASE RecheckRetry(c)
      BY <2>10, RetryFields DEF Same, SpawnedStays, NoRun
    <2>11. CASE EditRetry(c)
      BY <2>11 DEF EditRetry, Parts, CallsOK, CallType, SpawnedStays, Idle
    <2>12. CASE AdoptRetry(c)
      BY <2>12, AdoptFields DEF AdoptRetry, Same, SpawnedStays
    <2>13. CASE ClearRetry(c)
      BY <2>13 DEF ClearRetry, Step, Parts, CallsOK, CallType, SpawnedStays, Idle
    <2>14. CASE Enter(c)
      BY <2>14 DEF Enter, Parts, CallsOK, CallType, SpawnedStays, Idle
    <2>15. CASE EnqueueAnswers(c)
      BY <2>15 DEF EnqueueAnswers, Parts, CallsOK, CallType, SpawnedStays, Idle
    <2>16. CASE StartRefused(c)
      BY <2>16 DEF StartRefused, Step, Parts, CallsOK, CallType, SpawnedStays, Idle
    <2>17. CASE StartReads(c)
      BY <2>17 DEF StartReads, Parts, CallsOK, CallType, SpawnedStays, Idle
    <2>18. CASE Spawn(c)
      BY <2>18 DEF Spawn, Parts, CallsOK, CallType, SpawnedStays, Idle
    <2>19. CASE StoreRun(c)
      <3>1. turn' = turn /\ card'.rec[call[c].sid] # "none"
        BY <2>19, StoreFields DEF StoreRun
      <3>2. \A d \in Calls \ {c} : call'[d] = call[d]
        BY <2>19 DEF StoreRun, Step, Parts, CallsOK
      <3> QED BY <3>1, <3>2 DEF SpawnedStays
    <2>20. CASE Finish(c)
      BY <2>20, FinishFields DEF Same, SpawnedStays, NoRun
    <2> QED BY <1>1, <2>1, <2>2, <2>3, <2>4, <2>5, <2>6, <2>7, <2>8, <2>9, <2>10, <2>11, <2>12, <2>13, <2>14, <2>15, <2>16, <2>17, <2>18, <2>19, <2>20 DEF CallStep, Wakes
  <1>2. ASSUME NEW c \in Calls, NEW kind \in {"revive", "retry"}, NEW force \in BOOLEAN, Request(c, kind, force)
       PROVE SpawnedStays
      BY <1>2 DEF Request, Event, Begin, Parts, CallsOK, CallType, SpawnedStays, Idle
  <1>3. ASSUME NEW c \in Calls, NEW why \in {"limited", "broken", "error"}, SpawnFails(c, why) PROVE SpawnedStays
      BY <1>3 DEF SpawnFails, Step, Parts, CallsOK, CallType, SpawnedStays, Idle
  <1>4. ASSUME NEW s \in Run, NEW how \in Ends, FollowedEnds(s, how) PROVE SpawnedStays
      BY <1>4 DEF FollowedEnds, Turned, Adopted, Parts, CallsOK, CallType, SpawnedStays, Idle
  <1>5. ASSUME NEW s \in Run, NEW how \in Ends, UnfollowedEnds(s, how) PROVE SpawnedStays
      BY <1>5 DEF UnfollowedEnds, Turned, Adopted, Parts, CallsOK, CallType, SpawnedStays, Idle
  <1>6. CASE EndSaved
      BY <1>6, EndFields DEF EndSaved, Same, SpawnedStays, NoRun
  <1>7. CASE TimePasses
      BY <1>7 DEF TimePasses, Parts, CallsOK, CallType, SpawnedStays, Idle
  <1>8. CASE MoveAway
      BY <1>8, MoveFields DEF MoveAway, Same, SpawnedStays
  <1>9. CASE Restart
      BY <1>9 DEF Restart, Event, Parts, CallsOK, CallType, SpawnedStays, Idle
  <1>10. CASE Sweep
      BY <1>10 DEF Sweep, Parts, CallsOK, CallType, SpawnedStays, Idle
  <1>11. CASE UNCHANGED vars
      BY <1>11 DEF vars, Parts, CallsOK, CallType, SpawnedStays, Idle
  <1> QED BY <1>1, <1>2, <1>3, <1>4, <1>5, <1>6, <1>7, <1>8, <1>9, <1>10, <1>11 DEF Next

\* A revive claims with nothing alive on its copy.
LEMMA StepRecheckFrom == ASSUME Parts, [Next]_vars PROVE RecheckFrom
  <1> USE DEF cardVars, procVars, memVars
  <1>1. ASSUME NEW c \in Calls, CallStep(c) \/ Wakes(c) PROVE RecheckFrom
    <2>1. CASE StartupResume(c)
      BY <2>1 DEF StartupResume, Begin, Parts, CallsOK, CallType, RecheckFrom, Idle
    <2>2. CASE DelayedResume(c)
      BY <2>2 DEF DelayedResume, Begin, Parts, CallsOK, CallType, RecheckFrom, Idle
    <2>3. CASE TimerFires(c)
      <3>1. CASE Begin(c, "timer", FALSE, "adopt")
        <4>1. /\ \A d \in Calls \ {c} : Same(d)
              /\ call'[c].kind = "timer" /\ call'[c].pc = "adopt" /\ call[c].pc = "idle" /\ InTurn("timer")
          BY <3>1, BeginFields DEF AllKinds, Pcs
        <4> QED BY <2>3, <4>1 DEF TimerFires, Same, RecheckFrom, NoRun
      <3>2. CASE UNCHANGED call
        BY <2>3, <3>2 DEF TimerFires, RecheckFrom, NoRun
      <3> QED BY <2>3, <3>1, <3>2 DEF TimerFires
    <2>4. CASE ClaimResume(c)
      <3>1. call[c].kind = "resume"
        BY <2>4 DEF ClaimResume
      <3>2. \/ call' = [call EXCEPT ![c].pc = "recheck", ![c].seen = call[c].seen]
            \/ call' = [call EXCEPT ![c] = Idle]
        BY <2>4 DEF ClaimResume, TakeClaim, Quit
      <3>3. \A d \in Calls \ {c} : call'[d] = call[d]
        BY <3>2 DEF Parts, CallsOK
      <3>4. call'[c].kind # "revive"
        BY <3>1, <3>2 DEF Parts, CallsOK, CallType, Idle
      <3> QED BY <3>3, <3>4 DEF RecheckFrom
    <2>5. CASE ClaimRevive(c)
      <3>1. CASE Quit(c)
        <4>1. call' = [call EXCEPT ![c] = Idle]
          BY <3>1 DEF Quit
        <4>2. Idle.pc = "idle"
          BY DEF Idle
        <4> QED BY <4>1, <4>2 DEF Parts, CallsOK, RecheckFrom
      <3>2. CASE Revivable(Sanitized(call[c].seen)) /\ TakeClaim(c, Sanitized(call[c].seen))
        <4>1. call' = [call EXCEPT ![c].pc = "recheck", ![c].seen = Sanitized(call[c].seen)]
          BY <3>2 DEF TakeClaim
        <4>2. \A d \in Calls \ {c} : call'[d] = call[d]
          BY <4>1 DEF Parts, CallsOK
        <4>3. call'[c].seen = Sanitized(call[c].seen)
          BY <4>1 DEF Parts, CallsOK, CallType
        <4>4. Live(Sanitized(call[c].seen)) = {}
          BY <3>2 DEF Revivable
        <4> QED BY <4>2, <4>3, <4>4 DEF RecheckFrom
      <3> QED BY <2>5, <3>1, <3>2 DEF ClaimRevive
    <2>6. CASE ClaimRetry(c)
      <3>1. call[c].kind = "retry"
        BY <2>6 DEF ClaimRetry
      <3>2. \/ call' = [call EXCEPT ![c].pc = "recheck", ![c].seen = call[c].seen]
            \/ call' = [call EXCEPT ![c] = Idle]
        BY <2>6 DEF ClaimRetry, TakeClaim, Quit
      <3>3. \A d \in Calls \ {c} : call'[d] = call[d]
        BY <3>2 DEF Parts, CallsOK
      <3>4. call'[c].kind # "revive"
        BY <3>1, <3>2 DEF Parts, CallsOK, CallType, Idle
      <3> QED BY <3>3, <3>4 DEF RecheckFrom
    <2>7. CASE GiveUp(c)
      BY <2>7 DEF GiveUp, Release, Quit, Parts, CallsOK, CallType, RecheckFrom, Idle
    <2>8. CASE RecheckStarts(c)
      BY <2>8 DEF RecheckStarts, Step, Parts, CallsOK, CallType, RecheckFrom, Idle
    <2>9. CASE ReEnter(c)
      BY <2>9 DEF ReEnter, Parts, CallsOK, CallType, RecheckFrom, Idle
    <2>10. CASE RecheckRetry(c)
      BY <2>10, RetryFields DEF Same, RecheckFrom, NoRun
    <2>11. CASE EditRetry(c)
      BY <2>11 DEF EditRetry, Parts, CallsOK, CallType, RecheckFrom, Idle
    <2>12. CASE AdoptRetry(c)
      <3>1. CASE call'[c] = Idle
        BY <2>12, <3>1, AdoptFields DEF Same, RecheckFrom, NoRun, Idle
      <3> QED BY <2>12, <3>1, AdoptFields DEF Same, RecheckFrom, NoRun, AdoptRetry
    <2>13. CASE ClearRetry(c)
      BY <2>13 DEF ClearRetry, Step, Parts, CallsOK, CallType, RecheckFrom, Idle
    <2>14. CASE Enter(c)
      BY <2>14 DEF Enter, Parts, CallsOK, CallType, RecheckFrom, Idle
    <2>15. CASE EnqueueAnswers(c)
      BY <2>15 DEF EnqueueAnswers, Parts, CallsOK, CallType, RecheckFrom, Idle
    <2>16. CASE StartRefused(c)
      BY <2>16 DEF StartRefused, Step, Parts, CallsOK, CallType, RecheckFrom, Idle
    <2>17. CASE StartReads(c)
      BY <2>17 DEF StartReads, Parts, CallsOK, CallType, RecheckFrom, Idle
    <2>18. CASE Spawn(c)
      BY <2>18 DEF Spawn, Parts, CallsOK, CallType, RecheckFrom, Idle
    <2>19. CASE StoreRun(c)
      BY <2>19 DEF StoreRun, Step, Parts, CallsOK, CallType, RecheckFrom, Idle
    <2>20. CASE Finish(c)
      BY <2>20, FinishFields DEF Same, RecheckFrom
    <2> QED BY <1>1, <2>1, <2>2, <2>3, <2>4, <2>5, <2>6, <2>7, <2>8, <2>9, <2>10, <2>11, <2>12, <2>13, <2>14, <2>15, <2>16, <2>17, <2>18, <2>19, <2>20 DEF CallStep, Wakes
  <1>2. ASSUME NEW c \in Calls, NEW kind \in {"revive", "retry"}, NEW force \in BOOLEAN, Request(c, kind, force)
       PROVE RecheckFrom
      BY <1>2 DEF Request, Event, Begin, Parts, CallsOK, CallType, RecheckFrom, Idle
  <1>3. ASSUME NEW c \in Calls, NEW why \in {"limited", "broken", "error"}, SpawnFails(c, why) PROVE RecheckFrom
      BY <1>3 DEF SpawnFails, Step, Parts, CallsOK, CallType, RecheckFrom, Idle
  <1>4. ASSUME NEW s \in Run, NEW how \in Ends, FollowedEnds(s, how) PROVE RecheckFrom
      BY <1>4 DEF FollowedEnds, Turned, Adopted, Parts, CallsOK, CallType, RecheckFrom, Idle
  <1>5. ASSUME NEW s \in Run, NEW how \in Ends, UnfollowedEnds(s, how) PROVE RecheckFrom
      BY <1>5 DEF UnfollowedEnds, Turned, Adopted, Parts, CallsOK, CallType, RecheckFrom, Idle
  <1>6. CASE EndSaved
      BY <1>6, EndFields DEF EndSaved, Same, RecheckFrom, NoRun
  <1>7. CASE TimePasses
      BY <1>7 DEF TimePasses, Parts, CallsOK, CallType, RecheckFrom, Idle
  <1>8. CASE MoveAway
      BY <1>8, MoveFields DEF MoveAway, Same, RecheckFrom, NoRun
  <1>9. CASE Restart
      BY <1>9 DEF Restart, Event, Parts, CallsOK, CallType, RecheckFrom, Idle
  <1>10. CASE Sweep
      BY <1>10 DEF Sweep, Parts, CallsOK, CallType, RecheckFrom, Idle
  <1>11. CASE UNCHANGED vars
      BY <1>11 DEF vars, Parts, CallsOK, CallType, RecheckFrom, Idle
  <1> QED BY <1>1, <1>2, <1>3, <1>4, <1>5, <1>6, <1>7, <1>8, <1>9, <1>10, <1>11 DEF Next

\* A revive under its claim keeps a copy with nothing alive on it.
LEMMA StepNoneSeen == ASSUME Parts, NoneSeen, [Next]_vars PROVE NoneSeen'
  <1> SUFFICES ASSUME NEW c \in Calls, call'[c].pc = "recheck", call'[c].kind = "revive",
                      NEW s \in Run, call'[c].seen.rec[s] = "running", s \in up'
               PROVE  FALSE
    BY DEF NoneSeen, Live, RunningIn
  <1>1. RecheckFrom /\ SpawnedFrom /\ Copied
    BY StepRecheckFrom, StepSpawnedFrom, StepCopied
  <1>2. s \in up
    <2>1. call[c].seen.rec[s] # "none" \/ card.rec[s] # "none"
      BY <1>1 DEF Copied
    <2>2. s # next
      BY <2>1, GivenOut DEF Parts, Known, Fresh
    <2> QED BY <1>1, <2>2 DEF SpawnedFrom, Begins
  <1>3. Live(call'[c].seen) # {}
    BY <1>2 DEF Live, RunningIn
  <1> QED BY <1>1, <1>3 DEF RecheckFrom, NoneSeen

\* A session in its turn stays accounted for.
LEMMA StepInWork == ASSUME Parts, Quiet, Spared, InWork, [Next]_vars PROVE InWork'
  <1> SUFFICES ASSUME NEW s \in turn' PROVE Working(s)'
    BY DEF InWork
  <1>1. Parts' /\ Spared' /\ Grows /\ SpawnedStays
    BY StepParts, StepSpared, StepGrows, StepSpawnedStays
  <1>2. s \in Run /\ s \in up'
    BY <1>1 DEF Parts, RestOK
  <1>3. card'.rec[s] # "none" => card'.rec[s] = "running"
    BY <1>1 DEF Spared, Unended, Ended
  <1>4. CASE \E c \in Calls : call'[c].pc = "spawned" /\ call'[c].sid = s
    BY <1>4 DEF Working
  <1>5. CASE s \in turn
    <2>1. CASE card.rec[s] = "running"
      BY <1>1, <1>2, <1>3, <2>1 DEF Grows, Working
    <2>2. CASE \E c \in Calls : call[c].pc = "spawned" /\ call[c].sid = s
      BY <1>1, <1>2, <1>3, <2>2 DEF SpawnedStays, Working
    <2> QED BY <1>5, <2>1, <2>2 DEF InWork, Working
  <1> QED BY <1>1, <1>4, <1>5 DEF SpawnedStays

\* At most one session is at work.
LEMMA StepOneWorking == ASSUME Parts, Clear, OneWorking, [Next]_vars PROVE OneWorking'
  <1> SUFFICES ASSUME NEW s \in Run, NEW t \in Run, Working(s)', Working(t)' PROVE s = t
    BY DEF OneWorking
  <1>1. Working(s) \/ \E c \in Calls : Begins(c, s)
    BY NewWork
  <1>2. Working(t) \/ \E c \in Calls : Begins(c, t)
    BY NewWork
  <1>3. CASE Working(s) /\ Working(t)
    BY <1>3 DEF OneWorking
  <1>4. CASE \E c \in Calls : Begins(c, s)
    <2>1. ~ Working(t)
      BY <1>4 DEF Begins, Clear, Starting
    <2> QED BY <1>2, <1>4, <2>1 DEF Begins
  <1>5. CASE \E c \in Calls : Begins(c, t)
    <2>1. ~ Working(s)
      BY <1>5 DEF Begins, Clear, Starting
    <2> QED BY <1>1, <1>5, <2>1 DEF Begins
  <1> QED BY <1>1, <1>2, <1>3, <1>4, <1>5

\* The places of a call that keep every other call from starting a session.
Busy(c) == call[c].pc \in Holding \cup {"adopt", "clear"}

\* Only one call at a time is on its way to a session.
LEMMA OneBusy ==
  ASSUME Paths, OneHolder, TimerAlone, NEW c \in Calls, NEW d \in Calls, Busy(c), Busy(d)
  PROVE  c = d
  BY DEF Paths, OneHolder, TimerAlone, Holder, Holding, Busy

\* A call gets to where it starts a session only when nothing is at work.
Enters == \A c \in Calls : call'[c].pc \in Starting
            => call[c].pc \in Starting \/ \A s \in Run : ~ Working(s)'

\* A call finds the lane free before it starts a session.
LEMMA StepEnters == ASSUME Parts, Paths, OneHolder, TimerAlone, OneWorking, NoneSeen, ~ TimerOverlaps, [Next]_vars PROVE Enters
  <1> USE DEF cardVars, procVars, memVars
  <1>1. ASSUME NEW c \in Calls, CallStep(c) \/ Wakes(c) PROVE Enters
    <2>1. CASE StartupResume(c)
      BY <2>1 DEF StartupResume, Begin, Parts, CallsOK, CallType, Enters, Starting, Idle
    <2>2. CASE DelayedResume(c)
      BY <2>2 DEF DelayedResume, Begin, Parts, CallsOK, CallType, Enters, Starting, Idle
    <2>3. CASE TimerFires(c)
      <3>1. CASE Begin(c, "timer", FALSE, "adopt") /\ CanRunRetry(card, timer)
        <4>1. /\ \A d \in Calls \ {c} : Same(d)
              /\ call'[c].pc = "adopt" /\ call[c].pc = "idle" /\ InTurn("timer")
          BY <3>1, BeginFields DEF AllKinds, Pcs
        <4>2. \A d \in Calls : call[d].pc = "idle"
          BY <4>1 DEF InTurn
        <4>3. card' = card /\ \A s \in Run : card.rec[s] # "running"
          BY <2>3, <3>1 DEF TimerFires, CanRunRetry, RunningIn
        <4>4. \A s \in Run : ~ Working(s)'
          BY <4>1, <4>2, <4>3 DEF Working, Same
        <4> QED BY <4>1, <4>4 DEF Enters, Same
      <3>2. CASE UNCHANGED call
        BY <3>2 DEF Enters
      <3> QED BY <2>3, <3>1, <3>2 DEF TimerFires
    <2>4. CASE ClaimResume(c)
      BY <2>4 DEF ClaimResume, TakeClaim, Quit, Parts, CallsOK, CallType, Enters, Starting, Idle
    <2>5. CASE ClaimRevive(c)
      BY <2>5 DEF ClaimRevive, TakeClaim, Quit, Parts, CallsOK, CallType, Enters, Starting, Idle
    <2>6. CASE ClaimRetry(c)
      BY <2>6 DEF ClaimRetry, TakeClaim, Quit, Parts, CallsOK, CallType, Enters, Starting, Idle
    <2>7. CASE GiveUp(c)
      BY <2>7 DEF GiveUp, Release, Quit, Parts, CallsOK, CallType, Enters, Starting, Idle
    <2>8. CASE RecheckStarts(c)
      <3>1. call[c].pc = "recheck" /\ UNCHANGED <<card, up>>
        BY <2>8 DEF RecheckStarts
      <3>2. \A d \in Calls \ {c} : call'[d] = call[d] /\ call[d].pc # "spawned"
        <4>1. \A d \in Calls \ {c} : ~ Busy(d)
          BY <3>1, OneBusy DEF Busy, Holding
        <4>2. \A d \in Calls \ {c} : call'[d] = call[d]
          BY <2>8 DEF RecheckStarts, Step, Parts, CallsOK
        <4> QED BY <4>1, <4>2 DEF Busy, Holding
      <3>3. call'[c].pc # "spawned"
        BY <2>8 DEF RecheckStarts, Step, Parts, CallsOK, CallType
      <3>4. \A s \in Run : ~ (card.rec[s] = "running" /\ s \in up)
        BY <2>8 DEF RecheckStarts, MayStart, Live, RunningIn
      <3>5. \A s \in Run : ~ Working(s)'
        BY <3>1, <3>2, <3>3, <3>4 DEF Working
      <3> QED BY <3>2, <3>5 DEF Enters
    <2>9. CASE ReEnter(c)
      <3>1. call[c].pc = "recheck" /\ UNCHANGED <<card, up>>
        BY <2>9 DEF ReEnter
      <3>2. \A d \in Calls \ {c} : call'[d] = call[d] /\ call[d].pc # "spawned"
        <4>1. \A d \in Calls \ {c} : ~ Busy(d)
          BY <3>1, OneBusy DEF Busy, Holding
        <4>2. \A d \in Calls \ {c} : call'[d] = call[d]
          BY <2>9 DEF ReEnter, Parts, CallsOK
        <4> QED BY <4>1, <4>2 DEF Busy, Holding
      <3>3. call'[c].pc # "spawned"
        BY <2>9 DEF ReEnter, Parts, CallsOK, CallType
      <3>4. \A s \in Run : ~ (card.rec[s] = "running" /\ s \in up)
        <4>1. call[c].kind = "revive" /\ RunningIn(card) \subseteq RunningIn(call[c].seen)
          BY <2>9 DEF ReEnter, ReEnters, Overtaken, StartedSince
        <4>2. Live(call[c].seen) = {}
          BY <3>1, <4>1 DEF NoneSeen
        <4> QED BY <4>1, <4>2 DEF Live, RunningIn
      <3>5. \A s \in Run : ~ Working(s)'
        BY <3>1, <3>2, <3>3, <3>4 DEF Working
      <3> QED BY <3>2, <3>5 DEF Enters
    <2>10. CASE RecheckRetry(c)
      <3>1. call[c].pc = "recheck" /\ card' = card
        BY <2>10, RetryFields
      <3>2. \A d \in Calls \ {c} : Same(d) /\ call[d].pc # "spawned"
        <4>1. \A d \in Calls \ {c} : ~ Busy(d)
          BY <3>1, OneBusy DEF Busy, Holding
        <4> QED BY <2>10, <4>1, RetryFields DEF Busy, Holding
      <3>3. call'[c].pc = "edit"
        BY <2>10, RetryFields
      <3>4. \A s \in Run : ~ (card.rec[s] = "running" /\ s \in up')
        <4> SUFFICES ASSUME NEW s \in Run, card.rec[s] = "running", s \in up' PROVE FALSE
          OBVIOUS
        <4>1. s \in up /\ ~ (Live(card) # {} /\ s = Max(Live(card)))
          BY <2>10, RetryFields
        <4>2. s \in Live(card)
          BY <4>1 DEF Live, RunningIn
        <4>3. Max(Live(card)) \in Live(card) /\ Max(Live(card)) \in Run
          BY <4>2, MaxIn DEF Live, RunningIn
        <4>4. Working(s) /\ Working(Max(Live(card)))
          BY <4>2, <4>3 DEF Live, RunningIn, Working
        <4> QED BY <4>1, <4>2, <4>3, <4>4 DEF OneWorking
      <3>5. \A s \in Run : ~ Working(s)'
        BY <3>1, <3>2, <3>3, <3>4 DEF Working, Same
      <3> QED BY <3>2, <3>5 DEF Enters, Same
    <2>11. CASE EditRetry(c)
      BY <2>11 DEF EditRetry, Parts, CallsOK, CallType, Enters, Starting, Idle
    <2>12. CASE AdoptRetry(c)
      <3>1. call[c].pc = "adopt"
        BY <2>12 DEF AdoptRetry
      <3> QED BY <2>12, <3>1, AdoptFields DEF Same, Enters, Starting
    <2>13. CASE ClearRetry(c)
      BY <2>13 DEF ClearRetry, Step, Parts, CallsOK, CallType, Enters, Starting, Idle
    <2>14. CASE Enter(c)
      BY <2>14 DEF Enter, Parts, CallsOK, CallType, Enters, Starting, Idle
    <2>15. CASE EnqueueAnswers(c)
      BY <2>15 DEF EnqueueAnswers, Parts, CallsOK, CallType, Enters, Starting, Idle
    <2>16. CASE StartRefused(c)
      BY <2>16 DEF StartRefused, Step, Parts, CallsOK, CallType, Enters, Starting, Idle
    <2>17. CASE StartReads(c)
      BY <2>17 DEF StartReads, Parts, CallsOK, CallType, Enters, Starting, Idle
    <2>18. CASE Spawn(c)
      BY <2>18 DEF Spawn, Parts, CallsOK, CallType, Enters, Starting, Idle
    <2>19. CASE StoreRun(c)
      BY <2>19 DEF StoreRun, Step, Parts, CallsOK, CallType, Enters, Starting, Idle
    <2>20. CASE Finish(c)
      BY <2>20, FinishFields DEF Same, Enters, Starting
    <2> QED BY <1>1, <2>1, <2>2, <2>3, <2>4, <2>5, <2>6, <2>7, <2>8, <2>9, <2>10, <2>11, <2>12, <2>13, <2>14, <2>15, <2>16, <2>17, <2>18, <2>19, <2>20 DEF CallStep, Wakes
  <1>2. ASSUME NEW c \in Calls, NEW kind \in {"revive", "retry"}, NEW force \in BOOLEAN, Request(c, kind, force)
       PROVE Enters
      BY <1>2 DEF Request, Event, Begin, Parts, CallsOK, CallType, Enters, Starting, Idle
  <1>3. ASSUME NEW c \in Calls, NEW why \in {"limited", "broken", "error"}, SpawnFails(c, why) PROVE Enters
      BY <1>3 DEF SpawnFails, Step, Parts, CallsOK, CallType, Enters, Starting, Idle
  <1>4. ASSUME NEW s \in Run, NEW how \in Ends, FollowedEnds(s, how) PROVE Enters
      BY <1>4 DEF FollowedEnds, Turned, Adopted, Parts, CallsOK, CallType, Enters, Starting, Idle
  <1>5. ASSUME NEW s \in Run, NEW how \in Ends, UnfollowedEnds(s, how) PROVE Enters
      BY <1>5 DEF UnfollowedEnds, Turned, Adopted, Parts, CallsOK, CallType, Enters, Starting, Idle
  <1>6. CASE EndSaved
      BY <1>6, EndFields DEF Same, Enters
  <1>7. CASE TimePasses
      BY <1>7 DEF TimePasses, Parts, CallsOK, CallType, Enters, Starting, Idle
  <1>8. CASE MoveAway
      BY <1>8, MoveFields DEF Same, Enters
  <1>9. CASE Restart
      BY <1>9 DEF Restart, Event, Parts, CallsOK, CallType, Enters, Starting, Idle
  <1>10. CASE Sweep
      BY <1>10 DEF Sweep, Parts, CallsOK, CallType, Enters, Starting, Idle
  <1>11. CASE UNCHANGED vars
      BY <1>11 DEF vars, Parts, CallsOK, CallType, Enters, Starting, Idle
  <1> QED BY <1>1, <1>2, <1>3, <1>4, <1>5, <1>6, <1>7, <1>8, <1>9, <1>10, <1>11 DEF Next

\* The lane stays free while a call is on its way to a session.
LEMMA StepClear ==
  ASSUME Parts, Paths, OneHolder, TimerAlone, OneWorking, NoneSeen, Clear, ~ TimerOverlaps, [Next]_vars
  PROVE  Clear'
  <1> SUFFICES ASSUME NEW c \in Calls, call'[c].pc \in Starting, NEW s \in Run, Working(s)' PROVE FALSE
    BY DEF Clear
  <1>1. call[c].pc \in Starting
    BY StepEnters DEF Enters
  <1>2. ~ Working(s)
    BY <1>1 DEF Clear
  <1>3. PICK d \in Calls : Begins(d, s)
    BY <1>2, NewWork
  <1>4. c = d
    BY <1>1, <1>3, OneBusy DEF Begins, Starting, Busy, Holding
  <1> QED BY <1>3, <1>4 DEF Begins, Starting

\* The inductive invariant of OneAgentAtWork.
AgentInv ==
  /\ ClaimInv
  /\ TimerAlone /\ Quiet /\ Spared /\ InWork /\ OneWorking /\ Clear /\ NoneSeen

\* AgentInv holds initially.
LEMMA InitAgent == ASSUME Init PROVE AgentInv
  <1>1. \A c \in Calls : call[c].pc = "idle" /\ call[c].kind = "none" /\ call[c].seen = Idle.seen
    BY DEF Init, Idle
  <1>2. ~ claim /\ up = {1} /\ turn = {1} /\ boot = "done" /\ ender = NoEnder
    BY DEF Init
  <1>3. 1 \in Run /\ card.rec[1] = "running" /\ \A s \in Run : s # 1 => card.rec[s] = "none"
    BY RunsAssumption DEF Init, Run
  <1>4. ClaimInv
    BY <1>1, <1>2, InitParts DEF ClaimInv, Paths, OneHolder, ClaimHeld, Holder, Holding
  <1>5. TimerAlone /\ Quiet /\ NoneSeen /\ Clear
    BY <1>1, <1>2 DEF TimerAlone, Quiet, NoneSeen, Clear, Starting
  <1>6. InWork /\ OneWorking
    BY <1>1, <1>2, <1>3 DEF InWork, OneWorking, Working
  <1>7. Spared
    BY <1>1, <1>2, <1>3, IdleSeen, UnknownUnended DEF Spared, Unended, NoEnder
  <1> QED BY <1>4, <1>5, <1>6, <1>7 DEF AgentInv

\* Every step keeps AgentInv.
LEMMA StepAgent == ASSUME ~ TimerOverlaps, AgentInv, [Next]_vars PROVE AgentInv'
  <1>1. Parts' /\ Paths' /\ OneHolder' /\ ClaimHeld'
    BY StepParts, StepPaths, StepOneHolder, StepClaimHeld DEF AgentInv, ClaimInv
  <1>2. TimerAlone' /\ Quiet' /\ Spared' /\ InWork'
    BY StepTimerAlone, StepQuiet, StepSpared, StepInWork DEF AgentInv, ClaimInv
  <1>3. OneWorking' /\ Clear' /\ NoneSeen'
    BY StepOneWorking, StepClear, StepNoneSeen DEF AgentInv, ClaimInv
  <1> QED BY <1>1, <1>2, <1>3 DEF AgentInv, ClaimInv

\* One agent per step: with the rate-limit timer kept from overlapping other calls,
\* no interleaving of resumes, revives, retries, ends, moves and restarts puts two
\* agents to work on the step (lane-rerun-claim.ts and the checks under the claim).
THEOREM OneAgentAtWork == ~ TimerOverlaps /\ Spec => []OneAgent
  <1> SUFFICES ASSUME ~ TimerOverlaps PROVE Spec => []OneAgent
    OBVIOUS
  <1>1. Init => AgentInv
    BY InitAgent
  <1>2. AgentInv /\ [Next]_vars => AgentInv'
    BY StepAgent
  <1>3. AgentInv => OneAgent
    <2> SUFFICES ASSUME AgentInv PROVE OneAgent
      OBVIOUS
    <2>1. \A s, t \in turn : s = t
      BY TurnRuns DEF AgentInv, ClaimInv, InWork, OneWorking
    <2>2. CASE turn = {}
      BY <2>2, FS_EmptySet DEF OneAgent
    <2>3. CASE turn # {}
      <3>1. PICK s : turn = {s}
        BY <2>1, <2>3
      <3>2. Cardinality({s}) = 1
        BY FS_Singleton
      <3> QED BY <3>1, <3>2 DEF OneAgent
    <2> QED BY <2>2, <2>3
  <1> QED BY <1>1, <1>2, <1>3, PTL DEF Spec

-----------------------------------------------------------------------------
(* Where records come from, and how fates change *)

\* Where the copies of the card come from in a step.
SeenFrom ==
  /\ \A d \in Calls : \/ call'[d].seen \in {call[d].seen, card, Idle.seen}
                      \/ call'[d].seen = Sanitized(call[d].seen) /\ UNCHANGED fate
                      \/ RecheckRetry(d)
  /\ ender'.copy \in {ender.copy, card, Idle.seen}

\* A step copies the card, drops a copy or edits it as revive and retryTrigger do.
LEMMA StepSeenFrom == ASSUME Parts, [Next]_vars PROVE SeenFrom
  <1> USE DEF cardVars, procVars, memVars
  <1>1. ASSUME NEW c \in Calls, CallStep(c) \/ Wakes(c) PROVE SeenFrom
    <2>1. CASE StartupResume(c)
      BY <2>1 DEF StartupResume, Begin, Parts, CallsOK, CallType, SeenFrom, Idle, NoEnder
    <2>2. CASE DelayedResume(c)
      BY <2>2 DEF DelayedResume, Begin, Parts, CallsOK, CallType, SeenFrom, Idle, NoEnder
    <2>3. CASE TimerFires(c)
      <3>1. CASE Begin(c, "timer", FALSE, "adopt")
        BY <2>3, <3>1 DEF Parts, TimerFires, Begin, CallsOK, CallType, SeenFrom, Idle
      <3> QED BY <2>3, <3>1 DEF TimerFires, SeenFrom
    <2>4. CASE ClaimResume(c)
      BY <2>4 DEF ClaimResume, TakeClaim, Quit, Parts, CallsOK, CallType, SeenFrom, Idle, NoEnder
    <2>5. CASE ClaimRevive(c)
      BY <2>5, ReviveCopies DEF ClaimRevive, SeenFrom
    <2>6. CASE ClaimRetry(c)
      BY <2>6 DEF ClaimRetry, TakeClaim, Quit, Parts, CallsOK, CallType, SeenFrom, Idle, NoEnder
    <2>7. CASE GiveUp(c)
      BY <2>7 DEF GiveUp, Release, Quit, Parts, CallsOK, CallType, SeenFrom, Idle, NoEnder
    <2>8. CASE RecheckStarts(c)
      BY <2>8 DEF RecheckStarts, Step, Parts, CallsOK, CallType, SeenFrom, Idle, NoEnder
    <2>9. CASE ReEnter(c)
      BY <2>9 DEF ReEnter, Parts, CallsOK, CallType, SeenFrom, Idle, NoEnder
    <2>10. CASE RecheckRetry(c)
      BY <2>10, RetryFields DEF Parts, Same, SeenFrom, Idle, NoEnder
    <2>11. CASE EditRetry(c)
      BY <2>11 DEF EditRetry, Parts, CallsOK, CallType, SeenFrom, Idle, NoEnder
    <2>12. CASE AdoptRetry(c)
      BY <2>12, AdoptFields DEF Parts, AdoptRetry, Same, SeenFrom, Idle, NoEnder
    <2>13. CASE ClearRetry(c)
      BY <2>13 DEF ClearRetry, Step, Parts, CallsOK, CallType, SeenFrom, Idle, NoEnder
    <2>14. CASE Enter(c)
      BY <2>14 DEF Enter, Parts, CallsOK, CallType, SeenFrom, Idle, NoEnder
    <2>15. CASE EnqueueAnswers(c)
      BY <2>15 DEF EnqueueAnswers, Parts, CallsOK, CallType, SeenFrom, Idle, NoEnder
    <2>16. CASE StartRefused(c)
      <3>1. \A d \in Calls : call'[d].seen = call[d].seen
        BY <2>16 DEF Parts, StartRefused, Step, CallsOK, CallType
      <3> QED BY <2>16, <3>1 DEF StartRefused, SeenFrom
    <2>17. CASE StartReads(c)
      BY <2>17 DEF StartReads, Parts, CallsOK, CallType, SeenFrom, Idle, NoEnder
    <2>18. CASE Spawn(c)
      BY <2>18 DEF Spawn, Parts, CallsOK, CallType, SeenFrom, Idle, NoEnder
    <2>19. CASE StoreRun(c)
      BY <2>19 DEF StoreRun, Step, Parts, CallsOK, CallType, SeenFrom, Idle, NoEnder
    <2>20. CASE Finish(c)
      <3>1. (\A d \in Calls \ {c} : Same(d)) /\ call'[c].seen = Idle.seen /\ ender' = ender
        BY <2>20, FinishFields
      <3> QED BY <3>1, IdleSeen DEF Same, SeenFrom
    <2> QED BY <1>1, <2>1, <2>2, <2>3, <2>4, <2>5, <2>6, <2>7, <2>8, <2>9, <2>10, <2>11, <2>12, <2>13, <2>14, <2>15, <2>16, <2>17, <2>18, <2>19, <2>20 DEF CallStep, Wakes
  <1>2. ASSUME NEW c \in Calls, NEW kind \in {"revive", "retry"}, NEW force \in BOOLEAN, Request(c, kind, force)
       PROVE SeenFrom
      BY <1>2 DEF Request, Event, Begin, Parts, CallsOK, CallType, SeenFrom, Idle, NoEnder
  <1>3. ASSUME NEW c \in Calls, NEW why \in {"limited", "broken", "error"}, SpawnFails(c, why) PROVE SeenFrom
      BY <1>3 DEF Parts, SpawnFails, Step, CallsOK, CallType, SeenFrom
  <1>4. ASSUME NEW s \in Run, NEW how \in Ends, FollowedEnds(s, how) PROVE SeenFrom
      BY <1>4 DEF FollowedEnds, Turned, Adopted, Parts, CallsOK, CallType, SeenFrom, Idle, NoEnder
  <1>5. ASSUME NEW s \in Run, NEW how \in Ends, UnfollowedEnds(s, how) PROVE SeenFrom
      BY <1>5 DEF UnfollowedEnds, Turned, Adopted, Parts, CallsOK, CallType, SeenFrom, Idle, NoEnder
  <1>6. CASE EndSaved
      BY <1>6, EndFields DEF Parts, EndSaved, Same, SeenFrom, Idle, NoEnder
  <1>7. CASE TimePasses
      BY <1>7 DEF TimePasses, Parts, CallsOK, CallType, SeenFrom, Idle, NoEnder
  <1>8. CASE MoveAway
      BY <1>8, MoveFields DEF Parts, MoveAway, Same, SeenFrom, Idle, NoEnder
  <1>9. CASE Restart
      BY <1>9 DEF Restart, Event, Parts, CallsOK, CallType, SeenFrom, Idle, NoEnder
  <1>10. CASE Sweep
      BY <1>10 DEF Sweep, Parts, CallsOK, CallType, SeenFrom, Idle, NoEnder
  <1>11. CASE UNCHANGED vars
      BY <1>11 DEF vars, Parts, CallsOK, CallType, SeenFrom, Idle, NoEnder
  <1> QED BY <1>1, <1>2, <1>3, <1>4, <1>5, <1>6, <1>7, <1>8, <1>9, <1>10, <1>11 DEF Next

\* A record that some copy shows.
Shows(s, v) ==
  card.rec[s] = v \/ ender.copy.rec[s] = v \/ \E c \in Calls : call[c].seen.rec[s] = v

\* What a step may write into a record: what was in some copy, a run just stored, and the
\* end of a running one: completed by the user, by a restart, or as its turn has ended.
Origin(s, v) ==
  \/ v = "none" \/ Shows(s, v)
  \/ v = "running" /\ \E c \in Calls : call[c].pc = "spawned" /\ call[c].sid = s
  \/ /\ Shows(s, "running")
     /\ \/ v = "completed"
        \/ v = "interrupted" /\ fate[s] = "none" /\ s \notin up
        \/ v \in Ends /\ fate'[s] = v

\* A start that failed for a rate limit or a broken environment records a run of its own.
Refuses(s, v) ==
  \E c \in Calls, why \in {"limited", "broken"} : SpawnFails(c, why) /\ s = next /\ v = why

CardSourced == \A s \in Run : Origin(s, card'.rec[s]) \/ Refuses(s, card'.rec[s])

CopiesSourced ==
  \A s \in Run : Origin(s, ender'.copy.rec[s]) /\ \A c \in Calls : Origin(s, call'[c].seen.rec[s])

\* A record of a saved card is that of the card or of the copy.
LEMMA SavedOrigin == ASSUME NEW t \in Good, NEW s \in Run PROVE Saved(t).rec[s] \in {card.rec[s], t.rec[s]}
  BY DEF Good, Card, Saved, MergeStatus

\* Sanitizing ends the records of dead sessions.
LEMMA SanitizedOrigin ==
  ASSUME Parts, NEW t \in Good, UNCHANGED fate, NEW s \in Run, Shows(s, t.rec[s])
  PROVE  Origin(s, Sanitized(t).rec[s])
  <1>1. Sanitized(t).rec[s] = IF t.rec[s] = "running" /\ s \notin up THEN StaleStatus(s) ELSE t.rec[s]
    BY DEF Good, Card, Sanitized
  <1>2. fate[s] \in {"none"} \cup Ends
    BY DEF Parts, RestOK
  <1> QED BY <1>1, <1>2 DEF Origin, StaleStatus

\* What a step saves has its origin in a copy.
LEMMA StepCardSourced == ASSUME Parts, [Next]_vars PROVE CardSourced
  <1> USE DEF cardVars, procVars, memVars
  <1>1. ASSUME NEW c \in Calls, CallStep(c) \/ Wakes(c) PROVE CardSourced
    <2>1. CASE StartupResume(c)
      BY <2>1 DEF StartupResume, CardSourced, Origin, Shows
    <2>2. CASE DelayedResume(c)
      BY <2>2 DEF DelayedResume, CardSourced, Origin, Shows
    <2>3. CASE TimerFires(c)
      BY <2>3 DEF TimerFires, CardSourced, Origin, Shows
    <2>4. CASE ClaimResume(c)
      BY <2>4 DEF ClaimResume, CardSourced, Origin, Shows
    <2>5. CASE ClaimRevive(c)
      <3>1. call[c].seen \in Good /\ UNCHANGED fate
        BY <2>5 DEF Parts, CallsOK, CallType, ClaimRevive, procVars
      <3>2. /\ Sanitized(call[c].seen) \in Good
            /\ card' = card \/ card' = Saved(Sanitized(call[c].seen))
        BY <2>5, <3>1, SanitizedGood DEF Parts, RestOK, ClaimRevive
      <3>3. \A s \in Run : Origin(s, Sanitized(call[c].seen).rec[s])
        BY <3>1, SanitizedOrigin DEF Shows
      <3> QED BY <3>2, <3>3, SavedOrigin DEF Origin, Shows, CardSourced
    <2>6. CASE ClaimRetry(c)
      BY <2>6 DEF ClaimRetry, CardSourced, Origin, Shows
    <2>7. CASE GiveUp(c)
      BY <2>7 DEF GiveUp, CardSourced, Origin, Shows
    <2>8. CASE RecheckStarts(c)
      BY <2>8 DEF RecheckStarts, CardSourced, Origin, Shows
    <2>9. CASE ReEnter(c)
      BY <2>9 DEF ReEnter, CardSourced, Origin, Shows
    <2>10. CASE RecheckRetry(c)
      BY <2>10 DEF RecheckRetry, CardSourced, Origin, Shows
    <2>11. CASE EditRetry(c)
      <3> DEFINE t == [call[c].seen EXCEPT !.trigger = NoRun]
      <3>1. call[c].seen \in Good
        BY DEF Parts, CallsOK, CallType
      <3>2. card' = Saved(t) /\ t \in Good /\ t.rec = call[c].seen.rec
        BY <2>11, <3>1, ClearedGood DEF EditRetry
      <3> HIDE DEF t
      <3>3. \A s \in Run : card'.rec[s] \in {card.rec[s], call[c].seen.rec[s]}
        BY <3>2, SavedOrigin
      <3> QED BY <3>3 DEF Origin, Shows, CardSourced
    <2>12. CASE AdoptRetry(c)
      BY <2>12 DEF AdoptRetry, CardSourced, Origin, Shows
    <2>13. CASE ClearRetry(c)
      <3> DEFINE t == [call[c].seen EXCEPT !.trigger = NoRun]
      <3>1. call[c].seen \in Good
        BY DEF Parts, CallsOK, CallType
      <3>2. card' = Saved(t) /\ t \in Good /\ t.rec = call[c].seen.rec
        BY <2>13, <3>1, ClearedGood DEF ClearRetry
      <3> HIDE DEF t
      <3>3. \A s \in Run : card'.rec[s] \in {card.rec[s], call[c].seen.rec[s]}
        BY <3>2, SavedOrigin
      <3> QED BY <3>3 DEF Origin, Shows, CardSourced
    <2>14. CASE Enter(c)
      BY <2>14 DEF Enter, CardSourced, Origin, Shows
    <2>15. CASE EnqueueAnswers(c)
      BY <2>15 DEF EnqueueAnswers, CardSourced, Origin, Shows
    <2>16. CASE StartRefused(c)
      BY <2>16 DEF StartRefused, CardSourced, Origin, Shows
    <2>17. CASE StartReads(c)
      BY <2>17 DEF StartReads, CardSourced, Origin, Shows
    <2>18. CASE Spawn(c)
      BY <2>18 DEF Spawn, CardSourced, Origin, Shows
    <2>19. CASE StoreRun(c)
      <3> DEFINE t == WithRun(call[c].seen, call[c].sid)
      <3>1. call[c].sid \in Run /\ call[c].seen \in Good /\ call[c].pc = "spawned"
        BY <2>19, StoreFields DEF Parts, CallsOK, CallType, StoreRun
      <3>2. /\ card' = Saved(t) /\ t \in Good
            /\ \A s \in Run : t.rec[s] = IF s = call[c].sid THEN "running" ELSE call[c].seen.rec[s]
        BY <2>19, <3>1, WithRunGood DEF StoreRun
      <3> HIDE DEF t
      <3>3. \A s \in Run : card'.rec[s] \in {card.rec[s], call[c].seen.rec[s]} \/ (s = call[c].sid /\ card'.rec[s] = "running")
        BY <3>2, SavedOrigin
      <3> QED BY <3>1, <3>3 DEF Origin, Shows, CardSourced
    <2>20. CASE Finish(c)
      BY <2>20, FinishFields DEF CardSourced, Origin, Shows
    <2> QED BY <1>1, <2>1, <2>2, <2>3, <2>4, <2>5, <2>6, <2>7, <2>8, <2>9, <2>10, <2>11, <2>12, <2>13, <2>14, <2>15, <2>16, <2>17, <2>18, <2>19, <2>20 DEF CallStep, Wakes
  <1>2. ASSUME NEW c \in Calls, NEW kind \in {"revive", "retry"}, NEW force \in BOOLEAN, Request(c, kind, force)
       PROVE CardSourced
      BY <1>2 DEF Request, Event, Begin, InTurn, CardSourced, Origin, Shows
  <1>3. ASSUME NEW c \in Calls, NEW why \in {"limited", "broken", "error"}, SpawnFails(c, why) PROVE CardSourced
    <2>1. PICK t \in Good : /\ card' = Saved(t)
                           /\ \A s \in Run : t.rec[s] = IF why # "error" /\ s = next THEN why ELSE call[c].seen.rec[s]
      BY <1>3, FailFields
    <2>2. \A s \in Run : card'.rec[s] \in {card.rec[s], t.rec[s]}
      BY <2>1, SavedOrigin
    <2>3. \A s \in Run : card'.rec[s] \in {card.rec[s], call[c].seen.rec[s]} \/ (why # "error" /\ s = next /\ card'.rec[s] = why)
      BY <2>1, <2>2
    <2>4. \A s \in Run : Shows(s, card'.rec[s]) \/ (why # "error" /\ s = next /\ card'.rec[s] = why)
      BY <2>3 DEF Shows
    <2>5. why # "error" => why \in {"limited", "broken"}
      OBVIOUS
    <2>6. why # "error" => \A s \in Run : s = next /\ card'.rec[s] = why => Refuses(s, card'.rec[s])
      BY <1>3, <2>5 DEF Refuses
    <2> QED BY <2>4, <2>6 DEF Origin, CardSourced
  <1>4. ASSUME NEW s \in Run, NEW how \in Ends, FollowedEnds(s, how) PROVE CardSourced
      BY <1>4 DEF FollowedEnds, Turned, Adopted, CardSourced, Origin, Shows
  <1>5. ASSUME NEW s \in Run, NEW how \in Ends, UnfollowedEnds(s, how) PROVE CardSourced
    <2>1. \A r \in Run : card'.rec[r] = IF r = s /\ card.rec[s] = "running" THEN how ELSE card.rec[r]
      BY <1>5, UnfollowedFields
    <2>2. fate'[s] = how
      BY <1>5 DEF UnfollowedEnds, Turned, Parts, RestOK
    <2> QED BY <2>1, <2>2 DEF CardSourced, Origin, Shows
  <1>6. CASE EndSaved
    <2>1. PICK t \in Good : /\ card' = Saved(t)
                           /\ \A s \in Run : t.rec[s] = IF s = ender.sid /\ ender.copy.rec[s] = "running"
                                                    THEN fate[s] ELSE ender.copy.rec[s]
      BY <1>6, EndFields
    <2>2. fate[ender.sid] \in Ends /\ fate' = fate
      BY <1>6, EndFields DEF EndSaved
    <2>3. \A s \in Run : card'.rec[s] \in {card.rec[s], t.rec[s]}
      BY <2>1, SavedOrigin
    <2>4. ASSUME NEW s \in Run PROVE Origin(s, card'.rec[s])
      <3>1. CASE s = ender.sid /\ ender.copy.rec[s] = "running"
        BY <2>1, <2>2, <2>3, <3>1 DEF Origin, Shows
      <3>2. CASE ~ (s = ender.sid /\ ender.copy.rec[s] = "running")
        BY <2>1, <2>3, <3>2 DEF Origin, Shows
      <3> QED BY <3>1, <3>2
    <2> QED BY <2>4 DEF CardSourced
  <1>7. CASE TimePasses
      BY <1>7 DEF TimePasses, CardSourced, Origin, Shows
  <1>8. CASE MoveAway
    BY <1>8, MoveFields DEF CardSourced, Origin, Shows
  <1>9. CASE Restart
      BY <1>9 DEF Restart, Event, CardSourced, Origin, Shows
  <1>10. CASE Sweep
    <2>1. \A s \in Run : Origin(s, Sanitized(card).rec[s])
      BY <1>10, SanitizedOrigin DEF Parts, CardsOK, Sweep, Shows
    <2> QED BY <1>10, <2>1 DEF Sweep, CardSourced, Origin, Shows
  <1>11. CASE UNCHANGED vars
      BY <1>11 DEF vars, CardSourced, Origin, Shows
  <1> QED BY <1>1, <1>2, <1>3, <1>4, <1>5, <1>6, <1>7, <1>8, <1>9, <1>10, <1>11 DEF Next

\* Copies of copies, and retryTrigger's edit, have their origin in a copy.
LEMMA StepCopiesSourced == ASSUME Parts, [Next]_vars PROVE CopiesSourced
  <1>1. SeenFrom
    BY StepSeenFrom
  <1>2. ASSUME NEW s \in Run PROVE Origin(s, ender'.copy.rec[s])
    BY <1>1, IdleSeen DEF SeenFrom, Origin, Shows
  <1>3. ASSUME NEW s \in Run, NEW c \in Calls PROVE Origin(s, call'[c].seen.rec[s])
    <2>1. CASE call'[c].seen \in {call[c].seen, card, Idle.seen}
      BY <2>1, IdleSeen DEF Origin, Shows
    <2>2. CASE call'[c].seen = Sanitized(call[c].seen) /\ UNCHANGED fate
      BY <2>2, SanitizedOrigin DEF Parts, CallsOK, CallType, Shows
    <2>3. CASE RecheckRetry(c)
      BY <2>3, RetryFields DEF Origin, Shows
    <2> QED BY <1>1, <2>1, <2>2, <2>3 DEF SeenFrom
  <1> QED BY <1>2, <1>3 DEF CopiesSourced

\* A fate is written when a turn ends, a turn begins with the next session.
Fates ==
  /\ \A s \in Run : fate'[s] = fate[s] \/ (s \in turn /\ s \notin turn')
  /\ \A s \in turn' : s \in turn \/ s = next
  /\ next' >= next

\* How fates and turns change.
LEMMA StepFates == ASSUME Parts, [Next]_vars PROVE Fates
  <1> USE DEF procVars, Parts, RestOK
  <1>1. ASSUME NEW c \in Calls, CallStep(c) \/ Wakes(c) PROVE Fates
    <2>1. CASE StartupResume(c)
      BY <2>1 DEF StartupResume, Fates
    <2>2. CASE DelayedResume(c)
      BY <2>2 DEF DelayedResume, Fates
    <2>3. CASE TimerFires(c)
      BY <2>3 DEF TimerFires, Fates
    <2>4. CASE ClaimResume(c)
      BY <2>4 DEF ClaimResume, Fates
    <2>5. CASE ClaimRevive(c)
      BY <2>5 DEF ClaimRevive, Fates
    <2>6. CASE ClaimRetry(c)
      BY <2>6 DEF ClaimRetry, Fates
    <2>7. CASE GiveUp(c)
      BY <2>7 DEF GiveUp, Fates
    <2>8. CASE RecheckStarts(c)
      BY <2>8 DEF RecheckStarts, Fates
    <2>9. CASE ReEnter(c)
      BY <2>9 DEF ReEnter, Fates
    <2>10. CASE RecheckRetry(c)
      BY <2>10, RetryFields DEF Fates
    <2>11. CASE EditRetry(c)
      BY <2>11 DEF EditRetry, Fates
    <2>12. CASE AdoptRetry(c)
      BY <2>12, AdoptFields DEF Fates
    <2>13. CASE ClearRetry(c)
      BY <2>13 DEF ClearRetry, Fates
    <2>14. CASE Enter(c)
      BY <2>14 DEF Enter, Fates
    <2>15. CASE EnqueueAnswers(c)
      BY <2>15 DEF EnqueueAnswers, Fates
    <2>16. CASE StartRefused(c)
      BY <2>16 DEF StartRefused, Fates
    <2>17. CASE StartReads(c)
      BY <2>17 DEF StartReads, Fates
    <2>18. CASE Spawn(c)
      BY <2>18 DEF Spawn, Fates
    <2>19. CASE StoreRun(c)
      BY <2>19 DEF StoreRun, Fates
    <2>20. CASE Finish(c)
      BY <2>20 DEF Finish, Fates
    <2> QED BY <1>1, <2>1, <2>2, <2>3, <2>4, <2>5, <2>6, <2>7, <2>8, <2>9, <2>10, <2>11, <2>12, <2>13, <2>14, <2>15, <2>16, <2>17, <2>18, <2>19, <2>20 DEF CallStep, Wakes
  <1>2. ASSUME NEW c \in Calls, NEW kind \in {"revive", "retry"}, NEW force \in BOOLEAN, Request(c, kind, force)
        PROVE  Fates
    BY <1>2 DEF Request, Fates
  <1>3. ASSUME NEW c \in Calls, NEW why \in {"limited", "broken", "error"}, SpawnFails(c, why) PROVE Fates
    BY <1>3 DEF SpawnFails, Fates
  <1>4. ASSUME NEW s \in Run, NEW how \in Ends, FollowedEnds(s, how) PROVE Fates
    BY <1>4 DEF FollowedEnds, Turned, Fates
  <1>5. ASSUME NEW s \in Run, NEW how \in Ends, UnfollowedEnds(s, how) PROVE Fates
    BY <1>5 DEF UnfollowedEnds, Turned, Fates
  <1>6. CASE EndSaved
    BY <1>6 DEF EndSaved, Fates
  <1>7. CASE TimePasses
    BY <1>7 DEF TimePasses, Fates
  <1>8. CASE MoveAway
    BY <1>8 DEF MoveAway, Fates
  <1>9. CASE Restart
    BY <1>9 DEF Restart, Fates
  <1>10. CASE Sweep
    BY <1>10 DEF Sweep, Fates
  <1>11. CASE UNCHANGED vars
    BY <1>11 DEF vars, Fates
  <1> QED BY <1>1, <1>2, <1>3, <1>4, <1>5, <1>6, <1>7, <1>8, <1>9, <1>10, <1>11 DEF Next

-----------------------------------------------------------------------------
(* A resume starts what was interrupted *)

\* A session in its turn, and one not given out, has no fate yet.
Unfated == \A s \in Run : s \in turn \/ s >= next => fate[s] = "none"

\* The run of a start that failed: it never had a session.
Refused(s) == fate[s] = "none" /\ card.rec[s] \in {"limited", "broken"}

\* What an ended record says of its run.
Truth(s, v) ==
  /\ v = "interrupted" => fate[s] = "none" /\ s \notin up
  /\ v = "cancelled" => fate[s] = "cancelled"
  /\ v \in {"limited", "broken"} => fate[s] = v \/ (fate[s] = "none" /\ card.rec[s] = v)

Truthful == \A s \in Run, v \in Status : Shows(s, v) => Truth(s, v)

\* Nothing else is ever said of a start that failed.
RefusedApart ==
  \A s \in Run : Refused(s) =>
    /\ s \notin up
    /\ \A v \in Status : Shows(s, v) => v \in {"none", card.rec[s]}
    /\ \A c \in Calls : call[c].pc = "spawned" => call[c].sid # s

Told == Unfated /\ Truthful /\ RefusedApart

\* A session without a fate stays without one.
LEMMA StepUnfated == ASSUME Parts, Unfated, [Next]_vars PROVE Unfated'
  <1>1. Fates
    BY StepFates
  <1>2. next \in Nat /\ next' \in Nat /\ next \in 1..(MaxRuns + 1) /\ \A s \in turn : s < next /\ s \in Run
    BY StepParts, GivenOut, TurnRuns DEF Parts, Fresh, RestOK
  <1>3. ASSUME NEW s \in Run, s \in turn' \/ s >= next' PROVE fate'[s] = "none"
    <2>1. s \in Nat
      BY RunsAssumption DEF Run
    <2>2. CASE s \in turn'
      BY <1>1, <1>2, <2>1, <2>2 DEF Fates, Unfated
    <2>3. CASE s >= next'
      <3>1. s >= next /\ s \notin turn
        BY <1>1, <1>2, <2>1, <2>3 DEF Fates
      <3> QED BY <1>1, <3>1 DEF Fates, Unfated
    <2> QED BY <1>3, <2>2, <2>3
  <1> QED BY <1>3 DEF Unfated

\* What a copy shows after a step.
LEMMA NewlyShown ==
  ASSUME Parts, [Next]_vars, NEW s \in Run, NEW v, Shows(s, v)'
  PROVE  Origin(s, v) \/ (v = card'.rec[s] /\ Refuses(s, v))
  BY StepCardSourced, StepCopiesSourced DEF CardSourced, CopiesSourced, Shows

\* A record shown by a copy is of a run that was given out.
LEMMA ShownKnown ==
  ASSUME Parts, NEW s \in Run, NEW v, v # "none", Shows(s, v)
  PROVE  card.rec[s] # "none" /\ s < next /\ ~ (s >= next)
  <1>1. card.rec[s] # "none"
    BY DEF Shows, Parts, Known
  <1>2. s < next
    BY <1>1 DEF Parts, Fresh
  <1> QED BY <1>1, <1>2, RunsAssumption DEF Parts, RestOK, Run

\* Records and fates have their types, also after a step.
LEMMA ShownStatus == ASSUME Parts, NEW s \in Run
  PROVE  card.rec[s] \in Status /\ Shows(s, card.rec[s]) /\ fate[s] \in {"none"} \cup Ends
  BY DEF Parts, CardsOK, RestOK, Good, Card, Shows

\* A start that failed stays one.
LEMMA RefusedStays ==
  ASSUME Parts, Told, [Next]_vars, NEW s \in Run, Refused(s)
  PROVE  /\ fate'[s] = "none" /\ card'.rec[s] = card.rec[s] /\ s \notin up'
         /\ \A v \in Status : Shows(s, v)' => v \in {"none", card.rec[s]}
         /\ \A c \in Calls : call'[c].pc = "spawned" => call'[c].sid # s
  <1>1. s \notin up /\ s \notin turn /\ card.rec[s] \in {"limited", "broken"} /\ fate[s] = "none"
    BY TurnRuns DEF Told, RefusedApart, Refused
  <1>2. s < next /\ s # next
    BY <1>1, ShownKnown, ShownStatus DEF Parts, RestOK
  <1>3. fate'[s] = "none"
    BY <1>1, StepFates DEF Fates
  <1>4. ASSUME NEW v \in Status, Shows(s, v)' PROVE v \in {"none", card.rec[s]}
    <2>1. Origin(s, v)
      BY <1>2, <1>4, NewlyShown DEF Refuses
    <2>2. ~ Shows(s, "running")
      BY <1>1 DEF Told, RefusedApart, Refused, Status
    <2>3. ~ \E c \in Calls : call[c].pc = "spawned" /\ call[c].sid = s
      BY <1>1 DEF Told, RefusedApart, Refused
    <2>4. v = "none" \/ Shows(s, v)
      BY <2>1, <2>2, <2>3 DEF Origin
    <2> QED BY <1>1, <2>4 DEF Told, RefusedApart, Refused
  <1>5. card'.rec[s] = card.rec[s]
    <2>1. card' \in Good
      BY StepParts DEF Parts, CardsOK
    <2>2. card'.rec[s] \in Status
      BY <2>1 DEF Good, Card
    <2>3. Shows(s, card.rec[s])'
      BY DEF Shows
    <2>4. card'.rec[s] \in {"none", card.rec[s]}
      BY <1>4, <2>2, <2>3
    <2>5. card'.rec[s] # "none"
      BY <1>1, StepGrows DEF Grows
    <2> QED BY <2>4, <2>5
  <1>6. s \notin up' /\ \A c \in Calls : call'[c].pc = "spawned" => call'[c].sid # s
    BY <1>1, <1>2, StepSpawnedFrom DEF SpawnedFrom, Begins, Told, RefusedApart, Refused
  <1> QED BY <1>3, <1>4, <1>5, <1>6

\* A start fails for a run that nothing knows.
LEMMA RefusedNew ==
  ASSUME Parts, Told, [Next]_vars, NEW s \in Run, Refused(s)', ~ Refused(s)
  PROVE  Refuses(s, card'.rec[s])
  <1>1. fate[s] = "none" /\ fate'[s] = "none" /\ card'.rec[s] \in {"limited", "broken"}
    BY StepFates DEF Fates, Refused, Told, Unfated
  <1>2. SUFFICES ASSUME Origin(s, card'.rec[s]) PROVE FALSE
    BY StepCardSourced DEF CardSourced
  <1>3. Shows(s, card'.rec[s])
    BY <1>1, <1>2 DEF Origin, Ends
  <1>4. card.rec[s] = card'.rec[s]
    BY <1>1, <1>3 DEF Told, Truthful, Truth, Status
  <1> QED BY <1>1, <1>4 DEF Refused

\* What SpawnFails leaves alone.
LEMMA FailLeaves == ASSUME Parts, NEW c \in Calls, NEW why \in {"limited", "broken"}, SpawnFails(c, why)
  PROVE  up' = up /\ \A d \in Calls : call'[d].pc = "spawned" => call[d].pc = "spawned"
  BY DEF SpawnFails, Step, Parts, CallsOK, CallType

\* Nothing else is said of a start that failed.
LEMMA StepRefusedApart == ASSUME Parts, Told, [Next]_vars PROVE RefusedApart'
  <1> SUFFICES ASSUME NEW s \in Run, Refused(s)'
               PROVE  /\ s \notin up'
                      /\ \A v \in Status : Shows(s, v)' => v \in {"none", card'.rec[s]}
                      /\ \A c \in Calls : call'[c].pc = "spawned" => call'[c].sid # s
    BY DEF RefusedApart
  <1>1. CASE Refused(s)
    BY <1>1, RefusedStays
  <1>2. CASE ~ Refused(s)
    <2>1. PICK c \in Calls, why \in {"limited", "broken"} : SpawnFails(c, why) /\ s = next
      BY <1>2, RefusedNew DEF Refuses
    <2>2. up' = up /\ \A d \in Calls : call'[d].pc = "spawned" => call[d].pc = "spawned"
      BY <2>1, FailLeaves
    <2>3. s \in Nat /\ (\A x \in up : x < s) /\ \A d \in Calls : call[d].sid < s
      BY <2>1, RunsAssumption DEF Parts, Fresh, Run
    <2>4. s \notin up'
      BY <2>2, <2>3
    <2>5. \A d \in Calls : call[d].pc = "spawned" => call[d].sid # s
      BY <2>3
    <2>6. ASSUME NEW d \in Calls, call'[d].pc = "spawned" PROVE call'[d].sid # s
      BY <2>2, <2>5, <2>6, StepSpawnedFrom DEF SpawnedFrom, Begins
    <2>7. ASSUME NEW v \in Status, Shows(s, v)', v # "none" PROVE v = card'.rec[s]
      <3>1. \A w : w # "none" => ~ Shows(s, w)
        BY <2>1, <2>3, ShownKnown
      <3>2. ~ Origin(s, v)
        BY <2>5, <2>7, <3>1 DEF Origin
      <3> QED BY <2>7, <3>2, NewlyShown
    <2> QED BY <2>4, <2>6, <2>7
  <1> QED BY <1>1, <1>2

\* Ended records tell the truth after a step.
LEMMA StepTruthful == ASSUME Parts, Told, [Next]_vars PROVE Truthful'
  <1> SUFFICES ASSUME NEW s \in Run, NEW v \in Status, Shows(s, v)' PROVE Truth(s, v)'
    BY DEF Truthful
  <1>1. fate[s] # "none" => fate'[s] = fate[s]
    BY StepFates DEF Fates, Told, Unfated
  <1>2. CASE Refuses(s, v) /\ v = card'.rec[s]
    <2>1. v \in {"limited", "broken"} /\ s = next /\ fate'[s] = fate[s]
      BY <1>2 DEF Refuses, SpawnFails
    <2>2. fate[s] = "none"
      BY <2>1, RunsAssumption DEF Told, Unfated, Run
    <2> QED BY <1>2, <2>1, <2>2 DEF Truth
  <1>3. CASE Shows(s, v)
    <2>1. Truth(s, v)
      BY <1>3 DEF Told, Truthful
    <2>2. CASE v = "interrupted"
      <3>1. fate[s] = "none" /\ s \notin up /\ s \notin turn /\ s # next
        BY <1>3, <2>1, <2>2, ShownKnown, TurnRuns DEF Truth, Parts, RestOK
      <3> QED BY <2>2, <3>1, StepFates, StepSpawnedFrom DEF Fates, SpawnedFrom, Begins, Truth
    <2>3. CASE v = "cancelled"
      BY <1>1, <2>1, <2>3 DEF Truth
    <2>4. CASE v \in {"limited", "broken"}
      <3>1. CASE fate[s] = v
        BY <1>1, <2>4, <3>1 DEF Truth
      <3>2. CASE fate[s] = "none" /\ card.rec[s] = v
        BY <2>4, <3>2, RefusedStays DEF Truth, Refused
      <3> QED BY <2>1, <2>4, <3>1, <3>2 DEF Truth
    <2> QED BY <2>2, <2>3, <2>4 DEF Truth
  <1>4. CASE v = "interrupted" /\ Shows(s, "running") /\ fate[s] = "none" /\ s \notin up
    <2>1. s \notin turn /\ s # next
      BY <1>4, ShownKnown, TurnRuns DEF Parts, RestOK
    <2> QED BY <1>4, <2>1, StepFates, StepSpawnedFrom DEF Fates, SpawnedFrom, Begins, Truth
  <1>5. CASE v \in Ends /\ fate'[s] = v
    BY <1>5 DEF Truth, Ends
  <1>6. CASE v \in {"none", "running", "completed"}
    BY <1>6 DEF Truth
  <1> QED BY <1>2, <1>3, <1>4, <1>5, <1>6, NewlyShown DEF Origin

\* What is told stays true.
LEMMA StepTold == ASSUME Parts, Told, [Next]_vars PROVE Told'
  BY StepUnfated, StepTruthful, StepRefusedApart DEF Told

\* Initially one run is recorded, and it is at work.
LEMMA InitTold == ASSUME Init PROVE Told
  <1>1. 1 \in Run /\ \A s \in Run : card.rec[s] = IF s = 1 THEN "running" ELSE "none"
    BY RunsAssumption DEF Init, Run
  <1>2. /\ \A s \in Run : ender.copy.rec[s] = "none" /\ fate[s] = "none"
        /\ \A c \in Calls, s \in Run : call[c].seen.rec[s] = "none"
    BY IdleSeen DEF Init, NoEnder, Idle
  <1>3. Unfated
    BY <1>2 DEF Unfated
  <1>4. \A s \in Run, v \in Status : Shows(s, v) => v \in {"none", "running"}
    BY <1>1, <1>2 DEF Shows
  <1>5. Truthful
    BY <1>4 DEF Truthful, Truth
  <1>6. RefusedApart
    BY <1>1 DEF RefusedApart, Refused
  <1> QED BY <1>3, <1>5, <1>6 DEF Told

\* The latest run of a card, if any, is recorded on it.
LEMMA LatestIn ==
  ASSUME NEW t \in Good
  PROVE  \/ Latest(t) = NoRun /\ \A s \in Run : t.rec[s] = "none"
         \/ Latest(t) \in Run /\ t.rec[Latest(t)] # "none"
  <1> DEFINE R == {s \in Run : t.rec[s] # "none"}
  <1>1. R \cup {NoRun} \in SUBSET (0..MaxRuns)
    BY RunsAssumption DEF Run, NoRun
  <1>2. Latest(t) \in R \cup {NoRun} /\ \A x \in R : Latest(t) >= x
    BY <1>1, MaxOf DEF Latest
  <1>3. Latest(t) = NoRun => R = {}
    <2> SUFFICES ASSUME Latest(t) = NoRun, NEW x \in R PROVE FALSE
      OBVIOUS
    <2> QED BY <1>2, RunsAssumption DEF Run, NoRun
  <1> QED BY <1>2, <1>3

\* The latest run only depends on which runs are recorded.
LEMMA LatestSame ==
  ASSUME NEW t, NEW u, \A s \in Run : t.rec[s] = "none" <=> u.rec[s] = "none"
  PROVE  Latest(t) = Latest(u)
  <1>1. {s \in Run : t.rec[s] # "none"} = {s \in Run : u.rec[s] # "none"}
    OBVIOUS
  <1> QED BY <1>1 DEF Latest

-----------------------------------------------------------------------------
(* What the resume decided on *)

\* A run that may be resumed: ended, and not by itself.
MayResume(s) ==
  /\ s \in Run /\ Ended(card.rec[s])
  /\ fate[s] \in {"none", "cancelled"} /\ s \notin turn /\ ~ Refused(s)

\* What a resume looked at when it went on is still so when it starts.
ResumeOK == \A c \in Calls : call[c].kind = "resume" /\ call[c].pc = "enqueue" => MayResume(Latest(card))

\* A resume gets to its start by its second look at the card.
Rechecked == \A c \in Calls : call'[c].kind = "resume" /\ call'[c].pc = "enqueue"
               => (call[c].kind = "resume" /\ call[c].pc = "enqueue") \/ RecheckStarts(c)

\* The second look finds an interruption.
LEMMA RecheckFinds ==
  ASSUME Parts, Told, NEW c \in Calls, call[c].kind = "resume", RecheckStarts(c)
  PROVE  MayResume(Latest(card))'
  <1>1. LatestStatus(card) \in {"interrupted", "cancelled"}
    BY DEF RecheckStarts, MayStart, Decide
  <1>2. card \in Good
    BY DEF Parts, CardsOK
  <1>3. Latest(card) \in Run /\ card.rec[Latest(card)] \in {"interrupted", "cancelled"}
    BY <1>1, <1>2, LatestIn DEF LatestStatus
  <1> DEFINE l == Latest(card)
  <1> HIDE DEF l
  <1>4. l \in Run /\ card.rec[l] \in {"interrupted", "cancelled"}
    BY <1>3 DEF l
  <1>5. Truth(l, card.rec[l])
    BY <1>4 DEF Told, Truthful, Shows, Status
  <1>6. fate[l] \in {"none", "cancelled"} /\ l \notin turn
    BY <1>4, <1>5, TurnRuns DEF Truth, Told, Unfated
  <1>7. MayResume(l)
    BY <1>4, <1>6 DEF MayResume, Ended, Refused
  <1>8. card' = card /\ fate' = fate /\ turn' = turn
    BY DEF RecheckStarts, cardVars, procVars
  <1> QED BY <1>7, <1>8 DEF MayResume, Ended, Refused, l, Latest

\* While a resume is about to start, no run is added to the card.
LEMMA NothingAdded ==
  ASSUME AgentInv, [Next]_vars, NEW c \in Calls, call[c].pc = "enqueue"
  PROVE  \A s \in Run : card'.rec[s] = "none" <=> card.rec[s] = "none"
  <1>1. Parts /\ CardSourced
    BY StepCardSourced DEF AgentInv, ClaimInv
  <1>2. ASSUME NEW d \in Calls, call[d].pc \in {"starting", "spawned"} PROVE FALSE
    BY <1>2, OneBusy DEF AgentInv, ClaimInv, Busy, Holding
  <1>3. ASSUME NEW s \in Run, card'.rec[s] # "none" PROVE card.rec[s] # "none"
    <2>1. ~ Refuses(s, card'.rec[s])
      BY <1>2 DEF Refuses, SpawnFails
    <2>2. \E v : v # "none" /\ Shows(s, v)
      BY <1>1, <1>2, <1>3, <2>1 DEF CardSourced, Origin
    <2> QED BY <1>1, <2>2, ShownKnown
  <1>4. Grows
    BY <1>1, StepGrows
  <1> QED BY <1>3, <1>4 DEF Grows

\* What may be resumed may still be after a step of the others.
LEMMA MayResumeStays ==
  ASSUME AgentInv, Told, [Next]_vars, NEW c \in Calls, call[c].pc = "enqueue", NEW l \in Run, MayResume(l)
  PROVE  MayResume(l)'
  <1>1. Parts
    BY DEF AgentInv, ClaimInv
  <1>2. \A d \in Calls : call[d].pc \notin {"starting", "spawned"}
    BY OneBusy DEF AgentInv, ClaimInv, Busy, Holding
  <1>3. card.rec[l] # "none" /\ card.rec[l] # "running" /\ l # next
    BY <1>1 DEF MayResume, Ended, Parts, Fresh, RestOK
  <1>4. Ended(card'.rec[l])
    BY <1>1, <1>2, <1>3, StepRuns, StepGrows DEF Runs, Grows, Ended
  <1>5. fate'[l] \in {"none", "cancelled"} /\ l \notin turn'
    BY <1>1, <1>3, StepFates DEF Fates, MayResume
  <1>6. ~ Refused(l)'
    BY <1>1, <1>2, RefusedNew DEF MayResume, Refuses, SpawnFails
  <1> QED BY <1>4, <1>5, <1>6 DEF MayResume

\* What a resume looked at stays so.
LEMMA StepResumeOK == ASSUME AgentInv, Told, ResumeOK, Rechecked, [Next]_vars PROVE ResumeOK'
  <1> SUFFICES ASSUME NEW c \in Calls, call'[c].kind = "resume", call'[c].pc = "enqueue"
               PROVE  MayResume(Latest(card))'
    BY DEF ResumeOK
  <1>1. CASE call[c].kind = "resume" /\ call[c].pc = "enqueue"
    <2>1. Latest(card') = Latest(card)
      BY <1>1, NothingAdded, LatestSame
    <2>2. MayResume(Latest(card)) /\ Latest(card) \in Run
      BY <1>1 DEF ResumeOK, MayResume
    <2>3. PICK l \in Run : l = Latest(card)
      BY <2>2
    <2>4. MayResume(l)'
      BY <1>1, <2>2, <2>3, MayResumeStays
    <2> QED BY <2>1, <2>3, <2>4
  <1>2. CASE RecheckStarts(c) /\ ~ (call[c].kind = "resume" /\ call[c].pc = "enqueue")
    <2>1. call[c].kind = "resume"
      BY <1>2 DEF RecheckStarts, Step, AgentInv, ClaimInv, Parts, CallsOK, CallType
    <2> QED BY <1>2, <2>1, RecheckFinds DEF AgentInv, ClaimInv
  <1> QED BY <1>1, <1>2 DEF Rechecked
\* A resume is only about to start after its second look.
LEMMA StepRechecked == ASSUME Parts, Paths, [Next]_vars PROVE Rechecked
  <1> USE DEF cardVars, procVars, memVars
  <1>1. ASSUME NEW c \in Calls, CallStep(c) \/ Wakes(c) PROVE Rechecked
    <2>1. CASE StartupResume(c)
      BY <2>1 DEF StartupResume, Begin, Parts, CallsOK, CallType, Paths, Rechecked, Idle
    <2>2. CASE DelayedResume(c)
      BY <2>2 DEF DelayedResume, Begin, Parts, CallsOK, CallType, Paths, Rechecked, Idle
    <2>3. CASE TimerFires(c)
      <3>1. CASE Begin(c, "timer", FALSE, "adopt")
        <4>1. /\ \A d \in Calls \ {c} : Same(d)
              /\ call'[c].kind = "timer" /\ call'[c].pc = "adopt" /\ call[c].pc = "idle" /\ InTurn("timer")
          BY <3>1, BeginFields DEF AllKinds, Pcs
        <4> QED BY <2>3, <4>1 DEF TimerFires, Same, Paths, Rechecked, Parts
      <3>2. CASE UNCHANGED call
        BY <2>3, <3>2 DEF TimerFires, Rechecked, Parts
      <3> QED BY <2>3, <3>1, <3>2 DEF TimerFires
    <2>4. CASE ClaimResume(c)
      BY <2>4 DEF ClaimResume, TakeClaim, Quit, Parts, CallsOK, CallType, Paths, Rechecked, Idle
    <2>5. CASE ClaimRevive(c)
      BY <2>5 DEF ClaimRevive, TakeClaim, Quit, Parts, CallsOK, CallType, Paths, Rechecked, Idle
    <2>6. CASE ClaimRetry(c)
      BY <2>6 DEF ClaimRetry, TakeClaim, Quit, Parts, CallsOK, CallType, Paths, Rechecked, Idle
    <2>7. CASE GiveUp(c)
      BY <2>7 DEF GiveUp, Release, Quit, Parts, CallsOK, CallType, Paths, Rechecked, Idle
    <2>8. CASE RecheckStarts(c)
      <3>1. \A d \in Calls \ {c} : call'[d] = call[d]
        BY <2>8 DEF RecheckStarts, Step, Parts, CallsOK
      <3> QED BY <2>8, <3>1 DEF Rechecked
    <2>9. CASE ReEnter(c)
      BY <2>9 DEF ReEnter, Parts, CallsOK, CallType, Paths, Rechecked, Idle
    <2>10. CASE RecheckRetry(c)
      BY <2>10, RetryFields DEF Same, Paths, Rechecked, Parts
    <2>11. CASE EditRetry(c)
      BY <2>11 DEF EditRetry, Parts, CallsOK, CallType, Paths, Rechecked, Idle
    <2>12. CASE AdoptRetry(c)
      <3>1. CASE call'[c] = Idle
        BY <2>12, <3>1, AdoptFields DEF Same, Paths, Rechecked, Parts, Idle
      <3> QED BY <2>12, <3>1, AdoptFields DEF Same, Paths, Rechecked, Parts, AdoptRetry
    <2>13. CASE ClearRetry(c)
      BY <2>13 DEF ClearRetry, Step, Parts, CallsOK, CallType, Paths, Rechecked, Idle
    <2>14. CASE Enter(c)
      BY <2>14 DEF Enter, Parts, CallsOK, CallType, Paths, Rechecked, Idle
    <2>15. CASE EnqueueAnswers(c)
      BY <2>15 DEF EnqueueAnswers, Parts, CallsOK, CallType, Paths, Rechecked, Idle
    <2>16. CASE StartRefused(c)
      BY <2>16 DEF StartRefused, Step, Parts, CallsOK, CallType, Paths, Rechecked, Idle
    <2>17. CASE StartReads(c)
      BY <2>17 DEF StartReads, Parts, CallsOK, CallType, Paths, Rechecked, Idle
    <2>18. CASE Spawn(c)
      BY <2>18 DEF Spawn, Parts, CallsOK, CallType, Paths, Rechecked, Idle
    <2>19. CASE StoreRun(c)
      BY <2>19 DEF StoreRun, Step, Parts, CallsOK, CallType, Paths, Rechecked, Idle
    <2>20. CASE Finish(c)
      <3>1. (\A d \in Calls \ {c} : Same(d)) /\ call'[c].pc = "idle" /\ call'[c].kind = "none"
        BY <2>20, FinishFields
      <3> QED BY <3>1 DEF Same, Paths, Rechecked
    <2> QED BY <1>1, <2>1, <2>2, <2>3, <2>4, <2>5, <2>6, <2>7, <2>8, <2>9, <2>10, <2>11, <2>12, <2>13, <2>14, <2>15, <2>16, <2>17, <2>18, <2>19, <2>20 DEF CallStep, Wakes
  <1>2. ASSUME NEW c \in Calls, NEW kind \in {"revive", "retry"}, NEW force \in BOOLEAN, Request(c, kind, force)
       PROVE Rechecked
      BY <1>2 DEF Request, Event, Begin, Parts, CallsOK, CallType, Paths, Rechecked, Idle
  <1>3. ASSUME NEW c \in Calls, NEW why \in {"limited", "broken", "error"}, SpawnFails(c, why) PROVE Rechecked
      BY <1>3 DEF SpawnFails, Step, Parts, CallsOK, CallType, Paths, Rechecked, Idle
  <1>4. ASSUME NEW s \in Run, NEW how \in Ends, FollowedEnds(s, how) PROVE Rechecked
      BY <1>4 DEF FollowedEnds, Turned, Adopted, Parts, CallsOK, CallType, Paths, Rechecked, Idle
  <1>5. ASSUME NEW s \in Run, NEW how \in Ends, UnfollowedEnds(s, how) PROVE Rechecked
      BY <1>5 DEF UnfollowedEnds, Turned, Adopted, Parts, CallsOK, CallType, Paths, Rechecked, Idle
  <1>6. CASE EndSaved
      BY <1>6, EndFields DEF EndSaved, Same, Paths, Rechecked, Parts
  <1>7. CASE TimePasses
      BY <1>7 DEF TimePasses, Parts, CallsOK, CallType, Paths, Rechecked, Idle
  <1>8. CASE MoveAway
      BY <1>8, MoveFields DEF MoveAway, Same, Paths, Rechecked, Parts
  <1>9. CASE Restart
      BY <1>9 DEF Restart, Event, Parts, CallsOK, CallType, Paths, Rechecked, Idle
  <1>10. CASE Sweep
      BY <1>10 DEF Sweep, Parts, CallsOK, CallType, Paths, Rechecked, Idle
  <1>11. CASE UNCHANGED vars
      BY <1>11 DEF vars, Parts, CallsOK, CallType, Paths, Rechecked, Idle
  <1> QED BY <1>1, <1>2, <1>3, <1>4, <1>5, <1>6, <1>7, <1>8, <1>9, <1>10, <1>11 DEF Next

\* The inductive invariant of ResumesWhatWasInterrupted.
ResumeInv == AgentInv /\ Told /\ ResumeOK

\* ResumeInv holds initially.
LEMMA InitResume == ASSUME Init PROVE ResumeInv
  <1>1. \A c \in Calls : call[c].pc = "idle"
    BY DEF Init, Idle
  <1> QED BY <1>1, InitAgent, InitTold DEF ResumeInv, ResumeOK

\* Every step keeps ResumeInv.
LEMMA StepResume == ASSUME ~ TimerOverlaps, ResumeInv, [Next]_vars PROVE ResumeInv'
  BY StepAgent, StepTold, StepResumeOK, StepRechecked DEF ResumeInv, AgentInv, ClaimInv

\* What a resume then starts on.
LEMMA ResumeStarts ==
  ASSUME ResumeInv, NEW c \in Calls, Resumes(c)
  PROVE  \/ Interrupted(LatestStatus(card))
         \/ LatestStatus(card) = "completed" /\ fate[Latest(card)] # "completed"
  <1>1. MayResume(Latest(card))
    BY DEF Resumes, ResumeInv, ResumeOK
  <1>2. PICK l \in Run : l = Latest(card)
    BY <1>1 DEF MayResume
  <1>3. LatestStatus(card) = card.rec[l]
    BY <1>2, RunsAssumption DEF LatestStatus, NoRun, Run
  <1>4. /\ Ended(card.rec[l]) /\ ~ Refused(l)
        /\ fate[l] \in {"none", "cancelled"}
    BY <1>1, <1>2 DEF MayResume
  <1>5. card.rec[l] \in Status /\ Truth(l, card.rec[l])
    BY ShownStatus DEF ResumeInv, AgentInv, ClaimInv, Told, Truthful
  <1>6. card.rec[l] \notin {"limited", "broken"}
    BY <1>4, <1>5 DEF Truth, Refused
  <1>7. card.rec[l] \in {"interrupted", "cancelled", "completed"}
    BY <1>4, <1>5, <1>6 DEF Status, Ended
  <1> QED BY <1>2, <1>3, <1>4, <1>7 DEF Interrupted

\* The resume after a restart and its delayed retry start a step only if its latest
\* run is an interruption, or was ended by the user and shown as interrupted again by
\* a copy of revive: whatever ends, moves, retries and restarts come between their
\* first look, their second look under the claim and the start (resumeTask,
\* runLaneRerunOnce, enqueueKanbanTaskSession).
THEOREM ResumesWhatWasInterrupted == ~ TimerOverlaps /\ Spec => ResumesInterrupted
  <1> SUFFICES ASSUME ~ TimerOverlaps PROVE Spec => ResumesInterrupted
    OBVIOUS
  <1>1. Init => ResumeInv
    BY InitResume
  <1>2. ResumeInv /\ [Next]_vars => ResumeInv'
    BY StepResume
  <1>3. ResumeInv /\ [Next]_vars
          => [\A c \in Calls : Resumes(c) =>
                \/ Interrupted(LatestStatus(card))
                \/ LatestStatus(card) = "completed" /\ fate[Latest(card)] # "completed"]_vars
    BY ResumeStarts
  <1> QED BY <1>1, <1>2, <1>3, PTL DEF Spec, ResumesInterrupted

=============================================================================
