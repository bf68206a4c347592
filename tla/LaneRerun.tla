------------------------------ MODULE LaneRerun ------------------------------
(***************************************************************************)
(* The ways one interrupted step of a card's lane is run again.            *)
(*                                                                         *)
(* Four paths start a new session for a step that a restart, a cancelled   *)
(* turn or a rate limit has ended: the resume after the startup sweep (and *)
(* its delayed retry), POST revive, PATCH retryTrigger and the rate-limit  *)
(* timer.  Each reads the card, decides, and starts an agent, which takes  *)
(* seconds; the first three claim the lane (lane-rerun-claim.ts) first.    *)
(*                                                                         *)
(* The lane is one column with automation and the step its last one; the   *)
(* board has a free slot (a full board is KanbanSessionQueue's subject).   *)
(* A call is one run of a path; its steps are the stretches of code        *)
(* between two awaits that other calls can get into.  taskStore.save       *)
(* merges the lane records and overwrites the rest (TaskLaneRecords); the  *)
(* records keep the order of their sessions, as only overlapping starts     *)
(* could store them out of order.                                           *)
(***************************************************************************)
EXTENDS Integers, FiniteSets, FiniteSetsExt

CONSTANTS
  Calls,          \* overlapping runs of the paths
  Kinds,          \* the paths that may run, of AllKinds
  FirstStep,      \* TRUE: the step is the lane's first, so revive re-enters the column
  MaxRuns,        \* bound: lane records ever written
  TimerOverlaps,  \* TRUE: the rate-limit timer may fire while another call is under way
  MaxEvents       \* bound: requests, moves of the card by the user and restarts, together

AllKinds == {"resume", "revive", "retry", "timer"}

ASSUME KindsAssumption == Kinds \subseteq AllKinds
ASSUME FlagsAssumption == FirstStep \in BOOLEAN /\ TimerOverlaps \in BOOLEAN
ASSUME RunsAssumption == MaxRuns \in Nat /\ MaxRuns >= 1

Run == 1..MaxRuns           \* session ids, in the order of their lane records
NoRun == 0

\* "interrupted": timed_out with restart_interrupted; "cancelled": failed with
\* turn_cancelled; "limited": failed with rate_limited; "broken": failed with
\* environment_failure.
Status == {"none", "running", "completed", "interrupted", "cancelled", "limited", "broken"}

VARIABLES
  card,       \* the stored card: in the lane or not, triggerSessionId, lane records
  early,      \* runs whose retryAfterAt is still in the future
  up,         \* sessions the process manager has a live process of
  turn,       \* those of them that work on the step
  fate,       \* how a session's turn ended, in the session history
  auto,       \* activeAutomations' entry of the card and the call that made it
  job,        \* the board queue's entry of the card
  claim,      \* the lane is claimed for a rerun
  timer,      \* the rate-limit timer: the run it reruns
  delayed,    \* a delayed resume is armed
  boot,       \* startup: the sweep, then the resume, then done
  call,       \* the calls
  ender,      \* the completion handler of a followed session, after its kill
  next,       \* the next session id
  events,     \* requests, moves and restarts so far
  disturbed   \* a start has failed or the user moved the card (history, for RerunHappens)

cardVars == <<card, early>>
procVars == <<up, turn, fate, next>>
memVars  == <<auto, job, timer, delayed>>
vars == <<card, early, up, turn, fate, auto, job, claim, timer, delayed, boot, call, ender,
          next, events, disturbed>>

Card == [inLane : BOOLEAN, trigger : Run \cup {NoRun}, rec : [Run -> Status]]

Pcs == {"idle", "claim", "recheck", "edit", "adopt", "clear", "enter", "enqueue",
        "starting", "spawned", "started"}

NoAuto == [st |-> "none", sid |-> NoRun]
NoJob == [st |-> "none", sid |-> NoRun]

Holding == {"recheck", "edit", "enter", "enqueue", "starting", "spawned", "started"}

\* The calls that have claimed the lane; the timer never does.
Holders == {c \in Calls : call[c].pc \in Holding /\ call[c].kind # "timer"}

-----------------------------------------------------------------------------
(* Reading the card *)

Ended(status) == status \notin {"none", "running"}

\* mergeLaneSessions of a saved copy with the stored row: an ended record wins.
MergeStatus(stored, incoming) ==
  IF incoming = "none" \/ (incoming = "running" /\ Ended(stored)) THEN stored ELSE incoming

\* taskStore.save: the copy's column and trigger, the merged lane records.
Saved(copy) == [copy EXCEPT !.rec = [s \in Run |-> MergeStatus(card.rec[s], copy.rec[s])]]

Latest(t) == Max({s \in Run : t.rec[s] # "none"} \cup {NoRun})

LatestStatus(t) == IF Latest(t) = NoRun THEN "none" ELSE t.rec[Latest(t)]

RunningIn(t) == {s \in Run : t.rec[s] = "running"}

\* findLiveColumnSession: running by its record and alive by the process manager.
Live(t) == RunningIn(t) \cap up

\* hasLaneRunStartedSince, for a copy read earlier and the card of now.
StartedSince(seen, fresh) ==
  \/ fresh.trigger # NoRun /\ fresh.trigger # seen.trigger
  \/ ~ RunningIn(fresh) \subseteq RunningIn(seen)

\* Mutant of Decide: a rerun planned for later is dropped.
DecideNow(t) ==
  IF \/ ~ t.inLane
     \/ t.trigger # NoRun /\ t.trigger # Latest(t)
     \/ RunningIn(t) # {}
     \/ LatestStatus(t) \notin {"interrupted", "cancelled"}
     \/ Latest(t) \in early
  THEN "skip" ELSE "resume"

\* decideInterruptedLaneResume
Decide(t) ==
  IF \/ ~ t.inLane
     \/ t.trigger # NoRun /\ t.trigger # Latest(t)
     \/ RunningIn(t) # {}
     \/ LatestStatus(t) \notin {"interrupted", "cancelled"}
  THEN "skip"
  ELSE IF Latest(t) \in early THEN "wait" ELSE "resume"

\* endStaleLaneRecord: by the session's history, else interrupted by the restart.
StaleStatus(s) == IF fate[s] # "none" THEN fate[s] ELSE "interrupted"

\* sanitizeStaleCurrentLaneAutomation: end the records of dead sessions and
\* drop a dead trigger.
Sanitized(t) ==
  [t EXCEPT !.trigger = IF t.trigger \in up THEN t.trigger ELSE NoRun,
            !.rec = [s \in Run |-> IF t.rec[s] = "running" /\ s \notin up
                                   THEN StaleStatus(s) ELSE t.rec[s]]]

\* reviveMissingEntryAutomations' conditions on the sanitized card.
Revivable(t) ==
  /\ t.inLane
  /\ t.trigger = NoRun
  /\ Live(t) = {}
  /\ LatestStatus(t) \notin {"completed", "broken"}
  /\ ~ (LatestStatus(t) = "limited" /\ Latest(t) \in early)

\* canRunRateLimitRetry, for the run the timer was armed for.
CanRunRetry(t, failed) ==
  /\ t.inLane
  /\ RunningIn(t) = {}
  /\ Latest(t) = failed
  /\ LatestStatus(t) \in {"limited", "cancelled"}

-----------------------------------------------------------------------------
Idle == [kind |-> "none", pc |-> "idle", seen |-> [inLane |-> FALSE, trigger |-> NoRun,
         rec |-> [s \in Run |-> "none"]], sid |-> NoRun, force |-> FALSE, own |-> FALSE]

NoEnder == [sid |-> NoRun, copy |-> Idle.seen]

\* The lane has been entered: its first session runs and is followed.
Init ==
  /\ card = [inLane |-> TRUE, trigger |-> 1,
             rec |-> [s \in Run |-> IF s = 1 THEN "running" ELSE "none"]]
  /\ early = {}
  /\ up = {1} /\ turn = {1} /\ fate = [s \in Run |-> "none"]
  /\ auto = [st |-> "running", sid |-> 1]
  /\ job = [st |-> "running", sid |-> 1]
  /\ claim = FALSE /\ timer = NoRun /\ delayed = FALSE /\ boot = "done"
  /\ call = [c \in Calls |-> Idle]
  /\ ender = NoEnder
  /\ next = 2
  /\ events = 0
  /\ disturbed = FALSE

-----------------------------------------------------------------------------
(* A path begins: it reads the card *)

Event == events < MaxEvents /\ events' = events + 1

\* Without TimerOverlaps the timer's call and the others take turns.
InTurn(kind) ==
  \/ TimerOverlaps
  \/ \A c \in Calls : call[c].pc = "idle"
  \/ kind # "timer" /\ \A c \in Calls : call[c].kind # "timer"

Begin(c, kind, force, pc) ==
  /\ kind \in Kinds
  /\ call[c].pc = "idle"
  /\ InTurn(kind)
  /\ boot # "sweep"
  /\ call' = [call EXCEPT ![c] = [Idle EXCEPT !.kind = kind, !.pc = pc, !.seen = card,
                                               !.force = force]]

\* resumeInterruptedLaneSteps after the startup sweep lists the cards.
StartupResume(c) ==
  /\ boot = "resume"
  /\ boot' = "done"
  /\ Begin(c, "resume", FALSE, "claim")
  /\ UNCHANGED <<cardVars, procVars, memVars, claim, ender, events, disturbed>>

\* The delayed resume's timer: resumeInterruptedLaneStep reads the card again.
DelayedResume(c) ==
  /\ delayed /\ early = {}
  /\ delayed' = FALSE
  /\ Begin(c, "resume", FALSE, "claim")
  /\ UNCHANGED <<cardVars, procVars, auto, job, timer, claim, boot, ender, events, disturbed>>

\* POST revive lists the cards, PATCH retryTrigger reads its card.
Request(c, kind, force) ==
  /\ Event
  /\ card.inLane
  /\ Begin(c, kind, force, "claim")
  /\ UNCHANGED <<cardVars, procVars, memVars, claim, boot, ender, disturbed>>

\* RateLimitRetryScheduler's timer: runRateLimitRetry reads and checks the card.
TimerFires(c) ==
  /\ timer # NoRun /\ timer \notin early
  /\ timer' = NoRun
  /\ IF CanRunRetry(card, timer) THEN Begin(c, "timer", FALSE, "adopt")
     ELSE "timer" \in Kinds /\ UNCHANGED call
  /\ UNCHANGED <<cardVars, procVars, auto, job, delayed, claim, boot, ender, events, disturbed>>

-----------------------------------------------------------------------------
(* Claiming the lane *)

\* Mutant of ClaimFree: the claim is not looked at.
ClaimUnchecked == TRUE

\* claimLaneRerun finds no claim of this lane.
ClaimFree == ~ claim

Step(c, pc) == call' = [call EXCEPT ![c].pc = pc]
Quit(c) == call' = [call EXCEPT ![c] = Idle]

TakeClaim(c, seen) ==
  /\ ClaimFree
  /\ claim' = TRUE
  /\ call' = [call EXCEPT ![c].pc = "recheck", ![c].seen = seen]

\* resumeTask on the card as it was listed.
ClaimResume(c) ==
  /\ call[c].pc = "claim" /\ call[c].kind = "resume"
  /\ LET d == Decide(call[c].seen)
     IN \/ d = "resume" /\ TakeClaim(c, call[c].seen) /\ UNCHANGED delayed
        \/ (d = "skip" \/ (d = "resume" /\ ~ ClaimFree)) /\ Quit(c) /\ UNCHANGED <<claim, delayed>>
        \/ d = "wait" /\ delayed' = TRUE /\ Quit(c) /\ UNCHANGED claim
  /\ UNCHANGED <<cardVars, procVars, auto, job, timer, boot, ender, events, disturbed>>

\* revive: sanitize the listed card and save it if that changed it, then claim.
ClaimRevive(c) ==
  /\ call[c].pc = "claim" /\ call[c].kind = "revive"
  /\ LET t == Sanitized(call[c].seen)
     IN /\ card' = IF t # call[c].seen THEN Saved(t) ELSE card
        /\ \/ Revivable(t) /\ TakeClaim(c, t)
           \/ ~ (Revivable(t) /\ ClaimFree) /\ Quit(c) /\ UNCHANGED claim
  /\ UNCHANGED <<early, procVars, memVars, boot, ender, events, disturbed>>

\* PATCH retryTrigger
ClaimRetry(c) ==
  /\ call[c].pc = "claim" /\ call[c].kind = "retry"
  /\ \/ TakeClaim(c, call[c].seen)
     \/ ~ ClaimFree /\ Quit(c) /\ UNCHANGED claim
  /\ UNCHANGED <<cardVars, procVars, memVars, boot, ender, events, disturbed>>

\* Mutant of Release: an early return keeps the claim.
ReleaseKept(c) == Quit(c) /\ UNCHANGED claim

\* The call gives up; the finally of its path releases the claim.
Release(c) == Quit(c) /\ claim' = FALSE

-----------------------------------------------------------------------------
(* Under the claim: the card is read again *)

\* runLaneRerunOnce and retryTrigger give up on the fresh card.
Overtaken(c) ==
  \/ StartedSince(call[c].seen, card)
  \/ call[c].kind # "retry" /\ ~ card.inLane

\* revive of the lane's first step re-enters the column through the orchestrator.
ReEnters(c) == call[c].kind = "revive" /\ FirstStep

\* Mutant of MayStart: the resume keeps the decision made before the claim.
MayStartAsDecided(c) == Live(card) = {}

\* The live-session check of enqueueKanbanTaskSession; the resume decides again.
MayStart(c) ==
  /\ Live(card) = {}
  /\ call[c].kind = "resume" => Decide(card) = "resume"

GiveUp(c) ==
  /\ call[c].pc = "recheck"
  /\ \/ Overtaken(c)
     \/ call[c].kind # "retry" /\ ~ ReEnters(c) /\ ~ MayStart(c)
     \/ ReEnters(c) /\ auto.st # "none"
     \/ call[c].kind = "retry" /\ Live(card) # {} /\ ~ call[c].force
  /\ Release(c)
  /\ UNCHANGED <<cardVars, procVars, memVars, boot, ender, events, disturbed>>

RecheckStarts(c) ==      \* the resume, or revive of a later step
  /\ call[c].pc = "recheck" /\ call[c].kind # "retry"
  /\ ~ ReEnters(c)
  /\ ~ Overtaken(c)
  /\ MayStart(c)
  /\ Step(c, "enqueue")
  /\ UNCHANGED <<cardVars, procVars, memVars, claim, boot, ender, events, disturbed>>

\* handleColumnTransitionData: the lane has no automation that is queued or running.
ReEnter(c) ==
  /\ call[c].pc = "recheck" /\ ReEnters(c)
  /\ ~ Overtaken(c)
  /\ auto.st = "none"
  /\ auto' = [st |-> "queued", sid |-> NoRun]
  /\ call' = [call EXCEPT ![c].pc = "enter", ![c].own = TRUE]
  /\ UNCHANGED <<cardVars, procVars, job, timer, delayed, claim, boot, ender, events, disturbed>>

\* A live session is only replaced with force: forget the card, then end it.
RecheckRetry(c) ==
  /\ call[c].pc = "recheck" /\ call[c].kind = "retry"
  /\ ~ Overtaken(c)
  /\ LET live == Live(card)
         ended == IF live = {} THEN {} ELSE {Max(live)}
     IN /\ live # {} => call[c].force
        /\ up' = up \ ended /\ turn' = turn \ ended
        /\ IF live = {} THEN UNCHANGED <<auto, timer>> ELSE auto' = NoAuto /\ timer' = NoRun
        /\ call' = [d \in Calls |-> [call[d] EXCEPT
             !.pc = IF d = c THEN "edit" ELSE @,
             !.own = @ /\ live = {},
             !.seen.rec = [s \in Run |-> IF d = c /\ s \in ended /\ @[s] = "running"
                                         THEN "completed" ELSE @[s]]]]
  /\ UNCHANGED <<cardVars, fate, next, job, delayed, claim, boot, ender, events, disturbed>>

\* retryTrigger saves the card it read first, without its trigger, and drops the
\* queue entry; enqueueKanbanTaskSession looks for a live session in that copy.
EditRetry(c) ==
  /\ call[c].pc = "edit"
  /\ LET edited == [call[c].seen EXCEPT !.trigger = NoRun]
     IN /\ card' = Saved(edited)
        /\ call' = [call EXCEPT
             ![c].pc = IF Live(edited) = {} THEN "enqueue" ELSE "started",
             ![c].sid = IF Live(edited) = {} THEN NoRun ELSE Max(Live(edited))]
  /\ job' = NoJob
  /\ UNCHANGED <<early, procVars, auto, timer, delayed, claim, boot, ender, events, disturbed>>

-----------------------------------------------------------------------------
(* The rate-limit timer: no claim *)

\* isLiveRunningAutomation, for a run with session s.
Followed(s) == auto.st = "running" /\ auto.sid # s /\ auto.sid \in up

Disown(c) == [d \in Calls |-> [call[d] EXCEPT !.own = FALSE]]

AdoptRetry(c) ==
  /\ call[c].pc = "adopt"
  /\ IF Followed(NoRun) \/ ~ card.inLane
     THEN Quit(c) /\ UNCHANGED auto
     ELSE /\ auto' = [st |-> "queued", sid |-> NoRun]
          /\ call' = [Disown(c) EXCEPT ![c].pc = "clear", ![c].own = TRUE]
  /\ UNCHANGED <<cardVars, procVars, job, timer, delayed, claim, boot, ender, events, disturbed>>

\* The card read when the timer fired is saved without its trigger.
ClearRetry(c) ==
  /\ call[c].pc = "clear"
  /\ card' = Saved([call[c].seen EXCEPT !.trigger = NoRun])
  /\ job' = NoJob
  /\ Step(c, "enter")
  /\ UNCHANGED <<early, procVars, auto, timer, delayed, claim, boot, ender, events, disturbed>>

\* createAutomationSession: a card with a trigger session keeps it.
Enter(c) ==
  /\ call[c].pc = "enter"
  /\ call' = [call EXCEPT ![c].pc = IF card.trigger = NoRun THEN "enqueue" ELSE "started",
                          ![c].sid = card.trigger]
  /\ UNCHANGED <<cardVars, procVars, memVars, claim, boot, ender, events, disturbed>>

-----------------------------------------------------------------------------
(* Starting the session *)

IgnoresTrigger(c) == call[c].kind # "timer" /\ ~ ReEnters(c)

\* enqueue: an entry of the card is stale once the card has no trigger or left the lane.
EntryHolds == job.st # "none" /\ card.inLane /\ card.trigger # NoRun

\* The queue answers with its entry of the card; nothing is started.
EnqueueAnswers(c) ==
  /\ call[c].pc = "enqueue"
  /\ EntryHolds
  /\ call' = [call EXCEPT ![c].pc = "started", ![c].sid = job.sid]
  /\ UNCHANGED <<cardVars, procVars, memVars, claim, boot, ender, events, disturbed>>

\* startKanbanTaskSession refuses: the card left the lane, or has a trigger again.
StartRefused(c) ==
  /\ call[c].pc = "enqueue"
  /\ ~ EntryHolds
  /\ \/ ~ card.inLane /\ job' = NoJob /\ Step(c, "started")
     \/ /\ card.inLane /\ card.trigger # NoRun /\ ~ IgnoresTrigger(c)
        /\ job' = [st |-> "running", sid |-> card.trigger]
        /\ call' = [call EXCEPT ![c].pc = "started", ![c].sid = card.trigger]
  /\ UNCHANGED <<cardVars, procVars, auto, timer, delayed, claim, boot, ender, events, disturbed>>

\* startKanbanTaskSession holds the card it will save while the agent starts.
StartReads(c) ==
  /\ call[c].pc = "enqueue"
  /\ ~ EntryHolds
  /\ card.inLane
  /\ card.trigger = NoRun \/ IgnoresTrigger(c)
  /\ job' = [st |-> "running", sid |-> NoRun]
  /\ call' = [call EXCEPT ![c].pc = "starting", ![c].seen = card]
  /\ UNCHANGED <<cardVars, procVars, auto, timer, delayed, claim, boot, ender, events, disturbed>>

Spawn(c) ==              \* triggerAssignedTaskAgent has a session
  /\ call[c].pc = "starting"
  /\ next \in Run
  /\ next' = next + 1
  /\ up' = up \cup {next} /\ turn' = turn \cup {next}
  /\ call' = [call EXCEPT ![c].pc = "spawned", ![c].sid = next]
  /\ UNCHANGED <<cardVars, fate, memVars, claim, boot, ender, events, disturbed>>

\* No session: a rate limit or a broken environment gets a record of its own,
\* another error only a message; the copy is saved and the slot is freed.
SpawnFails(c, why) ==
  /\ call[c].pc = "starting"
  /\ LET recorded == why # "error"
     IN /\ recorded => next \in Run
        /\ next' = IF recorded THEN next + 1 ELSE next
        /\ early' = IF why = "limited" THEN early \cup {next} ELSE early
        /\ card' = Saved(IF recorded THEN [call[c].seen EXCEPT !.rec[next] = why]
                                     ELSE call[c].seen)
  /\ job' = NoJob
  /\ disturbed' = TRUE
  /\ Step(c, "started")
  /\ UNCHANGED <<up, turn, fate, auto, timer, delayed, claim, boot, ender, events>>

\* Mutant of WithRun: the trigger is set and the lane record is not.
WithRunUnrecorded(t, s) == [t EXCEPT !.trigger = s]

\* The copy with the new session as trigger and its lane record.
WithRun(t, s) == [t EXCEPT !.trigger = s, !.rec[s] = "running"]

StoreRun(c) ==           \* the copy read before the start is saved
  /\ call[c].pc = "spawned"
  /\ card' = Saved(WithRun(call[c].seen, call[c].sid))
  /\ job' = [st |-> "running", sid |-> call[c].sid]
  /\ Step(c, "started")
  /\ UNCHANGED <<early, procVars, auto, timer, delayed, claim, boot, ender, events, disturbed>>

\* adoptLaneRun after a start outside a column transition; a live automation is kept.
AdoptRun(c) ==
  LET s == call[c].sid
  IN IF s = NoRun \/ Followed(s) \/ ~ card.inLane
     THEN UNCHANGED auto /\ Quit(c)
     ELSE auto' = [st |-> "running", sid |-> s] /\ call' = [Disown(c) EXCEPT ![c] = Idle]

\* The automation the call made itself: running, failed (the timer's), or still
\* queued, when a re-entry got no session.
OwnRun(c) ==
  /\ auto' = IF ~ call[c].own THEN auto
             ELSE IF call[c].sid # NoRun THEN [st |-> "running", sid |-> call[c].sid]
             ELSE IF call[c].kind = "timer" THEN NoAuto ELSE auto
  /\ Quit(c)

\* The start returned: the orchestrator follows the run, retryTrigger saves the
\* stored card with it, and the claim is released.
Finish(c) ==
  /\ call[c].pc = "started"
  /\ IF IgnoresTrigger(c) THEN AdoptRun(c) ELSE OwnRun(c)
  /\ card' = IF call[c].kind = "retry" /\ call[c].sid # NoRun
             THEN [card EXCEPT !.trigger = call[c].sid] ELSE card
  /\ claim' = IF call[c].kind = "timer" THEN claim ELSE FALSE
  /\ UNCHANGED <<early, procVars, job, timer, delayed, boot, ender, events, disturbed>>

-----------------------------------------------------------------------------
(* A session ends *)

\* The entry handleAgentCompletion looks at: a queued one takes the card's trigger.
Adopted == IF auto.st = "queued" /\ card.trigger # NoRun
           THEN [st |-> "running", sid |-> card.trigger] ELSE auto

\* A turn outlasts the bookkeeping of its start (KanbanSessionQueue's disturbance
\* "early" is the other case).
Turned(s, how) ==
  /\ s \in turn
  /\ \A c \in Calls : call[c].sid # s
  /\ turn' = turn \ {s}
  /\ fate' = [fate EXCEPT ![s] = how]
  /\ job' = IF job.sid = s THEN NoJob ELSE job

\* The orchestrator follows the session: the handler reads the card and, unless
\* the turn was a success, ends the process before it goes on.
FollowedEnds(s, how) ==
  /\ Turned(s, how)
  /\ ender.sid = NoRun
  /\ Adopted.st = "running" /\ Adopted.sid = s
  /\ auto' = Adopted
  /\ ender' = [sid |-> s, copy |-> card]
  /\ up' = IF how = "completed" THEN up ELSE up \ {s}
  /\ UNCHANGED <<cardVars, timer, delayed, claim, boot, call, next, events, disturbed>>

\* Nobody follows it: settleUnhandledLaneEnd ends the record, if it is running.
UnfollowedEnds(s, how) ==
  /\ Turned(s, how)
  /\ ~ (Adopted.st = "running" /\ Adopted.sid = s)
  /\ auto' = Adopted
  /\ card' = IF card.rec[s] = "running" THEN [card EXCEPT !.rec[s] = how] ELSE card
  /\ early' = IF card.rec[s] = "running" /\ how = "limited" THEN early \cup {s} ELSE early
  /\ UNCHANGED <<up, timer, delayed, claim, boot, call, ender, next, events, disturbed>>

\* The handler saves the card it read before the kill, plans the rerun of a
\* cancelled or limited step and ends the process.
EndSaved ==
  LET s == ender.sid
      how == fate[s]
      copy == IF ender.copy.rec[s] = "running" THEN [ender.copy EXCEPT !.rec[s] = how] ELSE ender.copy
      again == how \in {"cancelled", "limited"} /\ copy.rec[s] = how
  IN /\ s # NoRun
     /\ card' = Saved(copy)
     /\ early' = IF again THEN early \cup {s} ELSE early
     /\ timer' = IF again THEN s ELSE timer
     /\ up' = up \ {s}
     /\ auto' = IF auto.sid = s THEN NoAuto ELSE auto
     /\ call' = IF auto.sid = s THEN Disown(s) ELSE call
     /\ ender' = NoEnder
     /\ UNCHANGED <<turn, fate, next, job, delayed, claim, boot, events, disturbed>>

TimePasses ==            \* the planned rerun times are reached
  /\ early # {}
  /\ early' = {}
  /\ UNCHANGED <<card, procVars, memVars, claim, boot, call, ender, events, disturbed>>

\* PATCH columnId: the running sessions of the lane are ended and recorded, the
\* trigger is cleared, the automation and the timer are dropped.
MoveAway ==
  /\ Event
  /\ card.inLane /\ boot # "sweep"
  /\ LET gone == RunningIn(card) \cup ({card.trigger} \ {NoRun})
     IN /\ card' = [inLane |-> FALSE, trigger |-> NoRun,
                    rec |-> [s \in Run |-> IF card.rec[s] = "running" THEN "completed" ELSE card.rec[s]]]
        /\ up' = up \ gone /\ turn' = turn \ gone
  /\ job' = NoJob /\ auto' = NoAuto /\ timer' = NoRun
  /\ call' = Disown(card)
  /\ disturbed' = TRUE
  /\ UNCHANGED <<early, fate, next, delayed, claim, boot, ender>>

-----------------------------------------------------------------------------
(* Restart *)

Restart ==               \* every process and everything in memory is gone
  /\ Event
  /\ up' = {} /\ turn' = {}
  /\ auto' = NoAuto /\ job' = NoJob /\ timer' = NoRun /\ delayed' = FALSE
  /\ claim' = FALSE
  /\ call' = [c \in Calls |-> Idle]
  /\ ender' = NoEnder
  /\ boot' = "sweep"
  /\ UNCHANGED <<cardVars, fate, next, disturbed>>

Sweep ==                 \* endStaleRunningLaneSessionsOnStartup
  /\ boot = "sweep"
  /\ card' = Sanitized(card)
  /\ early' = early \cup {s \in Run : card.rec[s] = "running" /\ fate[s] = "limited"}
  /\ boot' = "resume"
  /\ UNCHANGED <<procVars, memVars, claim, call, ender, events, disturbed>>

-----------------------------------------------------------------------------
CallStep(c) ==
  \/ ClaimResume(c) \/ ClaimRevive(c) \/ ClaimRetry(c)
  \/ GiveUp(c) \/ RecheckStarts(c) \/ ReEnter(c) \/ RecheckRetry(c) \/ EditRetry(c)
  \/ AdoptRetry(c) \/ ClearRetry(c) \/ Enter(c)
  \/ EnqueueAnswers(c) \/ StartRefused(c) \/ StartReads(c)
  \/ Spawn(c) \/ StoreRun(c) \/ Finish(c)

Wakes(c) == StartupResume(c) \/ DelayedResume(c) \/ TimerFires(c)

Ends == {"completed", "cancelled", "limited"}

Next ==
  \/ \E c \in Calls :
       \/ CallStep(c) \/ Wakes(c)
       \/ Request(c, "revive", FALSE)
       \/ \E force \in BOOLEAN : Request(c, "retry", force)
       \/ \E why \in {"limited", "broken", "error"} : SpawnFails(c, why)
  \/ \E s \in Run, how \in Ends : FollowedEnds(s, how) \/ UnfollowedEnds(s, how)
  \/ EndSaved \/ TimePasses \/ MoveAway \/ Restart \/ Sweep

Spec == Init /\ [][Next]_vars

\* Timers fire, awaited calls return and the startup sequence runs to its end;
\* agents need not finish and users need not do anything.
Fairness ==
  /\ \A c \in Calls : WF_vars(CallStep(c))
  /\ WF_vars(\E c \in Calls : Wakes(c))
  /\ WF_vars(EndSaved) /\ WF_vars(TimePasses) /\ WF_vars(Sweep)

FairSpec == Spec /\ Fairness

-----------------------------------------------------------------------------
(* Types; a card's trigger has a lane record, in the store and in every copy. *)
Coherent(t) == t \in Card /\ (t.trigger # NoRun => t.rec[t.trigger] # "none")

TypeOK ==
  /\ Coherent(card)
  /\ early \subseteq Run /\ up \subseteq Run /\ turn \subseteq up
  /\ fate \in [Run -> {"none"} \cup Ends]
  /\ auto \in [st : {"none", "queued", "running"}, sid : Run \cup {NoRun}]
  /\ job \in [st : {"none", "running"}, sid : Run \cup {NoRun}]
  /\ claim \in BOOLEAN /\ timer \in Run \cup {NoRun} /\ delayed \in BOOLEAN
  /\ boot \in {"sweep", "resume", "done"}
  /\ call \in [Calls -> [kind : AllKinds \cup {"none"}, pc : Pcs, seen : Card,
                         sid : Run \cup {NoRun}, force : BOOLEAN, own : BOOLEAN]]
  /\ \A c \in Calls : Coherent(call[c].seen)
  /\ ender \in [sid : Run \cup {NoRun}, copy : Card] /\ Coherent(ender.copy)
  /\ next \in 1..(MaxRuns + 1)
  /\ events \in Nat /\ disturbed \in BOOLEAN

(* The claim is held by one call while it is set and by none when it is not:   *)
(* no early return of a path keeps it, and no rerun goes on without it.        *)
ClaimHeldByOne ==
  IF claim THEN \E c \in Calls : Holders = {c} ELSE Holders = {}

(* One rerun at a time per card lane: however the resume, revive and           *)
(* retryTrigger overlap, with each other, with ending sessions, a move of the  *)
(* card and restarts, at most one agent works on the step.                     *)
OneAgent == Cardinality(turn) <= 1

Resumes(c) == call[c].kind = "resume" /\ call[c].pc = "enqueue" /\ call'[c].pc = "starting"

Interrupted(status) == status \in {"interrupted", "cancelled"}

(* The startup resume and its delayed retry only start a step whose latest run *)
(* is an interruption, although they decided on a card read before the claim,  *)
(* maybe long ago: never one that reached its end, met a limit or could not be *)
(* started.  A run that the user ended (a forced retry, a column change) is    *)
(* excused, because a copy that revive listed before may have brought the      *)
(* interruption back.                                                          *)
ResumesInterrupted ==
  [][\A c \in Calls : Resumes(c) =>
       \/ Interrupted(LatestStatus(card))
       \/ LatestStatus(card) = "completed" /\ fate[Latest(card)] # "completed"]_vars

(* The same without the excuse.  Two copies that POST revive saves late hide   *)
(* and show again that the user ended the run (LaneRerunResume.cfg).           *)
ResumesNothingElse ==
  [][\A c \in Calls : Resumes(c) => Interrupted(LatestStatus(card))]_vars

(* revive leaves a lane alone whose last step has completed.  It does not      *)
(* always: the card it listed may be old, it is judged without a second look   *)
(* under the claim, and saving it erases the trigger of the run that completed *)
(* meanwhile (LaneRerunRevive.cfg finds the behaviour).                        *)
RevivesUnfinished ==
  [][\A c \in Calls : call[c].kind = "revive" /\ call[c].pc = "enqueue" /\ call'[c].pc = "starting"
                        => LatestStatus(card) # "completed"]_vars

Interruption(s) == card.inLane /\ Latest(card) = s /\ card.rec[s] \in {"interrupted", "cancelled"}

(* A step that a restart or a cancelled turn interrupted is run again, unless  *)
(* its card is moved, a start fails, or the bound on runs is reached.          *)
RerunHappens ==
  \A s \in Run : Interruption(s) ~> (~ Interruption(s) \/ disturbed \/ next \notin Run)
=============================================================================
