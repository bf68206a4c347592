--------------------------- MODULE LaneAutomation ---------------------------
(***************************************************************************)
(* The life of a card's lane automation (workflow-orchestrator.ts): the    *)
(* steps of a lane run one after the other, each in a session of its own;  *)
(* a failed or silent Dev step is run again within a budget, a Done step   *)
(* never; a card that leaves its lane takes nothing of it along; finished  *)
(* sessions are ended, the last ones with the card's worktree.             *)
(*                                                                         *)
(* One card.  A call is a run of a handler; its steps are the stretches    *)
(* between two waits.  The store answers at once (SQLite, memory), so a    *)
(* call gives way to others only while an agent is being started or ended; *)
(* over such a wait it keeps the card it read, the automation it found and *)
(* its event.  An ended automation is kept until the next one replaces it: *)
(* handlers skip it, so the timer that forgets it changes nothing.         *)
(*                                                                         *)
(* Left out: rate limits, cancelled turns and reruns (LaneRerun), the      *)
(* ralph_loop mode, environment failures, hold labels, the Blocked route,  *)
(* the order of the board queue (KanbanSessionQueue).                      *)
(***************************************************************************)
EXTENDS Integers, FiniteSets, FiniteSetsExt

CONSTANTS
  Steps,         \* number of automation steps of each lane
  MaxRecovery,   \* maxRecoveryAttempts of the Dev supervision
  AutoAdvance,   \* autoAdvanceOnSuccess of the Dev lane
  Fallbacks,     \* the values of the card's enableAutomaticFallback
  Moves,         \* moves of move_card that happen: pairs of columns
  EchoOverlaps,  \* TRUE: a broken prompt may be reported while its session's end is handled
  BoardFull,     \* TRUE: a start may have to wait in the board queue
  StartsFail,    \* TRUE: session/new may fail
  MaxSessions, MaxVisits, MaxEvents, MaxCalls   \* bounds

Lanes == {"dev", "done"}               \* the columns with automation
Columns == Lanes \cup {"todo", "blocked"}
Session == 1..MaxSessions              \* in the order of their start
Visit == 1..MaxVisits                  \* automation objects, in the order of their creation
Calls == 1..MaxCalls
None == 0

ASSUME StepsAssumption == Steps \in [Lanes -> Nat \ {0}]
ASSUME BudgetAssumption == MaxRecovery \in Nat
ASSUME FlagsAssumption == {AutoAdvance, EchoOverlaps, BoardFull, StartsFail} \subseteq BOOLEAN /\ Fallbacks \subseteq BOOLEAN
ASSUME MovesAssumption == Moves \subseteq Columns \X Columns
ASSUME BoundsAssumption == {MaxSessions, MaxVisits, MaxEvents, MaxCalls} \subseteq Nat

VARIABLES
  card,       \* the stored card: column, triggerSessionId, status of the lane records
  run,        \* what a session was started for: automation, lane and step
  proc,       \* the sessions' agents: working in a turn, idle after it, dead
  reported,   \* sessions that reported completion inside their turn
  okay,       \* sessions whose turn ended normally, in the session history
  echo,       \* broken prompts whose failure is still to be reported
  auto,       \* the automation objects
  active,     \* activeAutomations' entry of the card
  waiting,    \* the card's entry in the board queue: the step that waits
  ended,      \* endedSessionIds
  deferred,   \* deferredTeardownSessionIds
  departed,   \* departedLaneSessions
  teardown,   \* teardownSessionIds
  cardEnded,  \* cardEndedSessionIds
  pending,    \* pendingWorktreeCleanup's sessions
  worktree,   \* the card's worktree exists
  cleaning,   \* runDoneWorktreeCleanup is between its checks and the removal
  call,       \* the calls
  events,     \* moves, failed turns, exits and failed starts so far
  unstarted,  \* automations a start of which failed
  interrupted \* the card was moved while a call waited for an agent's start or end

cardVars  == <<card, run>>
agentVars == <<proc, ended, echo>>
tellVars  == <<reported, okay>>
autoVars  == <<auto, active>>
tearVars  == <<departed, teardown, cardEnded>>
ghostVars == <<events, unstarted, interrupted>>
treeVars  == <<pending, worktree, cleaning>>
vars == <<card, run, proc, reported, okay, echo, auto, active, waiting, ended, deferred, departed,
          teardown, cardEnded, pending, worktree, cleaning, call, events, unstarted, interrupted>>

Status == {"none", "running", "completed", "transitioned", "failed"}
Card == [col : Columns, trigger : Session \cup {None}, rec : [Session -> Status], fallback : BOOLEAN]

NoCard == [col |-> "todo", trigger |-> None, rec |-> [s \in Session |-> "none"], fallback |-> FALSE]
NoAuto == [lane |-> "dev", step |-> 0, status |-> "none", sid |-> None, recoveries |-> 0, signaled |-> {}, fallback |-> FALSE]
NoRun == [auto |-> None, lane |-> "dev", step |-> 0]

Idle == [pc |-> "idle", ev |-> "none", sid |-> None, auto |-> None, why |-> "none", recover |-> FALSE,
         copy |-> NoCard, job |-> NoRun, row |-> NoCard, res |-> "none", got |-> None,
         todo |-> {}, clean |-> FALSE]

Init ==
  /\ card \in {[NoCard EXCEPT !.fallback = value] : value \in Fallbacks}
  /\ run = [s \in Session |-> NoRun]
  /\ proc = [s \in Session |-> "none"]
  /\ reported = {} /\ okay = {} /\ echo = {}
  /\ auto = [a \in Visit |-> NoAuto] /\ active = None /\ waiting = NoRun
  /\ ended = {} /\ deferred = {} /\ departed = {} /\ teardown = {} /\ cardEnded = {}
  /\ pending = {} /\ worktree = FALSE /\ cleaning = FALSE
  /\ call = [c \in Calls |-> Idle]
  /\ events = 0 /\ unstarted = {} /\ interrupted = FALSE

-----------------------------------------------------------------------------
(* The event loop *)

Awaiting == {"idle", "killing", "spawning", "ending"}

\* Nothing else runs on the event loop.
Loop(c) == \A d \in Calls \ {c} : call[d].pc \in Awaiting
Quiet == \A d \in Calls : call[d].pc \in Awaiting

At(c, pc) == call[c].pc = pc /\ Loop(c)

Free(c) == call[c].pc = "idle" /\ \A d \in 1..(c - 1) : call[d].pc # "idle"

Go(c, pc) == call' = [call EXCEPT ![c].pc = pc]
Return(c) == call' = [call EXCEPT ![c] = Idle]

-----------------------------------------------------------------------------
(* The card *)

Ended(status) == status \notin {"none", "running"}

\* mergeLaneSession: an ended record wins over a running one.
MergeStatus(stored, incoming) ==
  IF incoming = "none" \/ (incoming = "running" /\ Ended(stored)) THEN stored ELSE incoming

\* taskStore.save: column and trigger of the copy, merged lane records.
Saved(copy) == [copy EXCEPT !.rec = [s \in Session |-> MergeStatus(card.rec[s], copy.rec[s])]]

\* markTaskLaneSessionStatus of a record that still runs.
Close(t, s, status) == IF t.rec[s] = "running" THEN [t EXCEPT !.rec[s] = status] ELSE t

\* collectTaskSessionIds
SessionsOf(t) == {s \in Session : t.rec[s] # "none"} \cup ({t.trigger} \ {None})

\* isLaneAutomationComplete of the card's present stay in the Done lane.
LaneComplete(t) ==
  \E s \in Session :
    /\ t.rec[s] \in {"completed", "transitioned"}
    /\ run[s].lane = "done" /\ run[s].step = Steps["done"]
    /\ \A r \in Session : r > s /\ t.rec[r] # "none" => run[r].lane = "done"

\* resolveRemainingLaneStepsMoveBlock; moves into Blocked are exempt from it.
StepsRemain ==
  /\ card.trigger # None
  /\ card.col \in Lanes
  /\ run[card.trigger].lane = card.col
  /\ run[card.trigger].step < Steps[card.col]

\* settleEndedLaneSession
Settled(s, ev) ==
  Close(card, s, IF ev = "teardown" \/ run[s].lane # card.col
                 THEN IF s \in okay THEN "completed" ELSE "transitioned"
                 ELSE IF ev = "timeout" \/ (ev = "failed" /\ s \notin okay) THEN "failed" ELSE "completed")

-----------------------------------------------------------------------------
(* Ending agents *)

\* Mutant of Kill: the session is recorded as ended and its agent kept.
KillRecordsOnly(s) == ended' = ended \cup {s} /\ UNCHANGED <<proc, echo>>

\* endSessionProcess: each session once; a prompt in flight breaks.
Kill(s) ==
  /\ ended' = ended \cup {s}
  /\ proc' = [proc EXCEPT ![s] = IF s \in ended THEN @ ELSE "dead"]
  /\ echo' = IF s \notin ended /\ proc[s] = "working" THEN echo \cup {s} ELSE echo

\* Mutant of EndFinished: a session is ended inside its turn.
EndFinishedAtOnce(s, ev) == deferred' = deferred \ {s} /\ Kill(s)

\* endFinishedStepSession: inside its turn, at the next lifecycle event.
EndFinished(s, ev) ==
  IF ev = "report" /\ s \notin ended
  THEN deferred' = deferred \cup {s} /\ UNCHANGED agentVars
  ELSE deferred' = (IF s \in ended THEN deferred ELSE deferred \ {s}) /\ Kill(s)

\* runDoneWorktreeCleanup reads and checks the card, then asks git.
LaunchCleanup == cleaning' = (cleaning \/ (card.col = "done" /\ LaneComplete(card) /\ worktree))

-----------------------------------------------------------------------------
(* Agents and their events *)

Emit(s, ev) ==
  /\ Quiet
  /\ \E c \in Calls : Free(c) /\ call' = [call EXCEPT ![c] = [Idle EXCEPT !.pc = "deliver", !.ev = ev, !.sid = s]]

Report(s) ==             \* report_to_parent, or update_task's synthetic completion
  /\ proc[s] = "working" /\ s \notin reported
  /\ reported' = reported \cup {s}
  /\ Emit(s, "report")
  /\ UNCHANGED <<cardVars, agentVars, okay, autoVars, waiting, deferred, tearVars, treeVars, ghostVars>>

TurnEnds(s) ==
  /\ proc[s] = "working"
  /\ proc' = [proc EXCEPT ![s] = "idle"]
  /\ okay' = okay \cup {s}
  /\ Emit(s, "end")
  /\ UNCHANGED <<cardVars, ended, echo, reported, autoVars, waiting, deferred, tearVars, treeVars, ghostVars>>

Happens == events < MaxEvents /\ events' = events + 1

TurnFails(s) ==          \* the agent's error; the prompt that broke is reported as well
  /\ Happens
  /\ proc[s] = "working"
  /\ proc' = [proc EXCEPT ![s] = "idle"]
  /\ echo' = echo \cup {s}
  /\ Emit(s, "failed")
  /\ UNCHANGED <<cardVars, ended, tellVars, autoVars, waiting, deferred, tearVars, treeVars, unstarted, interrupted>>

PromptBroke(s) ==        \* triggerAcpTaskAgent's catch
  /\ s \in echo
  /\ EchoOverlaps \/ \A c \in Calls : call[c].sid # s
  /\ echo' = echo \ {s}
  /\ Emit(s, "failed")
  /\ UNCHANGED <<cardVars, proc, ended, tellVars, autoVars, waiting, deferred, tearVars, treeVars, ghostVars>>

Exits(s) ==              \* an idle agent exits by itself
  /\ Happens
  /\ proc[s] = "idle" /\ s \in okay /\ s \notin ended
  /\ proc' = [proc EXCEPT ![s] = "dead"]
  /\ Emit(s, "failed")
  /\ UNCHANGED <<cardVars, ended, echo, tellVars, autoVars, waiting, deferred, tearVars, treeVars, unstarted, interrupted>>

-----------------------------------------------------------------------------
(* handleAgentCompletion: whose end is it? *)

Success(ev) == ev \in {"report", "end"}

Deferred(c) == call[c].sid \in deferred /\ call[c].ev # "report"

\* finishDeferredTeardown
EndDeferred(c) ==
  LET s == call[c].sid
  IN /\ At(c, "deliver") /\ Deferred(c)
     /\ deferred' = deferred \ {s}
     /\ Kill(s)
     /\ call' = [call EXCEPT ![c].pc = IF s \in ended THEN "swept" ELSE "killing", ![c].why = "swept"]
     /\ UNCHANGED <<cardVars, tellVars, autoVars, waiting, tearVars, treeVars, ghostVars>>

Killed(c) ==             \* killSession returns
  /\ call[c].pc = "killing" /\ Loop(c)
  /\ call' = [call EXCEPT ![c].pc = call[c].why, ![c].why = "none"]
  /\ UNCHANGED <<cardVars, agentVars, tellVars, autoVars, waiting, deferred, tearVars, treeVars, ghostVars>>

StartPending(c) ==       \* the worktree cleanup that waited for this session
  /\ At(c, "swept")
  /\ pending' = pending \ {call[c].sid}
  /\ IF call[c].sid \in pending THEN LaunchCleanup ELSE UNCHANGED cleaning
  /\ call' = [call EXCEPT ![c].pc = "route", ![c].why = "none"]
  /\ UNCHANGED <<cardVars, agentVars, tellVars, autoVars, waiting, deferred, tearVars, worktree, ghostVars>>

Routing(c) == At(c, "route") \/ (At(c, "deliver") /\ ~ Deferred(c))

Live == active # None /\ auto[active].status \in {"queued", "running"}

\* A queued automation takes the card's trigger session.
Adopted == IF Live /\ auto[active].sid = None /\ card.trigger # None
           THEN [auto EXCEPT ![active].sid = card.trigger, ![active].status = "running"] ELSE auto

Followed(s) == Live /\ Adopted[active].sid = s

\* isPostCompletionTeardownFailure; a card in the Done column is COMPLETED.
PostCompletion(s, ev) ==
  /\ ~ Success(ev)
  /\ card.col = "done"
  /\ \/ s \in teardown
     \/ auto[active].lane = "done" /\ LaneComplete(card)
     \/ card.rec[s] # "none" /\ run[s].lane # "done"

SettleEnded(c) ==        \* the user ended this session
  /\ Routing(c)
  /\ call[c].sid \in cardEnded
  /\ card' = Settled(call[c].sid, "teardown")
  /\ Return(c)
  /\ UNCHANGED <<run, agentVars, tellVars, autoVars, waiting, deferred, tearVars, treeVars, ghostVars>>

\* windDownDepartedSession
WindDown(c) ==
  LET s == call[c].sid
  IN /\ Routing(c)
     /\ s \notin cardEnded /\ s \in departed
     /\ departed' = IF call[c].ev = "report" THEN departed ELSE departed \ {s}
     /\ card' = Close(card, s, "completed")
     /\ EndFinished(s, call[c].ev)
     /\ Return(c)
     /\ UNCHANGED <<run, tellVars, autoVars, waiting, teardown, cardEnded, treeVars, ghostVars>>

Own(c) == Routing(c) /\ call[c].sid \notin cardEnded \cup departed

SettleUnfollowed(c) ==   \* no automation follows it
  /\ Own(c)
  /\ ~ Followed(call[c].sid)
  /\ auto' = Adopted
  /\ card' = Settled(call[c].sid, call[c].ev)
  /\ Return(c)
  /\ UNCHANGED <<run, agentVars, tellVars, active, waiting, deferred, tearVars, treeVars, ghostVars>>

SettleTeardown(c) ==     \* the failure of a finished card's session
  LET s == call[c].sid
  IN /\ Own(c)
     /\ Followed(s) /\ PostCompletion(s, call[c].ev)
     /\ auto' = [auto EXCEPT ![active].signaled = @ \cup {s}]
     /\ card' = Settled(s, "teardown")
     /\ Return(c)
     /\ UNCHANGED <<run, agentVars, tellVars, active, waiting, deferred, tearVars, treeVars, ghostVars>>

\* reconcileExitAfterTurnEnd: the exit of a session whose turn ended is that end.
Reconciled(s, ev) == IF ev = "failed" /\ s \in okay THEN "end" ELSE ev

\* The step of this automation is over; a failed session is ended first.
StepOver(c) ==
  LET s == call[c].sid
      ev == Reconciled(s, call[c].ev)
  IN /\ Own(c)
     /\ Followed(s) /\ ~ PostCompletion(s, call[c].ev)
     /\ auto' = Adopted
     /\ IF Success(ev) THEN UNCHANGED <<deferred, agentVars>> ELSE deferred' = deferred \ {s} /\ Kill(s)
     /\ call' = [call EXCEPT ![c].ev = ev, ![c].auto = active, ![c].copy = card,
          ![c].pc = IF Success(ev) \/ s \in ended THEN "judge" ELSE "killing",
          ![c].why = IF Success(ev) \/ s \in ended THEN "none" ELSE "judge"]
     /\ UNCHANGED <<cardVars, tellVars, active, waiting, tearVars, treeVars, ghostVars>>

-----------------------------------------------------------------------------
(* handleAgentCompletion: what follows the step? *)

AutoOf(c) == auto[call[c].auto]

\* The copy with the outcome in the lane record.
Judged(c) ==
  Close(call[c].copy, call[c].sid, IF Success(call[c].ev) THEN "completed" ELSE "failed")

\* Mutant of HasNext: one step too many.
HasNextInclusive(c) == AutoOf(c).step <= Steps[AutoOf(c).lane]

HasNext(c) == AutoOf(c).step < Steps[AutoOf(c).lane]

\* Mutant of ShouldRecover: the budget is not looked at.
ShouldRecoverAlways(c) ==
  /\ ~ Success(call[c].ev)
  /\ AutoOf(c).lane = "dev"
  /\ call[c].copy.col = AutoOf(c).lane

\* shouldRecover: the Dev lane's supervision, while the budget lasts.
ShouldRecover(c) ==
  /\ ~ Success(call[c].ev)
  /\ AutoOf(c).lane = "dev"
  /\ call[c].copy.col = AutoOf(c).lane
  /\ AutoOf(c).recoveries < MaxRecovery

\* Mutant of CanFallback: the card's setting is not looked at.
CanFallbackUnset(c) == ~ Success(call[c].ev) /\ HasNext(c)

\* Outside Dev a step the watchdog ended is not handed to a fallback agent.
CanFallback(c) ==
  /\ ~ Success(call[c].ev)
  /\ AutoOf(c).fallback
  /\ ~ (call[c].ev = "timeout" /\ AutoOf(c).lane # "dev")
  /\ HasNext(c)

\* The handler's copy without the old trigger.
Cleared(c) ==
  IF Judged(c).trigger = AutoOf(c).sid THEN [Judged(c) EXCEPT !.trigger = None] ELSE Judged(c)

\* The card is saved without the old trigger, its queue entry dropped.
Restart(c) ==
  /\ card' = Saved(Cleared(c))
  /\ waiting' = NoRun

\* createSession is asked for a session of this step.
Job(c, step) == [auto |-> call[c].auto, lane |-> AutoOf(c).lane, step |-> step]

\* startNextAutomationStep, for the next step or a fallback agent
StartNext(c) ==
  /\ At(c, "judge")
  /\ (Success(call[c].ev) /\ HasNext(c)) \/ CanFallback(c)
  /\ Restart(c)
  /\ auto' = [auto EXCEPT ![call[c].auto].step = @ + 1, ![call[c].auto].recoveries = 0,
                          ![call[c].auto].status = "queued", ![call[c].auto].sid = None, ![call[c].auto].signaled = {}]
  /\ call' = [call EXCEPT ![c].pc = "create", ![c].copy = Cleared(c), ![c].recover = ShouldRecover(c),
                          ![c].job = Job(c, AutoOf(c).step + 1),
                          ![c].why = IF Success(call[c].ev) THEN "next" ELSE "fallback"]
  /\ UNCHANGED <<run, agentVars, tellVars, active, deferred, tearVars, treeVars, ghostVars>>

\* recoverAutomation: the same step again, in a new session
Recover(c) ==
  /\ \/ At(c, "judge") /\ ShouldRecover(c) /\ ~ CanFallback(c)
     \/ At(c, "recover")
  /\ Restart(c)
  /\ auto' = [auto EXCEPT ![call[c].auto].recoveries = @ + 1, ![call[c].auto].status = "queued",
                          ![call[c].auto].sid = None, ![call[c].auto].signaled = @ \ {AutoOf(c).sid}]
  /\ call' = [call EXCEPT ![c].pc = "create", ![c].copy = Cleared(c), ![c].why = "recover",
                          ![c].job = Job(c, AutoOf(c).step)]
  /\ UNCHANGED <<run, agentVars, tellVars, active, deferred, tearVars, treeVars, ghostVars>>

NothingFollows(c) ==
  /\ At(c, "judge")
  /\ ~ (Success(call[c].ev) /\ HasNext(c)) /\ ~ CanFallback(c) /\ ~ ShouldRecover(c)
  /\ call' = [call EXCEPT ![c].pc = "finish", ![c].copy = Judged(c)]
  /\ UNCHANGED <<cardVars, agentVars, tellVars, autoVars, waiting, deferred, tearVars, treeVars, ghostVars>>

-----------------------------------------------------------------------------
(* createAutomationSession and the board queue *)

Answer(c, res, s) == call' = [call EXCEPT ![c].pc = "created", ![c].res = res, ![c].got = s]

\* The card has a trigger session: that one is taken for the step's.
CreateTakesTrigger(c) ==
  /\ At(c, "create")
  /\ card.trigger # None
  /\ Answer(c, "session", card.trigger)
  /\ UNCHANGED <<cardVars, agentVars, tellVars, autoVars, waiting, deferred, tearVars, treeVars, ghostVars>>

\* The card's entry is still good; reconcileQueuedEntries drops one of a left column.
Waits == waiting # NoRun /\ waiting.lane = card.col

CreateQueues(c) ==       \* the card waits already, or the board is full
  /\ At(c, "create")
  /\ card.trigger = None
  /\ Waits \/ BoardFull
  /\ waiting' = IF Waits THEN waiting ELSE call[c].job
  /\ Answer(c, "queued", None)
  /\ UNCHANGED <<cardVars, agentVars, tellVars, autoVars, deferred, tearVars, treeVars, ghostVars>>

\* Mutant of Startable: the column is not compared.
StartableAnywhere(job) == card.trigger = None

\* What startKanbanTaskSession asks of the card.
Startable(job) == card.trigger = None /\ card.col = job.lane

\* startKanbanTaskSession holds the card it will save while the agent starts.
CreateStarts(c) ==
  /\ At(c, "create")
  /\ Startable(call[c].job) /\ ~ Waits
  /\ waiting' = NoRun
  /\ call' = [call EXCEPT ![c].pc = "spawning", ![c].row = card]
  /\ UNCHANGED <<cardVars, agentVars, tellVars, autoVars, deferred, tearVars, treeVars, ghostVars>>

\* A slot is free: drainQueue starts the waiting step, unless it is stale.
QueueStarts ==
  /\ Quiet
  /\ waiting # NoRun
  /\ waiting' = NoRun
  /\ IF Startable(waiting)
     THEN \E c \in Calls : /\ Free(c)
                           /\ call' = [call EXCEPT ![c] = [Idle EXCEPT !.pc = "spawning", !.why = "queue",
                                                                       !.job = waiting, !.row = card]]
     ELSE UNCHANGED call
  /\ UNCHANGED <<cardVars, agentVars, tellVars, autoVars, deferred, tearVars, treeVars, ghostVars>>

\* completeRunningSessionsOutsideColumn, the new trigger and its lane record.
WithRun(t, s) ==
  [t EXCEPT !.trigger = s,
            !.rec = [r \in Session |-> IF r = s THEN "running"
                       ELSE IF t.rec[r] = "running" /\ run[r].lane # t.col THEN "completed" ELSE t.rec[r]]]

\* session/new answers; the card read before is saved with the new run.
Spawned(c) ==
  /\ At(c, "spawning")
  /\ \E s \in Session :
       /\ proc[s] = "none" /\ \A r \in 1..(s - 1) : proc[r] # "none"
       /\ proc' = [proc EXCEPT ![s] = "working"]
       /\ run' = [run EXCEPT ![s] = call[c].job]
       /\ card' = Saved(WithRun(call[c].row, s))
       /\ IF call[c].why = "queue" THEN Return(c) ELSE Answer(c, "session", s)
  /\ worktree' = (worktree \/ call[c].job.lane = "dev")
  /\ UNCHANGED <<ended, echo, tellVars, autoVars, waiting, deferred, tearVars, pending, cleaning, ghostVars>>

SpawnFails(c) ==
  /\ Happens
  /\ At(c, "spawning")
  /\ StartsFail
  /\ unstarted' = unstarted \cup {call[c].job.auto}
  /\ card' = Saved(call[c].row)
  /\ IF call[c].why = "queue" THEN Return(c) ELSE Answer(c, "none", None)
  /\ UNCHANGED <<run, agentVars, tellVars, autoVars, waiting, deferred, tearVars, treeVars, interrupted>>

-----------------------------------------------------------------------------
(* The start returned *)

WithSession(c) ==
  [auto EXCEPT ![call[c].auto] =
     IF call[c].res = "session" THEN [@ EXCEPT !.status = "running", !.sid = call[c].got] ELSE @]

Entered(c) ==            \* the transition's start; without a session it stays queued
  /\ At(c, "created") /\ call[c].why = "enter"
  /\ auto' = WithSession(c)
  /\ Return(c)
  /\ UNCHANGED <<cardVars, agentVars, tellVars, active, waiting, deferred, tearVars, treeVars, ghostVars>>

Continued(c) ==          \* the lane goes on; the old session is ended
  /\ At(c, "created") /\ call[c].why # "enter"
  /\ call[c].res # "none"
  /\ auto' = [WithSession(c) EXCEPT ![call[c].auto].signaled =
                IF call[c].why = "recover" THEN @ ELSE @ \cup {call[c].sid}]
  /\ EndFinished(call[c].sid, call[c].ev)
  /\ Return(c)
  /\ UNCHANGED <<cardVars, tellVars, active, waiting, tearVars, treeVars, ghostVars>>

NotContinued(c) ==       \* no session: a failed fallback may still be recovered
  /\ At(c, "created") /\ call[c].why # "enter"
  /\ call[c].res = "none"
  /\ auto' = [auto EXCEPT ![call[c].auto].status = "failed"]
  /\ Go(c, IF call[c].why = "fallback" /\ call[c].recover THEN "recover" ELSE "finish")
  /\ UNCHANGED <<cardVars, agentVars, tellVars, active, waiting, deferred, tearVars, treeVars, ghostVars>>

-----------------------------------------------------------------------------
(* handleAgentCompletion: the lane is over *)

Won(c) == Success(call[c].ev) /\ call[c].why # "next"

Advances(c) == Won(c) /\ AutoAdvance /\ AutoOf(c).lane = "dev" /\ call[c].copy.col = "dev"
TearsDown(c) == Won(c) /\ AutoOf(c).lane = "done" /\ call[c].copy.col = "done"
DoneFailed(c) == ~ Won(c) /\ AutoOf(c).lane = "done"

Over(c) == [auto EXCEPT ![call[c].auto].status = IF Won(c) THEN "completed" ELSE "failed",
                        ![call[c].auto].signaled = @ \cup {call[c].sid}]

\* leaveLane, for the automation objects as they are then.
LeaveLane(col, autos) ==
  IF active # None /\ autos[active].lane = col
  THEN /\ active' = None
       /\ departed' = IF autos[active].status = "running" /\ autos[active].sid # None
                      THEN departed \cup {autos[active].sid} ELSE departed
  ELSE UNCHANGED <<active, departed>>

LaneEnds(c) ==
  /\ At(c, "finish")
  /\ ~ Advances(c) /\ ~ TearsDown(c) /\ ~ DoneFailed(c)
  /\ auto' = Over(c)
  /\ card' = Saved(call[c].copy)
  /\ EndFinished(call[c].sid, call[c].ev)
  /\ Return(c)
  /\ UNCHANGED <<run, tellVars, active, waiting, tearVars, treeVars, ghostVars>>

\* autoAdvanceCard; the call goes on as the transition it emits.
LaneAdvances(c) ==
  /\ At(c, "finish")
  /\ Advances(c)
  /\ auto' = Over(c)
  /\ card' = [Saved(call[c].copy) EXCEPT !.col = "done", !.trigger = None]
  /\ waiting' = NoRun
  /\ LeaveLane("dev", Over(c))
  /\ EndFinished(call[c].sid, call[c].ev)
  /\ call' = [call EXCEPT ![c] = [Idle EXCEPT !.pc = "enter", !.job.lane = "done"]]
  /\ UNCHANGED <<run, tellVars, teardown, cardEnded, treeVars, ghostVars>>

\* teardownFinishedCardSessions, endCardSessionsAfterDoneFailure: the ids are
\* registered, then the processes ended; a session inside its turn comes later.
LaneTearsDown(c) ==
  LET all == SessionsOf(call[c].copy)
      later == IF TearsDown(c) /\ call[c].ev = "report" THEN {call[c].sid} \cap all ELSE {}
  IN /\ At(c, "finish")
     /\ TearsDown(c) \/ DoneFailed(c)
     /\ auto' = Over(c)
     /\ card' = Saved(call[c].copy)
     /\ teardown' = teardown \cup all
     /\ deferred' = deferred \cup later
     /\ call' = [call EXCEPT ![c].pc = "ending", ![c].todo = all \ later, ![c].clean = TearsDown(c)]
     /\ UNCHANGED <<run, agentVars, tellVars, active, waiting, departed, cardEnded, treeVars, ghostVars>>

EndOne(c) ==             \* the next process
  /\ At(c, "ending")
  /\ call[c].todo # {}
  /\ LET s == Min(call[c].todo)
     IN /\ Kill(s)
        /\ deferred' = IF call[c].clean \/ call[c].sid = None THEN deferred ELSE deferred \ {s}
        /\ call' = [call EXCEPT ![c].todo = @ \ {s}]
  /\ UNCHANGED <<cardVars, tellVars, autoVars, waiting, tearVars, treeVars, ghostVars>>

\* Mutant of CleanUp: the session still inside its turn is not waited for.
CleanUpAtOnce(c) ==
  /\ IF call[c].clean THEN LaunchCleanup ELSE UNCHANGED cleaning
  /\ UNCHANGED pending

\* Then the worktree, unless a deferred session is left.
CleanUp(c) ==
  IF ~ call[c].clean THEN UNCHANGED <<pending, cleaning>>
  ELSE IF call[c].ev = "report" THEN pending' = pending \cup {call[c].sid} /\ UNCHANGED cleaning
  ELSE LaunchCleanup /\ UNCHANGED pending

AllEnded(c) ==
  /\ At(c, "ending")
  /\ call[c].todo = {}
  /\ CleanUp(c)
  /\ IF call[c].sid = None THEN UNCHANGED <<deferred, agentVars>> ELSE EndFinished(call[c].sid, call[c].ev)
  /\ Return(c)
  /\ UNCHANGED <<cardVars, tellVars, autoVars, waiting, tearVars, worktree, ghostVars>>

RemoveWorktree ==        \* the branch is on the remote and nothing uncommitted
  /\ cleaning
  /\ cleaning' = FALSE /\ worktree' = FALSE
  /\ UNCHANGED <<cardVars, agentVars, tellVars, autoVars, waiting, deferred, tearVars, pending, call, ghostVars>>

KeepWorktree ==
  /\ cleaning
  /\ cleaning' = FALSE
  /\ UNCHANGED <<cardVars, agentVars, tellVars, autoVars, waiting, deferred, tearVars, pending, worktree, call, ghostVars>>

-----------------------------------------------------------------------------
(* The watchdog *)

\* Mutant of Adoptable: steps counted from zero are compared with steps counted from one.
AdoptableShifted(s) ==
  /\ s # None
  /\ card.col = auto[active].lane
  /\ card.rec[s] = "running"
  /\ run[s].lane = auto[active].lane /\ run[s].step = auto[active].step + 1

\* adoptQueuedStepSession: the trigger session runs the step that waited.
Adoptable(s) ==
  /\ s # None
  /\ card.col = auto[active].lane
  /\ card.rec[s] = "running"
  /\ run[s].lane = auto[active].lane /\ run[s].step = auto[active].step

ScanAdopts ==
  /\ Quiet
  /\ Live /\ auto[active].sid = None
  /\ Adoptable(card.trigger)
  /\ auto' = Adopted
  /\ UNCHANGED <<cardVars, agentVars, tellVars, active, waiting, deferred, tearVars, treeVars, call, ghostVars>>

\* Minutes of silence: no earlier event of the session is still being handled.
ScanTimesOut ==
  /\ active # None /\ auto[active].status = "running"
  /\ LET s == auto[active].sid
     IN /\ s # None /\ s \notin auto[active].signaled
        /\ \A c \in Calls : call[c].sid # s
        /\ auto' = [auto EXCEPT ![active].signaled = @ \cup {s}]
        /\ Emit(s, "timeout")
  /\ UNCHANGED <<cardVars, agentVars, tellVars, active, waiting, deferred, tearVars, treeVars, ghostVars>>

-----------------------------------------------------------------------------
(* The card changes its column *)

Move ==
  /\ Quiet
  /\ Happens
  /\ interrupted' = (interrupted \/ \E c \in Calls : call[c].pc \in {"killing", "spawning"})
  /\ UNCHANGED unstarted

\* move_card of an agent: the active session is finalized, then the transition.
MoveCard(to) ==
  /\ Move
  /\ <<card.col, to>> \in Moves
  /\ ~ StepsRemain \/ to = "blocked"
  /\ card' = [card EXCEPT !.col = to, !.trigger = None,
                          !.rec = [s \in Session |-> IF s = card.trigger THEN "completed" ELSE @[s]]]
  /\ LeaveLane(card.col, auto)
  /\ IF to \in Lanes
     THEN \E c \in Calls : Free(c) /\ call' = [call EXCEPT ![c] = [Idle EXCEPT !.pc = "enter", !.job.lane = to]]
     ELSE UNCHANGED call
  /\ UNCHANGED <<run, agentVars, tellVars, auto, waiting, deferred, teardown, cardEnded, treeVars>>

\* PATCH columnId to Blocked, here a column without automation: the running
\* sessions are recorded as completed, the lane is left, their processes ended.
UserBlocks ==
  /\ Move
  /\ card.col \in Lanes
  /\ LET stale == {s \in Session : card.rec[s] = "running" /\ run[s].lane = card.col} \cup ({card.trigger} \ {None})
         left == IF active # None /\ auto[active].lane = card.col /\ auto[active].status = "running"
                 THEN {auto[active].sid} \ {None} ELSE {}
     IN /\ card' = [card EXCEPT !.col = "blocked", !.trigger = None,
                    !.rec = [s \in Session |-> IF s \in stale THEN "completed" ELSE card.rec[s]]]
        /\ active' = IF active # None /\ auto[active].lane = card.col THEN None ELSE active
        /\ departed' = (departed \cup left) \ stale
        /\ teardown' = teardown \cup stale
        /\ cardEnded' = cardEnded \cup stale
        /\ deferred' = deferred \ stale
        /\ \E c \in Calls : Free(c) /\ call' = [call EXCEPT ![c] = [Idle EXCEPT !.pc = "ending", !.todo = stale]]
  /\ waiting' = NoRun
  /\ UNCHANGED <<run, agentVars, tellVars, auto, treeVars>>

\* handleColumnTransitionData: a live automation of the lane is left alone.
EnterLane(c) ==
  /\ At(c, "enter")
  /\ IF Live /\ auto[active].lane = call[c].job.lane THEN Return(c) ELSE Go(c, "register")
  /\ UNCHANGED <<cardVars, agentVars, tellVars, autoVars, waiting, deferred, tearVars, treeVars, ghostVars>>

Register(c) ==
  /\ At(c, "register")
  /\ \E a \in Visit :
       /\ auto[a].status = "none" /\ \A b \in 1..(a - 1) : auto[b].status # "none"
       /\ auto' = [auto EXCEPT ![a] = [NoAuto EXCEPT !.lane = call[c].job.lane, !.step = 1, !.status = "queued",
                                                         !.fallback = card.fallback]]
       /\ active' = a
       /\ call' = [call EXCEPT ![c].pc = "create", ![c].why = "enter", ![c].auto = a,
                               ![c].job.auto = a, ![c].job.step = 1]
  /\ UNCHANGED <<cardVars, agentVars, tellVars, waiting, deferred, tearVars, treeVars, ghostVars>>

-----------------------------------------------------------------------------
CallStep(c) ==
  \/ EndDeferred(c) \/ Killed(c) \/ StartPending(c)
  \/ SettleEnded(c) \/ WindDown(c) \/ SettleUnfollowed(c) \/ SettleTeardown(c) \/ StepOver(c)
  \/ StartNext(c) \/ Recover(c) \/ NothingFollows(c)
  \/ CreateTakesTrigger(c) \/ CreateQueues(c) \/ CreateStarts(c)
  \/ Spawned(c) \/ SpawnFails(c)
  \/ Entered(c) \/ Continued(c) \/ NotContinued(c)
  \/ LaneEnds(c) \/ LaneAdvances(c) \/ LaneTearsDown(c) \/ EndOne(c) \/ AllEnded(c)
  \/ EnterLane(c) \/ Register(c)

Next ==
  \/ \E c \in Calls : CallStep(c)
  \/ \E s \in Session : Report(s) \/ TurnEnds(s) \/ TurnFails(s) \/ PromptBroke(s) \/ Exits(s)
  \/ QueueStarts \/ RemoveWorktree \/ KeepWorktree
  \/ ScanAdopts \/ ScanTimesOut
  \/ \E to \in Columns : MoveCard(to)
  \/ UserBlocks

Spec == Init /\ [][Next]_vars

\* Awaited calls return, the board frees a slot, the watchdog scans and a broken
\* prompt is reported; agents, users and git need not do anything.
Fairness ==
  /\ \A c \in Calls : WF_vars(CallStep(c))
  /\ WF_vars(QueueStarts) /\ WF_vars(ScanAdopts) /\ WF_vars(ScanTimesOut)
  /\ \A s \in Session : WF_vars(PromptBroke(s))

FairSpec == Spec /\ Fairness

-----------------------------------------------------------------------------
(* Types. *)
Jobs == [auto : Visit \cup {None}, lane : Lanes, step : Nat]

TypeOK ==
  /\ card \in Card
  /\ run \in [Session -> Jobs]
  /\ proc \in [Session -> {"none", "working", "idle", "dead"}]
  /\ \A set \in {reported, okay, echo, ended, deferred, departed, teardown, cardEnded, pending} : set \subseteq Session
  /\ auto \in [Visit -> [lane : Lanes, step : Nat, status : {"none", "queued", "running", "completed", "failed"},
                         sid : Session \cup {None}, recoveries : Nat, signaled : SUBSET Session,
                         fallback : BOOLEAN]]
  /\ active \in Visit \cup {None}
  /\ waiting \in Jobs
  /\ \A a \in Visit : auto[a].step \in 0..Steps[auto[a].lane]
  /\ unstarted \subseteq Visit /\ interrupted \in BOOLEAN
  /\ worktree \in BOOLEAN /\ cleaning \in BOOLEAN
  /\ events \in Nat

(* A step is run at most once, in the Dev lane once more for each recovery its *)
(* budget allows: a Done step, which may push, never runs twice in a visit.    *)
(* Dev's budget is not promised once the card was moved while an agent was     *)
(* started or ended: two handlers may then serve one automation.               *)
RunsWithinBudget ==
  \A a \in Visit : \A k \in 1..Steps[auto[a].lane] :
    LET runs == {s \in Session : run[s].auto = a /\ run[s].step = k}
    IN IF auto[a].lane = "done" THEN Cardinality(runs) <= 1
                                ELSE Cardinality(runs) <= 1 + MaxRecovery \/ interrupted

(* A step only starts after a session of the lane's step before it has         *)
(* reported or ended its turn (or failed, with automatic fallback); a card that *)
(* left the lane and came back may go on where the queue still has a step.     *)
(* Not promised once the card was moved while an agent was started or ended.   *)
StepsInOrder ==
  \A s \in Session : run[s].step > 1 /\ ~ interrupted =>
    \E r \in Session : /\ run[r].step = run[s].step - 1 /\ run[r].lane = run[s].lane
                       /\ auto[run[s].auto].fallback \/ r \in reported \cup okay

(* Of the sessions started for one visit of a lane at most one works: the      *)
(* others have reported, or their turns are over or broken off.  Not promised  *)
(* once the card was moved while an agent was being started or ended.          *)
OneAgent ==
  \A s, r \in Session :
    /\ ~ interrupted
    /\ run[s].auto = run[r].auto
    /\ {proc[s], proc[r]} = {"working"} /\ {s, r} \cap reported = {}
    => s = r

(* A session that reported inside its turn finishes the turn, unless the user  *)
(* moved the card or its Done lane is over.                                    *)
InTurnSpared ==
  [][\A s \in Session : proc[s] = "working" /\ s \in reported /\ proc'[s] = "dead"
       => s \in teardown' \/ interrupted]_vars

(* A card that came to Done once and has not left it loses its worktree only   *)
(* after every agent of the card has ended, the one that reported inside its   *)
(* turn included.  One that came back may find an earlier cleanup at work.     *)
WorktreeLast ==
  [][worktree /\ ~ worktree' /\ ~ interrupted /\ {a \in Visit : auto[a].lane = "done"} = {active}
     => \A s \in Session : proc[s] \in {"none", "dead"}]_vars

(* An agent is started only for the lane the card is in: what waits for a slot *)
(* or recovers when the card leaves is dropped.                                *)
StartsInLane ==
  [][\A s \in Session : proc[s] = "none" /\ proc'[s] = "working"
       => card.col = run'[s].lane \/ interrupted]_vars

\* The lane's session was started for the card's visit before.
Inherited == card.trigger # None /\ run[card.trigger].auto # active

\* The bound on sessions stops a start.
Exhausted == proc[MaxSessions] # "none" /\ \E c \in Calls : call[c].pc = "spawning"

(* Every lane comes to an end, whatever the agents do: a step that waits for a *)
(* slot is started and followed, a silent one timed out, recoveries run out.   *)
(* Not promised once a start of the lane has failed, nor of a card that came   *)
(* back and is served by the queue entry of its visit before.                  *)
LaneSettles ==
  \A a \in Visit : (Live /\ active = a) ~> (~ (Live /\ active = a) \/ a \in unstarted \/ Exhausted
                                            \/ interrupted \/ Inherited)

(* The same without the last exception: the watchdog adopts a session of the   *)
(* queue so that it "can see a step that never ends".                          *)
LaneSettlesAfterReturn ==
  \A a \in Visit : (Live /\ active = a) ~> (~ (Live /\ active = a) \/ a \in unstarted \/ Exhausted
                                            \/ interrupted)

DevStepBegun(k) == \E s \in Session : run[s].lane = "dev" /\ run[s].step = k

(* "Exactly two moves skip the guard" of the lane's remaining steps, and none  *)
(* of them leads from Dev to Done: once the Dev lane has begun, the card gets  *)
(* to Done only when the lane has come to its last step.                       *)
LastStepReached ==
  [][card.col = "dev" /\ card'.col = "done" /\ DevStepBegun(1) => DevStepBegun(Steps["dev"])]_vars

(* A session that reported inside its turn "is ended on its next lifecycle     *)
(* event": once the turn is over, its agent is ended.                          *)
ReportedEnds == \A s \in Session : (s \in reported /\ proc[s] = "idle") ~> (proc[s] = "dead")
=============================================================================
