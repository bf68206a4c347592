# Formal models of Routa

TLA+ models of the parts of Routa that decide what runs when: the lane records
of kanban cards, the per-board session queue, the life of a card's lane
automation, the reruns of interrupted steps, the delegation of tasks to child
agents, and the background-task worker with the workflows it executes. Each
model follows the TypeScript source await by await. TLC checks small instances
(`*.cfg`), TLAPS checks the proofs (`*Proofs.tla`). `PROJECT.json` maps every
definition to its source lines and lists runs, mutants, findings, hazards and
theorems.

Paths below are relative to the repository root; `K` is `src/core/kanban`.

## 1. Inventory

| Component | State | Operations | What makes it hard |
|---|---|---|---|
| Task store and lane records (`K/lane-session-merge.ts`, `K/task-session-transition.ts`, `K/task-lane-history.ts`, `src/core/db/pg-task-store.ts`) | one row per card: column, trigger session, session ids, lane records | get, whole-row save with lane-record merge, delete | handlers hold copies across awaits; neon-http has no row lock; Postgres keeps a cleared trigger |
| Session queue (`K/kanban-session-queue.ts`) | `jobsByCardId`, `queuedByBoard`, entries | enqueue, reconcile, drain, start, snapshot, removal, lifecycle events | every operation interleaves with every other at each await |
| Background worker (`src/core/background-worker`), workflows (`src/core/workflows`), background-task store, session store | task rows, workflow run outputs, `sessionToTask`, live sessions | dispatchPending, checkCompletions, turn_complete handler, trigger, PATCH/DELETE/retry | overlapping ticks, stale lists, crashes, unconditional status writes, timeouts |
| Workflow orchestrator (`K/workflow-orchestrator.ts`, its singleton, `K/done-lane-teardown.ts`, `K/done-worktree-cleanup.ts`) | `activeAutomations`, step and recovery counters, sets of ended, deferred, departed and teardown sessions | column transition, agent completion, next step, fallback, recovery, auto-advance, Done teardown, watchdog scan, moves | several ends of one session; copies kept while an agent starts or is ended; a queue that starts steps behind its back |
| Rate-limit reruns (`K/rate-limit-retry.ts`) | one timer per card | schedule, fire, cancel, forget | a timer against a moved, rerun or deleted card |
| Restart recovery (`K/restart-recovery.ts`, `K/startup-lane-sweep.ts`, `K/interrupted-lane-resume.ts`, `K/lane-rerun-claim.ts`) | claims per card lane | sweep, resume, delayed resume, revive, retryTrigger | several paths that rerun the same step; restarts |
| Agent orchestrator (`src/core/orchestration/orchestrator.ts`) | child agents, delegation groups, timers, report-file watchers | delegate, report, complete, wake parent | six signals of one end; a group that is complete while it still grows; a parent that rejects the wake |
| Event bus (`src/core/events/event-bus.ts`) | subscriptions, pending events, wait groups | emit, subscribe, drain, wait group | only emit has callers outside the tests |
| Git worktrees, repository lock (`src/core/git`) | promise chain per repository | exclusive sections, worktree create/remove | re-entrance, half-done git sequences |
| ACP runtime and session store (`src/core/acp`) | sessions, processes, streams | create, prompt, notify, delete | external programs |
| Schedules, polling, webhooks | timers, cursors | create background tasks | duplicates |
| MCP/A2A/AG-UI, notes, shared sessions, harness, review, trace, UI, Rust crates | – | – | translation, analysis, rendering; a second implementation |

**Interactions.** A column transition (API, UI, agent tool) makes the workflow
orchestrator ask the *queue* for a session. The queue counts running entries
against the board's limit and calls the start closure, which reads the card
from the *task store*, creates an ACP session and saves the card with its lane
record and trigger session. The session's end comes back as a lifecycle event:
the queue frees the slot and drains, the orchestrator marks the lane record and
starts the next step or moves the card. Independently, schedules, webhooks,
polling and workflow triggers save *background tasks*; the worker polls them,
creates sessions over HTTP and learns of their end from the session store.

**Correctness, per component.** Lane records: no run is forgotten or reopened,
a trigger session is documented and runs for the card's column, a deleted card
stays deleted. Queue: no entry
starts twice, the limit holds, slots are freed, waiting cards are served.
Worker: dependencies before dependents, the limit holds, nothing stays RUNNING,
what is ready is dispatched. Lane automation: steps in order and
within budget, one agent at a time, no agent cut off inside a turn it reported
from, the worktree removed last, every lane settles. Reruns: one claim holder,
one agent, an interrupted step is run again. Delegation: each child's end is
handled once, the parent is woken when all have ended and told of each of them.

## 2. Plan

| Step | Modules | State |
|---|---|---|
| 1 | `LaneRecord`, `LaneLedger` (abstract), `TaskLaneRecords` + proofs | done |
| 2 | `KanbanSessionQueue` + proofs of all its invariants | done |
| 3 | `BackgroundWorker` + proofs | done |
| 4 | `Delegation` + proofs | done |
| 5 | `LaneRerun` + proofs: sweep, resume, revive, retryTrigger, rate-limit timer under one claim | done |
| 6 | `LaneAutomation`: lane life cycle, with the board queue reduced to one entry of the card | done |
| 7 | proofs about `LaneAutomation`: `LaneAutomationProofs`, `LaneDriverProofs`, `LaneStepsProofs` | done |
| 8 | the board as an abstract counting resource, refined by the queue where it keeps its limit; the Blocked route and transition gates | open |

## 3. Modules

### Lane records: `LaneRecord`, `LaneLedger`, `TaskLaneRecords`

One card. A *writer* is a handler in flight: it reads the whole card (`Get`),
edits its copy (`StepStarted`, `StartFailed`, `SessionEnded`, `MoveColumn`,
`RetryTrigger`) and saves it (`SaveLocked`, or `SaveRead` and `SaveWrite` where
there is no row lock). A copy may be arbitrarily old when it is saved, and a
writer may save several times. `MergeLaneSession`, `MergeLaneSessions` and
`MergeCard` are `lane-session-merge.ts`; every other field is last-writer-wins.
`store` is the driver, fixed for a behaviour: `sqlite` (the in-memory store saves
alike), `postgres`, which locks the row, or `neon`, Postgres over neon-http, which
does not.
`Upserted` is the upsert at the row's state of that moment: SQLite writes NULL for
a cleared trigger session, the two Postgres drivers leave the field out of the
conflict update (`pg-task-store.ts:170`) and the row keeps its trigger.
The four ended statuses are one value; the order of the records is left out.
`LaneRerun` and `LaneAutomation` assume a store that writes cleared triggers.

`LaneLedger` is what the header of `lane-session-merge.ts` promises, without
copies, saves or merging: a record appears once, may end, is never dropped or
reopened and keeps its planned rerun. `LedgerSpec` says that the stored lane
records implement it (refinement mapping `ledger <- card.lanes`).

### Session queue: `KanbanSessionQueue`

A *call* is an async operation in flight; its `pc` says which await it is at.
An action is the code between two awaits. A read of the task or of the limit is
a step of its own, so it can be stale when the call resumes; without the
disturbance `slow` it returns what was stored when it was issued (SQLite, in
memory). Entries are objects with an identity (`job[j]`), `jobs` is the map,
`queue` the board's array. `shared` records that a reconcile loop iterates the
very array that others push to, until one of them replaces it.

`Disturbances` selects what the rest of the system does meanwhile: moving,
deleting or holding cards, changing the limit, `removeCardJob` on a running
entry (`cleanup`), a second enqueue (`again`), a session that ends before its
start returned (`early`), a completion announced inside a turn (`report`),
throwing starts (`fail`), a slow store (`slow`). One
board is modelled: boards share nothing but the card's single entry in the map.

The queue learns of a session through events only, and takes any completion for
its end. `update_task` announces one while the agent is inside its turn
(`agent-tools.ts:968-987`). `active` are the sessions at work of which no such
event has come, `finishing` those that go on after it; `LifecycleEvent` moves a
session from the first to the second or ends it, and the queue does the same in
both cases. `BoardLimit` is about `active`, `SessionsWithinLimit` about both.

### Background worker: `BackgroundWorker`

`task[t]` is a stored row, `flow` the workflow whose steps `trigger` is saving
while the worker is already polling, `tick[d]` one `dispatchPending` call,
`check` the `checkCompletions` call with its four passes, `turn[s]` the session
store's handler of a notification, `request` a PATCH, DELETE or retry between
its read and its write. Timestamps are ages in the classes the code compares
with (under 2 minutes, under 5, under 2 hours, older). Status writes are
unconditional, as in the code. `done` is a history variable: the steps that
have been COMPLETED at some time. An output is kept only where some prompt has
a placeholder for it (`Refs`); nothing reads the others. Agents are free: they stream or not, say
something or end a turn whenever they like, or never.

### Delegation: `Delegation`

One parent and its children; every map of the orchestrator is keyed by the one
or the other. A child's end is signalled by its `report_to_parent` call, a
report file, the end, failure or timeout of its prompt, a session-end update and
lifecycle events; all of them enter `finalizeChildCompletion`, which waits for a
file write (`entering`), then runs `handleChildCompletion` (`fin`) once. A group
is named by the child that opened it. A wake first reads the stores for each
child of the group (`pc` = `reading`): `WakeParent` takes the children there are
(`named`), and as the loop iterates the group's own array, a child whose spawn
returns meanwhile is named too (`joined`, added by `JoinGroup`). `SendWake` then
prompts the parent, for its whole turn (`prompts`), in which it may delegate again;
an `exclusive` parent (Claude) rejects the prompt during a turn. A report file may
leave out its agent (`unnamed`) or its task (`untasked`); whoever's watcher reads
it fills in its own child. `Setups` fixes the kinds of the children. `own`, `runs`,
`told`, `hasty`, `latecomers` and `lost` are history variables: what a child
reported, how often its end was handled, who was named in a message after a sign of
its end, who was named at work (there when the wake began, or joined after), and
whose completion got lost.

### Reruns of a step: `LaneRerun`

One card lane whose step is the lane's last, on a board with a free slot. A call
is one run of a path (`resume`, `revive`, `retry`, `timer`) from its request to
its return; it keeps the card it read and the decision it took. `claim` is the
lane's entry in `lane-rerun-claim.ts`. `Restart` loses claims, timers, calls and
agents at any moment; `Sweep` then ends the stale records before anything else
runs. Sessions outlast the bookkeeping of their own start. `TimerOverlaps` says
whether the rate-limit timer may fire during another call. Hold labels, the fuse
and the repeat limit, which only stop reruns, are left out.

### Lane automation: `LaneAutomation`

One card on its way through a Dev and a Done lane. The store answers at once
(SQLite, memory), so a call, which is one run of a handler, gives way to others
only while an agent is being started (`spawning`) or ended (`killing`,
`ending`). Over these waits it keeps the card it read (`copy`, `row`), the
automation object and the event. `auto[a]` is the automation object of a visit,
`waiting` the card's entry in the board queue, and `ended`, `deferred`,
`departed`, `teardown`, `cardEnded`, `pending` are the orchestrator's sets of the
same names. Agents report inside a turn, end it, fail it, exit or stay silent;
a failed or killed prompt is reported a second time (`echo`). `unstarted` and
`interrupted` are history: a start failed; the card was moved while a call waited
for an agent. What is promised of a lane ends there, but for `TypeOK` and the
single run of a Done step. `EchoOverlaps` says whether the two reports of a
broken prompt may be handled at the same time.

### Left out

Queue: `stop()`, starts that bypass the queue, several boards. Lane records:
lane handoffs, list queries, aliasing of the in-memory store's arrays. Worker:
`stop()`, priorities (tasks are dispatched oldest first), store errors (each
pass skips and is tried again 15 s later), two `checkCompletions` calls at the
same time, the Postgres query that takes a deleted dependency for a completed
one. Delegation: the depth
check and early error returns (they change nothing), contents of memory files,
`cleanup()` (no caller outside tests), store errors. Reruns: several steps
(revive may start a following one), convergence of Review cards. Lane
automation: `ralph_loop` mode, environment failures, the Blocked route, a store
that answers slowly (then lines 569 and 600 of `workflow-orchestrator.ts` are
apart, and two transitions of one card can both register).

### Not modelled

Event-bus wait groups and agent subscriptions have no caller outside the tests.
Board and card policies are decisions over texts and settings. Worktrees and
repositories are calls of git behind a promise chain with a single user. The ACP
runtime, MCP, A2A and AG-UI translate between external programs; schedules,
polling and webhooks create background tasks. Harness, fitness, review, traces,
skills and feature trees analyse files. The Rust crates are a second
implementation for the desktop; most of the remaining files are user interface.
These hold most of the repository's lines and no concurrent state of their own,
so the models cover a small share of the lines and most of the scheduling.

## 4. Runs

| Run | Checks | Result |
|---|---|---|
| `lane_records` | `TypeOK`, `TriggerDocumented`, `TriggerInColumn`, `LedgerSpec`; two handlers, two sessions, two columns, SQLite and Postgres with its row lock | holds |
| `lane_records_unlocked` | `OnlyOverlapLoses` with the neon-http save; one column | holds |
| `queue_races` | `StartedOnce`, `StartWithinLimit` with three jobs under `limit early fail slow` | holds |
| `queue_edits` | `TypeOK`, `StartWithinLimit` with two jobs under `move delete cleanup again`, two lanes | holds |
| `queue_calm` | `BoardLimit`, `EndedFreesSlot`, `QueueServed`; prompt store, cards held and released, agents that report inside a turn, no enqueue that ignores an old trigger | holds |
| `bg_order` | `ConcurrencyLimit`, `StepsInOrder`; a chain and a parallel pair whose second step refers to the first's output, one tick at a time | holds |
| `bg_ends` | `TypeOK`, `RunningEnds`; one task, a restart, one request of any kind | holds |
| `delegation` | `TypeOK`, `HandledOnce`, `WokenForEnded`, `ReportStands`, `ActiveGroupExists`, `EndedIsTold`; pairs of children of different kinds, parents of both kinds, failing wakes | holds |
| `lane_rerun` | `OneAgent`, `ResumesInterrupted`, `RerunHappens`; two overlapping calls of any path, three sessions, two requests, moves or restarts; the timer and the other paths take turns | holds |
| `lane_rerun_overlap` | `TypeOK`, `ClaimHeldByOne`; the same for a later step, and the timer fires at any moment of the others | holds |
| `lane_automation` | `TypeOK`, `RunsWithinBudget`, `StepsInOrder`, `OneAgent`, `InTurnSpared`, `WorktreeLast`, `StartsInLane`, `LaneSettles`; two steps in each lane, one recovery, with and without fallback | holds |
| `lane_automation_guard` | `LastStepReached` | **violated** |

**What the violation shows.** `lane_automation_guard`: the guard of the remaining
steps looks at the card's trigger session. Between two steps there is none, while
the next one waits in the board queue or its agent is being started, and the card
can leave Dev for Done without its last Dev step.

Further configurations reproduce behaviour of the code that contradicts a
comment or a plausible expectation. TLC reports a violation for each; they are
not among the runs of `PROJECT.json`.

| Configuration | Property | What happens |
|---|---|---|
| `TaskLaneRecordsDelete` | `NothingRunsAfterDelete` | a start that read the card before it was deleted re-inserts it with a running lane session: `save` is an upsert (`route.ts:830` says nothing of a deleted card may start again) |
| `TaskLaneRecordsCleared` | `MoveClearsTrigger` | a column move ends the trigger session's record and clears the trigger, but on Postgres the upsert leaves the cleared field out (`pg-task-store.ts:170`; line 190 says why another field has `?? null`): the card is stored in its new column with the trigger session of the old one, which later readers take for a run of this lane. `retryTrigger` clears it the same way. `kanban-tools-blocked-exit.test.ts:97` expects "moving a Done card to blocked clears the pusher's trigger session", on the in-memory store |
| `TaskLaneRecordsLoss` | `TriggerNeverDangles` | on neon-http a start is saved between another save's read and its upsert: the upsert drops the new lane record and leaves the trigger, which its copy has cleared or never had |
| `KanbanSessionQueueReports` | `SessionsWithinLimit` | `update_task` to "completed" raises AGENT_COMPLETED for the session that called it; the queue frees the slot and starts the next card while the agent is still inside its turn (`docs/issues/2026-03-14-kanban-session-concurrency-queue.md:25` wants "only a bounded number of ACP sessions run at once") |
| `KanbanSessionQueueBoardLimit` | `BoardLimit` | on a slow store `reconcileQueuedEntries` judges an entry that another call has started meanwhile and deletes the *running* job; its session goes on uncounted |
| `KanbanSessionQueueForced` | `BoardLimit` | on a prompt store: a card whose old trigger is dead is enqueued with `ignoreExistingTrigger` and waits; `reconcileQueuedEntries` reads it with that trigger and, after the await, deletes the job that another call's drain has started meanwhile (38 steps; two cards and four jobs) |
| `KanbanSessionQueueStall` | `QueueServed` | a column change removes the card's running entry; the end of that session matches no entry, so nobody drains |
| `BackgroundWorkerOverlap` | `ConcurrencyLimit` | `listRunning` counts tasks with a session id only, and ticks may overlap |
| `BackgroundWorkerReady` | `ReadyDispatched` | a task whose session vanished is COMPLETED without output; the placeholder for it throws on every tick, before the step is marked |
| `DelegationForgotten` | `NotifiedOfAll` | a group is deleted only after the parent's turn that its wake prompted; a child that joins in that turn and ends before it is counted in the old group and deleted with it, and the parent is never told (`orchestrator.ts:771` promises a notice when all agents of the group are done) |
| `DelegationGrows` | `AnnouncedHaveEnded` | while `wakeParent` awaits the stores for its message (`orchestrator.ts:1365`), a second child's spawn returns and joins the group; the loop visits it too, and the parent reads "All 2 delegated agents have completed", the one that has just begun among them. `WokenForEnded` says that, where report files name their agent, there is no other way to name a working child |
| `DelegationSibling` | `ReportStandsBesideUntasked` | a report file names its agent but no task: the watcher of another child reads it too and writes the outcome to its own child's task (`orchestrator.ts:1192`), over what that child has reported |
| `LaneRerunTimer` | `OneAgent` | the rate-limit timer takes no claim: it fires while another path is starting the step, and a second agent starts |
| `LaneRerunRevive` | `RevivesUnfinished` | revive saves a card it listed long ago and reruns a step that was completed meanwhile |
| `LaneRerunResume` | `ResumesNothingElse` | the user moves the card, which ends its latest run; the stale copy of an earlier run's end handler puts it back; two copies that revive listed before and after then turn the run's record to "interrupted" (in time for the resume's second look) and back to "completed", and the resume starts it all the same (30 steps; three calls, six events; `InThisOrder` in `MCLaneRerun` only narrows the search) |
| `LaneAutomationLeak` | `ReportedEnds` | the turn of a session that reported ends while the report's handler starts the next step; the deferred end is registered after that event, and the idle process stays until the Done teardown |
| `LaneAutomationEcho` | `LaneSettles` | the second report of a broken prompt is handled while the first awaits the kill; the first one's stale copy makes the dead session the trigger again, and the lane follows it for ever |
| `LaneAutomationReturn` | `LaneSettlesAfterReturn` | a card leaves Dev for Blocked while its second step waits in the board queue, and comes back before the queue is looked at: the entry of the first visit serves the second, whose automation is at step one, so the watchdog does not adopt the session (`workflow-orchestrator.ts:1231` compares the steps) and its silence is never noticed |

Other observations that the models contain and no configuration singles out.
Queue: with `early` a session that ends before its start returned keeps its
slot; with `again` a second enqueue during a start replaces the running entry
and starts a second session; the write-back of a reconcile loop can drop an
entry pushed meanwhile. Lane records: an unlocked save can reopen an ended
record (`OnlyOverlapLoses` says that only an overlap can). Worker: a retried task
keeps its old session and start time; a late status write overwrites a cancel. Delegation: a Claude parent in a turn rejects
the wake, and nothing repeats it once the child has reported; an idle event sets
an SDK child ACTIVE again, so that the fallback may overwrite its report; a report
file without `agentId` speaks for each watcher's child; siblings that still
spawn are not waited for. Reruns: a re-entry whose session was refused leaves its
automation queued, and later revives of the first step return because of it.
Lane automation: a card moved while its agent is being started is put back by
the whole-row save, its run followed by nobody; the Done teardown kills an
earlier session that is still in its turn; the worktree cleanup checks the card
once, before a `git fetch` of up to a minute; a queue entry of an earlier visit
serves a card that left and came back; a session the queue started is unknown
to the automation until the next scan, and is not ended after its turn if it
moves its card before.

**Bounds.** Two cards, two calls and two or three jobs are the least with which
one call's await spans another call's start; the limit is 1 (or changes between
1 and 2), so a single uncounted entry is visible. It takes the third job of
`queue_races` for a drain to find, after its await, that an enqueue has taken
the slot it saw free. Two handlers and two sessions
let a stale copy meet both an unknown and an ended record; the column plays no part
in `OnlyOverlapLoses`, so its run has one. Two workflow steps
give a dependency and a parallel pair; `MaxSessions`, `MaxRestarts` and
`MaxRequests` bound what would otherwise grow. The theorems below do not depend
on these bounds. Two children
are enough for a group that grows, ends and is deleted around one wake; each
reports at most once, and one report file exists at a time, which in one of the
pairs is read by the watchers of both. With two children that both report by file
(`DelegationFiles`, a parent that queues prompts, no failing wakes)
`ReportStands` and `WokenForEnded` hold too. In `lane_rerun`
three sessions are the first run and two reruns, which lets each of two calls
start one; it was also run once without the liveness properties with
`FirstStep = FALSE` and larger bounds (1.5 million states). That the queue answers
with the card's present entry happens only in `lane_rerun_overlap`: the claim
excludes it otherwise. In
`lane_automation` two steps and one recovery let a recovery, a fallback and
a next step meet; a second Done step finds the trigger of a Dev start that came
back late. `MaxEvents` bounds moves, failed turns, exits and failed
starts together, while reports, turn ends and timeouts are unbounded. All its
properties were also run once with two Dev steps, a Done step and three events
(2.4 million states), its safety properties with three events and visits (3.1
million) and, but for `StartsInLane`, with `EchoOverlaps = TRUE` (0.7 million).
Deadlock is checked except where the system may come to rest: lane records and
sessions are used up, or the card rests in its last lane.

**Fairness.** Queue: a call in flight is resumed (`WF` on `Resume`), a session
ends some day because it exits or the supervision's timeout ends it (`SF`, and
`SF` for a refused start, because these steps need an idle call and the bound
on calls is the model's, not the code's). Worker: both timers keep firing, calls
in flight are resumed, time passes. Nothing is assumed of agents, users or
`session/new`; `RunningEnds` rests on the timeouts alone. Delegation: timers
fire, file writes, spawns and prompts end; children need not report. Reruns:
calls in flight progress, armed timers fire, the sweep and the resume run after
a restart; agents need not end and users do nothing. `RerunHappens` excuses
failed starts, moved cards and exhausted session ids. Lane automation: awaited
calls return, the board frees a slot, the watchdog scans, broken prompts are
reported; agents, users and git need not act. `LaneSettles` excuses a failed
start (the entry then stays queued until someone reruns the step), a card moved
during a start, one served by an entry of its visit before, and the bound on
sessions.

**Mutants.** Every property of a passing run is refuted once a definition is
replaced by a plausible bug of that code (`mutants` in `PROJECT.json`).

## 5. Proofs

All are for arbitrary constants, from the named `ASSUME`s of the modules.

| Theorem | Statement | Argument |
|---|---|---|
| `TaskLaneRecordsProofs!Typing` | `Spec => []TypeOK` | inductive |
| `TaskLaneRecordsProofs!TriggerSafety` | `Spec => []TriggerDocumented` (which speaks of stores that lock the row) | `Documented` also of every copy, which is what a stale save writes; merging with the row only adds records, so a trigger that the upsert keeps has its record too |
| `TaskLaneRecordsProofs!TriggerHome` | `Spec => []TriggerInColumn` (which speaks of SQLite) | the same of every copy; records of copies and store agree on their column, so the one a merge keeps is in the trigger's |
| `TaskLaneRecordsProofs!LedgerRefinement` | `"neon" \notin Stores`, `Spec => LedgerSpec` | records of copies and store agree on their column, so a merge changes none; a copy holds records only of sessions handed out |
| `KanbanSessionQueueProofs!NoDoubleStart` | `Spec => []StartedOnce` | an entry has been started exactly when it is running, the map holds an entry only under its own card, and a call inside `startEntry` works on an existing entry; nothing is needed of the queue itself |
| `KanbanSessionQueueProofs!LimitAtStart` | `Spec => StartWithinLimit` | same invariant, and one more running card adds one to the count |
| `KanbanSessionQueueProofs!Typing` | `Spec => []TypeOK` | inductive; each await has its own fields, and filtering a sequence of created entries leaves one |
| `KanbanSessionQueueProofs!EndReleases` | without `again` and `early`, `Spec => []EndedFreesSlot` | one call at a time works on a card, so an entry is given only the session of its own start |
| `KanbanSessionQueueProofs!LimitKept` | no forced enqueues and no disturbance but `hold`, `early` and `report`, `Spec => []BoardLimit` | every session in `active` is of an entry that counts as running, because a reconcile loop removes only what waits or is over |
| `BackgroundWorkerProofs!Typing` | `Spec => []TypeOK` | inductive; a created session is known to its tick |
| `BackgroundWorkerProofs!DispatchInOrder` | `Spec => StepsInOrder` | a tick's list may be old, so the store says nothing of its rows now: COMPLETED implies membership in `done`, `done` only grows, and it covers the dependencies of every row still listed; an edit saves a PENDING row and so completes nothing |
| `BackgroundWorkerProofs!LimitUnlessOverlap` | `Spec /\ []OneAtATime => []ConcurrencyLimit` | the running tasks together with those a tick has listed and not started yet (`Claimed`) are within the limit: a slice takes no more than the free slots, and outside the ticks no status write, request, retry or restart makes a task RUNNING |
| `DelegationProofs!Typing` | `Spec => []TypeOK` | inductive; a group is a set of delegated children |
| `DelegationProofs!CompletionHandledOnce` | `Spec => []HandledOnce` | a run in `fin` and the flag `completionHandled` exclude each other and any second run |
| `DelegationProofs!OnlyEndedWokenFor` | `Spec => []WokenForEnded` | each signal, timer, file and write in progress belongs to a child that gave a sign of its end; groups count only those, and so do the children a message being written has `named` |
| `DelegationProofs!GroupJoined` | `Spec => []ActiveGroupExists` | a deletion clears the active entry whichever group it names, so the active group is never a deleted one |
| `DelegationProofs!ReportKept` | `Spec => []ReportStands` | the fallbacks that could overwrite a report find its agent COMPLETED; a file that names agent and task means the same to every watcher |
| `LaneRerunProofs!Typing` | `Spec => []TypeOK` | triggers in the store and in every copy are recorded runs |
| `LaneRerunProofs!ClaimHeldOnce` | `Spec => []ClaimHeldByOne` | which program counters of which paths hold the claim |
| `LaneAutomationProofs!Typing` | `Spec => []TypeOK` | what the program counter of a call says of its fields |
| `LaneDriverProofs!LaneStarts` | `~ EchoOverlaps /\ Spec => StartsInLane` | `LaneInv`: a call that starts an agent drives the card's lane |
| `LaneDriverProofs!LaneSparesTurns` | `~ EchoOverlaps /\ Spec => InTurnSpared` | `LaneInv`: who ends a session has seen its turn end, or its lane torn down |
| `LaneDriverProofs!LaneOneAgent` | `~ EchoOverlaps /\ Spec => []OneAgent` | `LaneInv`, and only the followed session of the live automation can be at work unreported |
| `LaneStepsProofs!LaneWithinBudget` | `~ EchoOverlaps /\ Spec => []RunsWithinBudget` | `LaneInv`, and every run is a claim paid for out of the budget |
| `LaneStepsProofs!LaneInOrder` | `~ EchoOverlaps /\ Spec => []StepsInOrder` | `LaneInv`, and where a step is placed the ones before it have passed |
| `LaneStepsProofs!LaneWorktreeLast` | `~ EchoOverlaps /\ Spec => WorktreeLast` | `LaneInv`, and every agent that lives is in the card, in the handlers' copies and so among those a Done teardown ends or waits for |
| `LaneRerunProofs!OneAgentAtWork` | `~ TimerOverlaps /\ Spec => []OneAgent` | a call that may start an agent holds the claim or is a lone timer, and while it may, no agent works in the lane; copies that could hide a working agent are not saved |
| `LaneRerunProofs!ResumesWhatWasInterrupted` | `~ TimerOverlaps /\ Spec => ResumesInterrupted` | the invariant of `OneAgentAtWork`; an ended record, in the card or any copy, tells the truth about its run; nobody adds a run between a resume's second look and its start |

**Session queue.** `StartedOnce` and `StartWithinLimit` need little: an entry is
looked up again, under its own card, between the await and the start. They speak
of entries. `EndedFreesSlot` and `BoardLimit` speak of sessions, and nothing in
the queue's maps ties a session to its entry while the start is in progress; what
does is spread over all calls in flight:

- `AloneInv`: of the calls that work on a card, one enqueues it or one is inside
  `startEntry` for it, and never two; a card about to be started, or waiting
  unforced, has no trigger session; an entry's session is the one its start made.
- `ActiveInv`: the session that a start is about to answer is in `active`. Both
  survive a slow store, moved, deleted and held cards, a changing limit,
  `removeCardJob` and throwing starts. `again` breaks the first (two calls work on
  one card), `early` the second (the end comes before the answer).
- `CalmInv`: what a suspended call has read of its entry's card, or will read,
  makes it remove only an entry that waits or whose session is over or announced as
  completed; so every session in `active` is counted, and the count is within the
  limit.

`LimitKept` speaks of the sessions no event has announced: the code cannot keep the
others within the limit (`KanbanSessionQueueReports`). It excludes what its proof could not survive: a moved or deleted card, or
a cleanup, removes the running entry of a live session; a start that throws after
its session exists leaves that session uncounted; a lowered limit is exceeded by
what already runs; a slow store and forced enqueues let a stale read remove a
running entry (`KanbanSessionQueueBoardLimit`, `KanbanSessionQueueForced`). The
last was found by this proof: `CalmInv` was not inductive with `Forced` containing
`TRUE`, and TLC then produced the run, which takes a third and fourth job that the
bounds of `queue_calm` leave out.

**Reruns.** `ResumesInterrupted` speaks of the moment a resume starts, but it
decided earlier, and any end, move, revive, retry or restart may have come in
between. `ResumeInv` adds to the invariant of `OneAgentAtWork`:

- `Truthful`: whatever record the card or a copy shows, an "interrupted" one is of
  a dead session whose turn never ended by itself, a "cancelled" or "limited" one
  of a turn that ended so, or of a start that failed; `RefusedApart`: a failed
  start is never recorded as anything else. They rest on `CardSourced`, which says
  for each step where a saved record can come from;
- `ResumeOK`: from its second look at the card (`runLaneRerunOnce`) to its start a
  resume's latest run has ended, but not by itself. It stays the latest because
  every other path that could record a run would hold the claim.

Nothing is said of "completed": a run the user ended is recorded so, and a copy
listed before can show it as interrupted again. Here the attempt to prove the
stronger `ResumesNothingElse` failed, and `LaneRerunResume` is the behaviour that
refutes it, beyond the bounds of `lane_rerun`. `ResumesInterrupted` therefore
excuses a completed run whose turn did not complete; a resume never starts a step
that has really completed, met a limit or could not be started.

**Lane automation.** The six properties need one inductive invariant, `LaneInv`
(the end of `LaneDriverProofs`). None of them is inductive: that an agent is
started in its lane depends on every handler that is at an await. Its parts:

- always: `Types`; `Single`, one call is between two waits; `AutoOK` and
  `References`, an automation that someone names is in use and its step is one
  of the lane's; `FreshOK`, a session that was not started is unknown to all;
  `Evidence`, an event in progress has its cause in the session's state (a
  report was made, a turn is over, a process has exited); `Alone`, while a
  session is ended for its failure no other call has an event of it;
- `LaneCalm`, until the card is moved while an agent is started or ended
  (`interrupted`): `Drive`, at most one call enters, judges or starts for the
  live lane, its copy of column and trigger is current and the board queue
  agrees with the automation; `Followings`, the session the lane follows is its
  own, not deferred, departed or torn down, and once it has reported or ended
  some call brings the news; `Silent`, the watchdog does not report a session
  that reported inside its turn.

`StepsInOrder` and the budget look back over the whole run. For the budget a
*claim* on a step is a session run for it, its place in the board queue or a call
that starts it; a start turns a claim into the next one and only `StartNext`,
`Recover` and a transition make one, each counted in `step` or `recoveries`. In
Done no recovery exists, so the bound holds even for an interrupted lane. For the
order, a step is *placed* where an automation, the queue, a session or a call
names it; every step below a placed one has *passed*, and sessions never lose
their report, their turn's end or the run they were started for.

`WorktreeLast` is about a list made long before the worktree goes: the teardown
ends the sessions named by the copy that its handler read when the last step was
over. `LaneTree` says that this is enough. No save loses a lane record, so the
card and every copy still in use name each living agent (`Recorded`,
`CopiesRecorded`: no agent is started behind a copy's back, because one call drives
the lane); while
the cleanup is under way each living agent is on its list or is the one inside its
turn that it waits for (`Collected`), and that one has been ended when the wait is
over (`Swept`); no agent is started meanwhile, since a visit of Done that is over
stays over. The proof made a premise superfluous, and the property was
strengthened: it need not say that the lane no longer lives.

The hypothesis `~ EchoOverlaps` says that the second report of a broken prompt is
not handled while the first one awaits the kill. Without it `Alone` and `Drive`
fail (`LaneAutomationEcho`), and so do `LaneSettles` and `StartsInLane`, because
the stale copy of the first handler makes the dead session the trigger again. TLC
finds the other safety properties true even then, at the bounds of
`lane_automation`; for them this is not proved. The reports inside a turn, its
end, an exit and a timeout may overlap in the theorems as they do in the code.

**Only model-checked.** Liveness (`QueueServed`, `RunningEnds`,
`ReadyDispatched`, `EndedIsTold`, `RerunHappens`, `LaneSettles`): the prover
does not handle fairness.
`ConcurrencyLimit` is proved under a hypothesis that the code does not enforce,
`OneAtATime`: no `dispatchPending` call begins while another is in flight. The
timer and the routes call it without waiting, and `BackgroundWorkerOverlap` shows
the limit exceeded then; the theorem says that there is no other way. In
the same way `LimitKept` and `EndReleases` assume a quiet environment, which
the code does not provide; their hypotheses are what remains to be checked at the
callers.

## 6. Running

    tlc -workers 2 -config TaskLaneRecords.cfg MCTaskLaneRecords
    tlc -workers 2 -config KanbanSessionQueueRaces.cfg MCKanbanSessionQueue
    tlc -workers 2 -config BackgroundWorkerOrder.cfg MCBackgroundWorker
    tlc -workers 2 -config Delegation.cfg MCDelegation
    tlc -workers 2 -config LaneRerun.cfg MCLaneRerun
    tlc -workers 2 -config LaneAutomation.cfg MCLaneAutomation
    tlapm KanbanSessionQueueProofs.tla
    tlapm BackgroundWorkerProofs.tla
    tlapm LaneStepsProofs.tla
