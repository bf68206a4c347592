--------------------------- MODULE BackgroundWorker ---------------------------
(***************************************************************************)
(* BackgroundTaskWorker (background-worker/index.ts), the task store it    *)
(* polls, the steps a WorkflowExecutor saved there, the HTTP session       *)
(* store's turn_complete handler and the requests of /api/background-tasks.*)
(*                                                                         *)
(* An action is one query, status write or HTTP call of an async function  *)
(* with the code up to the next one, so what the function has read before  *)
(* may be stale when it writes; the reads and best-effort writes of step   *)
(* outputs are taken together with the access they accompany.  Every       *)
(* status write is an unconditional update.  Time is the age of a          *)
(* timestamp in the classes the code tells apart.  One workflow run is     *)
(* modelled; a task without dependencies stands for a task of any other    *)
(* source as well.                                                         *)
(***************************************************************************)
EXTENDS Integers, Sequences, FiniteSets

CONSTANTS
  NumSteps,       \* steps of the workflow
  Workflows,      \* workflow definitions: the parallel_group of each step, in order
  NoGroup,        \* a step without parallel_group
  Refs,           \* Refs[t]: the steps whose output the prompt of t has placeholders for
  MaxConcurrent,  \* MAX_CONCURRENT_TASKS
  Dispatchers,    \* dispatchPending calls that may be in flight at the same time
  MaxSessions,    \* bound on the sessions ever created
  MaxRestarts,    \* bound on the restarts of the server
  MaxRequests,    \* bound on the requests of users
  Requests        \* the operations users send: a subset of {"delete", "force", "retry", "edit"}

Tasks == 1 .. NumSteps
Sessions == 1 .. MaxSessions
NoSession == 0

ASSUME StepsAssumption == NumSteps \in Nat \ {0} /\ \A w \in Workflows : DOMAIN w = Tasks
ASSUME RefsAssumption == Refs \in [Tasks -> SUBSET Tasks]
ASSUME BoundsAssumption == /\ MaxConcurrent \in Nat \ {0} /\ MaxSessions \in Nat
                           /\ MaxRestarts \in Nat /\ MaxRequests \in Nat
ASSUME RequestsAssumption == Requests \subseteq {"delete", "force", "retry", "edit"}

VARIABLES
  task,       \* task[t]: the stored row
  flow,       \* the workflow that is triggered: its steps, and the next one to save
  outputs,    \* steps with an entry in the workflow run's stepOutputs
  session,    \* session[s]: the HTTP session store
  created,    \* how many sessions exist or existed
  tick,       \* tick[d]: a dispatchPending call
  check,      \* the checkCompletions call
  known,      \* sessions in the worker's sessionToTask map
  turn,       \* turn[s]: the turn_complete handler of session s
  request,    \* a request to /api/background-tasks/{id}
  sent,       \* requests so far
  restarts,   \* restarts so far
  done        \* history: the steps that have been COMPLETED at some time

storeVars == <<task, flow, outputs, done>>
vars == <<task, flow, outputs, session, created, tick, check, known, turn, request, sent, restarts, done>>

-----------------------------------------------------------------------------
\* Age classes of a timestamp: under 2 minutes, under 5, under 2 hours, older.
Fresh == 0
Idle2Min == 1
Orphan5Min == 2
Stale2Hours == 3
Never == -1           \* startedAt is not set
Ages == {Never} \cup Fresh .. Stale2Hours

Older(a) == IF a \in {Never, Stale2Hours} THEN a ELSE a + 1

Statuses == {"absent", "PENDING", "RUNNING", "COMPLETED", "FAILED", "CANCELLED"}
Task == [status : Statuses, session : Sessions \cup {NoSession}, started : Ages, output : BOOLEAN]
Absent == [status |-> "absent", session |-> NoSession, started |-> Never, output |-> FALSE]

\* A row as a query returned it.
Row == [id : Tasks, session : Sessions \cup {NoSession}, started : Ages, output : BOOLEAN]
RowOf(t) == [id |-> t, session |-> task[t].session, started |-> task[t].started, output |-> task[t].output]

-----------------------------------------------------------------------------
(* WorkflowExecutor                                                        *)

\* groupStepsByParallel: a group is a maximal run of steps of one parallel_group.
SameGroup(i, j) == flow.steps[i] # NoGroup /\ \A k \in i .. j : flow.steps[k] = flow.steps[i]

\* A step depends on every step of the groups before its own.
DependsOn(t) == {u \in 1 .. t - 1 : ~ SameGroup(u, t)}

-----------------------------------------------------------------------------
(* The task store                                                          *)

Exists(t) == task[t].status # "absent"

\* listRunning: only tasks with a session.
Running == {t \in Tasks : task[t].status = "RUNNING" /\ task[t].session # NoSession}

\* Mutant of Orphaned: the query asks for tasks with a session.
OrphanedWithSession == {t \in Running : task[t].started >= Orphan5Min}

\* listOrphaned: RUNNING without a session for more than 5 minutes.
Orphaned == {t \in Tasks : /\ task[t].status = "RUNNING" /\ task[t].session = NoSession
                           /\ task[t].started >= Orphan5Min}

\* Mutant of Ready: a dependency that has ended in any way is enough.
ReadyEnded == {t \in Tasks : /\ task[t].status = "PENDING"
                             /\ \A u \in DependsOn(t) : task[u].status \notin {"PENDING", "RUNNING"}}

\* listReadyToRun: PENDING, every dependency exists and is COMPLETED.
Ready == {t \in Tasks : /\ task[t].status = "PENDING"
                        /\ \A u \in DependsOn(t) : task[u].status = "COMPLETED"}

\* updateStatus on the rows: no effect on a missing row, NoSession and Never keep
\* what is stored.
UpdateStatus(t, status, s, started) ==
  /\ task' = IF ~ Exists(t) THEN task
             ELSE [task EXCEPT ![t] = [status |-> status,
                                       session |-> IF s = NoSession THEN task[t].session ELSE s,
                                       started |-> IF started = Never THEN task[t].started ELSE started,
                                       output |-> task[t].output]]
  /\ done' = IF status = "COMPLETED" /\ Exists(t) THEN done \cup {t} ELSE done

\* An output is kept only if a prompt has a placeholder for it: nobody reads the others.
HasReader(t) == \E u \in Tasks : t \in Refs[u]

\* persistCompletedTaskOutput: an output that is not blank, best effort.
Persist(row) == \E new \in SUBSET (IF row.output THEN {row.id} ELSE {}) : outputs' = outputs \cup new

\* trigger: the steps are saved one by one while the worker is already polling.
SaveStep ==
  /\ flow.next <= NumSteps
  /\ flow' = [flow EXCEPT !.next = flow.next + 1]
  /\ task' = [task EXCEPT ![flow.next] = [Absent EXCEPT !.status = "PENDING"]]
  /\ UNCHANGED <<outputs, session, created, tick, check, known, turn, request, sent, restarts, done>>

-----------------------------------------------------------------------------
(* dispatchPending and dispatchTask                                        *)

\* What a tick keeps of a row it has listed.
Listed == [id : Tasks, started : Ages]

Resting == [pc |-> "idle", slots |-> 0, todo |-> {}, session |-> NoSession]

Goto(d, local) == tick' = [tick EXCEPT ![d] = local]

\* Mutant of AtLimit: the count is not looked at.
AtLimitUnchecked == FALSE

AtLimit == Cardinality(Running) >= MaxConcurrent

CountRunning(d) ==
  /\ tick[d].pc = "idle"
  /\ ~ AtLimit
  /\ Goto(d, [Resting EXCEPT !.pc = "counted", !.slots = MaxConcurrent - Cardinality(Running)])
  /\ UNCHANGED <<storeVars, session, created, check, known, turn, request, sent, restarts>>

\* Mutant of Slice: the ready tasks are not cut to the free slots.
SliceUncut(ready, n) == ready

\* slice(0, slotsAvailable) of the ready tasks, oldest first.
Slice(ready, n) == {t \in ready : Cardinality({u \in ready : u < t}) < n}

ListReady(d) ==
  /\ tick[d].pc = "counted"
  /\ Goto(d, IF Ready = {} THEN Resting
             ELSE [Resting EXCEPT !.pc = "next",
                     !.todo = {[id |-> t, started |-> task[t].started] : t \in Slice(Ready, tick[d].slots)}])
  /\ UNCHANGED <<storeVars, session, created, check, known, turn, request, sent, restarts>>

\* The row that is being dispatched: the oldest one left.
Oldest(d, row) == \A q \in tick[d].todo : row.id <= q.id

\* resolveTaskPrompt: an output of the workflow run, or of a task that still exists.
Resolved(t) == \A u \in Refs[t] : u \in outputs \/ task[u].output

\* A placeholder that cannot be filled throws: the whole tick ends, before the
\* task is marked and before the tasks behind it are dispatched.
ResolvePrompt(d, row) ==
  /\ tick[d].pc = "next"
  /\ Goto(d, IF Resolved(row.id) THEN [tick[d] EXCEPT !.pc = "resolved"] ELSE Resting)
  /\ UNCHANGED <<storeVars, session, created, check, known, turn, request, sent, restarts>>

\* The task is marked RUNNING whatever has become of it since it was listed.
MarkRunning(d, row) ==
  /\ tick[d].pc = "resolved"
  /\ UpdateStatus(row.id, "RUNNING", NoSession, Fresh)
  /\ Goto(d, [tick[d] EXCEPT !.pc = "marked"])
  /\ UNCHANGED <<flow, outputs, session, created, check, known, turn, request, sent, restarts>>

\* session/new answers; the prompt is sent without waiting for it and may be lost.
SessionNew(d, row) ==
  /\ tick[d].pc = "marked"
  /\ created < MaxSessions
  /\ created' = created + 1
  /\ session' = [session EXCEPT ![created + 1] = [task |-> row.id, live |-> TRUE, streaming |-> FALSE]]
  /\ Goto(d, [tick[d] EXCEPT !.pc = "created", !.session = created + 1])
  /\ UNCHANGED <<storeVars, check, known, turn, request, sent, restarts>>

SessionNewFails(d) ==
  /\ tick[d].pc = "marked"
  /\ Goto(d, [tick[d] EXCEPT !.pc = "failed"])
  /\ UNCHANGED <<storeVars, session, created, check, known, turn, request, sent, restarts>>

NextTask(d, row) ==
  LET left == tick[d].todo \ {row}
  IN Goto(d, IF left = {} THEN Resting ELSE [Resting EXCEPT !.pc = "next", !.todo = left])

\* startedAt is the one of the row as it was listed, if that had one.
RecordSession(d, row) ==
  /\ tick[d].pc = "created"
  /\ UpdateStatus(row.id, "RUNNING", tick[d].session, IF row.started = Never THEN Fresh ELSE row.started)
  /\ known' = known \cup {tick[d].session}
  /\ NextTask(d, row)
  /\ UNCHANGED <<flow, outputs, session, created, check, turn, request, sent, restarts>>

RecordFailure(d, row) ==
  /\ tick[d].pc = "failed"
  /\ UpdateStatus(row.id, "FAILED", NoSession, Never)
  /\ NextTask(d, row)
  /\ UNCHANGED <<flow, outputs, session, created, check, known, turn, request, sent, restarts>>

-----------------------------------------------------------------------------
(* checkCompletions: four passes, each over what it listed when it began.  *)

Waiting == [pc |-> "idle", active |-> {}, gone |-> {}, rows |-> {}]

CheckMemory ==
  /\ check.pc = "idle"
  /\ LET active == {s \in Sessions : session[s].live}
     IN check' = [Waiting EXCEPT !.pc = "memory", !.active = active, !.gone = known \ active]
  /\ UNCHANGED <<storeVars, session, created, tick, known, turn, request, sent, restarts>>

\* 1. A session of the map that is gone: its task is COMPLETED.
CompleteKnown(s) ==
  /\ check.pc = "memory" /\ s \in check.gone
  /\ LET t == session[s].task
     IN Persist(RowOf(t)) /\ UpdateStatus(t, "COMPLETED", s, Never)
  /\ known' = known \ {s}
  /\ check' = [check EXCEPT !.gone = check.gone \ {s}]
  /\ UNCHANGED <<flow, session, created, tick, turn, request, sent, restarts>>

\* The next pass begins with its query.
Pass(from, to, active, listed) ==
  /\ check.pc = from /\ check.gone = {} /\ check.rows = {}
  /\ check' = [Waiting EXCEPT !.pc = to, !.active = active, !.rows = {RowOf(t) : t \in listed}]
  /\ UNCHANGED <<storeVars, session, created, tick, known, turn, request, sent, restarts>>

CheckRecovery == Pass("memory", "recovery", check.active, Running)
CheckOrphaned == Pass("recovery", "orphaned", {}, Orphaned)
CheckStale == Pass("orphaned", "stale", {}, Running)

CheckEnd ==
  /\ check.pc = "stale" /\ check.rows = {}
  /\ check' = Waiting
  /\ UNCHANGED <<storeVars, session, created, tick, known, turn, request, sent, restarts>>

\* One row of a pass: what is written to its task, if anything.
Visit(pc, row) == check.pc = pc /\ row \in check.rows /\ check' = [check EXCEPT !.rows = check.rows \ {row}]

\* 2. The session is gone, or idle for a task that started over 2 minutes ago.
Over(row) ==
  \/ row.session \notin check.active
  \/ ~ session[row.session].streaming /\ row.started >= Idle2Min

CompleteRecovered(row) ==
  /\ Visit("recovery", row)
  /\ Over(row)
  /\ Persist(row) /\ UpdateStatus(row.id, "COMPLETED", row.session, Never)
  /\ UNCHANGED <<flow, session, created, tick, known, turn, request, sent, restarts>>

KeepRecovered(row) ==
  /\ Visit("recovery", row)
  /\ ~ Over(row)
  /\ UNCHANGED <<storeVars, session, created, tick, known, turn, request, sent, restarts>>

\* 3. RUNNING without a session.
FailOrphan(row) ==
  /\ Visit("orphaned", row)
  /\ UpdateStatus(row.id, "FAILED", NoSession, Never)
  /\ UNCHANGED <<flow, outputs, session, created, tick, known, turn, request, sent, restarts>>

\* 4. RUNNING for over 2 hours.
FailStale(row) ==
  /\ Visit("stale", row)
  /\ IF row.started >= Stale2Hours
     THEN UpdateStatus(row.id, "FAILED", NoSession, Never) /\ known' = known \ {row.session}
     ELSE UNCHANGED <<task, done, known>>
  /\ UNCHANGED <<flow, outputs, session, created, tick, turn, request, sent, restarts>>

-----------------------------------------------------------------------------
(* Sessions: updateBackgroundTaskProgress, and what the agents do.         *)

\* A prompt response begins or ends to stream; only SDK providers stream, and not
\* for as long as the agent works.
Stream(s) ==
  /\ session[s].live
  /\ session' = [session EXCEPT ![s].streaming = ~ session[s].streaming]
  /\ UNCHANGED <<storeVars, created, tick, check, known, turn, request, sent, restarts>>

\* pushNotification: the agent said something or ended its turn.
Notify(s) ==
  /\ session[s].live /\ turn[s] = "none"
  /\ turn' = [turn EXCEPT ![s] = "notified"]
  /\ UNCHANGED <<storeVars, session, created, tick, check, known, request, sent, restarts>>

\* findBySessionId: a session no row names yet is not a background task's.
TurnFind(s) ==
  /\ turn[s] = "notified"
  /\ turn' = [turn EXCEPT ![s] = IF \E t \in Tasks : Exists(t) /\ task[t].session = s THEN "found" ELSE "none"]
  /\ UNCHANGED <<storeVars, session, created, tick, check, known, request, sent, restarts>>

\* A message: the task's output grows.
TurnMessage(s) ==
  /\ turn[s] = "found"
  /\ LET t == session[s].task
     IN task' = IF Exists(t) THEN [task EXCEPT ![t].output = HasReader(t)] ELSE task
  /\ turn' = [turn EXCEPT ![s] = "none"]
  /\ UNCHANGED <<flow, outputs, done, session, created, tick, check, known, request, sent, restarts>>

\* turn_complete
TurnComplete(s) ==
  /\ turn[s] = "found"
  /\ UpdateStatus(session[s].task, "COMPLETED", s, Never)
  /\ turn' = [turn EXCEPT ![s] = "completed"]
  /\ UNCHANGED <<flow, outputs, session, created, tick, check, known, request, sent, restarts>>

\* updateTaskOutput, and the workflow run's output unless it is empty.
TurnOutput(s) ==
  /\ turn[s] = "completed"
  /\ LET t == session[s].task
     IN /\ task' = IF Exists(t) THEN [task EXCEPT ![t].output = HasReader(t)] ELSE task
        /\ \E new \in SUBSET (IF HasReader(t) THEN {t} ELSE {}) : outputs' = outputs \cup new
  /\ turn' = [turn EXCEPT ![s] = "none"]
  /\ UNCHANGED <<flow, done, session, created, tick, check, known, request, sent, restarts>>

\* The session is deleted from the session store.
SessionRemoved(s) ==
  /\ session[s].live
  /\ session' = [session EXCEPT ![s].live = FALSE]
  /\ UNCHANGED <<storeVars, created, tick, check, known, turn, request, sent, restarts>>

-----------------------------------------------------------------------------
(* Requests: the row is read first, then written.                          *)

NoRequest == [op |-> "none", id |-> 1, copy |-> Absent]

\* The status a request is refused without.
Accepts(op, status) ==
  CASE op = "edit" -> status = "PENDING"
    [] op = "retry" -> status = "FAILED"
    [] OTHER -> status # "absent"

RequestRead(op, t) ==
  /\ request = NoRequest
  /\ sent < MaxRequests /\ sent' = sent + 1
  /\ Accepts(op, task[t].status)
  /\ request' = [op |-> op, id |-> t,
                 copy |-> IF op = "edit" THEN task[t] ELSE [Absent EXCEPT !.status = task[t].status]]
  /\ UNCHANGED <<storeVars, session, created, tick, check, known, turn, restarts>>

\* DELETE cancels a running task, or fails it first if it is forced, and deletes the
\* row otherwise; retry resets the status; PATCH saves the whole row it has read.
RequestWrite ==
  /\ request # NoRequest
  /\ LET t == request.id
         is(op, status) == request.op = op /\ request.copy.status = status
         update(status) == UpdateStatus(t, status, NoSession, Never)
         row(r) == task' = [task EXCEPT ![t] = r] /\ UNCHANGED done
     IN /\ CASE request.op = "edit" -> row(request.copy)
             [] request.op = "retry" -> update("PENDING")
             [] is("delete", "RUNNING") -> update("CANCELLED")
             [] is("force", "RUNNING") -> update("FAILED")
             [] OTHER -> row(Absent)
        /\ request' = IF is("force", "RUNNING") THEN [request EXCEPT !.copy.status = "FAILED"] ELSE NoRequest
  /\ UNCHANGED <<flow, outputs, session, created, tick, check, known, turn, sent, restarts>>

-----------------------------------------------------------------------------
(* Time and crashes                                                        *)

Aged(r) == [r EXCEPT !.started = Older(r.started)]

Age ==
  /\ task' = [t \in Tasks |-> Aged(task[t])]
  /\ tick' = [d \in Dispatchers |->
                [tick[d] EXCEPT !.todo = {Aged(r) : r \in tick[d].todo}]]
  /\ check' = [check EXCEPT !.rows = {Aged(r) : r \in check.rows}]
  /\ request' = [request EXCEPT !.copy = Aged(request.copy)]
  /\ UNCHANGED <<flow, outputs, session, created, known, turn, sent, restarts, done>>

\* The process restarts: calls in flight, a workflow being saved, the map and the
\* turns are lost; sessions come back from the database or not (hydrateFromDb).
Restart ==
  /\ restarts < MaxRestarts
  /\ restarts' = restarts + 1
  /\ flow' = [flow EXCEPT !.next = NumSteps + 1]
  /\ \E kept \in {{}, Sessions} :
       session' = [s \in Sessions |-> [session[s] EXCEPT !.live = session[s].live /\ s \in kept,
                                                         !.streaming = FALSE]]
  /\ tick' = [d \in Dispatchers |-> Resting]
  /\ check' = Waiting
  /\ known' = {}
  /\ turn' = [s \in Sessions |-> "none"]
  /\ request' = NoRequest
  /\ UNCHANGED <<task, outputs, created, sent, done>>

-----------------------------------------------------------------------------
Init ==
  /\ task = [t \in Tasks |-> Absent]
  /\ \E w \in Workflows : flow = [steps |-> w, next |-> 1]
  /\ outputs = {}
  /\ session = [s \in Sessions |-> [task |-> 1, live |-> FALSE, streaming |-> FALSE]]
  /\ created = 0
  /\ tick = [d \in Dispatchers |-> Resting]
  /\ check = Waiting
  /\ known = {}
  /\ turn = [s \in Sessions |-> "none"]
  /\ request = NoRequest
  /\ sent = 0 /\ restarts = 0
  /\ done = {}

Dispatch(d) ==
  \/ CountRunning(d) \/ ListReady(d) \/ SessionNewFails(d)
  \/ \E row \in tick[d].todo :
       /\ Oldest(d, row)
       /\ \/ ResolvePrompt(d, row) \/ MarkRunning(d, row) \/ SessionNew(d, row)
          \/ RecordSession(d, row) \/ RecordFailure(d, row)

CheckCompletions ==
  \/ CheckMemory \/ CheckRecovery \/ CheckOrphaned \/ CheckStale \/ CheckEnd
  \/ \E s \in Sessions : CompleteKnown(s)
  \/ \E row \in check.rows : CompleteRecovered(row) \/ KeepRecovered(row) \/ FailOrphan(row) \/ FailStale(row)

Turn(s) == TurnFind(s) \/ TurnMessage(s) \/ TurnComplete(s) \/ TurnOutput(s)

Next ==
  \/ SaveStep
  \/ \E d \in Dispatchers : Dispatch(d)
  \/ CheckCompletions
  \/ \E s \in Sessions : Turn(s) \/ Stream(s) \/ Notify(s) \/ SessionRemoved(s)
  \/ \E op \in Requests, t \in Tasks : RequestRead(op, t)
  \/ RequestWrite
  \/ Age \/ Restart

Spec == Init /\ [][Next]_vars

\* Both timers go on firing, calls in flight are resumed and time passes.  Nothing
\* is assumed of the agents, the users or session/new.
Fairness ==
  /\ WF_vars(SaveStep) /\ WF_vars(Age) /\ WF_vars(CheckCompletions) /\ WF_vars(RequestWrite)
  /\ \A d \in Dispatchers : WF_vars(Dispatch(d))
  /\ \A s \in Sessions : WF_vars(Turn(s))

FairSpec == Spec /\ Fairness

-----------------------------------------------------------------------------
StoreOK ==
  /\ task \in [Tasks -> Task]
  /\ flow \in [steps : Workflows, next : 1 .. NumSteps + 1]
  /\ outputs \subseteq Tasks /\ done \subseteq Tasks

SessionsOK ==
  /\ session \in [Sessions -> [task : Tasks, live : BOOLEAN, streaming : BOOLEAN]]
  /\ created \in 0 .. MaxSessions /\ known \subseteq Sessions
  /\ turn \in [Sessions -> {"none", "notified", "found", "completed"}]

TickOK ==
  /\ tick \in [Dispatchers -> [pc : {"idle", "counted", "next", "resolved", "marked", "created", "failed"},
                               slots : 0 .. MaxConcurrent, todo : SUBSET Listed,
                               session : Sessions \cup {NoSession}]]
  /\ \A d \in Dispatchers : /\ tick[d].pc = "counted" => tick[d].slots > 0
                            /\ tick[d].pc = "created" => tick[d].session # NoSession

CheckOK ==
  check \in [pc : {"idle", "memory", "recovery", "orphaned", "stale"},
             active : SUBSET Sessions, gone : SUBSET Sessions, rows : SUBSET Row]

RequestOK ==
  /\ request \in [op : {"none"} \cup Requests, id : Tasks, copy : Task]
  /\ restarts \in 0 .. MaxRestarts /\ sent \in 0 .. MaxRequests

\* Every variable has its type; a tick that goes on has found a free slot.
TypeOK == StoreOK /\ SessionsOK /\ TickOK /\ CheckOK /\ RequestOK

\* A session for a workflow step is created only after every step of the groups
\* before it has been completed, whatever was cancelled, edited, deleted, retried or
\* restarted meanwhile (listReadyToRun and the stale list a tick works through).
StepsInOrder ==
  [][\A s \in Sessions : s > created /\ s <= created' => DependsOn(session'[s].task) \subseteq done]_vars

\* "Only runs up to MAX_CONCURRENT_TASKS at a time": tasks RUNNING with a session.
ConcurrencyLimit ==
  Cardinality({t \in Tasks : task[t].status = "RUNNING" /\ task[t].session # NoSession}) <= MaxConcurrent

\* No task stays RUNNING for ever: whatever is lost by a crash, a failed session/new
\* or an agent that never ends, one of the passes of checkCompletions ends it.
RunningEnds == \A t \in Tasks : task[t].status = "RUNNING" ~> task[t].status # "RUNNING"

\* "The BackgroundWorker will automatically dispatch tasks when dependencies are completed."
ReadyDispatched == \A t \in Tasks : t \in Ready ~> t \notin Ready
=============================================================================
