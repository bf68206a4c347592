-------------------------- MODULE KanbanSessionQueue --------------------------
(***************************************************************************)
(* KanbanSessionQueue (kanban-session-queue.ts): the queue that starts the *)
(* lane sessions of one board and keeps at most `limit` of them running.   *)
(*                                                                         *)
(* The class is single-threaded but every operation is async: it gives up  *)
(* control at each await and continues on whatever the other calls left    *)
(* behind.  A call in flight is a process; one action is the code between  *)
(* two awaits.  A task or limit that is awaited is read in a step of its   *)
(* own (ReadTask, ReadLimit), so it may be stale when the call resumes.    *)
(*                                                                         *)
(* One board is modelled: the queue treats boards independently, except    *)
(* for a card with a job on two boards.  A lane is a column of the board;  *)
(* a card moved to another board is in a lane of none of its jobs.         *)
(***************************************************************************)
EXTENDS Integers, Sequences, FiniteSets

CONSTANTS
  Cards,          \* card ids
  NoCard,         \* no card: the field of an unused record
  Lanes,          \* columns with automation
  BlockedLane,    \* the column "blocked"
  Calls,          \* async operations that may be in flight at the same time
  MaxJobs,        \* bound on the number of jobs ever created
  Limits,         \* values the board's concurrency limit takes
  Forced,         \* values of ignoreExistingTrigger the callers use
  Disturbances    \* what the rest of the system does to the queue

\* What the rest of the system may do while calls are in flight:
\*   move, delete, hold, limit: edit a card, delete it, label it, change the limit;
\*   cleanup: removeCardJob and a cleared trigger session (a user's or an
\*            auto-advance's column change, a rerun) while the job is running;
\*   again:   enqueue a card that has a job or an enqueue in flight;
\*   early:   a session ends before startEntry has been told of it;
\*   report:  an agent's completion is announced inside its turn (update_task to
\*            "completed"): the event is that of an end, the agent goes on;
\*   fail:    an exception in the start closure, before or after the session exists;
\*   slow:    a store that answers later than it is asked (Postgres).  Without it a
\*            read returns what was stored when it was issued (SQLite, in memory).
AllDisturbances == {"move", "delete", "hold", "limit", "cleanup", "again", "early", "report",
                    "fail", "slow"}

ASSUME SetsAssumption == IsFiniteSet(Cards) /\ NoCard \notin Cards /\ BlockedLane \in Lanes
ASSUME MaxJobsAssumption == MaxJobs \in Nat
ASSUME LimitsAssumption == Limits \subseteq Nat \ {0} /\ Limits # {}
ASSUME ForcedAssumption == Forced \subseteq BOOLEAN
ASSUME DisturbancesAssumption == Disturbances \subseteq AllDisturbances

Jobs == 1 .. MaxJobs
NoJob == 0
NoSession == 0        \* a session is named after the job whose start created it

VARIABLES
  task,      \* task[c]: the stored card: lane, trigger session, hold label, existence
  limit,     \* the board's configured concurrency limit
  active,    \* sessions of the ACP runtime at work: nothing has announced their end
  finishing, \* sessions announced as completed inside a turn that still runs
  jobs,      \* jobsByCardId
  queue,     \* queuedByBoard.get(board), <<>> when the board has no array
  job,       \* job[j]: the QueueEntry objects created so far
  made,      \* how many of them
  call,      \* call[p]: the local state of call p
  todo,      \* todo[p]: entries a reconcile loop has still to visit
  shared     \* shared[p]: todo[p] iterates the array object that is the board's queue

boardVars == <<task, limit, active, finishing>>
vars == <<task, limit, active, finishing, jobs, queue, job, made, call, todo, shared>>

-----------------------------------------------------------------------------
Task == [exists : BOOLEAN, lane : Lanes, trigger : Jobs \cup {NoSession}, hold : BOOLEAN]

Job == [card : Cards \cup {NoCard}, lane : Lanes, force : BOOLEAN, status : {"queued", "running"},
        session : Jobs \cup {NoSession}, starts : Nat]

\* Where a call waits: for the task of `cur` (running, queued, existing, head),
\* for the limit, for the start of `cur` (starting, working, started), or for its
\* own continuation after an awaited async method returned (ranRunning,
\* reconciled, loop, drop).
Awaits == {"idle", "running", "ranRunning", "queued", "reconciled", "existing", "limit",
           "loop", "head", "starting", "working", "started", "drop"}

Call == [pc : Awaits, op : {"enqueue", "drain", "snapshot", "drop"},
         card : Cards \cup {NoCard}, lane : Lanes, force : BOOLEAN, cur : Jobs \cup {NoJob},
         visit : SUBSET Jobs, keep : Seq(Jobs), read : BOOLEAN, got : Task, limit : Nat,
         result : Jobs \cup {NoSession}]

BlankTask == [exists |-> FALSE, lane |-> BlockedLane, trigger |-> NoSession, hold |-> FALSE]
BlankJob == [card |-> NoCard, lane |-> BlockedLane, force |-> FALSE, status |-> "queued",
             session |-> NoSession, starts |-> 0]
Idle == [pc |-> "idle", op |-> "snapshot", card |-> NoCard, lane |-> BlockedLane, force |-> FALSE,
         cur |-> NoJob, visit |-> {}, keep |-> <<>>, read |-> FALSE, got |-> BlankTask, limit |-> 0,
         result |-> NoSession]

-----------------------------------------------------------------------------
(* Readers of the maps, on given values of jobsByCardId and of the entries. *)

InQueue(j) == \E i \in DOMAIN queue : queue[i] = j

RunningCards(js, es) == {c \in Cards : js[c] # NoJob /\ es[js[c]].status = "running"}

\* Mutant: an entry counts once its session is known.
CountSessions(js, es) ==
  Cardinality({c \in RunningCards(js, es) : es[js[c]].session # NoSession})

CountRunning(js, es) == Cardinality(RunningCards(js, es))

\* The map still holds entry j for j's card, with the given status.
IsCurrent(js, es, j, status) ==
  j # NoJob /\ \E c \in Cards : js[c] = j /\ es[j].card = c /\ es[j].status = status

\* Mutant: the key goes, and nothing answers for a card without a job.
WithoutKey(js, c) == [d \in DOMAIN js \ {c} |-> js[d]]

Without(js, c) == [js EXCEPT ![c] = NoJob]

\* Array.filter: the elements of q at the positions in K, in their order.
Filtered(q, K) ==
  LET nth(n) == CHOOSE i \in K : Cardinality({k \in K : k <= i}) = n
  IN [n \in 1 .. Cardinality(K) |-> q[nth(n)]]

\* The queue without the jobs of card c (removeQueuedEntry).
Unqueue(c) == Filtered(queue, {i \in DOMAIN queue : job[queue[i]].card # c})

\* The queue without the entry object j (removeQueuedEntryInstance).
UnqueueInstance(j) == Filtered(queue, {i \in DOMAIN queue : queue[i] # j})

-----------------------------------------------------------------------------
(* The board's array is either replaced as a whole or pushed to in place.  *)
(* A reconcile loop that iterates the same array object sees the push.     *)

ReplaceQueue(q) ==
  /\ queue' = q
  /\ shared' = [p \in Calls |-> FALSE]
  /\ UNCHANGED todo

PushQueuedEntry(j) ==
  /\ queue' = Append(queue, j)
  /\ todo' = [p \in Calls |-> IF shared[p] THEN Append(todo[p], j) ELSE todo[p]]
  /\ UNCHANGED shared

KeepQueue == UNCHANGED <<queue, todo, shared>>

\* A local state that waits at pc for entry j.
At(local, pc, j) == [local EXCEPT !.pc = pc, !.cur = j, !.read = FALSE, !.got = BlankTask,
                                  !.result = NoSession]

\* The read is issued; unless the store is slow it is answered with what is stored now.
Prompt == "slow" \notin Disturbances

AwaitTask(local, pc, j, c) ==
  [At(local, pc, j) EXCEPT !.read = Prompt, !.got = IF Prompt THEN task[c] ELSE BlankTask]

AwaitLimit(local) ==
  [At(local, "limit", NoJob) EXCEPT !.read = Prompt, !.limit = IF Prompt THEN limit ELSE 0]

Goto(p, local) == call' = [call EXCEPT ![p] = local]

Return(p) == Goto(p, Idle)

-----------------------------------------------------------------------------
(* A slow store's answer: the card of the entry, or the board's limit.     *)

AwaitsTask == {"running", "queued", "existing", "head", "starting"}

ReadTask(p) ==
  /\ call[p].pc \in AwaitsTask /\ ~ call[p].read
  /\ LET c == IF call[p].pc = "existing" THEN call[p].card ELSE job[call[p].cur].card
     IN Goto(p, [call[p] EXCEPT !.read = TRUE, !.got = task[c]])
  /\ KeepQueue
  /\ UNCHANGED <<boardVars, jobs, job, made>>

ReadLimit(p) ==
  /\ call[p].pc = "limit" /\ ~ call[p].read
  /\ Goto(p, [call[p] EXCEPT !.read = TRUE, !.limit = limit])
  /\ KeepQueue
  /\ UNCHANGED <<boardVars, jobs, job, made>>

-----------------------------------------------------------------------------
(* reconcileBoardEntries: first the running, then the queued entries.      *)

\* reconcileRunningEntries awaits the task of the next entry of `visit` that is
\* still the running job of its card, in any order, or returns.
VisitRunning(calls, p, js, es, visit) ==
  LET left == {j \in visit : IsCurrent(js, es, j, "running")}
      goto(local) == call' = [calls EXCEPT ![p] = local]
  IN \/ left = {} /\ goto([At(calls[p], "ranRunning", NoJob) EXCEPT !.visit = {}])
     \/ \E j \in left :
          goto([AwaitTask(calls[p], "running", j, es[j].card) EXCEPT !.visit = left \ {j}])

\* The synchronous beginning of an operation of the board: it lists the running entries.
Begin(calls, p, op, c, lane, force, js, es) ==
  VisitRunning([calls EXCEPT ![p] = [Idle EXCEPT !.op = op, !.card = c, !.lane = lane, !.force = force]],
               p, js, es, {js[d] : d \in RunningCards(js, es)})

BeginDrain(calls, p, js, es) == Begin(calls, p, "drain", NoCard, BlockedLane, FALSE, js, es)

CheckRunning(p) ==
  /\ call[p].pc = "running" /\ call[p].read
  /\ LET j == call[p].cur
         t == call[p].got
         stale == ~ t.exists \/ t.lane # job[j].lane
     IN /\ jobs' = IF stale THEN Without(jobs, job[j].card) ELSE jobs
        /\ VisitRunning(call, p, jobs', job, call[p].visit)
  /\ KeepQueue
  /\ UNCHANGED <<boardVars, job, made>>

\* reconcileQueuedEntries skips entries that are no longer queued jobs, awaits the
\* task of the first one that is, and writes back what it kept when none is left.
\* onBoard: the array it iterates is the board's.
VisitQueued(p, js, rest, keep, onBoard) ==
  LET hits == {i \in DOMAIN rest : IsCurrent(js, job, rest[i], "queued")}
      next == CHOOSE i \in hits : \A k \in hits : i <= k
  IN IF hits = {}
     THEN /\ queue' = keep
          /\ shared' = [q \in Calls |-> FALSE]
          /\ todo' = [todo EXCEPT ![p] = <<>>]
          /\ Goto(p, [At(call[p], "reconciled", NoJob) EXCEPT !.keep = <<>>])
     ELSE /\ queue' = queue
          /\ shared' = [shared EXCEPT ![p] = onBoard]
          /\ todo' = [todo EXCEPT ![p] = SubSeq(rest, next + 1, Len(rest))]
          /\ Goto(p, [AwaitTask(call[p], "queued", rest[next], job[rest[next]].card) EXCEPT !.keep = keep])

\* dropQueuedOrphans on the jobs map.
Orphaned(c) == jobs[c] # NoJob /\ job[jobs[c]].status = "queued" /\ ~ InQueue(jobs[c])

BeginQueued(p) ==
  /\ call[p].pc = "ranRunning"
  /\ jobs' = [c \in Cards |-> IF Orphaned(c) THEN NoJob ELSE jobs[c]]
  /\ IF queue = <<>> THEN KeepQueue /\ Goto(p, At(call[p], "reconciled", NoJob))
                     ELSE VisitQueued(p, jobs', queue, <<>>, TRUE)
  /\ UNCHANGED <<boardVars, job, made>>

CheckQueued(p) ==
  /\ call[p].pc = "queued" /\ call[p].read
  /\ LET j == call[p].cur
         t == call[p].got
         stale == ~ t.exists \/ t.trigger # NoSession \/ t.lane # job[j].lane
     IN /\ jobs' = IF stale THEN Without(jobs, job[j].card) ELSE jobs
        /\ VisitQueued(p, jobs', todo[p], IF stale THEN call[p].keep ELSE Append(call[p].keep, j), shared[p])
  /\ UNCHANGED <<boardVars, job, made>>

-----------------------------------------------------------------------------
(* startEntry and the start closure (startKanbanTaskSession).              *)

\* The synchronous part: the card leaves the queue, the entry counts as running.
StartEntry(p, j, es) ==
  /\ ReplaceQueue(Unqueue(es[j].card))
  /\ job' = [es EXCEPT ![j] = [es[j] EXCEPT !.status = "running", !.starts = es[j].starts + 1]]
  /\ Goto(p, AwaitTask(call[p], "starting", j, es[j].card))

\* The closure's read of the card decides whether a session is created.
StartCheck(p) ==
  /\ call[p].pc = "starting" /\ call[p].read
  /\ LET j == call[p].cur
         t == call[p].got
         answer(s) == Goto(p, [At(call[p], "started", j) EXCEPT !.result = s])
     IN IF ~ t.exists \/ t.lane # job[j].lane THEN answer(NoSession)
        ELSE IF t.trigger # NoSession /\ ~ job[j].force THEN answer(t.trigger)
        ELSE IF t.hold THEN answer(NoSession)
        ELSE Goto(p, [call[p] EXCEPT !.pc = "working"])
  /\ KeepQueue
  /\ UNCHANGED <<boardVars, jobs, job, made>>

\* The session was created, or not (then a failed worktree sends the card to the
\* blocked column), and the card is saved from the copy read before.
StartSave(p) ==
  /\ call[p].pc = "working"
  /\ LET j == call[p].cur
         copy == call[p].got
         done(saved, s) == /\ task' = [task EXCEPT ![job[j].card] = saved]
                           /\ active' = active \cup ({s} \ {NoSession})
                           /\ Goto(p, [At(call[p], "started", j) EXCEPT !.result = s])
     IN \/ done([copy EXCEPT !.trigger = j], j)
        \/ \E l \in {copy.lane, BlockedLane} : done([copy EXCEPT !.lane = l], NoSession)
  /\ KeepQueue
  /\ UNCHANGED <<limit, finishing, jobs, job, made>>

\* The closure throws before or after the session exists; startEntry catches it.
StartThrows(p) ==
  /\ "fail" \in Disturbances
  /\ call[p].pc = "working"
  /\ \E s \in {call[p].cur, NoSession} : active' = active \cup ({s} \ {NoSession})
  /\ Goto(p, At(call[p], "started", call[p].cur))
  /\ KeepQueue
  /\ UNCHANGED <<task, limit, finishing, jobs, job, made>>

\* startEntry resumes with a session: it puts the entry back into the jobs map.
StartSucceeded(p) ==
  /\ call[p].pc = "started" /\ call[p].result # NoSession
  /\ LET j == call[p].cur
     IN /\ job' = [job EXCEPT ![j] = [job[j] EXCEPT !.session = call[p].result]]
        /\ jobs' = [jobs EXCEPT ![job[j].card] = j]
  /\ IF call[p].op = "drain" THEN Goto(p, At(call[p], "loop", NoJob)) ELSE Return(p)
  /\ KeepQueue
  /\ UNCHANGED <<boardVars, made>>

\* startEntry resumes without a session: it deletes the card's job and fires a drain
\* that nobody awaits, in call q (p itself when it was an enqueue, which returns).
StartRefused(p, q) ==
  /\ call[p].pc = "started" /\ call[p].result = NoSession
  /\ IF call[p].op = "drain" THEN q # p /\ call[q].pc = "idle" ELSE q = p
  /\ jobs' = Without(jobs, job[call[p].cur].card)
  /\ BeginDrain([call EXCEPT ![p] = At(call[p], "loop", NoJob)], q, jobs', job)
  /\ KeepQueue
  /\ UNCHANGED <<boardVars, job, made>>

-----------------------------------------------------------------------------
(* enqueue                                                                 *)

\* A card that has a job, or is being enqueued or started by a call.
Busy(c) ==
  \/ jobs[c] # NoJob
  \/ \E q \in Calls : /\ call[q].pc # "idle"
                      /\ \/ call[q].op = "enqueue" /\ call[q].card = c
                         \/ call[q].cur # NoJob /\ job[call[q].cur].card = c

\* Enqueues in flight that may still create a job.
Entering == {q \in Calls : /\ call[q].op = "enqueue"
                           /\ call[q].pc \notin {"idle", "starting", "working", "started"}}

\* enqueueKanbanTaskSession lets a card through unless it has a trigger session or is on hold.
Enqueue(p, c, force) ==
  /\ call[p].pc = "idle"
  /\ made + Cardinality(Entering) < MaxJobs
  /\ "again" \in Disturbances \/ ~ Busy(c)
  /\ task[c].exists /\ ~ task[c].hold
  /\ task[c].trigger = NoSession \/ force
  /\ Begin(call, p, "enqueue", c, task[c].lane, force, jobs, job)
  /\ KeepQueue
  /\ UNCHANGED <<boardVars, jobs, job, made>>

\* The board is reconciled: what does jobsByCardId hold for the card?
EnqueueExisting(p) ==
  /\ call[p].pc = "reconciled" /\ call[p].op = "enqueue"
  /\ LET c == call[p].card
         existing == jobs[c]
         status == job[existing].status
     IN \/ /\ existing = NoJob
           /\ Goto(p, AwaitLimit(call[p])) /\ UNCHANGED jobs
        \/ /\ existing # NoJob /\ status = "running"
           /\ Goto(p, AwaitTask(call[p], "existing", NoJob, c)) /\ UNCHANGED jobs
        \/ /\ existing # NoJob /\ status = "queued" /\ InQueue(existing)
           /\ Return(p) /\ UNCHANGED jobs
        \/ /\ existing # NoJob /\ status = "queued" /\ ~ InQueue(existing)
           /\ Goto(p, AwaitLimit(call[p])) /\ jobs' = Without(jobs, c)
  /\ KeepQueue
  /\ UNCHANGED <<boardVars, job, made>>

\* A running entry whose card has no trigger session is taken for a stale one.
EnqueueReplace(p) ==
  /\ call[p].pc = "existing" /\ call[p].read
  /\ IF call[p].got.exists /\ call[p].got.trigger = NoSession
     THEN jobs' = Without(jobs, call[p].card) /\ Goto(p, AwaitLimit(call[p]))
     ELSE UNCHANGED jobs /\ Return(p)
  /\ KeepQueue
  /\ UNCHANGED <<boardVars, job, made>>

\* A new entry waits when the board is full, waits and drains when others wait
\* before it, and is started otherwise.
EnqueueAdmit(p) ==
  /\ call[p].pc = "limit" /\ call[p].read /\ call[p].op = "enqueue"
  /\ made < MaxJobs
  /\ made' = made + 1
  /\ LET j == made + 1
         c == call[p].card
         es == [job EXCEPT ![j] = [card |-> c, lane |-> call[p].lane, force |-> call[p].force,
                                   status |-> "queued", session |-> NoSession, starts |-> 0]]
         full == CountRunning(jobs, job) >= call[p].limit
     IN /\ jobs' = [jobs EXCEPT ![c] = j]
        /\ \/ full /\ PushQueuedEntry(j) /\ job' = es /\ Return(p)
           \/ /\ ~ full /\ queue # <<>>
              /\ PushQueuedEntry(j) /\ job' = es
              /\ BeginDrain(call, p, jobs', es)
           \/ ~ full /\ queue = <<>> /\ StartEntry(p, j, es)
  /\ UNCHANGED boardVars

-----------------------------------------------------------------------------
(* drainQueue                                                              *)

DrainLimit(p) ==
  /\ call[p].pc = "reconciled" /\ call[p].op = "drain"
  /\ Goto(p, AwaitLimit(call[p]))
  /\ KeepQueue
  /\ UNCHANGED <<boardVars, jobs, job, made>>

\* The loop condition, and the await of the head's task.
DrainNext(p, js, q) ==
  IF CountRunning(js, job) < call[p].limit /\ q # <<>>
  THEN Goto(p, AwaitTask(call[p], "head", Head(q), job[Head(q)].card))
  ELSE Return(p)

DrainLoop(p) ==
  /\ call[p].op = "drain"
  /\ call[p].pc = "loop" \/ (call[p].pc = "limit" /\ call[p].read)
  /\ DrainNext(p, jobs, queue)
  /\ KeepQueue
  /\ UNCHANGED <<boardVars, jobs, job, made>>

\* Mutant: the head is not looked at again after its task was awaited.
StartableUnchecked(p) == \E c \in Cards : jobs[c] = call[p].cur

\* The head may be started after its task was awaited.
Startable(p) == IsCurrent(jobs, job, call[p].cur, "queued")

\* Mutant: the loop condition was true before the await.
HasRoomUnchecked(p) == call[p].limit > 0

HasRoom(p) == CountRunning(jobs, job) < call[p].limit

\* The head was replaced or started by another call.
DrainUnlink(p) ==
  /\ call[p].pc = "head" /\ call[p].read
  /\ ~ Startable(p)
  /\ ReplaceQueue(UnqueueInstance(call[p].cur))
  /\ DrainNext(p, jobs, queue')
  /\ UNCHANGED <<boardVars, jobs, job, made>>

HeadStale(p) ==
  LET t == call[p].got IN ~ t.exists \/ t.lane # job[call[p].cur].lane \/ t.hold

DrainDrop(p) ==
  /\ call[p].pc = "head" /\ call[p].read
  /\ Startable(p) /\ HeadStale(p)
  /\ ReplaceQueue(UnqueueInstance(call[p].cur))
  /\ jobs' = Without(jobs, job[call[p].cur].card)
  /\ DrainNext(p, jobs', queue')
  /\ UNCHANGED <<boardVars, job, made>>

DrainStart(p) ==
  /\ call[p].pc = "head" /\ call[p].read
  /\ Startable(p) /\ ~ HeadStale(p)
  /\ IF HasRoom(p)
     THEN StartEntry(p, call[p].cur, job)
     ELSE Return(p) /\ KeepQueue /\ UNCHANGED job
  /\ UNCHANGED <<boardVars, jobs, made>>

\* An event of session s: it has ended, or it is announced as completed while its
\* agent goes on.  The queue cannot tell the two apart.
LifecycleEvent(s) ==
  /\ s \in active \cup finishing
  /\ active' = active \ {s}
  /\ \/ finishing' = finishing \ {s}
     \/ "report" \in Disturbances /\ finishing' = finishing \cup {s}

\* Mutant: the slot is freed and nobody drains.
SessionEndsNoDrain(p, s) ==
  /\ LifecycleEvent(s)
  /\ call[p].pc = "idle"
  /\ \E c \in RunningCards(jobs, job) : job[jobs[c]].session = s /\ jobs' = Without(jobs, c)
  /\ KeepQueue
  /\ UNCHANGED <<task, limit, job, made, call>>

\* Mutant: the board is drained with the entry still in the map.
SessionEndsKeepsJob(p, s) ==
  /\ LifecycleEvent(s)
  /\ call[p].pc = "idle"
  /\ \E c \in RunningCards(jobs, job) : job[jobs[c]].session = s
  /\ BeginDrain(call, p, jobs, job)
  /\ KeepQueue
  /\ UNCHANGED <<task, limit, jobs, job, made>>

\* handleAgentLifecycleEvent: a session ends or reports; the entry that ran it frees
\* its slot and the board is drained in call p.
SessionEnds(p, s) ==
  /\ LifecycleEvent(s)
  /\ call[p].pc = "idle"
  /\ \E c \in RunningCards(jobs, job) :
       /\ job[jobs[c]].session = s
       /\ jobs' = Without(jobs, c)
       /\ BeginDrain(call, p, jobs', job)
  /\ KeepQueue
  /\ UNCHANGED <<task, limit, job, made>>

\* The event finds no running entry with that session.
SessionEndsUnnoticed(s) ==
  /\ LifecycleEvent(s)
  /\ \A c \in RunningCards(jobs, job) : job[jobs[c]].session # s
  /\ "early" \in Disturbances \/ \A q \in Calls : call[q].result # s
  /\ KeepQueue
  /\ UNCHANGED <<task, limit, jobs, job, made, call>>

-----------------------------------------------------------------------------
(* getBoardSnapshot, dropQueuedCardJob, removeCardJob                      *)

Snapshot(p) ==
  /\ call[p].pc = "idle"
  /\ Begin(call, p, "snapshot", NoCard, BlockedLane, FALSE, jobs, job)
  /\ KeepQueue
  /\ UNCHANGED <<boardVars, jobs, job, made>>

DropQueuedCardJob(p, c) ==
  /\ "delete" \in Disturbances
  /\ call[p].pc = "idle"
  /\ task[c].exists
  /\ Begin(call, p, "drop", c, BlockedLane, FALSE, jobs, job)
  /\ KeepQueue
  /\ UNCHANGED <<boardVars, jobs, job, made>>

SnapshotTaken(p) ==
  /\ call[p].pc = "reconciled" /\ call[p].op \in {"snapshot", "drop"}
  /\ IF call[p].op = "drop" /\ \E i \in DOMAIN queue : job[queue[i]].card = call[p].card
     THEN Goto(p, At(call[p], "drop", NoJob))
     ELSE Return(p)
  /\ KeepQueue
  /\ UNCHANGED <<boardVars, jobs, job, made>>

\* removeCardJob as its callers see it.
RemoveJobOf(c) ==
  IF jobs[c] = NoJob THEN KeepQueue /\ UNCHANGED jobs
                     ELSE ReplaceQueue(Unqueue(c)) /\ jobs' = Without(jobs, c)

DropListed(p) ==
  /\ call[p].pc = "drop"
  /\ RemoveJobOf(call[p].card)
  /\ Return(p)
  /\ UNCHANGED <<boardVars, job, made>>

RemoveCardJob(c) ==
  /\ "cleanup" \in Disturbances
  /\ RemoveJobOf(c)
  /\ UNCHANGED <<boardVars, job, made, call>>

-----------------------------------------------------------------------------
(* The rest of the system                                                  *)

\* An edit of card c by somebody else.
EditTask(c, t) ==
  /\ task[c].exists
  /\ task' = [task EXCEPT ![c] = t]
  /\ KeepQueue
  /\ UNCHANGED <<limit, active, finishing, jobs, job, made, call>>

\* A column change clears the trigger session.
MoveCard(c, l) ==
  /\ "move" \in Disturbances
  /\ l # task[c].lane
  /\ EditTask(c, [task[c] EXCEPT !.lane = l, !.trigger = NoSession])

DeleteTask(c) ==
  /\ "delete" \in Disturbances
  /\ EditTask(c, BlankTask)

ToggleHold(c) ==
  /\ "hold" \in Disturbances
  /\ EditTask(c, [task[c] EXCEPT !.hold = ~ task[c].hold])

\* The trigger session is cleared for the next step or a rerun.
ClearTrigger(c) ==
  /\ task[c].trigger # NoSession
  /\ "cleanup" \in Disturbances \/ task[c].trigger \notin active
  /\ EditTask(c, [task[c] EXCEPT !.trigger = NoSession])

SetLimit(n) ==
  /\ "limit" \in Disturbances
  /\ limit' = n
  /\ KeepQueue
  /\ UNCHANGED <<task, active, finishing, jobs, job, made, call>>

-----------------------------------------------------------------------------
Init ==
  /\ task \in [Cards -> {[BlankTask EXCEPT !.exists = TRUE, !.lane = l] : l \in Lanes}]
  /\ limit \in Limits
  /\ active = {}
  /\ finishing = {}
  /\ jobs = [c \in Cards |-> NoJob]
  /\ queue = <<>>
  /\ job = [j \in Jobs |-> BlankJob]
  /\ made = 0
  /\ call = [p \in Calls |-> Idle]
  /\ todo = [p \in Calls |-> <<>>]
  /\ shared = [p \in Calls |-> FALSE]

\* A call in flight goes on to its next await.
Resume(p) ==
  \/ ReadTask(p) \/ ReadLimit(p)
  \/ CheckRunning(p) \/ BeginQueued(p) \/ CheckQueued(p)
  \/ EnqueueExisting(p) \/ EnqueueReplace(p) \/ EnqueueAdmit(p)
  \/ DrainLimit(p) \/ DrainLoop(p) \/ DrainUnlink(p) \/ DrainDrop(p) \/ DrainStart(p)
  \/ StartCheck(p) \/ StartSave(p) \/ StartThrows(p) \/ StartSucceeded(p)
  \/ SnapshotTaken(p) \/ DropListed(p)

\* A call of the queue begins.
NewCall(p) ==
  \/ \E c \in Cards, f \in Forced : Enqueue(p, c, f)
  \/ Snapshot(p)
  \/ \E c \in Cards : DropQueuedCardJob(p, c)

Environment ==
  \/ \E s \in Jobs : SessionEndsUnnoticed(s)
  \/ \E c \in Cards : RemoveCardJob(c) \/ DeleteTask(c) \/ ToggleHold(c) \/ ClearTrigger(c)
  \/ \E c \in Cards, l \in Lanes : MoveCard(c, l)
  \/ \E n \in Limits : SetLimit(n)

Next ==
  \/ \E p \in Calls : Resume(p) \/ NewCall(p)
  \/ \E p, q \in Calls : StartRefused(p, q)
  \/ \E p \in Calls, s \in Jobs : SessionEnds(p, s)
  \/ Environment

Spec == Init /\ [][Next]_vars

\* A call in flight is resumed and an event announces the end of a session some day (it
\* exits or the supervision's timeout ends it).  The two steps that need an idle call are
\* strongly fair: the code has no bound on the calls in flight.
Fairness ==
  /\ \A p \in Calls : WF_vars(Resume(p)) /\ SF_vars(\E q \in Calls : StartRefused(p, q))
  /\ \A s \in Jobs : /\ SF_vars(\E p \in Calls : SessionEnds(p, s))
                     /\ WF_vars(SessionEndsUnnoticed(s))

FairSpec == Spec /\ Fairness

-----------------------------------------------------------------------------
\* Every variable has its type: in particular every card has an entry of the map, if
\* only NoJob, whatever calls removed its job (jobsByCardId.get never fails).
TypeOK ==
  /\ task \in [Cards -> Task]
  /\ limit \in Limits
  /\ active \subseteq Jobs
  /\ finishing \subseteq Jobs
  /\ jobs \in [Cards -> Jobs \cup {NoJob}]
  /\ queue \in Seq(Jobs)
  /\ job \in [Jobs -> Job]
  /\ made \in 0 .. MaxJobs
  /\ call \in [Calls -> Call]
  /\ todo \in [Calls -> Seq(Jobs)]
  /\ shared \in [Calls -> BOOLEAN]

\* A queued job is started at most once: overlapping drains that await the task of
\* the same head, and write-backs that bring a started entry back into the queue,
\* never run its start closure again (drainQueue's re-check after the await).
StartedOnce == \A j \in Jobs : job[j].starts <= 1

\* Whenever a call starts an entry, the entries counted as running, the new one
\* included, are within the limit that call has read, whatever the other calls did
\* while it awaited the head's task (countRunning is taken again after the await).
StartWithinLimit ==
  [][\A p \in Calls : call[p].pc # "starting" /\ call'[p].pc = "starting"
                      => Cardinality(RunningCards(jobs', job')) <= call'[p].limit]_vars

\* The lane sessions at work, those whose end no event has announced, never exceed the
\* board's concurrency limit (while it is constant), however sessions end, report inside
\* their turn or are refused between the awaits of overlapping calls.
BoardLimit == Cardinality(active) <= limit

\* "so only a bounded number of ACP sessions run at once": false of the code, a session
\* that reports inside its turn frees its slot, and the next card starts beside it.
SessionsWithinLimit == Cardinality(active \cup finishing) <= limit

\* A slot is held by a session that is at work: its end, or its completion announced
\* inside the turn, releases the slot, and no later start takes the session up again.
EndedFreesSlot ==
  \A c \in RunningCards(jobs, job) : job[jobs[c]].session \in active \cup {NoSession}

\* A waiting entry leaves the queue some day: the end of a session drains the
\* board, so it is started, dropped as stale, or replaced.
QueueServed ==
  \A j \in Jobs : LET waiting == InQueue(j) /\ IsCurrent(jobs, job, j, "queued") IN waiting ~> ~ waiting
=============================================================================
