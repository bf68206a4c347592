------------------------ MODULE BackgroundWorkerProofs ------------------------
(***************************************************************************)
(* Proofs about BackgroundWorker, for every workflow, every number of      *)
(* overlapping ticks and every mix of requests and restarts: the types,    *)
(* that no session is created for a step before the steps it depends on    *)
(* have been completed, and that nothing but overlapping ticks takes the   *)
(* running tasks over the limit.                                           *)
(*                                                                         *)
(* A tick works through rows that it listed some time ago, so what the     *)
(* store says of their dependencies now is of no use: the argument is      *)
(* that a COMPLETED status is always in the history, and that the history  *)
(* covers the dependencies of everything a tick still has to dispatch.     *)
(*                                                                         *)
(* For the limit the running tasks are counted together with the ones a    *)
(* tick still has to start: it lists no more than the slots it counted,    *)
(* and while it works through its list no other step starts a task.        *)
(***************************************************************************)
EXTENDS BackgroundWorker, FiniteSetTheorems, WellFoundedInduction, TLAPS

\* A status COMPLETED was reached by completing the task.
DoneOK == \A t \in Tasks : task[t].status = "COMPLETED" => t \in done

\* What a tick has listed may run: its dependencies have been completed.
ListedOK == \A d \in Dispatchers : \A r \in tick[d].todo : DependsOn(r.id) \subseteq done

\* An edit saves a PENDING row, so it completes nothing.
EditOK == request.op = "edit" => request.copy.status = "PENDING"

IndInv == TypeOK /\ DoneOK /\ ListedOK /\ EditOK

\* What StepsInOrder says of one step.
InOrder ==
  \A s \in Sessions : s > created /\ s <= created' => DependsOn(session'[s].task) \subseteq done

-----------------------------------------------------------------------------
(* Constants and helpers                                                   *)

\* The absent row has its type.
LEMMA AbsentOK == Absent \in Task /\ Absent.status = "absent"
  BY DEF Absent, Task, Statuses, Ages, Sessions, NoSession, Never

\* A finished tick and a finished check have their types.
LEMMA RestingOK ==
  /\ Resting \in [pc : {"idle", "counted", "next", "resolved", "marked", "created", "failed"},
                  slots : 0 .. MaxConcurrent, todo : SUBSET Listed, session : Sessions \cup {NoSession}]
  /\ Resting.todo = {} /\ Resting.pc = "idle"
  /\ Waiting \in [pc : {"idle", "memory", "recovery", "orphaned", "stale"},
                  active : SUBSET Sessions, gone : SUBSET Sessions, rows : SUBSET Row]
  BY BoundsAssumption DEF Resting, Waiting, Listed, NoSession

\* No request has its type.
LEMMA NoRequestOK == NoRequest \in [op : {"none"} \cup Requests, id : Tasks, copy : Task] /\ NoRequest.op = "none"
  BY AbsentOK, StepsAssumption DEF NoRequest, Tasks

\* Time keeps a timestamp a timestamp.
LEMMA OlderOK == \A a \in Ages : Older(a) \in Ages
  BY DEF Older, Ages, Never, Fresh, Stale2Hours

\* The number of running tasks is a number.
LEMMA RunningCount == Cardinality(Running) \in Nat
  <1>1. IsFiniteSet(Tasks)
    BY FS_Interval, StepsAssumption DEF Tasks
  <1>2. Running \subseteq Tasks
    BY DEF Running
  <1> QED BY <1>1, <1>2, FS_Subset, FS_CardinalityType

\* A row of the store as a query returns it.
LEMMA RowOfOK == ASSUME StoreOK, NEW t \in Tasks PROVE RowOf(t) \in Row
  BY DEF StoreOK, Task, Row, RowOf

\* updateStatus keeps the store's types, forgets nothing that was completed and
\* enters what it completes into the history.
LEMMA UpdateStatusOK ==
  ASSUME StoreOK, DoneOK, NEW t \in Tasks, NEW status \in Statuses, NEW s \in Sessions \cup {NoSession},
         NEW started \in Ages, UpdateStatus(t, status, s, started)
  PROVE  task' \in [Tasks -> Task] /\ done' \subseteq Tasks /\ done \subseteq done' /\ DoneOK'
  <1>1. CASE ~ Exists(t)
    BY <1>1 DEF UpdateStatus, StoreOK, DoneOK
  <1>2. CASE Exists(t)
    <2> DEFINE r == [status |-> status,
                     session |-> IF s = NoSession THEN task[t].session ELSE s,
                     started |-> IF started = Never THEN task[t].started ELSE started,
                     output |-> task[t].output]
    <2>1. task[t] \in Task
      BY DEF StoreOK
    <2>2. r \in Task /\ r.status = status
      BY <2>1 DEF Task
    <2>3. task' = [task EXCEPT ![t] = r]
      BY <1>2 DEF UpdateStatus
    <2>4. done' = IF status = "COMPLETED" THEN done \cup {t} ELSE done
      BY <1>2 DEF UpdateStatus
    <2> HIDE DEF r
    <2>5. task' \in [Tasks -> Task]
      BY <2>2, <2>3 DEF StoreOK
    <2>6. DoneOK'
      BY <2>2, <2>3, <2>4 DEF DoneOK, StoreOK
    <2> QED BY <2>4, <2>5, <2>6 DEF StoreOK
  <1> QED BY <1>1, <1>2

\* Ticks that list nothing new keep their promise while nothing completed is forgotten.
LEMMA ListedKept ==
  ASSUME ListedOK, flow'.steps = flow.steps, done \subseteq done',
         \A d \in Dispatchers : \A r \in tick'[d].todo : \E q \in tick[d].todo : q.id = r.id
  PROVE  ListedOK'
  <1> SUFFICES ASSUME NEW d \in Dispatchers, NEW r \in tick'[d].todo
               PROVE  DependsOn(r.id)' \subseteq done'
    BY DEF ListedOK
  <1>1. PICK q \in tick[d].todo : q.id = r.id
    OBVIOUS
  <1>2. DependsOn(q.id) \subseteq done
    BY DEF ListedOK
  <1>3. DependsOn(r.id)' = DependsOn(q.id)
    BY <1>1 DEF DependsOn, SameGroup
  <1> QED BY <1>2, <1>3

\* The next local state of a tick that has dispatched a row.
LEMMA NextTaskOK ==
  ASSUME TickOK, NEW d \in Dispatchers, NEW row, NextTask(d, row)
  PROVE  TickOK' /\ \A e \in Dispatchers : tick'[e].todo \subseteq tick[e].todo
  <1> DEFINE left == tick[d].todo \ {row}
             new == IF left = {} THEN Resting ELSE [Resting EXCEPT !.pc = "next", !.todo = left]
             T == [pc : {"idle", "counted", "next", "resolved", "marked", "created", "failed"},
                   slots : 0 .. MaxConcurrent, todo : SUBSET Listed, session : Sessions \cup {NoSession}]
  <1>1. tick' = [tick EXCEPT ![d] = new]
    BY DEF NextTask, Goto
  <1>2. left \subseteq Listed /\ left \subseteq tick[d].todo
    BY DEF TickOK
  <1>3. new \in T /\ new.pc \in {"idle", "next"} /\ new.todo \subseteq tick[d].todo
    BY <1>2, RestingOK
  <1> HIDE DEF new
  <1> QED BY <1>1, <1>3 DEF TickOK

-----------------------------------------------------------------------------
(* Initial states                                                          *)

\* An empty store with nothing in flight is a good start.
LEMMA InitOK == Init => IndInv
  <1> SUFFICES ASSUME Init PROVE IndInv
    OBVIOUS
  <1>1. StoreOK
    BY AbsentOK, StepsAssumption DEF Init, StoreOK
  <1>2. SessionsOK
    BY BoundsAssumption, StepsAssumption DEF Init, SessionsOK, Tasks
  <1>3. TickOK
    BY RestingOK DEF Init, TickOK
  <1>4. CheckOK /\ RequestOK
    BY RestingOK, NoRequestOK, BoundsAssumption DEF Init, CheckOK, RequestOK
  <1>5. DoneOK /\ ListedOK /\ EditOK
    BY AbsentOK, RestingOK, NoRequestOK DEF Init, DoneOK, ListedOK, EditOK
  <1> QED BY <1>1, <1>2, <1>3, <1>4, <1>5 DEF IndInv, TypeOK

-----------------------------------------------------------------------------
(* Steps                                                                   *)

\* trigger saves one more PENDING step; the workflow itself does not change.
LEMMA SaveStepOK == ASSUME IndInv, SaveStep PROVE IndInv' /\ InOrder
  <1> DEFINE r == [Absent EXCEPT !.status = "PENDING"]
  <1>1. r \in Task /\ r.status = "PENDING"
    BY AbsentOK DEF Task, Statuses
  <1>2. flow.next \in Tasks /\ flow' \in [steps : Workflows, next : 1 .. NumSteps + 1] /\ flow'.steps = flow.steps
    BY StepsAssumption, SMTT(30) DEF SaveStep, IndInv, TypeOK, StoreOK, Tasks
  <1>3. task' = [task EXCEPT ![flow.next] = r]
    BY DEF SaveStep
  <1> HIDE DEF r
  <1>4. StoreOK'
    BY <1>1, <1>2, <1>3 DEF StoreOK, IndInv, TypeOK, SaveStep
  <1>5. DoneOK'
    BY <1>1, <1>2, <1>3 DEF StoreOK, IndInv, TypeOK, SaveStep, DoneOK
  <1>6. ListedOK'
    BY <1>2, ListedKept DEF IndInv, SaveStep
  <1>7. EditOK' /\ SessionsOK' /\ TickOK' /\ CheckOK' /\ RequestOK'
    BY DEF SaveStep, IndInv, TypeOK, EditOK, SessionsOK, TickOK, CheckOK, RequestOK
  <1>8. InOrder
    BY BoundsAssumption DEF SaveStep, InOrder, IndInv, TypeOK, SessionsOK, Sessions
  <1> QED BY <1>4, <1>5, <1>6, <1>7, <1>8 DEF IndInv, TypeOK

\* A step of a tick that writes nothing: it counts, lists, resolves a prompt or
\* learns that session/new failed.
LEMMA TickReadOK ==
  ASSUME IndInv, NEW d \in Dispatchers,
         \/ CountRunning(d) \/ ListReady(d) \/ SessionNewFails(d)
         \/ \E row \in tick[d].todo : ResolvePrompt(d, row)
  PROVE  IndInv' /\ InOrder
  <1> USE DEF IndInv, TypeOK
  <1>1. UNCHANGED <<storeVars, session, created, check, known, turn, request, sent, restarts>>
    BY DEF CountRunning, ListReady, SessionNewFails, ResolvePrompt
  <1>2. StoreOK' /\ SessionsOK' /\ CheckOK' /\ RequestOK' /\ DoneOK' /\ EditOK'
    BY <1>1 DEF storeVars, StoreOK, SessionsOK, CheckOK, RequestOK, DoneOK, EditOK
  <1>3. InOrder
    BY <1>1, BoundsAssumption DEF InOrder, SessionsOK, Sessions
  <1>4. flow'.steps = flow.steps /\ done' = done
    BY <1>1 DEF storeVars
  <1>5. TickOK' /\ ListedOK'
    <2>1. CASE CountRunning(d)
      <3> DEFINE n == MaxConcurrent - Cardinality(Running)
      <3>1. n \in 1 .. MaxConcurrent
        BY <2>1, RunningCount, BoundsAssumption DEF CountRunning, AtLimit
      <3>2. tick' = [tick EXCEPT ![d] = [Resting EXCEPT !.pc = "counted", !.slots = n]]
        BY <2>1 DEF CountRunning, Goto
      <3> DEFINE new == [Resting EXCEPT !.pc = "counted", !.slots = n]
      <3> HIDE DEF n
      <3>3. /\ new \in [pc : {"idle", "counted", "next", "resolved", "marked", "created", "failed"},
                        slots : 0 .. MaxConcurrent, todo : SUBSET Listed, session : Sessions \cup {NoSession}]
            /\ new.pc = "counted" /\ new.slots > 0 /\ new.todo = {}
        <4> HIDE DEF IndInv, TypeOK
        <4>1. n \in 0 .. MaxConcurrent /\ n > 0
          BY <3>1, BoundsAssumption
        <4> QED BY <4>1, RestingOK
      <3> HIDE DEF new
      <3>4. TickOK' /\ \A e \in Dispatchers : tick'[e].todo \subseteq tick[e].todo
        BY <3>2, <3>3 DEF TickOK, new
      <3> QED BY <3>4, <1>4, ListedKept
    <2>2. CASE ListReady(d)
      <3> DEFINE todo == {[id |-> t, started |-> task[t].started] : t \in Slice(Ready, tick[d].slots)}
                 new == IF Ready = {} THEN Resting ELSE [Resting EXCEPT !.pc = "next", !.todo = todo]
      <3>1. todo \subseteq Listed /\ \A r \in todo : r.id \in Ready
        <4>1. Slice(Ready, tick[d].slots) \subseteq Ready /\ Ready \subseteq Tasks
          BY DEF Slice, Ready
        <4>2. \A t \in Tasks : task[t].started \in Ages
          BY DEF StoreOK, Task
        <4> HIDE DEF IndInv, TypeOK
        <4> QED BY <4>1, <4>2 DEF Listed
      <3>2. tick' = [tick EXCEPT ![d] = new]
        BY <2>2 DEF ListReady, Goto
      <3>3. \A t \in Ready : DependsOn(t) \subseteq done
        BY StepsAssumption DEF Ready, DoneOK, DependsOn, Tasks
      <3> HIDE DEF todo
      <3>4. /\ new \in [pc : {"idle", "counted", "next", "resolved", "marked", "created", "failed"},
                        slots : 0 .. MaxConcurrent, todo : SUBSET Listed, session : Sessions \cup {NoSession}]
            /\ new.pc \in {"idle", "next"} /\ new.todo \subseteq todo
        BY <3>1, RestingOK
      <3> HIDE DEF new
      <3>5. TickOK'
        BY <3>2, <3>4 DEF TickOK
      <3>6. \A e \in Dispatchers : \A r \in tick'[e].todo : DependsOn(r.id) \subseteq done
        BY <3>1, <3>2, <3>3, <3>4 DEF TickOK, ListedOK
      <3>7. \A e \in Dispatchers : \A r \in tick'[e].todo : DependsOn(r.id)' \subseteq done'
        BY <3>6, <1>1 DEF storeVars, DependsOn, SameGroup
      <3> QED BY <3>5, <3>7 DEF ListedOK
    <2>3. CASE SessionNewFails(d) \/ \E row \in tick[d].todo : ResolvePrompt(d, row)
      <3>1. \/ tick' = [tick EXCEPT ![d] = [tick[d] EXCEPT !.pc = "failed"]]
            \/ tick' = [tick EXCEPT ![d] = [tick[d] EXCEPT !.pc = "resolved"]]
            \/ tick' = [tick EXCEPT ![d] = Resting]
        BY <2>3 DEF SessionNewFails, ResolvePrompt, Goto
      <3>2. TickOK' /\ \A e \in Dispatchers : tick'[e].todo \subseteq tick[e].todo
        BY <3>1, RestingOK DEF TickOK
      <3> QED BY <3>2, <1>4, ListedKept
    <2> QED BY <2>1, <2>2, <2>3
  <1> QED BY <1>2, <1>3, <1>5

\* session/new: the row that is dispatched has its dependencies completed.
LEMMA SessionNewOK ==
  ASSUME IndInv, NEW d \in Dispatchers, NEW row \in tick[d].todo, SessionNew(d, row)
  PROVE  IndInv' /\ InOrder
  <1> USE DEF IndInv, TypeOK
  <1>1. UNCHANGED <<storeVars, check, known, turn, request, sent, restarts>>
    BY DEF SessionNew
  <1>2. StoreOK' /\ CheckOK' /\ RequestOK' /\ DoneOK' /\ EditOK'
    BY <1>1 DEF storeVars, StoreOK, CheckOK, RequestOK, DoneOK, EditOK
  <1>3. created + 1 \in Sessions /\ created' = created + 1 /\ row.id \in Tasks /\ created \in Nat
    BY BoundsAssumption DEF SessionNew, SessionsOK, Sessions, TickOK, Listed
  <1>4. session' = [session EXCEPT ![created + 1] = [task |-> row.id, live |-> TRUE, streaming |-> FALSE]]
    BY DEF SessionNew
  <1>5. SessionsOK' /\ session'[created + 1].task = row.id
    BY <1>1, <1>3, <1>4, BoundsAssumption DEF SessionsOK, Sessions
  <1>6. tick' = [tick EXCEPT ![d] = [tick[d] EXCEPT !.pc = "created", !.session = created + 1]]
    BY DEF SessionNew, Goto
  <1>7. TickOK' /\ \A e \in Dispatchers : tick'[e].todo \subseteq tick[e].todo
    <2>1. created + 1 # NoSession
      BY <1>3 DEF NoSession
    <2> QED BY <1>3, <1>6, <2>1 DEF TickOK
  <1>8. ListedOK'
    BY <1>1, <1>7, ListedKept DEF storeVars
  <1>9. InOrder
    BY <1>3, <1>5 DEF InOrder, ListedOK, Sessions
  <1> QED BY <1>2, <1>5, <1>7, <1>8, <1>9

\* The writes of a tick: RUNNING, RUNNING with a session, FAILED.
LEMMA TickWriteOK ==
  ASSUME IndInv, NEW d \in Dispatchers, NEW row \in tick[d].todo,
         MarkRunning(d, row) \/ RecordSession(d, row) \/ RecordFailure(d, row)
  PROVE  IndInv' /\ InOrder
  <1> USE DEF IndInv, TypeOK
  <1>1. UNCHANGED <<flow, outputs, session, created, check, turn, request, sent, restarts>>
    BY DEF MarkRunning, RecordSession, RecordFailure
  <1>2. row \in Listed /\ row.id \in Tasks /\ tick[d].session \in Sessions \cup {NoSession}
    BY DEF TickOK, Listed
  <1>3. \E status \in Statuses, s \in Sessions \cup {NoSession}, a \in Ages : UpdateStatus(row.id, status, s, a)
    <2>1. {Fresh, Never, row.started} \subseteq Ages /\ {"RUNNING", "FAILED"} \subseteq Statuses
      BY <1>2 DEF Ages, Fresh, Never, Stale2Hours, Statuses, Listed
    <2> QED BY <1>2, <2>1 DEF MarkRunning, RecordSession, RecordFailure
  <1>4. task' \in [Tasks -> Task] /\ done' \subseteq Tasks /\ done \subseteq done' /\ DoneOK'
    BY <1>2, <1>3, UpdateStatusOK
  <1>5. TickOK' /\ \A e \in Dispatchers : tick'[e].todo \subseteq tick[e].todo
    <2>1. CASE MarkRunning(d, row)
      BY <2>1 DEF MarkRunning, Goto, TickOK
    <2>2. CASE RecordSession(d, row) \/ RecordFailure(d, row)
      BY <2>2, NextTaskOK DEF RecordSession, RecordFailure
    <2> QED BY <2>1, <2>2
  <1>6. ListedOK'
    BY <1>1, <1>4, <1>5, ListedKept
  <1>7. known' \subseteq Sessions
    BY <1>2 DEF MarkRunning, RecordSession, RecordFailure, SessionsOK, TickOK
  <1>8. StoreOK' /\ SessionsOK' /\ CheckOK' /\ RequestOK' /\ EditOK'
    BY <1>1, <1>4, <1>7 DEF StoreOK, SessionsOK, CheckOK, RequestOK, EditOK
  <1>9. InOrder
    BY <1>1, BoundsAssumption DEF InOrder, SessionsOK, Sessions
  <1> QED BY <1>4, <1>5, <1>6, <1>8, <1>9

\* checkCompletions: its queries, and a row that needs nothing.
LEMMA CheckReadOK ==
  ASSUME IndInv,
         \/ CheckMemory \/ CheckRecovery \/ CheckOrphaned \/ CheckStale \/ CheckEnd
         \/ \E row \in check.rows : KeepRecovered(row)
  PROVE  IndInv' /\ InOrder
  <1> USE DEF IndInv, TypeOK
  <1>1. UNCHANGED <<storeVars, session, created, tick, known, turn, request, sent, restarts>>
    BY DEF CheckMemory, CheckRecovery, CheckOrphaned, CheckStale, CheckEnd, Pass, KeepRecovered
  <1>2. StoreOK' /\ SessionsOK' /\ TickOK' /\ RequestOK' /\ DoneOK' /\ EditOK'
    BY <1>1 DEF storeVars, StoreOK, SessionsOK, TickOK, RequestOK, DoneOK, EditOK
  <1>3. ListedOK'
    BY <1>1, ListedKept DEF storeVars
  <1>4. InOrder
    BY <1>1, BoundsAssumption DEF InOrder, SessionsOK, Sessions
  <1>5. CheckOK'
    <2>1. CASE CheckMemory
      <3>1. {s \in Sessions : session[s].live} \subseteq Sessions /\ known \subseteq Sessions
        BY DEF SessionsOK
      <3> QED BY <2>1, <3>1, RestingOK DEF CheckMemory, CheckOK
    <2>2. ASSUME NEW from, NEW to \in {"recovery", "orphaned", "stale"}, NEW active \in SUBSET Sessions,
                 NEW listed \in SUBSET Tasks, Pass(from, to, active, listed)
          PROVE  CheckOK'
      <3>1. {RowOf(t) : t \in listed} \subseteq Row
        BY RowOfOK
      <3> DEFINE rows == {RowOf(t) : t \in listed}
      <3>2. check' = [Waiting EXCEPT !.pc = to, !.active = active, !.rows = rows]
        BY <2>2 DEF Pass
      <3> HIDE DEF rows
      <3> QED BY <3>1, <3>2, RestingOK DEF CheckOK, rows
    <2>3. CASE CheckRecovery \/ CheckOrphaned \/ CheckStale
      <3>1. Running \subseteq Tasks /\ Orphaned \subseteq Tasks /\ check.active \subseteq Sessions
        BY DEF Running, Orphaned, CheckOK
      <3> QED BY <2>2, <2>3, <3>1 DEF CheckRecovery, CheckOrphaned, CheckStale
    <2>4. CASE CheckEnd \/ \E row \in check.rows : KeepRecovered(row)
      BY <2>4, RestingOK DEF CheckEnd, KeepRecovered, Visit, CheckOK
    <2> QED BY <2>1, <2>3, <2>4
  <1> QED BY <1>2, <1>3, <1>4, <1>5

\* The writes of checkCompletions: COMPLETED with the output, or FAILED.
LEMMA CheckWriteOK ==
  ASSUME IndInv,
         \/ \E s \in Sessions : CompleteKnown(s)
         \/ \E row \in check.rows : CompleteRecovered(row) \/ FailOrphan(row) \/ FailStale(row)
  PROVE  IndInv' /\ InOrder
  <1> USE DEF IndInv, TypeOK
  <1>1. UNCHANGED <<flow, session, created, tick, turn, request, sent, restarts>>
    BY DEF CompleteKnown, CompleteRecovered, FailOrphan, FailStale
  <1>2. {"COMPLETED", "FAILED"} \subseteq Statuses /\ Never \in Ages
    BY DEF Statuses, Ages
  <1>3. \A row \in check.rows : row.id \in Tasks /\ row.session \in Sessions \cup {NoSession}
    BY DEF CheckOK, Row
  <1> DEFINE Kept == /\ task' \in [Tasks -> Task] /\ done' \subseteq Tasks /\ done \subseteq done' /\ DoneOK'
                     /\ outputs' \subseteq Tasks /\ known' \subseteq Sessions /\ CheckOK'
  <1>4. Kept
    <2>1. ASSUME NEW s \in Sessions, CompleteKnown(s)
          PROVE  Kept
      <3>1. session[s].task \in Tasks
        BY DEF SessionsOK
      <3>2. UpdateStatus(session[s].task, "COMPLETED", s, Never)
        BY <2>1 DEF CompleteKnown
      <3>3. task' \in [Tasks -> Task] /\ done' \subseteq Tasks /\ done \subseteq done' /\ DoneOK'
        BY <1>2, <3>1, <3>2, UpdateStatusOK
      <3>4. outputs' \subseteq Tasks
        BY <2>1, <3>1 DEF CompleteKnown, Persist, RowOf, StoreOK
      <3>5. known' \subseteq Sessions /\ CheckOK'
        BY <2>1 DEF CompleteKnown, SessionsOK, CheckOK
      <3> QED BY <3>3, <3>4, <3>5
    <2>2. ASSUME NEW row \in check.rows, CompleteRecovered(row) \/ FailOrphan(row) \/ FailStale(row)
          PROVE  Kept
      <3>1. \/ UpdateStatus(row.id, "COMPLETED", row.session, Never)
            \/ UpdateStatus(row.id, "FAILED", NoSession, Never)
            \/ UNCHANGED <<task, done>>
        BY <2>2 DEF CompleteRecovered, FailOrphan, FailStale
      <3>2. task' \in [Tasks -> Task] /\ done' \subseteq Tasks /\ done \subseteq done' /\ DoneOK'
        <4>1. CASE UNCHANGED <<task, done>>
          BY <4>1 DEF StoreOK, DoneOK
        <4>2. CASE \/ UpdateStatus(row.id, "COMPLETED", row.session, Never)
                   \/ UpdateStatus(row.id, "FAILED", NoSession, Never)
          BY <1>2, <1>3, <4>2, UpdateStatusOK
        <4> QED BY <3>1, <4>1, <4>2
      <3>3. outputs' \subseteq Tasks
        BY <1>3, <2>2 DEF CompleteRecovered, FailOrphan, FailStale, Persist, StoreOK
      <3>4. known' \subseteq Sessions
        BY <2>2 DEF CompleteRecovered, FailOrphan, FailStale, SessionsOK
      <3>5. CheckOK'
        BY <2>2 DEF CompleteRecovered, FailOrphan, FailStale, Visit, CheckOK
      <3> QED BY <3>2, <3>3, <3>4, <3>5
    <2> QED BY <2>1, <2>2
  <1>5. ListedOK'
    BY <1>1, <1>4, ListedKept
  <1>6. StoreOK' /\ SessionsOK' /\ TickOK' /\ RequestOK' /\ EditOK'
    BY <1>1, <1>4 DEF StoreOK, SessionsOK, TickOK, RequestOK, EditOK
  <1>7. InOrder
    BY <1>1, BoundsAssumption DEF InOrder, SessionsOK, Sessions
  <1> QED BY <1>4, <1>5, <1>6, <1>7

\* The sessions: turns, their handler and removal.
LEMMA SessionOK ==
  ASSUME IndInv, NEW s \in Sessions, Turn(s) \/ Stream(s) \/ Notify(s) \/ SessionRemoved(s)
  PROVE  IndInv' /\ InOrder
  <1> USE DEF IndInv, TypeOK
  <1>1. UNCHANGED <<flow, created, tick, check, known, request, sent, restarts>>
    BY DEF Turn, TurnFind, TurnMessage, TurnComplete, TurnOutput, Stream, Notify, SessionRemoved, storeVars
  <1>2. session[s].task \in Tasks
    BY DEF SessionsOK
  <1>3. /\ task' \in [Tasks -> Task] /\ done' \subseteq Tasks /\ done \subseteq done' /\ DoneOK'
        /\ outputs' \subseteq Tasks
    <2>1. CASE TurnComplete(s)
      <3>1. {"COMPLETED"} \subseteq Statuses /\ Never \in Ages /\ outputs' = outputs
        BY <2>1 DEF Statuses, Ages, TurnComplete
      <3>2. UpdateStatus(session[s].task, "COMPLETED", s, Never)
        BY <2>1 DEF TurnComplete
      <3> QED BY <1>2, <3>1, <3>2, UpdateStatusOK DEF StoreOK
    <2>2. CASE TurnOutput(s) \/ TurnMessage(s)
      <3> DEFINE t == session[s].task
      <3> DEFINE b == HasReader(t)
      <3>1. task' = (IF Exists(t) THEN [task EXCEPT ![t].output = b] ELSE task) /\ done' = done
        BY <2>2 DEF TurnOutput, TurnMessage
      <3>2. outputs' \subseteq Tasks
        BY <1>2, <2>2 DEF TurnOutput, TurnMessage, StoreOK
      <3>4. b \in BOOLEAN
        BY DEF HasReader
      <3> HIDE DEF t, b
      <3>3. task' \in [Tasks -> Task] /\ \A u \in Tasks : task'[u].status = task[u].status
        BY <3>1, <3>4 DEF StoreOK, Task
      <3> QED BY <3>1, <3>2, <3>3 DEF StoreOK, DoneOK
    <2>3. CASE TurnFind(s) \/ Stream(s) \/ Notify(s) \/ SessionRemoved(s)
      BY <2>3 DEF TurnFind, Stream, Notify, SessionRemoved, storeVars, StoreOK, DoneOK
    <2> QED BY <2>1, <2>2, <2>3 DEF Turn
  <1>4. SessionsOK'
    <2>1. turn' \in [Sessions -> {"none", "notified", "found", "completed"}]
      BY DEF Turn, TurnFind, TurnMessage, TurnComplete, TurnOutput, Stream, Notify, SessionRemoved, SessionsOK
    <2>2. session' \in [Sessions -> [task : Tasks, live : BOOLEAN, streaming : BOOLEAN]]
      <3>1. \/ session' = session
            \/ \E b \in BOOLEAN : session' = [session EXCEPT ![s] = [session[s] EXCEPT !.streaming = b]]
            \/ session' = [session EXCEPT ![s] = [session[s] EXCEPT !.live = FALSE]]
        <4>1. CASE SessionRemoved(s)
          BY <4>1 DEF SessionRemoved, SessionsOK
        <4>2. CASE Stream(s)
          BY <4>2 DEF Stream
        <4>3. CASE Turn(s) \/ Notify(s)
          BY <4>3 DEF Turn, TurnFind, TurnMessage, TurnComplete, TurnOutput, Notify
        <4> QED BY <4>1, <4>2, <4>3
      <3> QED BY <3>1, ZenonT(40) DEF SessionsOK
    <2> QED BY <1>1, <2>1, <2>2 DEF SessionsOK
  <1>5. ListedOK'
    BY <1>1, <1>3, ListedKept
  <1>6. StoreOK' /\ TickOK' /\ CheckOK' /\ RequestOK' /\ EditOK'
    BY <1>1, <1>3 DEF StoreOK, TickOK, CheckOK, RequestOK, EditOK
  <1>7. InOrder
    BY <1>1, BoundsAssumption DEF InOrder, SessionsOK, Sessions
  <1> QED BY <1>3, <1>4, <1>5, <1>6, <1>7

\* A request reads its row; an edit is accepted for a PENDING one only.
LEMMA RequestReadOK ==
  ASSUME IndInv, NEW op \in Requests, NEW t \in Tasks, RequestRead(op, t)
  PROVE  IndInv' /\ InOrder
  <1> USE DEF IndInv, TypeOK
  <1>1. UNCHANGED <<storeVars, session, created, tick, check, known, turn, restarts>>
    BY DEF RequestRead
  <1> DEFINE copy == IF op = "edit" THEN task[t] ELSE [Absent EXCEPT !.status = task[t].status]
  <1>2. task[t] \in Task
    BY DEF StoreOK
  <1>3. copy \in Task /\ (op = "edit" => copy.status = "PENDING")
    BY <1>2, AbsentOK DEF RequestRead, Accepts, Task
  <1>4. request' = [op |-> op, id |-> t, copy |-> copy]
    BY DEF RequestRead
  <1> HIDE DEF copy
  <1>5. EditOK' /\ request' \in [op : {"none"} \cup Requests, id : Tasks, copy : Task]
    BY <1>3, <1>4 DEF EditOK
  <1>6. RequestOK'
    BY <1>1, <1>5, BoundsAssumption DEF RequestRead, RequestOK
  <1>7. StoreOK' /\ SessionsOK' /\ TickOK' /\ CheckOK' /\ DoneOK'
    BY <1>1 DEF storeVars, StoreOK, SessionsOK, TickOK, CheckOK, DoneOK
  <1>8. ListedOK'
    BY <1>1, ListedKept DEF storeVars
  <1>9. InOrder
    BY <1>1, BoundsAssumption DEF InOrder, SessionsOK, Sessions
  <1> QED BY <1>5, <1>6, <1>7, <1>8, <1>9

\* A request writes: no request completes a task.
LEMMA RequestWriteOK == ASSUME IndInv, RequestWrite PROVE IndInv' /\ InOrder
  <1> USE DEF IndInv, TypeOK
  <1>1. UNCHANGED <<flow, outputs, session, created, tick, check, known, turn, sent, restarts>>
    BY DEF RequestWrite
  <1>2. request.id \in Tasks /\ request.copy \in Task
    BY DEF RequestOK
  <1>3. \/ \E r \in Task : r.status # "COMPLETED" /\ task' = [task EXCEPT ![request.id] = r] /\ done' = done
        \/ UpdateStatus(request.id, "PENDING", NoSession, Never)
        \/ UpdateStatus(request.id, "CANCELLED", NoSession, Never)
        \/ UpdateStatus(request.id, "FAILED", NoSession, Never)
    BY <1>2, AbsentOK DEF RequestWrite, EditOK
  <1>4. task' \in [Tasks -> Task] /\ done' \subseteq Tasks /\ done \subseteq done' /\ DoneOK'
    <2>1. CASE \E r \in Task : r.status # "COMPLETED" /\ task' = [task EXCEPT ![request.id] = r] /\ done' = done
      BY <1>2, <2>1 DEF StoreOK, DoneOK
    <2>2. CASE \/ UpdateStatus(request.id, "PENDING", NoSession, Never)
               \/ UpdateStatus(request.id, "CANCELLED", NoSession, Never)
               \/ UpdateStatus(request.id, "FAILED", NoSession, Never)
      <3>1. {"PENDING", "CANCELLED", "FAILED"} \subseteq Statuses /\ Never \in Ages
        BY DEF Statuses, Ages
      <3> QED BY <1>2, <2>2, <3>1, UpdateStatusOK
    <2> QED BY <1>3, <2>1, <2>2
  <1>5. \/ request' = NoRequest
        \/ request.op = "force" /\ request' = [request EXCEPT !.copy = [request.copy EXCEPT !.status = "FAILED"]]
    BY <1>2 DEF RequestWrite, RequestOK
  <1>6. RequestOK' /\ EditOK'
    <2>1. CASE request' = NoRequest
      BY <1>1, <2>1, NoRequestOK DEF RequestOK, EditOK
    <2>2. CASE request.op = "force" /\ request' = [request EXCEPT !.copy = [request.copy EXCEPT !.status = "FAILED"]]
      <3>1. [request.copy EXCEPT !.status = "FAILED"] \in Task
        BY <1>2 DEF Task, Statuses
      <3>2. request'.op = "force"
        BY <2>2 DEF RequestOK
      <3> QED BY <1>1, <2>2, <3>1, <3>2 DEF RequestOK, EditOK
    <2> QED BY <1>5, <2>1, <2>2
  <1>7. ListedOK'
    BY <1>1, <1>4, ListedKept
  <1>8. StoreOK' /\ SessionsOK' /\ TickOK' /\ CheckOK'
    BY <1>1, <1>4 DEF StoreOK, SessionsOK, TickOK, CheckOK
  <1>9. InOrder
    BY <1>1, BoundsAssumption DEF InOrder, SessionsOK, Sessions
  <1> QED BY <1>4, <1>6, <1>7, <1>8, <1>9

\* Time ages the stored timestamps and the ones in the rows read before.
LEMMA AgeOK == ASSUME IndInv, Age PROVE IndInv' /\ InOrder
  <1> USE DEF IndInv, TypeOK
  <1>1. UNCHANGED <<flow, outputs, session, created, known, turn, sent, restarts, done>>
    BY DEF Age
  <1>2. \A r \in Task : Aged(r) \in Task /\ Aged(r).status = r.status
    BY OlderOK DEF Aged, Task
  <1>3. \A r \in Listed : Aged(r) \in Listed /\ Aged(r).id = r.id
    BY OlderOK DEF Aged, Listed
  <1>4. \A r \in Row : Aged(r) \in Row
    BY OlderOK DEF Aged, Row
  <1>5. StoreOK' /\ DoneOK'
    <2>1. task' = [t \in Tasks |-> Aged(task[t])]
      BY DEF Age
    <2> QED BY <1>1, <1>2, <2>1 DEF StoreOK, DoneOK
  <1>6. TickOK' /\ \A d \in Dispatchers : \A r \in tick'[d].todo : \E q \in tick[d].todo : q.id = r.id
    <2> DEFINE todo(d) == {Aged(r) : r \in tick[d].todo}
    <2>1. tick' = [d \in Dispatchers |-> [tick[d] EXCEPT !.todo = todo(d)]]
      BY DEF Age
    <2>2. \A d \in Dispatchers : tick[d].todo \subseteq Listed
      BY DEF TickOK
    <2>3. \A d \in Dispatchers : todo(d) \subseteq Listed /\ \A r \in todo(d) : \E q \in tick[d].todo : q.id = r.id
      BY <1>3, <2>2
    <2> HIDE DEF todo
    <2> QED BY <2>1, <2>3 DEF TickOK
  <1>7. CheckOK'
    <2> DEFINE rows == {Aged(r) : r \in check.rows}
    <2>1. check' = [check EXCEPT !.rows = rows]
      BY DEF Age
    <2>2. rows \subseteq Row
      BY <1>4 DEF CheckOK
    <2> HIDE DEF rows
    <2> QED BY <2>1, <2>2 DEF CheckOK
  <1>8. RequestOK' /\ EditOK'
    BY <1>1, <1>2 DEF Age, RequestOK, EditOK
  <1>9. ListedOK'
    BY <1>1, <1>6, ListedKept
  <1>10. SessionsOK'
    BY <1>1 DEF SessionsOK
  <1>11. InOrder
    BY <1>1, BoundsAssumption DEF InOrder, SessionsOK, Sessions
  <1> QED BY <1>5, <1>6, <1>7, <1>8, <1>9, <1>10, <1>11

\* A restart forgets what was in flight and nothing that is stored.
LEMMA RestartOK == ASSUME IndInv, Restart PROVE IndInv' /\ InOrder
  <1> USE DEF IndInv, TypeOK
  <1>1. /\ UNCHANGED <<task, outputs, created, sent, done>> /\ known' = {} /\ request' = NoRequest
        /\ flow' = [flow EXCEPT !.next = NumSteps + 1]
    BY DEF Restart
  <1>2. StoreOK' /\ DoneOK'
    BY <1>1, StepsAssumption DEF StoreOK, DoneOK
  <1>3. SessionsOK'
    <2>1. turn' \in [Sessions -> {"none", "notified", "found", "completed"}]
      BY DEF Restart
    <2>2. session' \in [Sessions -> [task : Tasks, live : BOOLEAN, streaming : BOOLEAN]]
      <3>1. PICK kept : session' = [s \in Sessions |-> [session[s] EXCEPT !.live = session[s].live /\ s \in kept,
                                                                        !.streaming = FALSE]]
        BY DEF Restart
      <3> DEFINE live(s) == session[s].live /\ s \in kept
      <3>2. session' = [s \in Sessions |-> [session[s] EXCEPT !.live = live(s), !.streaming = FALSE]]
        BY <3>1
      <3>3. \A s \in Sessions : live(s) \in BOOLEAN
        OBVIOUS
      <3> HIDE DEF live
      <3> QED BY <3>2, <3>3 DEF SessionsOK
    <2> QED BY <1>1, <2>1, <2>2 DEF SessionsOK
  <1>4. TickOK' /\ ListedOK'
    BY RestingOK DEF Restart, TickOK, ListedOK
  <1>5. CheckOK'
    BY RestingOK DEF Restart, CheckOK
  <1>6. RequestOK' /\ EditOK'
    <2>1. restarts' \in 0 .. MaxRestarts /\ sent' \in 0 .. MaxRequests
      <3>1. restarts < MaxRestarts /\ restarts' = restarts + 1
        BY Zenon DEF Restart
      <3>2. restarts \in 0 .. MaxRestarts /\ sent \in 0 .. MaxRequests
        BY DEF RequestOK
      <3> QED BY <1>1, <3>1, <3>2, BoundsAssumption
    <2> QED BY <1>1, <2>1, NoRequestOK DEF RequestOK, EditOK
  <1>7. InOrder
    BY <1>1, BoundsAssumption DEF InOrder, SessionsOK, Sessions
  <1> QED BY <1>2, <1>3, <1>4, <1>5, <1>6, <1>7

\* A step that changes nothing.
LEMMA StutterOK == ASSUME IndInv, UNCHANGED vars PROVE IndInv' /\ InOrder
  <1> USE DEF IndInv, TypeOK
  <1>1. TypeOK' /\ DoneOK' /\ EditOK'
    BY DEF vars, StoreOK, SessionsOK, TickOK, CheckOK, RequestOK, DoneOK, EditOK
  <1>2. ListedOK'
    BY ListedKept DEF vars
  <1>3. InOrder
    BY BoundsAssumption DEF vars, InOrder, SessionsOK, Sessions
  <1> QED BY <1>1, <1>2, <1>3

\* Every step keeps the invariant, and creates a session only in order.
LEMMA NextOK == ASSUME IndInv, [Next]_vars PROVE IndInv' /\ InOrder
  <1>1. CASE SaveStep
    BY <1>1, SaveStepOK
  <1>2. ASSUME NEW d \in Dispatchers, Dispatch(d)
        PROVE  IndInv' /\ InOrder
    BY <1>2, TickReadOK, SessionNewOK, TickWriteOK DEF Dispatch
  <1>3. CASE CheckCompletions
    BY <1>3, CheckReadOK, CheckWriteOK DEF CheckCompletions
  <1>4. ASSUME NEW s \in Sessions, Turn(s) \/ Stream(s) \/ Notify(s) \/ SessionRemoved(s)
        PROVE  IndInv' /\ InOrder
    BY <1>4, SessionOK
  <1>5. ASSUME NEW op \in Requests, NEW t \in Tasks, RequestRead(op, t)
        PROVE  IndInv' /\ InOrder
    BY <1>5, RequestReadOK
  <1>6. CASE RequestWrite
    BY <1>6, RequestWriteOK
  <1>7. CASE Age \/ Restart
    BY <1>7, AgeOK, RestartOK
  <1>8. CASE UNCHANGED vars
    BY <1>8, StutterOK
  <1> QED BY <1>1, <1>2, <1>3, <1>4, <1>5, <1>6, <1>7, <1>8 DEF Next

-----------------------------------------------------------------------------
(* The limit while ticks do not overlap                                    *)

\* The tasks that run or that a tick is about to run.
Claimed(d) == Running \cup {r.id : r \in tick[d].todo}

\* No two calls of dispatchPending are in flight.  Nothing in the code sees to that:
\* the timer and the routes call it without waiting for the call before.
OneAtATime == \A d, e \in Dispatchers : tick[d].pc # "idle" /\ tick[e].pc # "idle" => d = e

WithinLimit ==
  /\ Cardinality(Running) <= MaxConcurrent
  /\ \A d \in Dispatchers :
       /\ tick[d].pc \in {"idle", "counted"} => tick[d].todo = {}
       /\ Cardinality(Claimed(d)) <= MaxConcurrent
       /\ tick[d].pc = "counted" => Cardinality(Running) + tick[d].slots <= MaxConcurrent

\* Sets of tasks can be counted, and a part is not larger than the whole.
LEMMA TasksCounted ==
  ASSUME NEW S \in SUBSET Tasks
  PROVE  /\ IsFiniteSet(S) /\ Cardinality(S) \in Nat
         /\ \A T \in SUBSET S : IsFiniteSet(T) /\ Cardinality(T) \in Nat /\ Cardinality(T) <= Cardinality(S)
  <1>1. IsFiniteSet(Tasks)
    BY FS_Interval, StepsAssumption DEF Tasks
  <1>2. IsFiniteSet(S)
    BY <1>1, FS_Subset
  <1> QED BY <1>2, FS_Subset, FS_CardinalityType

\* Of some tasks one is the youngest.
LEMMA Youngest ==
  ASSUME NEW S \in SUBSET Tasks, S # {}
  PROVE  \E m \in S : \A t \in S : t <= m
  <1> DEFINE D == {NumSteps - t : t \in S}
  <1>1. D \in SUBSET Nat /\ D # {}
    <2>1. ASSUME NEW t \in S PROVE NumSteps - t \in Nat
      BY StepsAssumption DEF Tasks
    <2>2. D # {}
      OBVIOUS
    <2> QED BY <2>1, <2>2
  <1>2. PICK x \in D : \A y \in D : ~ (<<y, x>> \in OpToRel(<, Nat))
    BY <1>1, WFMin, NatLessThanWellFounded, Zenon
  <1>3. PICK m \in S : x = NumSteps - m
    OBVIOUS
  <1>4. ASSUME NEW t \in S PROVE t <= m
    <2>1. NumSteps - t \in D /\ NumSteps - t \in Nat /\ x \in Nat
      BY <1>1
    <2>2. ~ (NumSteps - t < x)
      BY <1>2, <2>1 DEF OpToRel
    <2>3. t \in Nat /\ m \in Nat /\ NumSteps \in Nat
      BY StepsAssumption DEF Tasks
    <2> QED BY <1>3, <2>2, <2>3
  <1> QED BY <1>4

\* slice(0, n) takes no more than n tasks.
LEMMA SliceLimit ==
  ASSUME NEW ready \in SUBSET Tasks, NEW n \in Nat
  PROVE  Slice(ready, n) \subseteq ready /\ Cardinality(Slice(ready, n)) <= n
  <1> DEFINE S == Slice(ready, n)
  <1>1. S \subseteq ready /\ IsFiniteSet(S) /\ Cardinality(S) \in Nat
    BY TasksCounted DEF Slice
  <1>2. CASE S = {}
    BY <1>1, <1>2, FS_EmptySet
  <1>3. CASE S # {}
    <2>1. PICK m \in S : \A t \in S : t <= m
      BY <1>1, <1>3, Youngest
    <2> DEFINE B == {u \in ready : u < m}
    <2>2. Cardinality(B) < n /\ B \in SUBSET Tasks
      BY <2>1 DEF Slice
    <2>3. S \ {m} \subseteq B
      <3> HIDE DEF S
      <3>1. ASSUME NEW t \in S, t # m PROVE t < m /\ t \in ready
        BY <1>1, <2>1, <3>1 DEF Tasks
      <3> QED BY <3>1
    <2>4. Cardinality(S \ {m}) <= Cardinality(B) /\ Cardinality(B) \in Nat
      BY <2>2, <2>3, TasksCounted
    <2>5. Cardinality(S \ {m}) = Cardinality(S) - 1
      BY <1>1, <2>1, FS_RemoveElement
    <2> QED BY <1>1, <2>2, <2>4, <2>5
  <1> QED BY <1>1, <1>2, <1>3

\* A tick's tasks are tasks.
LEMMA ClaimedTasks == ASSUME TickOK, NEW d \in Dispatchers PROVE Claimed(d) \in SUBSET Tasks /\ Running \in SUBSET Tasks
  BY DEF TickOK, Listed, Claimed, Running

\* A step that claims no task keeps the limit.
LEMMA LimitKept ==
  ASSUME TickOK, WithinLimit, Running' \subseteq Running,
         \A d \in Dispatchers :
           \/ tick'[d].pc = "idle" /\ tick'[d].todo = {}
           \/ /\ tick'[d].pc \in {"idle", "counted"} => tick'[d].pc = tick[d].pc /\ tick'[d].slots = tick[d].slots
              /\ \A r \in tick'[d].todo : \E q \in tick[d].todo : q.id = r.id
  PROVE  WithinLimit'
  <1>1. Running \in SUBSET Tasks /\ Cardinality(Running) \in Nat
    BY TasksCounted DEF Running
  <1>2. Cardinality(Running)' <= Cardinality(Running) /\ Cardinality(Running)' \in Nat
    BY <1>1, TasksCounted
  <1>3. ASSUME NEW d \in Dispatchers
        PROVE  /\ tick'[d].pc \in {"idle", "counted"} => tick'[d].todo = {}
               /\ Cardinality(Claimed(d)') <= MaxConcurrent
               /\ tick'[d].pc = "counted" => Cardinality(Running)' + tick'[d].slots <= MaxConcurrent
    <2>1. Claimed(d)' \subseteq Claimed(d)
      BY DEF Claimed
    <2>2. Cardinality(Claimed(d)') <= Cardinality(Claimed(d)) /\ Cardinality(Claimed(d)') \in Nat
          /\ Cardinality(Claimed(d)) \in Nat
      BY <2>1, ClaimedTasks, TasksCounted
    <2>3. tick'[d].pc \in {"idle", "counted"} => tick'[d].todo = {}
      BY DEF WithinLimit
    <2>4. tick'[d].pc = "counted" => tick[d].pc = "counted" /\ tick'[d].slots = tick[d].slots
      OBVIOUS
    <2>5. tick[d].slots \in Nat
      BY BoundsAssumption DEF TickOK
    <2>6. Cardinality(Claimed(d)) <= MaxConcurrent
          /\ (tick[d].pc = "counted" => Cardinality(Running) + tick[d].slots <= MaxConcurrent)
      BY DEF WithinLimit
    <2> QED BY <1>1, <1>2, <2>2, <2>3, <2>4, <2>5, <2>6, BoundsAssumption
  <1>4. Cardinality(Running)' <= MaxConcurrent
    BY <1>1, <1>2, BoundsAssumption DEF WithinLimit
  <1> QED BY <1>3, <1>4 DEF WithinLimit

\* updateStatus makes at most its own task a running one, and only with RUNNING.
LEMMA UpdateRuns ==
  ASSUME StoreOK, NEW t \in Tasks, NEW status, NEW s, NEW started, UpdateStatus(t, status, s, started)
  PROVE  Running' \subseteq Running \cup {t} /\ (status # "RUNNING" => Running' \subseteq Running)
  <1>1. ASSUME NEW u \in Tasks \ {t} PROVE task'[u] = task[u]
    BY DEF UpdateStatus, StoreOK
  <1>2. task'[t] = task[t] \/ task'[t].status = status
    BY DEF UpdateStatus, StoreOK
  <1> QED BY <1>1, <1>2 DEF Running

\* Outside the ticks nothing starts a task.
LEMMA OthersLimit ==
  ASSUME IndInv, WithinLimit,
         \/ SaveStep \/ CheckCompletions \/ RequestWrite \/ Age \/ Restart \/ UNCHANGED vars
         \/ \E s \in Sessions : Turn(s) \/ Stream(s) \/ Notify(s) \/ SessionRemoved(s)
         \/ \E op \in Requests, t \in Tasks : RequestRead(op, t)
  PROVE  WithinLimit'
  <1> USE DEF IndInv, TypeOK
  <1>1. ASSUME UNCHANGED tick, Running' \subseteq Running PROVE WithinLimit'
    BY <1>1, LimitKept
  <1>2. ASSUME UNCHANGED <<tick, task>> PROVE WithinLimit'
    BY <1>1, <1>2 DEF Running
  <1>3. ASSUME UNCHANGED tick, NEW t \in Tasks, NEW status, status # "RUNNING", NEW s, NEW a,
               UpdateStatus(t, status, s, a)
        PROVE  WithinLimit'
    BY <1>1, <1>3, UpdateRuns
  <1>4. CASE SaveStep
    <2>1. task' = [task EXCEPT ![flow.next] = [Absent EXCEPT !.status = "PENDING"]] /\ UNCHANGED tick
      BY <1>4 DEF SaveStep
    <2>2. Running' \subseteq Running
      BY <2>1 DEF Running, StoreOK, Absent
    <2> QED BY <1>1, <2>1, <2>2
  <1>5. CASE CheckCompletions
    <2>1. UNCHANGED tick
      BY <1>5 DEF CheckCompletions, CheckMemory, CheckRecovery, CheckOrphaned, CheckStale, Pass, CheckEnd,
                  CompleteKnown, CompleteRecovered, KeepRecovered, FailOrphan, FailStale
    <2>2. CASE CheckMemory \/ CheckRecovery \/ CheckOrphaned \/ CheckStale \/ CheckEnd
      BY <1>2, <2>1, <2>2 DEF CheckMemory, CheckRecovery, CheckOrphaned, CheckStale, Pass, CheckEnd, storeVars
    <2>3. ASSUME NEW s \in Sessions, CompleteKnown(s) PROVE WithinLimit'
      <3>1. session[s].task \in Tasks
        BY DEF SessionsOK
      <3>2. UpdateStatus(session[s].task, "COMPLETED", s, Never)
        BY <2>3 DEF CompleteKnown
      <3> QED BY <1>3, <2>1, <3>1, <3>2
    <2>4. ASSUME NEW row \in check.rows,
                 CompleteRecovered(row) \/ KeepRecovered(row) \/ FailOrphan(row) \/ FailStale(row)
          PROVE  WithinLimit'
      <3>1. row.id \in Tasks
        BY DEF CheckOK, Row
      <3>2. \/ UpdateStatus(row.id, "COMPLETED", row.session, Never)
            \/ UpdateStatus(row.id, "FAILED", NoSession, Never)
            \/ UNCHANGED task
        BY <2>4 DEF CompleteRecovered, KeepRecovered, FailOrphan, FailStale, storeVars
      <3> QED BY <1>2, <1>3, <2>1, <3>1, <3>2
    <2> QED BY <1>5, <2>2, <2>3, <2>4 DEF CheckCompletions
  <1>6. ASSUME NEW s \in Sessions, Turn(s) \/ Stream(s) \/ Notify(s) \/ SessionRemoved(s)
        PROVE  WithinLimit'
    <2>1. UNCHANGED tick /\ session[s].task \in Tasks
      BY <1>6 DEF Turn, TurnFind, TurnMessage, TurnComplete, TurnOutput, Stream, Notify, SessionRemoved, SessionsOK
    <2>2. CASE TurnMessage(s) \/ TurnOutput(s)
      <3>1. \/ UNCHANGED task
            \/ task' = [task EXCEPT ![session[s].task].output = HasReader(session[s].task)]
        BY <2>2 DEF TurnMessage, TurnOutput
      <3>2. Running' \subseteq Running
        BY <3>1 DEF StoreOK, Task, Running
      <3> QED BY <1>1, <2>1, <3>2
    <2>3. CASE TurnComplete(s)
      BY <1>3, <2>1, <2>3 DEF TurnComplete
    <2>4. CASE TurnFind(s) \/ Stream(s) \/ Notify(s) \/ SessionRemoved(s)
      BY <1>2, <2>1, <2>4 DEF TurnFind, Stream, Notify, SessionRemoved, storeVars
    <2> QED BY <1>6, <2>2, <2>3, <2>4 DEF Turn
  <1>7. ASSUME NEW op \in Requests, NEW t \in Tasks, RequestRead(op, t) PROVE WithinLimit'
    BY <1>2, <1>7 DEF RequestRead, storeVars
  <1>8. CASE RequestWrite
    <2>1. UNCHANGED tick /\ request.id \in Tasks
      BY <1>8 DEF RequestWrite, RequestOK
    <2>2. \/ \E r : r.status # "RUNNING" /\ task' = [task EXCEPT ![request.id] = r]
          \/ UpdateStatus(request.id, "PENDING", NoSession, Never)
          \/ UpdateStatus(request.id, "CANCELLED", NoSession, Never)
          \/ UpdateStatus(request.id, "FAILED", NoSession, Never)
      BY <1>8, AbsentOK DEF RequestWrite, EditOK
    <2>3. ASSUME NEW r, r.status # "RUNNING", task' = [task EXCEPT ![request.id] = r]
          PROVE  Running' \subseteq Running
      BY <2>3 DEF StoreOK, Running
    <2> QED BY <1>1, <1>3, <2>1, <2>2, <2>3
  <1>9. CASE Age
    <2>1. Running' \subseteq Running
      <3>1. task' = [t \in Tasks |-> Aged(task[t])]
        BY <1>9 DEF Age
      <3> QED BY <3>1 DEF Aged, StoreOK, Task, Running
    <2> DEFINE todo(d) == {Aged(r) : r \in tick[d].todo}
    <2>2. tick' = [d \in Dispatchers |-> [tick[d] EXCEPT !.todo = todo(d)]]
      BY <1>9 DEF Age
    <2>3. \A r \in Listed : Aged(r).id = r.id
      BY DEF Aged, Listed
    <2>4. \A d \in Dispatchers : tick[d].todo \subseteq Listed
      BY DEF TickOK
    <2>5. \A d \in Dispatchers : \A r \in todo(d) : \E q \in tick[d].todo : q.id = r.id
      BY <2>3, <2>4
    <2> HIDE DEF todo
    <2>6. \A d \in Dispatchers : /\ tick'[d].pc = tick[d].pc /\ tick'[d].slots = tick[d].slots
                                 /\ tick'[d].todo = todo(d)
      BY <2>2 DEF TickOK
    <2> QED BY <2>1, <2>5, <2>6, LimitKept
  <1>10. CASE Restart
    <2>1. \A d \in Dispatchers : tick'[d].pc = "idle" /\ tick'[d].todo = {}
      BY <1>10, RestingOK DEF Restart
    <2>2. Running' \subseteq Running
      BY <1>10 DEF Restart, Running
    <2> QED BY <2>1, <2>2, LimitKept
  <1>11. CASE UNCHANGED vars
    BY <1>2, <1>11 DEF vars
  <1> QED BY <1>4, <1>5, <1>6, <1>7, <1>8, <1>9, <1>10, <1>11

\* Every tick but that of d is at rest.
OthersRest(d) == \A e \in Dispatchers \ {d} : tick[e].pc = "idle" /\ tick[e].todo = {}

\* After a step that leaves it so, the limit is a matter of d alone.
LEMMA LimitOfOne ==
  ASSUME NEW d \in Dispatchers, OthersRest(d)', Cardinality(Running)' <= MaxConcurrent,
         tick'[d].pc \in {"idle", "counted"} => tick'[d].todo = {},
         Cardinality(Claimed(d)') <= MaxConcurrent,
         tick'[d].pc = "counted" => Cardinality(Running)' + tick'[d].slots <= MaxConcurrent
  PROVE  WithinLimit'
  <1>1. ASSUME NEW e \in Dispatchers \ {d} PROVE Claimed(e)' = Running'
    BY DEF OthersRest, Claimed
  <1> QED BY <1>1 DEF OthersRest, WithinLimit

\* A step of one tick leaves the others as they are; when no two are in flight they rest.
LEMMA OthersAtRest ==
  ASSUME TickOK, WithinLimit, OneAtATime, OneAtATime', NEW d \in Dispatchers, Dispatch(d)
  PROVE  OthersRest(d)'
  <1>1. \E x : tick' = [tick EXCEPT ![d] = x]
    BY DEF Dispatch, CountRunning, ListReady, SessionNewFails, ResolvePrompt, MarkRunning, SessionNew,
           RecordSession, RecordFailure, NextTask, Goto
  <1>2. ASSUME NEW e \in Dispatchers \ {d} PROVE tick'[e] = tick[e]
    BY <1>1 DEF TickOK
  <1>3. tick[d].pc # "idle" \/ tick'[d].pc # "idle"
    <2>1. CASE CountRunning(d)
      <3>1. tick'[d] = [Resting EXCEPT !.pc = "counted", !.slots = MaxConcurrent - Cardinality(Running)]
        BY <2>1 DEF CountRunning, Goto, TickOK
      <3> QED BY <3>1 DEF Resting
    <2>2. CASE ~ CountRunning(d)
      BY <2>2 DEF Dispatch, ListReady, SessionNewFails, ResolvePrompt, MarkRunning, SessionNew, RecordSession,
                  RecordFailure
    <2> QED BY <2>1, <2>2
  <1>4. ASSUME NEW e \in Dispatchers \ {d} PROVE tick[e].pc = "idle"
    BY <1>2, <1>3 DEF OneAtATime
  <1> QED BY <1>2, <1>4 DEF OthersRest, WithinLimit

\* A tick that lists takes no more tasks than it has counted free slots: with the
\* running ones they are within the limit.
LEMMA ListReadyLimit ==
  ASSUME IndInv, WithinLimit, NEW d \in Dispatchers, ListReady(d), OthersRest(d)'
  PROVE  WithinLimit'
  <1> USE DEF IndInv, TypeOK
  <1> DEFINE S == Slice(Ready, tick[d].slots)
             todo == {[id |-> t, started |-> task[t].started] : t \in S}
             new == IF Ready = {} THEN Resting ELSE [Resting EXCEPT !.pc = "next", !.todo = todo]
  <1>1. Ready \in SUBSET Tasks /\ tick[d].slots \in Nat
    BY BoundsAssumption DEF Ready, TickOK
  <1>2. S \in SUBSET Tasks /\ Cardinality(S) <= tick[d].slots
    <2> HIDE DEF IndInv, TypeOK
    <2> QED BY <1>1, SliceLimit
  <1>3. Cardinality(Running \cup S) <= MaxConcurrent
    <2>1. Running \in SUBSET Tasks /\ Cardinality(Running) + tick[d].slots <= MaxConcurrent
      BY ClaimedTasks DEF ListReady, WithinLimit
    <2>2. Cardinality(Running \cup S) = Cardinality(Running) + Cardinality(S) - Cardinality(Running \cap S)
      BY <1>2, <2>1, TasksCounted, FS_Union
    <2>3. Cardinality(Running) \in Nat /\ Cardinality(S) \in Nat /\ Cardinality(Running \cap S) \in Nat
      BY <1>2, <2>1, TasksCounted
    <2> QED BY <1>1, <1>2, <2>1, <2>2, <2>3, BoundsAssumption
  <1>4. tick'[d] = new /\ Running' = Running
    BY DEF ListReady, Goto, TickOK, storeVars, Running
  <1>5. new.pc \in {"idle", "next"} /\ (new.pc = "idle" => new.todo = {}) /\ new.todo \subseteq todo
    BY DEF Resting
  <1>6. {r.id : r \in new.todo} \subseteq S
    BY <1>5
  <1>7. Cardinality(Claimed(d)') <= MaxConcurrent
    <2> HIDE DEF new, S
    <2>1. Claimed(d)' \subseteq Running \cup S /\ Running \in SUBSET Tasks
      BY <1>4, <1>6, ClaimedTasks DEF Claimed
    <2>2. Cardinality(Claimed(d)') <= Cardinality(Running \cup S)
          /\ Cardinality(Claimed(d)') \in Nat /\ Cardinality(Running \cup S) \in Nat
      BY <1>2, <2>1, TasksCounted
    <2> QED BY <1>3, <2>2, BoundsAssumption
  <1> HIDE DEF new
  <1>8. Cardinality(Running)' <= MaxConcurrent
    BY <1>4 DEF WithinLimit
  <1>9. /\ tick'[d].pc \in {"idle", "counted"} => tick'[d].todo = {}
        /\ tick'[d].pc = "counted" => Cardinality(Running)' + tick'[d].slots <= MaxConcurrent
    BY <1>4, <1>5
  <1> QED BY <1>7, <1>8, <1>9, LimitOfOne

\* A tick that starts one of its tasks has claimed it before.
LEMMA StartLimit ==
  ASSUME TickOK, WithinLimit, NEW d \in Dispatchers, NEW row \in tick[d].todo, OthersRest(d)',
         Running' \subseteq Running \cup {row.id}, tick'[d].todo \subseteq tick[d].todo,
         tick'[d].pc # "counted", tick'[d].pc = "idle" => tick'[d].todo = {}
  PROVE  WithinLimit'
  <1>1. Claimed(d) \in SUBSET Tasks /\ Cardinality(Claimed(d)) <= MaxConcurrent
    BY ClaimedTasks DEF WithinLimit
  <1>2. Running' \subseteq Claimed(d) /\ Claimed(d)' \subseteq Claimed(d)
    BY DEF Claimed
  <1>3. Cardinality(Running)' <= MaxConcurrent /\ Cardinality(Claimed(d)') <= MaxConcurrent
    <2>1. Cardinality(Running') <= Cardinality(Claimed(d)) /\ Cardinality(Running') \in Nat
          /\ Cardinality(Claimed(d)') <= Cardinality(Claimed(d)) /\ Cardinality(Claimed(d)') \in Nat
          /\ Cardinality(Claimed(d)) \in Nat
      BY <1>1, <1>2, TasksCounted
    <2> QED BY <1>1, <2>1, BoundsAssumption
  <1> QED BY <1>3, LimitOfOne

\* No step of a tick that is alone goes over the limit.
LEMMA DispatchLimit ==
  ASSUME IndInv, WithinLimit, OneAtATime, OneAtATime', NEW d \in Dispatchers, Dispatch(d)
  PROVE  WithinLimit'
  <1> USE DEF IndInv, TypeOK
  <1>0. OthersRest(d)'
    BY OthersAtRest
  <1>1. CASE CountRunning(d)
    <2>1. tick'[d] = [Resting EXCEPT !.pc = "counted", !.slots = MaxConcurrent - Cardinality(Running)] /\ Running' = Running
      BY <1>1 DEF CountRunning, Goto, TickOK, storeVars, Running
    <2>2. tick'[d].pc = "counted" /\ tick'[d].todo = {} /\ tick'[d].slots = MaxConcurrent - Cardinality(Running)
      BY <2>1 DEF Resting
    <2>3. Claimed(d)' = Running /\ Cardinality(Running)' = Cardinality(Running)
      BY <2>1, <2>2 DEF Claimed
    <2>4. Cardinality(Running) + tick'[d].slots <= MaxConcurrent
      BY <2>2, RunningCount, BoundsAssumption
    <2>5. Cardinality(Running)' <= MaxConcurrent /\ Cardinality(Claimed(d)') <= MaxConcurrent
      BY <2>3 DEF WithinLimit
    <2>6. tick'[d].pc = "counted" => Cardinality(Running)' + tick'[d].slots <= MaxConcurrent
      BY <2>3, <2>4
    <2> QED BY <1>0, <2>2, <2>5, <2>6, LimitOfOne
  <1>2. CASE ListReady(d)
    BY <1>0, <1>2, ListReadyLimit
  <1>3. CASE SessionNewFails(d) \/ \E row \in tick[d].todo : ResolvePrompt(d, row) \/ SessionNew(d, row)
    <2>1. Running' = Running
      BY <1>3 DEF SessionNewFails, ResolvePrompt, SessionNew, storeVars, Running
    <2>2. \/ tick'[d].pc = "idle" /\ tick'[d].todo = {}
          \/ tick'[d].pc \in {"failed", "resolved", "created"} /\ tick'[d].todo = tick[d].todo
      <3>1. \/ tick' = [tick EXCEPT ![d] = Resting]
            \/ \E pc \in {"failed", "resolved"} : tick' = [tick EXCEPT ![d] = [tick[d] EXCEPT !.pc = pc]]
            \/ tick' = [tick EXCEPT ![d] = [tick[d] EXCEPT !.pc = "created", !.session = created + 1]]
        BY <1>3 DEF SessionNewFails, ResolvePrompt, SessionNew, Goto
      <3>2. \/ tick'[d] = Resting
            \/ tick'[d].pc \in {"failed", "resolved", "created"} /\ tick'[d].todo = tick[d].todo
        <4>1. \A x : tick' = [tick EXCEPT ![d] = x] => tick'[d] = x
          BY DEF TickOK
        <4>2. \/ tick'[d] = Resting
              \/ \E pc \in {"failed", "resolved"} : tick'[d] = [tick[d] EXCEPT !.pc = pc]
              \/ tick'[d] = [tick[d] EXCEPT !.pc = "created", !.session = created + 1]
          BY <3>1, <4>1
        <4> QED BY <4>2 DEF TickOK
      <3> QED BY <3>2, RestingOK
    <2>3. \A e \in Dispatchers \ {d} : tick'[e].pc = "idle" /\ tick'[e].todo = {}
      BY <1>0 DEF OthersRest
    <2> QED BY <2>1, <2>2, <2>3, LimitKept
  <1>4. ASSUME NEW row \in tick[d].todo, MarkRunning(d, row) \/ RecordSession(d, row) \/ RecordFailure(d, row)
        PROVE  WithinLimit'
    <2>1. row.id \in Tasks
      BY DEF TickOK, Listed
    <2>2. Running' \subseteq Running \cup {row.id}
      BY <1>4, <2>1, UpdateRuns DEF MarkRunning, RecordSession, RecordFailure
    <2>3. /\ tick'[d].todo \subseteq tick[d].todo /\ tick'[d].pc # "counted"
          /\ tick'[d].pc = "idle" => tick'[d].todo = {}
      <3>1. CASE MarkRunning(d, row)
        BY <3>1 DEF MarkRunning, Goto, TickOK
      <3>2. CASE NextTask(d, row)
        <4> DEFINE left == tick[d].todo \ {row}
                   new == IF left = {} THEN Resting ELSE [Resting EXCEPT !.pc = "next", !.todo = left]
        <4>1. tick'[d] = new
          BY <3>2 DEF NextTask, Goto, TickOK
        <4>2. new.pc \in {"idle", "next"} /\ (new.pc = "idle" => new.todo = {}) /\ new.todo \subseteq left
          BY DEF Resting
        <4> HIDE DEF new
        <4> QED BY <4>1, <4>2
      <3> QED BY <1>4, <3>1, <3>2 DEF RecordSession, RecordFailure
    <2> QED BY <1>0, <2>2, <2>3, StartLimit
  <1> QED BY <1>1, <1>2, <1>3, <1>4 DEF Dispatch

\* Nothing runs and nothing is claimed at first.
LEMMA InitLimit == Init => WithinLimit
  <1> SUFFICES ASSUME Init PROVE WithinLimit
    OBVIOUS
  <1>1. Running = {}
    BY DEF Init, Running, Absent
  <1>2. \A d \in Dispatchers : tick[d].pc = "idle" /\ tick[d].todo = {}
    BY RestingOK DEF Init
  <1>3. \A d \in Dispatchers : Claimed(d) = {}
    BY <1>1, <1>2 DEF Claimed
  <1> QED BY <1>1, <1>2, <1>3, FS_EmptySet, BoundsAssumption DEF WithinLimit

\* Every step between states without overlap stays within the limit.
LEMMA NextLimit == ASSUME IndInv, WithinLimit, OneAtATime, OneAtATime', [Next]_vars PROVE WithinLimit'
  BY OthersLimit, DispatchLimit DEF Next

-----------------------------------------------------------------------------
(* Theorems                                                                *)

\* The stored rows, the sessions and everything the calls in flight hold have their
\* types, and a tick that goes on past the count of running tasks has a free slot.
THEOREM Typing == Spec => []TypeOK
  <1>1. Init => IndInv
    BY InitOK
  <1>2. IndInv /\ [Next]_vars => IndInv'
    BY NextOK
  <1>3. IndInv => TypeOK
    BY DEF IndInv
  <1> QED BY <1>1, <1>2, <1>3, PTL DEF Spec

\* dispatchPending creates no session for a workflow step before every step of the
\* groups before it has been completed, however old the list is that it works through.
THEOREM DispatchInOrder == Spec => StepsInOrder
  <1>1. Init => IndInv
    BY InitOK
  <1>2. IndInv /\ [Next]_vars => IndInv'
    BY NextOK
  <1>3. IndInv /\ [Next]_vars => [InOrder]_vars
    BY NextOK
  <1>4. StepsInOrder <=> [][InOrder]_vars
    BY DEF StepsInOrder, InOrder
  <1> QED BY <1>1, <1>2, <1>3, <1>4, PTL DEF Spec

\* As long as dispatchPending is not called while a call is in flight, the worker never
\* has more than MAX_CONCURRENT_TASKS tasks running, whatever requests, restarts,
\* retries and late status writes do between its queries: overlap is the only cause
\* of an overrun.
THEOREM LimitUnlessOverlap == Spec /\ []OneAtATime => []ConcurrencyLimit
  <1>1. Init => IndInv /\ WithinLimit
    BY InitOK, InitLimit
  <1>2. IndInv /\ WithinLimit /\ OneAtATime /\ OneAtATime' /\ [Next]_vars => IndInv' /\ WithinLimit'
    BY NextOK, NextLimit
  <1>3. WithinLimit => ConcurrencyLimit
    BY DEF WithinLimit, ConcurrencyLimit, Running
  <1> QED BY <1>1, <1>2, <1>3, PTL DEF Spec
=============================================================================
