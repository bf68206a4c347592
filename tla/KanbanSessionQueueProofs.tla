----------------------- MODULE KanbanSessionQueueProofs -----------------------
(***************************************************************************)
(* Proofs about KanbanSessionQueue, for every set of cards and calls.      *)
(*                                                                         *)
(* NoDoubleStart, LimitAtStart, Typing: whatever the rest of the system    *)
(* does, no job is started twice, a start never exceeds the limit that the *)
(* starting call has read, and the state keeps its type.  The first two    *)
(* need nothing of the queue's array: an entry is looked up again, under   *)
(* its own card, after the await and before it is started.                 *)
(*                                                                         *)
(* EndReleases: a slot is held by a session at work, when no card is       *)
(* enqueued twice and no session ends early.  One call at a time works on  *)
(* a card (AloneInv), so the session it stores is its entry's own.         *)
(*                                                                         *)
(* LimitKept: the sessions at work, those that nothing has announced as    *)
(* ended, are within the limit, in a calm system.                          *)
(* What a reconcile loop removes is then either waiting or over (CalmInv), *)
(* so that every session at work is of an entry counted as running.        *)
(***************************************************************************)
EXTENDS KanbanSessionQueue, FiniteSetTheorems, WellFoundedInduction, SequenceTheorems, TLAPS

\* A QueueEntry, and the locals of a call, as records with their fields.
EntryShape(e) == e = [f \in {"card", "lane", "force", "status", "session", "starts"} |-> e[f]]

LocalShape(r) ==
  r = [f \in {"pc", "op", "card", "lane", "force", "cur", "visit", "keep", "read", "got", "limit",
              "result"} |-> r[f]]

\* An entry has been started once when it is running, never before.
EntryOK(e) == EntryShape(e) /\ e.starts = IF e.status = "running" THEN 1 ELSE 0

EntriesOK(es) == es = [j \in Jobs |-> es[j]] /\ \A j \in Jobs : EntryOK(es[j])

\* jobsByCardId holds an entry only under the entry's own card.
MapOK(js, es, m) ==
  /\ js = [c \in Cards |-> js[c]]
  /\ \A c \in Cards : js[c] # NoJob => js[c] \in 1 .. m /\ es[js[c]].card = c

\* A call inside startEntry works on an entry that exists.
LocalOK(r, m) ==
  /\ LocalShape(r)
  /\ r.limit \in Nat
  /\ r.pc \in {"starting", "working", "started"} => r.cur \in 1 .. m

CallsOK(calls, m) == calls = [p \in Calls |-> calls[p]] /\ \A p \in Calls : LocalOK(calls[p], m)

IndInv ==
  /\ made \in 0 .. MaxJobs
  /\ limit \in Limits
  /\ EntriesOK(job)
  /\ MapOK(jobs, job, made)
  /\ CallsOK(call, made)

\* What StartWithinLimit says of one step.
StartsWithin ==
  \A p \in Calls : call[p].pc # "starting" /\ call'[p].pc = "starting"
                   => Cardinality(RunningCards(jobs', job')) <= call'[p].limit

-----------------------------------------------------------------------------
(* Locals                                                                  *)

\* A call that returned is in order.
LEMMA IdleOK == ASSUME NEW m PROVE LocalOK(Idle, m) /\ Idle.pc = "idle"
  BY DEF LocalOK, LocalShape, Idle

\* Moving a call to another await keeps its limit.
LEMMA AtOK ==
  ASSUME NEW r, LocalShape(r), r.limit \in Nat, NEW pc, NEW j
  PROVE  LET a == At(r, pc, j)
         IN LocalShape(a) /\ a.pc = pc /\ a.cur = j /\ a.limit = r.limit
  BY DEF LocalShape, At

\* Issuing a read of a card keeps the call's limit.
LEMMA AwaitTaskOK ==
  ASSUME NEW r, LocalShape(r), r.limit \in Nat, NEW pc, NEW j, NEW c
  PROVE  LET a == AwaitTask(r, pc, j, c)
         IN LocalShape(a) /\ a.pc = pc /\ a.cur = j /\ a.limit = r.limit
<1> DEFINE a == At(r, pc, j)
           g == IF Prompt THEN task[c] ELSE BlankTask
<1>1. LocalShape(a) /\ a.pc = pc /\ a.cur = j /\ a.limit = r.limit
  BY AtOK
<1>2. AwaitTask(r, pc, j, c) = [a EXCEPT !.read = Prompt, !.got = g]
  BY DEF AwaitTask
<1> HIDE DEF a, g
<1> QED BY <1>1, <1>2 DEF LocalShape

\* A limit that is read is a number.
LEMMA AwaitLimitOK ==
  ASSUME NEW r, LocalShape(r), r.limit \in Nat, limit \in Limits, NEW m
  PROVE  LocalOK(AwaitLimit(r), m) /\ AwaitLimit(r).pc = "limit"
<1> DEFINE a == At(r, "limit", NoJob)
           g == IF Prompt THEN limit ELSE 0
<1>1. LocalShape(a) /\ a.pc = "limit"
  BY AtOK
<1>2. AwaitLimit(r) = [a EXCEPT !.read = Prompt, !.limit = g]
  BY DEF AwaitLimit
<1>3. g \in Nat
  BY LimitsAssumption
<1> HIDE DEF a, g
<1> QED BY <1>1, <1>2, <1>3 DEF LocalOK, LocalShape

\* A step that changes the locals of one call to local.
LEMMA GotoOK ==
  ASSUME NEW calls, NEW m, CallsOK(calls, m), NEW p \in Calls, NEW local, LocalOK(local, m),
         NEW next, next = [calls EXCEPT ![p] = local]
  PROVE  CallsOK(next, m) /\ next[p] = local /\ \A q \in Calls : q # p => next[q] = calls[q]
  BY DEF CallsOK

\* The step of reconcileRunningEntries leaves its call at an await of its own.
LEMMA VisitRunningOK ==
  ASSUME NEW calls, NEW m, CallsOK(calls, m), NEW p \in Calls, NEW js, NEW es, NEW visit,
         VisitRunning(calls, p, js, es, visit)
  PROVE  /\ CallsOK(call', m)
         /\ call'[p].pc \in {"ranRunning", "running"}
         /\ \A q \in Calls : q # p => call'[q] = calls[q]
<1> DEFINE left == {j \in visit : IsCurrent(js, es, j, "running")}
<1>0. LocalShape(calls[p]) /\ calls[p].limit \in Nat
  BY DEF CallsOK, LocalOK
<1>1. CASE left = {} /\ call' = [calls EXCEPT ![p] = [At(calls[p], "ranRunning", NoJob) EXCEPT !.visit = {}]]
  <2> DEFINE a == At(calls[p], "ranRunning", NoJob)
             b == [a EXCEPT !.visit = {}]
  <2>1. LocalShape(a) /\ a.pc = "ranRunning" /\ a.limit \in Nat
    BY <1>0, AtOK
  <2>2. call' = [calls EXCEPT ![p] = b]
    BY <1>1
  <2> HIDE DEF a
  <2>3. LocalOK(b, m) /\ b.pc = "ranRunning"
    BY <2>1 DEF LocalOK, LocalShape
  <2> HIDE DEF b
  <2> QED BY <2>2, <2>3 DEF CallsOK
<1>2. CASE \E j \in left : call' = [calls EXCEPT ![p] =
             [AwaitTask(calls[p], "running", j, es[j].card) EXCEPT !.visit = left \ {j}]]
  <2>0. PICK j \in left : call' = [calls EXCEPT ![p] =
             [AwaitTask(calls[p], "running", j, es[j].card) EXCEPT !.visit = left \ {j}]]
    BY <1>2
  <2> DEFINE a == AwaitTask(calls[p], "running", j, es[j].card)
             b == [a EXCEPT !.visit = left \ {j}]
  <2>1. LocalShape(a) /\ a.pc = "running" /\ a.limit \in Nat
    BY <1>0, AwaitTaskOK
  <2>2. call' = [calls EXCEPT ![p] = b]
    BY <2>0
  <2> HIDE DEF a
  <2>3. LocalOK(b, m) /\ b.pc = "running"
    BY <2>1 DEF LocalOK, LocalShape
  <2> HIDE DEF b
  <2> QED BY <2>2, <2>3 DEF CallsOK
<1> QED BY <1>1, <1>2 DEF VisitRunning

\* The synchronous beginning of an operation leaves its call in reconcileRunningEntries.
LEMMA BeginOK ==
  ASSUME NEW calls, NEW m, CallsOK(calls, m), NEW p \in Calls, NEW op, NEW c, NEW lane, NEW force,
         NEW js, NEW es, Begin(calls, p, op, c, lane, force, js, es)
  PROVE  /\ CallsOK(call', m)
         /\ call'[p].pc \in {"ranRunning", "running"}
         /\ \A q \in Calls : q # p => call'[q] = calls[q]
<1> DEFINE a == [Idle EXCEPT !.op = op, !.card = c, !.lane = lane, !.force = force]
           fresh == [calls EXCEPT ![p] = a]
<1>1. LocalOK(a, m)
  BY DEF Idle, LocalOK, LocalShape
<1> HIDE DEF a
<1>2. CallsOK(fresh, m) /\ \A q \in Calls : q # p => fresh[q] = calls[q]
  BY <1>1, GotoOK
<1>3. VisitRunning(fresh, p, js, es, {js[d] : d \in RunningCards(js, es)})
  BY DEF Begin, a
<1> HIDE DEF fresh
<1> QED BY <1>2, <1>3, VisitRunningOK

-----------------------------------------------------------------------------
(* Steps                                                                   *)

\* Only deletions from the jobs map.
Fewer(js, next) == next = [c \in Cards |-> next[c]] /\ \A c \in Cards : next[c] \in {js[c], NoJob}

\* jobsByCardId.delete only deletes.
LEMMA WithoutFewer ==
  ASSUME NEW js, js = [c \in Cards |-> js[c]], NEW d
  PROVE  Fewer(js, Without(js, d))
  BY DEF Fewer, Without

\* A step that starts nothing and creates nothing.
LEMMA QuietStep ==
  ASSUME IndInv, limit' \in Limits, made' = made, job' = job, Fewer(jobs, jobs'),
         CallsOK(call', made),
         \A p \in Calls : call'[p].pc = "starting" => call[p].pc = "starting"
  PROVE  IndInv' /\ StartsWithin
<1>1. MapOK(jobs', job', made')
  BY DEF IndInv, MapOK, Fewer
<1> QED BY <1>1 DEF IndInv, StartsWithin

\* A step that moves one call on to an await other than the start closure.
LEMMA QuietGoto ==
  ASSUME IndInv, limit' \in Limits, made' = made, job' = job, Fewer(jobs, jobs'),
         NEW p \in Calls, NEW local, LocalOK(local, made), Goto(p, local),
         local.pc = "starting" => call[p].pc = "starting"
  PROVE  IndInv' /\ StartsWithin
<1>1. CallsOK(call', made) /\ call'[p] = local /\ \A q \in Calls : q # p => call'[q] = call[q]
  BY DEF IndInv, CallsOK, Goto
<1>2. \A q \in Calls : call'[q].pc = "starting" => call[q].pc = "starting"
  BY <1>1
<1> QED BY <1>1, <1>2, QuietStep

\* A step that begins an operation in call p.
LEMMA QuietBegin ==
  ASSUME IndInv, limit' \in Limits, made' = made, job' = job, Fewer(jobs, jobs'),
         NEW p \in Calls, NEW op, NEW c, NEW lane, NEW force, NEW js, NEW es,
         Begin(call, p, op, c, lane, force, js, es)
  PROVE  IndInv' /\ StartsWithin
<1>1. CallsOK(call, made)
  BY DEF IndInv
<1>2. /\ CallsOK(call', made)
      /\ call'[p].pc \in {"ranRunning", "running"}
      /\ \A q \in Calls : q # p => call'[q] = call[q]
  BY <1>1, BeginOK
<1> QED BY <1>2, QuietStep

\* Nothing of the queue's own state changes.
LEMMA SameFewer == IndInv /\ UNCHANGED jobs => Fewer(jobs, jobs')
  BY DEF IndInv, MapOK, Fewer

\* The locals of a call, taken from the invariant.
LEMMA LocalFacts ==
  ASSUME IndInv, NEW p \in Calls
  PROVE  LocalShape(call[p]) /\ call[p].limit \in Nat /\ limit \in Limits /\ LocalOK(call[p], made)
  BY DEF IndInv, CallsOK, LocalOK

\* startEntry's synchronous part: entry j is waiting, the card c it is filed under is
\* new or was there before, and fewer than the limit of call p were running.
LEMMA StartStep ==
  ASSUME IndInv, UNCHANGED limit, made' \in 0 .. MaxJobs, made <= made',
         NEW p \in Calls, NEW es, EntriesOK(es), NEW j \in 1 .. made', es[j].status = "queued",
         MapOK(jobs', es, made'), NEW c,
         \A d \in Cards : jobs'[d] = j => d = c,
         \A d \in Cards : jobs'[d] # NoJob /\ jobs'[d] # j
                           => jobs[d] = jobs'[d] /\ job[jobs[d]] = es[jobs[d]],
         CountRunning(jobs, job) < call[p].limit,
         StartEntry(p, j, es)
  PROVE  IndInv' /\ StartsWithin
<1>0. MaxJobs \in Nat /\ made \in Nat /\ made' \in Nat /\ j \in Jobs
  BY MaxJobsAssumption DEF IndInv, Jobs
<1> DEFINE e == [es[j] EXCEPT !.status = "running", !.starts = es[j].starts + 1]
<1>1. job' = [es EXCEPT ![j] = e]
  BY DEF StartEntry
<1>2. EntryOK(e) /\ e.card = es[j].card /\ e.status = "running"
  <2>1. EntryShape(es[j]) /\ es[j].starts = 0
    BY <1>0 DEF EntriesOK, EntryOK
  <2>2. e = [es[j] EXCEPT !.status = "running", !.starts = 1]
    BY <2>1
  <2>3. EntryShape(e) /\ e.starts = 1 /\ e.card = es[j].card /\ e.status = "running"
    BY <2>1, <2>2 DEF EntryShape
  <2> QED BY <2>3 DEF EntryOK
<1> HIDE DEF e
<1>3. EntriesOK(job')
  BY <1>1, <1>2 DEF EntriesOK
<1>4. \A k \in Jobs : job'[k].card = es[k].card /\ (k # j => job'[k] = es[k])
  BY <1>0, <1>1, <1>2 DEF EntriesOK
<1>5. \A k \in 1 .. made' : k \in Jobs
  BY <1>0 DEF Jobs
<1>6. MapOK(jobs', job', made')
  BY <1>4, <1>5 DEF MapOK
<1>7. /\ CallsOK(call', made')
      /\ call'[p].limit = call[p].limit
      /\ \A q \in Calls : q # p => call'[q] = call[q]
  <2> DEFINE a == AwaitTask(call[p], "starting", j, es[j].card)
  <2>1. LocalShape(a) /\ a.pc = "starting" /\ a.cur = j /\ a.limit = call[p].limit
    BY LocalFacts, AwaitTaskOK
  <2>2. call' = [call EXCEPT ![p] = a]
    BY DEF StartEntry, Goto
  <2> HIDE DEF a
  <2>3. LocalOK(a, made')
    BY <2>1, LocalFacts DEF LocalOK
  <2>4. \A q \in Calls : LocalOK(call[q], made')
    BY <1>0 DEF IndInv, CallsOK, LocalOK
  <2> QED BY <2>1, <2>2, <2>3, <2>4 DEF IndInv, CallsOK
<1>8. Cardinality(RunningCards(jobs', job')) <= call[p].limit
  <2> DEFINE R == RunningCards(jobs, job)
             S == RunningCards(jobs', job')
  <2>1. S \subseteq R \cup {c}
    <3> SUFFICES ASSUME NEW d \in Cards, jobs'[d] # NoJob, job'[jobs'[d]].status = "running", d # c
                 PROVE  jobs[d] # NoJob /\ job[jobs[d]].status = "running"
      BY DEF RunningCards
    <3>1. jobs'[d] # j
      OBVIOUS
    <3>2. jobs'[d] \in Jobs
      BY <1>5 DEF MapOK
    <3> QED BY <3>1, <3>2, <1>4
  <2>2. IsFiniteSet(R) /\ Cardinality(R) \in Nat
    <3>1. R \subseteq Cards
      BY DEF RunningCards
    <3> HIDE DEF R
    <3> QED BY <3>1, SetsAssumption, FS_Subset, FS_CardinalityType
  <2>3. Cardinality(R) < call[p].limit
    BY DEF CountRunning
  <2> HIDE DEF R, S
  <2>4. IsFiniteSet(R \cup {c}) /\ Cardinality(R \cup {c}) \in {Cardinality(R), Cardinality(R) + 1}
    BY <2>2, FS_AddElement
  <2>5. Cardinality(S) <= Cardinality(R \cup {c}) /\ Cardinality(S) \in Nat
    BY <2>1, <2>4, FS_Subset, FS_CardinalityType
  <2>6. Cardinality(S) <= call[p].limit
    BY <2>2, <2>3, <2>4, <2>5, LocalFacts
  <2> QED BY <2>6 DEF S
<1>9. StartsWithin
  BY <1>7, <1>8 DEF StartsWithin
<1> QED BY <1>3, <1>6, <1>7, <1>9 DEF IndInv

-----------------------------------------------------------------------------
(* One lemma for each action that does more than move a call on            *)

\* enqueue after its awaits: a new entry waits, drains or is started within the limit.
LEMMA EnqueueAdmitStep ==
  ASSUME IndInv, NEW p \in Calls, EnqueueAdmit(p)
  PROVE  IndInv' /\ StartsWithin
<1> DEFINE j == made + 1
           c == call[p].card
           e == [card |-> c, lane |-> call[p].lane, force |-> call[p].force,
                 status |-> "queued", session |-> NoSession, starts |-> 0]
           es == [job EXCEPT ![j] = e]
<1>1. /\ made \in Nat /\ made' = j /\ made' \in 0 .. MaxJobs /\ j \in Jobs /\ j \in 1 .. made'
      /\ UNCHANGED limit
      /\ jobs' = [jobs EXCEPT ![c] = j]
  BY MaxJobsAssumption DEF IndInv, EnqueueAdmit, Jobs, boardVars
<1>2. EntryOK(e) /\ e.card = c /\ e.status = "queued"
  BY DEF EntryOK, EntryShape
<1> HIDE DEF e
<1>3. EntriesOK(es) /\ es[j] = e /\ \A k \in 1 .. made : es[k] = job[k]
  BY <1>1, <1>2 DEF IndInv, EntriesOK
<1>4. \A d \in Cards : jobs[d] # NoJob => jobs[d] \in 1 .. made /\ jobs[d] # j /\ job[jobs[d]].card = d
  BY <1>1 DEF IndInv, MapOK
<1>5. MapOK(jobs', es, made')
  BY <1>1, <1>2, <1>3, <1>4 DEF IndInv, MapOK
<1>6. \A q \in Calls : LocalOK(call[q], made')
  BY <1>1 DEF IndInv, CallsOK, LocalOK
<1>7. CallsOK(call, made')
  BY <1>6 DEF IndInv, CallsOK
<1>8. CASE job' = es /\ Return(p)
  <2>1. CallsOK(call', made') /\ \A q \in Calls : call'[q].pc = "starting" => call[q].pc = "starting"
    BY <1>7, <1>8, IdleOK DEF Return, Goto, CallsOK
  <2> QED BY <1>1, <1>3, <1>5, <1>8, <2>1 DEF IndInv, StartsWithin
<1>9. CASE job' = es /\ BeginDrain(call, p, jobs', es)
  <2>1. Begin(call, p, "drain", NoCard, BlockedLane, FALSE, jobs', es)
    BY <1>9 DEF BeginDrain
  <2>2. /\ CallsOK(call', made')
        /\ call'[p].pc \in {"ranRunning", "running"}
        /\ \A q \in Calls : q # p => call'[q] = call[q]
    BY <1>7, <2>1, BeginOK
  <2> QED BY <1>1, <1>3, <1>5, <1>9, <2>2 DEF IndInv, StartsWithin
<1>10. CASE ~ (CountRunning(jobs, job) >= call[p].limit) /\ StartEntry(p, j, es)
  <2>1. CountRunning(jobs, job) < call[p].limit
    <3>1. RunningCards(jobs, job) \subseteq Cards
      BY DEF RunningCards
    <3>2. CountRunning(jobs, job) \in Nat
      BY <3>1, SetsAssumption, FS_Subset, FS_CardinalityType DEF CountRunning
    <3> QED BY <1>10, <3>2, LocalFacts
  <2>2. \A d \in Cards : jobs'[d] = j => d = c
    BY <1>1, <1>4 DEF IndInv, MapOK, NoJob
  <2>3. \A d \in Cards : jobs'[d] # NoJob /\ jobs'[d] # j
                          => jobs[d] = jobs'[d] /\ job[jobs[d]] = es[jobs[d]]
    BY <1>1, <1>3, <1>4 DEF IndInv, MapOK
  <2>4. es[j].status = "queued" /\ StartEntry(p, j, es) /\ made <= made'
    BY <1>1, <1>2, <1>3, <1>10
  <2>5. /\ UNCHANGED limit /\ made' \in 0 .. MaxJobs /\ j \in 1 .. made'
        /\ EntriesOK(es) /\ MapOK(jobs', es, made')
    BY <1>1, <1>3, <1>5
  <2> HIDE DEF es, j, c
  <2> QED BY <2>1, <2>2, <2>3, <2>4, <2>5, StartStep
<1> QED
  BY <1>8, <1>9, <1>10 DEF EnqueueAdmit, e

\* drainQueue starts the head it has looked up again, or returns when the board is full.
LEMMA DrainStartStep ==
  ASSUME IndInv, NEW p \in Calls, DrainStart(p)
  PROVE  IndInv' /\ StartsWithin
<1> DEFINE j == call[p].cur
<1>1. UNCHANGED <<limit, made, jobs>>
  BY DEF DrainStart, boardVars
<1>2. CASE Return(p) /\ UNCHANGED job
  <2>1. Goto(p, Idle)
    BY <1>2 DEF Return
  <2> QED BY <1>1, <1>2, <2>1, IdleOK, QuietGoto, SameFewer, LocalFacts
<1>3. CASE HasRoom(p) /\ StartEntry(p, j, job)
  <2>1. PICK c \in Cards : j # NoJob /\ jobs[c] = j /\ job[j].card = c /\ job[j].status = "queued"
    BY DEF DrainStart, Startable, IsCurrent
  <2>2. made' \in 0 .. MaxJobs /\ made <= made' /\ j \in 1 .. made'
    BY <1>1, <2>1, MaxJobsAssumption DEF IndInv, MapOK
  <2>3. EntriesOK(job) /\ MapOK(jobs', job, made')
    BY <1>1 DEF IndInv
  <2>4. \A d \in Cards : jobs'[d] = j => d = c
    BY <1>1, <2>1 DEF IndInv, MapOK
  <2>5. \A d \in Cards : jobs'[d] # NoJob /\ jobs'[d] # j
                          => jobs[d] = jobs'[d] /\ job[jobs[d]] = job[jobs[d]]
    BY <1>1
  <2>6. CountRunning(jobs, job) < call[p].limit
    BY <1>3 DEF HasRoom
  <2> HIDE DEF j
  <2> QED BY <1>1, <1>3, <2>1, <2>2, <2>3, <2>4, <2>5, <2>6, StartStep
<1> QED BY <1>2, <1>3 DEF DrainStart

\* startEntry files the entry it started under its card again.
LEMMA StartSucceededStep ==
  ASSUME IndInv, NEW p \in Calls, StartSucceeded(p)
  PROVE  IndInv' /\ StartsWithin
<1> DEFINE j == call[p].cur
           e == [job[j] EXCEPT !.session = call[p].result]
<1>1. /\ UNCHANGED <<limit, made>>
      /\ job' = [job EXCEPT ![j] = e]
      /\ jobs' = [jobs EXCEPT ![job[j].card] = j]
  BY DEF StartSucceeded, boardVars
<1>2. j \in 1 .. made /\ j \in Jobs /\ made \in Nat /\ \A k \in 1 .. made : k \in Jobs
  BY MaxJobsAssumption DEF StartSucceeded, IndInv, CallsOK, LocalOK, Jobs
<1>3. EntryOK(e) /\ e.card = job[j].card
  BY <1>2 DEF IndInv, EntriesOK, EntryOK, EntryShape
<1> HIDE DEF e
<1>4. EntriesOK(job') /\ \A k \in Jobs : job'[k].card = job[k].card
  BY <1>1, <1>2, <1>3 DEF IndInv, EntriesOK
<1>5. MapOK(jobs', job', made')
  BY <1>1, <1>2, <1>4 DEF IndInv, MapOK
<1>6. PICK local : Goto(p, local) /\ LocalOK(local, made) /\ local.pc # "starting"
  <2>1. LocalOK(At(call[p], "loop", NoJob), made) /\ At(call[p], "loop", NoJob).pc = "loop"
    BY LocalFacts, AtOK DEF LocalOK
  <2> QED BY <2>1, IdleOK DEF StartSucceeded, Return
<1>7. CallsOK(call', made) /\ call'[p] = local /\ \A q \in Calls : q # p => call'[q] = call[q]
  BY <1>6 DEF IndInv, CallsOK, Goto
<1> QED BY <1>1, <1>4, <1>5, <1>6, <1>7 DEF IndInv, StartsWithin

-----------------------------------------------------------------------------
(* The steps that move one call on                                         *)

\* reconcileBoardEntries only deletes entries and starts nothing.
LEMMA ReconcileSteps ==
  ASSUME IndInv, NEW p \in Calls, CheckRunning(p) \/ BeginQueued(p) \/ CheckQueued(p)
  PROVE  IndInv' /\ StartsWithin
<1>0. UNCHANGED <<limit, made, job>> /\ limit' \in Limits /\ jobs = [c \in Cards |-> jobs[c]]
  BY DEF IndInv, MapOK, CheckRunning, BeginQueued, CheckQueued, boardVars
<1>1. Fewer(jobs, jobs')
  <2>1. CASE CheckRunning(p)
    BY <1>0, <2>1, WithoutFewer, SameFewer DEF CheckRunning
  <2>2. CASE BeginQueued(p)
    BY <2>2 DEF BeginQueued, Fewer
  <2>3. CASE CheckQueued(p)
    BY <1>0, <2>3, WithoutFewer, SameFewer DEF CheckQueued
  <2> QED BY <2>1, <2>2, <2>3
<1>2. CASE CheckRunning(p)
  <2>1. VisitRunning(call, p, jobs', job, call[p].visit)
    BY <1>2 DEF CheckRunning
  <2>2. CallsOK(call, made)
    BY DEF IndInv
  <2>3. /\ CallsOK(call', made)
        /\ call'[p].pc \in {"ranRunning", "running"}
        /\ \A q \in Calls : q # p => call'[q] = call[q]
    BY <2>1, <2>2, VisitRunningOK
  <2> QED BY <1>0, <1>1, <2>3, QuietStep
<1>3. ASSUME NEW js, NEW rest, NEW keep, NEW onBoard, VisitQueued(p, js, rest, keep, onBoard)
      PROVE  \E local : Goto(p, local) /\ LocalOK(local, made) /\ local.pc # "starting"
  <2>1. LocalShape(call[p]) /\ call[p].limit \in Nat
    BY LocalFacts
  <2>2. CASE Goto(p, [At(call[p], "reconciled", NoJob) EXCEPT !.keep = <<>>])
    <3> DEFINE a == At(call[p], "reconciled", NoJob)
    <3>1. LocalShape(a) /\ a.pc = "reconciled" /\ a.limit \in Nat
      BY <2>1, AtOK
    <3>2. Goto(p, [a EXCEPT !.keep = <<>>])
      BY <2>2
    <3> HIDE DEF a
    <3>3. LocalOK([a EXCEPT !.keep = <<>>], made) /\ [a EXCEPT !.keep = <<>>].pc = "reconciled"
      BY <3>1 DEF LocalOK, LocalShape
    <3> QED BY <3>2, <3>3
  <2>3. CASE \E j, c : Goto(p, [AwaitTask(call[p], "queued", j, c) EXCEPT !.keep = keep])
    <3>0. PICK j, c : Goto(p, [AwaitTask(call[p], "queued", j, c) EXCEPT !.keep = keep])
      BY <2>3
    <3> DEFINE a == AwaitTask(call[p], "queued", j, c)
    <3>1. LocalShape(a) /\ a.pc = "queued" /\ a.limit \in Nat
      BY <2>1, AwaitTaskOK
    <3>2. Goto(p, [a EXCEPT !.keep = keep])
      BY <3>0
    <3> HIDE DEF a
    <3>3. LocalOK([a EXCEPT !.keep = keep], made) /\ [a EXCEPT !.keep = keep].pc = "queued"
      BY <3>1 DEF LocalOK, LocalShape
    <3> QED BY <3>2, <3>3
  <2> QED BY <1>3, <2>2, <2>3 DEF VisitQueued
<1>4. CASE BeginQueued(p) \/ CheckQueued(p)
  <2>1. LocalOK(At(call[p], "reconciled", NoJob), made) /\ At(call[p], "reconciled", NoJob).pc = "reconciled"
    BY LocalFacts, AtOK DEF LocalOK
  <2>2. CASE BeginQueued(p) /\ queue = <<>>
    <3>1. Goto(p, At(call[p], "reconciled", NoJob))
      BY <2>2 DEF BeginQueued
    <3> QED BY <1>0, <1>1, <2>1, <3>1, QuietGoto
  <2>3. CASE BeginQueued(p) /\ queue # <<>>
    <3>1. VisitQueued(p, jobs', queue, <<>>, TRUE)
      BY <2>3 DEF BeginQueued
    <3> QED BY <1>0, <1>1, <1>3, <3>1, QuietGoto
  <2>4. CASE CheckQueued(p)
    <3>1. \E js, rest, keep, onBoard : VisitQueued(p, js, rest, keep, onBoard)
      BY <2>4 DEF CheckQueued
    <3> QED BY <1>0, <1>1, <1>3, <3>1, QuietGoto
  <2> QED BY <1>4, <2>2, <2>3, <2>4
<1> QED BY <1>2, <1>4

\* enqueue's look at the card's existing entry only deletes it.
LEMMA EnqueueSteps ==
  ASSUME IndInv, NEW p \in Calls, EnqueueExisting(p) \/ EnqueueReplace(p)
  PROVE  IndInv' /\ StartsWithin
<1>0. UNCHANGED <<limit, made, job>> /\ limit' \in Limits /\ jobs = [c \in Cards |-> jobs[c]]
  BY DEF IndInv, MapOK, EnqueueExisting, EnqueueReplace, boardVars
<1>1. Fewer(jobs, jobs')
  BY <1>0, WithoutFewer, SameFewer DEF EnqueueExisting, EnqueueReplace
<1>2. LocalOK(AwaitLimit(call[p]), made) /\ AwaitLimit(call[p]).pc = "limit"
  BY LocalFacts, AwaitLimitOK
<1>3. \A c : LocalOK(AwaitTask(call[p], "existing", NoJob, c), made)
             /\ AwaitTask(call[p], "existing", NoJob, c).pc = "existing"
  BY LocalFacts, AwaitTaskOK DEF LocalOK
<1>4. \E local : Goto(p, local) /\ LocalOK(local, made) /\ local.pc # "starting"
  BY <1>2, <1>3, IdleOK DEF EnqueueExisting, EnqueueReplace, Return
<1> QED BY <1>0, <1>1, <1>4, QuietGoto

\* drainQueue's loop without a start only deletes entries.
LEMMA DrainSteps ==
  ASSUME IndInv, NEW p \in Calls, DrainLimit(p) \/ DrainLoop(p) \/ DrainUnlink(p) \/ DrainDrop(p)
  PROVE  IndInv' /\ StartsWithin
<1>0. UNCHANGED <<limit, made, job>> /\ limit' \in Limits /\ jobs = [c \in Cards |-> jobs[c]]
  BY DEF IndInv, MapOK, DrainLimit, DrainLoop, DrainUnlink, DrainDrop, boardVars
<1>1. Fewer(jobs, jobs')
  BY <1>0, WithoutFewer, SameFewer DEF DrainLimit, DrainLoop, DrainUnlink, DrainDrop
<1>2. LocalOK(AwaitLimit(call[p]), made) /\ AwaitLimit(call[p]).pc = "limit"
  BY LocalFacts, AwaitLimitOK
<1>3. \A j, c : LocalOK(AwaitTask(call[p], "head", j, c), made)
                /\ AwaitTask(call[p], "head", j, c).pc = "head"
  BY LocalFacts, AwaitTaskOK DEF LocalOK
<1>4. \E local : Goto(p, local) /\ LocalOK(local, made) /\ local.pc # "starting"
  <2>1. CASE DrainLimit(p)
    BY <1>2, <2>1 DEF DrainLimit
  <2>2. CASE \E js, q : DrainNext(p, js, q)
    BY <1>3, <2>2, IdleOK DEF DrainNext, Return
  <2> QED BY <2>1, <2>2 DEF DrainLoop, DrainUnlink, DrainDrop
<1> QED BY <1>0, <1>1, <1>4, QuietGoto

\* An answered read changes nothing but the locals of its call.
LEMMA ReadSteps ==
  ASSUME IndInv, NEW p \in Calls, ReadTask(p) \/ ReadLimit(p)
  PROVE  IndInv' /\ StartsWithin
<1>0. UNCHANGED <<limit, made, job, jobs>> /\ limit' \in Limits
  BY DEF IndInv, ReadTask, ReadLimit, boardVars
<1>1. \E local : /\ Goto(p, local) /\ LocalOK(local, made)
                 /\ local.pc = "starting" => call[p].pc = "starting"
  <2>1. CASE ReadTask(p)
    <3>1. PICK t : Goto(p, [call[p] EXCEPT !.read = TRUE, !.got = t])
      BY <2>1 DEF ReadTask
    <3> DEFINE yes == TRUE
               a == [call[p] EXCEPT !.read = yes, !.got = t]
    <3>2. Goto(p, a)
      BY <3>1
    <3> HIDE DEF yes
    <3>3. LocalOK(a, made) /\ a.pc = call[p].pc
      BY LocalFacts DEF LocalOK, LocalShape
    <3> QED BY <3>2, <3>3
  <2>2. CASE ReadLimit(p)
    <3> DEFINE yes == TRUE
               a == [call[p] EXCEPT !.read = yes, !.limit = limit]
    <3>1. Goto(p, a)
      BY <2>2 DEF ReadLimit
    <3>2. limit \in Nat
      BY LimitsAssumption DEF IndInv
    <3> HIDE DEF yes
    <3>3. LocalOK(a, made) /\ a.pc = call[p].pc
      BY <3>2, LocalFacts DEF LocalOK, LocalShape
    <3> QED BY <3>1, <3>3
  <2> QED BY <2>1, <2>2
<1> QED BY <1>0, <1>1, QuietGoto, SameFewer

\* The start closure leaves the queue's own state alone.
LEMMA ClosureSteps ==
  ASSUME IndInv, NEW p \in Calls, StartCheck(p) \/ StartSave(p) \/ StartThrows(p)
  PROVE  IndInv' /\ StartsWithin
<1>0. UNCHANGED <<limit, made, job, jobs>> /\ limit' \in Limits
  BY DEF IndInv, StartCheck, StartSave, StartThrows, boardVars
<1>1. call[p].cur \in 1 .. made
  BY LocalFacts DEF LocalOK, StartCheck, StartSave, StartThrows
<1> DEFINE started == At(call[p], "started", call[p].cur)
<1>2. LocalOK(started, made) /\ started.pc = "started"
  BY <1>1, LocalFacts, AtOK DEF LocalOK
<1>3. \A s : LocalOK([started EXCEPT !.result = s], made) /\ [started EXCEPT !.result = s].pc = "started"
  <2> HIDE DEF started
  <2> QED BY <1>2 DEF LocalOK, LocalShape
<1>4. LocalOK([call[p] EXCEPT !.pc = "working"], made) /\ [call[p] EXCEPT !.pc = "working"].pc = "working"
  BY <1>1, LocalFacts DEF LocalOK, LocalShape
<1>5. \E local : Goto(p, local) /\ LocalOK(local, made) /\ local.pc # "starting"
  <2>1. CASE StartCheck(p)
    <3>1. \/ Goto(p, [call[p] EXCEPT !.pc = "working"])
          \/ \E s : Goto(p, [started EXCEPT !.result = s])
      BY <2>1 DEF StartCheck
    <3> HIDE DEF started
    <3> QED BY <1>3, <1>4, <3>1
  <2>2. CASE StartSave(p)
    <3>1. \E s : Goto(p, [started EXCEPT !.result = s])
      BY <2>2 DEF StartSave
    <3> HIDE DEF started
    <3> QED BY <1>3, <3>1
  <2>3. CASE StartThrows(p)
    BY <1>2, <2>3 DEF StartThrows
  <2> QED BY <2>1, <2>2, <2>3
<1> QED BY <1>0, <1>5, QuietGoto, SameFewer

\* A refused start frees the card's slot and begins a drain.
LEMMA StartRefusedStep ==
  ASSUME IndInv, NEW p \in Calls, NEW q \in Calls, StartRefused(p, q)
  PROVE  IndInv' /\ StartsWithin
<1> DEFINE a == At(call[p], "loop", NoJob)
           calls == [call EXCEPT ![p] = a]
<1>0. /\ UNCHANGED <<limit, made, job>> /\ limit' \in Limits
      /\ jobs' = Without(jobs, job[call[p].cur].card)
      /\ Begin(calls, q, "drain", NoCard, BlockedLane, FALSE, jobs', job)
  BY DEF IndInv, StartRefused, BeginDrain, boardVars
<1>1. Fewer(jobs, jobs')
  BY <1>0, WithoutFewer DEF IndInv, MapOK
<1>2. LocalOK(a, made) /\ a.pc = "loop"
  BY LocalFacts, AtOK DEF LocalOK
<1> HIDE DEF a
<1>3. CallsOK(calls, made) /\ calls[p] = a /\ \A r \in Calls : r # p => calls[r] = call[r]
  BY <1>2 DEF IndInv, CallsOK
<1> HIDE DEF calls
<1>4. /\ CallsOK(call', made)
      /\ call'[q].pc \in {"ranRunning", "running"}
      /\ \A r \in Calls : r # q => call'[r] = calls[r]
  BY <1>0, <1>3, BeginOK
<1>5. \A r \in Calls : call'[r].pc = "starting" => call[r].pc = "starting"
  BY <1>2, <1>3, <1>4
<1> QED BY <1>0, <1>1, <1>4, <1>5, QuietStep

\* A new operation, and the end of a session, begin with the running entries.
LEMMA NewCallSteps ==
  ASSUME IndInv, NEW p \in Calls, NewCall(p) \/ \E s \in Jobs : SessionEnds(p, s)
  PROVE  IndInv' /\ StartsWithin
<1>0. UNCHANGED <<limit, made, job>> /\ limit' \in Limits /\ jobs = [c \in Cards |-> jobs[c]]
  BY DEF IndInv, MapOK, NewCall, SessionEnds, Enqueue, Snapshot, DropQueuedCardJob, boardVars
<1>1. Fewer(jobs, jobs')
  <2>1. CASE NewCall(p)
    BY <2>1, SameFewer DEF NewCall, Enqueue, Snapshot, DropQueuedCardJob
  <2>2. ASSUME NEW s \in Jobs, SessionEnds(p, s) PROVE Fewer(jobs, jobs')
    <3>1. PICK c : jobs' = Without(jobs, c)
      BY <2>2 DEF SessionEnds
    <3> QED BY <1>0, <3>1, WithoutFewer
  <2> QED BY <2>1, <2>2
<1>2. \E op, c, lane, force, js, es : Begin(call, p, op, c, lane, force, js, es)
  <2>1. CASE NewCall(p)
    BY <2>1 DEF NewCall, Enqueue, Snapshot, DropQueuedCardJob
  <2>2. CASE \E s \in Jobs : SessionEnds(p, s)
    BY <2>2 DEF SessionEnds, BeginDrain
  <2> QED BY <2>1, <2>2
<1> QED BY <1>0, <1>1, <1>2, QuietBegin

\* A snapshot reads; dropping the deleted card's job only deletes.
LEMMA SnapshotSteps ==
  ASSUME IndInv, NEW p \in Calls, SnapshotTaken(p) \/ DropListed(p)
  PROVE  IndInv' /\ StartsWithin
<1>0. UNCHANGED <<limit, made, job>> /\ limit' \in Limits /\ jobs = [c \in Cards |-> jobs[c]]
  BY DEF IndInv, MapOK, SnapshotTaken, DropListed, boardVars
<1>1. Fewer(jobs, jobs')
  BY <1>0, WithoutFewer, SameFewer DEF SnapshotTaken, DropListed, RemoveJobOf
<1>2. LocalOK(At(call[p], "drop", NoJob), made) /\ At(call[p], "drop", NoJob).pc = "drop"
  BY LocalFacts, AtOK DEF LocalOK
<1>3. \E local : Goto(p, local) /\ LocalOK(local, made) /\ local.pc # "starting"
  BY <1>2, IdleOK DEF SnapshotTaken, DropListed, Return
<1> QED BY <1>0, <1>1, <1>3, QuietGoto

\* The rest of the system changes cards, the limit and, through removeCardJob, the map.
LEMMA EnvironmentSteps ==
  ASSUME IndInv, Environment
  PROVE  IndInv' /\ StartsWithin
<1>1. UNCHANGED <<made, job, call>> /\ limit' \in Limits /\ jobs = [c \in Cards |-> jobs[c]]
  BY DEF IndInv, MapOK, Environment, SessionEndsUnnoticed, RemoveCardJob, DeleteTask, ToggleHold,
         ClearTrigger, MoveCard, SetLimit, EditTask, boardVars
<1>2. Fewer(jobs, jobs')
  BY <1>1, WithoutFewer, SameFewer DEF Environment, SessionEndsUnnoticed, RemoveCardJob, RemoveJobOf,
         DeleteTask, ToggleHold, ClearTrigger, MoveCard, SetLimit, EditTask
<1>3. CallsOK(call', made)
  BY <1>1 DEF IndInv
<1> QED BY <1>1, <1>2, <1>3, QuietStep

-----------------------------------------------------------------------------
\* The empty queue satisfies the invariant.
LEMMA InitInv == Init => IndInv
<1> SUFFICES ASSUME Init PROVE IndInv
  OBVIOUS
<1>1. EntryOK(BlankJob)
  BY DEF EntryOK, EntryShape, BlankJob
<1>2. EntriesOK(job)
  BY <1>1 DEF Init, EntriesOK
<1>3. MapOK(jobs, job, made)
  BY DEF Init, MapOK
<1>4. CallsOK(call, made)
  BY IdleOK DEF Init, CallsOK
<1>5. made = 0 /\ limit \in Limits
  BY DEF Init
<1>6. made \in 0 .. MaxJobs
  BY <1>5, MaxJobsAssumption
<1> QED BY <1>2, <1>3, <1>4, <1>5, <1>6 DEF IndInv

\* Every step keeps the invariant and starts an entry only within the limit.
LEMMA NextInv == IndInv /\ [Next]_vars => IndInv' /\ (StartsWithin \/ UNCHANGED vars)
<1> SUFFICES ASSUME IndInv, [Next]_vars PROVE IndInv' /\ (StartsWithin \/ UNCHANGED vars)
  OBVIOUS
<1>1. ASSUME NEW p \in Calls, Resume(p) PROVE IndInv' /\ StartsWithin
  BY <1>1, ReadSteps, ReconcileSteps, EnqueueSteps, EnqueueAdmitStep, DrainSteps, DrainStartStep,
     ClosureSteps, StartSucceededStep, SnapshotSteps DEF Resume
<1>2. ASSUME NEW p \in Calls, NewCall(p) \/ \E s \in Jobs : SessionEnds(p, s) PROVE IndInv' /\ StartsWithin
  BY <1>2, NewCallSteps
<1>3. ASSUME NEW p \in Calls, NEW q \in Calls, StartRefused(p, q) PROVE IndInv' /\ StartsWithin
  BY <1>3, StartRefusedStep
<1>4. CASE Environment
  BY <1>4, EnvironmentSteps
<1>5. CASE UNCHANGED vars
  BY <1>5 DEF vars, IndInv
<1> QED BY <1>1, <1>2, <1>3, <1>4, <1>5 DEF Next

\* In every behaviour of the queue, whatever the calls in flight and the rest of the
\* system do, the start closure of a job runs at most once.
THEOREM NoDoubleStart == Spec => []StartedOnce
<1>1. IndInv => StartedOnce
  BY DEF IndInv, EntriesOK, EntryOK, StartedOnce
<1> QED BY <1>1, InitInv, NextInv, PTL DEF Spec

\* In every behaviour of the queue, an entry is started only while the entries counted
\* as running, itself included, fit into the limit that the starting call has read.
THEOREM LimitAtStart == Spec => StartWithinLimit
<1>1. IndInv /\ [Next]_vars => [StartsWithin]_vars
  BY NextInv
<1>2. [StartsWithin]_vars =>
        [\A p \in Calls : call[p].pc # "starting" /\ call'[p].pc = "starting"
                          => Cardinality(RunningCards(jobs', job')) <= call'[p].limit]_vars
  BY DEF StartsWithin
<1> QED BY <1>1, <1>2, InitInv, NextInv, PTL DEF Spec, StartWithinLimit

-----------------------------------------------------------------------------
(* Positions of a queue                                                    *)

\* Among some positions of an array one is the first.
LEMMA FirstPosition ==
  ASSUME NEW n \in Nat, NEW K \in SUBSET (1 .. n), K # {}
  PROVE  \E i \in K : \A k \in K : i <= k
<1>1. K \in SUBSET Nat
  OBVIOUS
<1>2. PICK i \in K : \A k \in K : ~ (<<k, i>> \in OpToRel(<, Nat))
  BY <1>1, WFMin, NatLessThanWellFounded, Zenon
<1>3. ASSUME NEW k \in K PROVE i <= k
  <2>1. k \in Nat /\ i \in Nat /\ ~ (k < i)
    BY <1>1, <1>2 DEF OpToRel
  <2> QED BY <2>1
<1> QED BY <1>3

\* Some positions of an array can be counted, and so can a part of them.
LEMMA PositionsCounted ==
  ASSUME NEW n \in Nat, NEW K \in SUBSET (1 .. n)
  PROVE  /\ IsFiniteSet(K) /\ Cardinality(K) \in Nat
         /\ \A L \in SUBSET K : IsFiniteSet(L) /\ Cardinality(L) \in Nat /\ Cardinality(L) <= Cardinality(K)
<1>1. IsFiniteSet(1 .. n)
  BY FS_Interval
<1>2. IsFiniteSet(K)
  BY <1>1, FS_Subset
<1> QED BY <1>2, FS_Subset, FS_CardinalityType

\* Among k positions there is an n-th one for every n up to k: the first one with at
\* least n positions up to itself.
LEMMA NthPosition ==
  ASSUME NEW m \in Nat, NEW K \in SUBSET (1 .. m), NEW n \in 1 .. Cardinality(K)
  PROVE  \E i \in K : Cardinality({k \in K : k <= i}) = n
<1> DEFINE upto(i) == {k \in K : k <= i}
           B == {i \in K : Cardinality(upto(i)) >= n}
           M == {i \in 1 .. m : \A k \in K : k <= i}
<1>0. Cardinality(K) \in Nat /\ n \in Nat /\ n >= 1 /\ n <= Cardinality(K)
  <2>1. Cardinality(K) \in Nat
    BY PositionsCounted
  <2> QED BY <2>1
<1>1. B # {}
  <2>1. m \in M
    <3>1. m \in 1 .. m
      <4>1. K # {}
        BY <1>0, FS_EmptySet
      <4>2. PICK k \in K : k \in 1 .. m
        BY <4>1
      <4> QED BY <4>2
    <3> QED BY <3>1
  <2>2. PICK i \in M : \A k \in M : i <= k
    <3>1. M \in SUBSET (1 .. m) /\ M # {}
      BY <2>1
    <3> HIDE DEF M
    <3> QED BY <3>1, FirstPosition
  <2>3. i \in K
    <3> SUFFICES ASSUME i \notin K PROVE FALSE
      OBVIOUS
    <3>1. \A k \in K : k <= i - 1
      OBVIOUS
    <3>2. K # {}
      BY <1>0, FS_EmptySet
    <3>3. i - 1 \in 1 .. m
      <4>1. PICK k \in K : k \in 1 .. m /\ k <= i - 1
        BY <3>1, <3>2
      <4> QED BY <4>1
    <3>4. i - 1 \in M
      BY <3>1, <3>3
    <3> QED BY <2>2, <3>4
  <2>4. upto(i) = K
    BY <2>2
  <2> QED BY <1>0, <2>3, <2>4
<1>2. PICK i \in B : \A k \in B : i <= k
  <2>1. B \in SUBSET (1 .. m)
    OBVIOUS
  <2> HIDE DEF B
  <2> QED BY <1>1, <2>1, FirstPosition
<1> DEFINE A == upto(i) \ {i}
<1>3. A \in SUBSET (1 .. m) /\ Cardinality(A) \in Nat /\ IsFiniteSet(upto(i)) /\ Cardinality(upto(i)) \in Nat
  <2>1. upto(i) \in SUBSET (1 .. m) /\ A \in SUBSET (1 .. m)
    OBVIOUS
  <2> HIDE DEF A, upto
  <2> QED BY <2>1, PositionsCounted
<1>4. Cardinality(A) = Cardinality(upto(i)) - 1
  <2>1. i \in upto(i)
    OBVIOUS
  <2> HIDE DEF upto
  <2> QED BY <1>3, <2>1, FS_RemoveElement
<1>5. Cardinality(A) < n
  <2> SUFFICES ASSUME Cardinality(A) >= n PROVE FALSE
    BY <1>0, <1>3
  <2>1. A # {}
    BY <1>0, FS_EmptySet
  <2> DEFINE N == {a \in 1 .. m : \A k \in A : k <= a}
  <2>2. PICK a \in N : \A b \in N : a <= b
    <3>1. m \in N
      BY <2>1
    <3>2. N \in SUBSET (1 .. m) /\ N # {}
      BY <3>1
    <3> HIDE DEF N
    <3> QED BY <3>2, FirstPosition
  <2>3. a \in A
    <3> SUFFICES ASSUME a \notin A PROVE FALSE
      OBVIOUS
    <3>0. A \in SUBSET (1 .. m) /\ a \in 1 .. m /\ \A k \in A : k <= a
      BY <1>3, <2>2
    <3> HIDE DEF A
    <3>1. \A k \in A : k <= a - 1
      BY <3>0
    <3>2. a - 1 \in 1 .. m
      <4>1. PICK k \in A : k \in 1 .. m /\ k <= a - 1
        BY <2>1, <3>0, <3>1
      <4> QED BY <3>0, <4>1
    <3>3. a - 1 \in N
      BY <3>1, <3>2
    <3> QED BY <2>2, <3>0, <3>3
  <2>4. upto(a) = A
    <3>1. a \in 1 .. m /\ a < i /\ i \in 1 .. m
      BY <2>3
    <3>2. \A k \in A : k <= a
      BY <2>2
    <3>3. ASSUME NEW k \in K, k <= a PROVE k \in A
      <4>1. k \in 1 .. m /\ k < i
        BY <3>1, <3>3
      <4> QED BY <3>3, <4>1
    <3>4. ASSUME NEW k \in A PROVE k \in K /\ k <= a
      BY <3>2
    <3> HIDE DEF A
    <3> QED BY <3>3, <3>4
  <2>5. a \in B
    BY <2>3, <2>4
  <2>6. a < i
    BY <2>3
  <2> QED BY <1>2, <2>5, <2>6
<1>6. Cardinality(upto(i)) = n
  BY <1>0, <1>2, <1>3, <1>4, <1>5
<1> QED BY <1>2, <1>6

\* Array.filter returns an array of the same kind of elements.
LEMMA FilteredOK ==
  ASSUME NEW S, NEW q \in Seq(S), NEW K \in SUBSET DOMAIN q
  PROVE  Filtered(q, K) \in Seq(S)
<1> DEFINE nth(n) == CHOOSE i \in K : Cardinality({k \in K : k <= i}) = n
<1>1. Len(q) \in Nat /\ K \in SUBSET (1 .. Len(q))
  OBVIOUS
<1>2. Cardinality(K) \in Nat
  BY <1>1, PositionsCounted
<1>3. ASSUME NEW n \in 1 .. Cardinality(K) PROVE q[nth(n)] \in S
  <2>1. nth(n) \in K
    BY <1>1, NthPosition
  <2> HIDE DEF nth
  <2> QED BY <1>1, <2>1
<1>4. Filtered(q, K) = [n \in 1 .. Cardinality(K) |-> q[nth(n)]]
  BY DEF Filtered
<1> HIDE DEF nth
<1> QED BY <1>2, <1>3, <1>4

-----------------------------------------------------------------------------
(* Types                                                                   *)

\* Where a call works on an entry.
OnEntry == {"running", "queued", "head", "starting", "working", "started"}

\* A call has its type, the entries it holds on to exist, and an enqueue or a drop is
\* about a card.
CallTyped(r, m) ==
  /\ r \in Call
  /\ r.keep \in Seq(1 .. m)
  /\ r.pc \in OnEntry => r.cur \in 1 .. m
  /\ r.op \in {"enqueue", "drop"} => r.card \in Cards
  /\ r.pc = "existing" => r.op = "enqueue"
  /\ r.pc = "drop" => r.op = "drop"

\* The same of all calls, and of the arrays a reconcile loop has still to visit.
CallsTyped(calls, m) == calls \in [Calls -> Call] /\ \A p \in Calls : CallTyped(calls[p], m)

EntriesTyped(es, m) == es \in [Jobs -> Job] /\ \A j \in 1 .. m : es[j].card \in Cards

QueueTyped(q, td, sh, m) == q \in Seq(1 .. m) /\ td \in [Calls -> Seq(Jobs)] /\ sh \in [Calls -> BOOLEAN]

TasksTyped == task \in [Cards -> Task] /\ active \subseteq Jobs

TypeInv ==
  /\ IndInv
  /\ TasksTyped
  /\ EntriesTyped(job, made)
  /\ QueueTyped(queue, todo, shared, made)
  /\ CallsTyped(call, made)

\* A call is typed when its fields are.
LEMMA FieldsTyped ==
  ASSUME NEW r, LocalShape(r), r.pc \in Awaits, r.op \in {"enqueue", "drain", "snapshot", "drop"},
         r.card \in Cards \cup {NoCard}, r.lane \in Lanes, r.force \in BOOLEAN, r.cur \in Jobs \cup {NoJob},
         r.visit \in SUBSET Jobs, r.keep \in Seq(Jobs), r.read \in BOOLEAN, r.got \in Task, r.limit \in Nat,
         r.result \in Jobs \cup {NoSession}
  PROVE  r \in Call
  BY DEF LocalShape, Call

\* The fields of a typed call.
LEMMA TypedFields ==
  ASSUME NEW r \in Call
  PROVE  /\ LocalShape(r)
         /\ r.pc \in Awaits /\ r.op \in {"enqueue", "drain", "snapshot", "drop"}
         /\ r.card \in Cards \cup {NoCard} /\ r.lane \in Lanes /\ r.force \in BOOLEAN
         /\ r.cur \in Jobs \cup {NoJob} /\ r.visit \in SUBSET Jobs /\ r.keep \in Seq(Jobs)
         /\ r.read \in BOOLEAN /\ r.got \in Task /\ r.limit \in Nat /\ r.result \in Jobs \cup {NoSession}
  BY DEF LocalShape, Call

\* Waiting at another await keeps what the call is about.
LEMMA AtFields ==
  ASSUME NEW r, LocalShape(r), NEW pc, NEW j
  PROVE  LET a == At(r, pc, j)
         IN /\ LocalShape(a)
            /\ a.pc = pc /\ a.cur = j /\ a.read \in BOOLEAN /\ a.got = BlankTask /\ a.result = NoSession
            /\ a.op = r.op /\ a.card = r.card /\ a.lane = r.lane /\ a.force = r.force
            /\ a.visit = r.visit /\ a.keep = r.keep /\ a.limit = r.limit
  BY DEF LocalShape, At

\* Issuing a read of a card keeps what the call is about.
LEMMA AwaitTaskFields ==
  ASSUME NEW r, LocalShape(r), NEW pc, NEW j, NEW c
  PROVE  LET a == AwaitTask(r, pc, j, c)
         IN /\ LocalShape(a)
            /\ a.pc = pc /\ a.cur = j /\ a.read \in BOOLEAN /\ (Prompt => a.read) /\ a.result = NoSession
            /\ a.got = IF Prompt THEN task[c] ELSE BlankTask
            /\ a.op = r.op /\ a.card = r.card /\ a.lane = r.lane /\ a.force = r.force
            /\ a.visit = r.visit /\ a.keep = r.keep /\ a.limit = r.limit
<1> DEFINE b == At(r, pc, j)
           yes == Prompt
           g == IF Prompt THEN task[c] ELSE BlankTask
<1>1. /\ LocalShape(b)
      /\ b.pc = pc /\ b.cur = j /\ b.result = NoSession
      /\ b.op = r.op /\ b.card = r.card /\ b.lane = r.lane /\ b.force = r.force
      /\ b.visit = r.visit /\ b.keep = r.keep /\ b.limit = r.limit
  BY DEF LocalShape, At
<1>2. AwaitTask(r, pc, j, c) = [b EXCEPT !.read = yes, !.got = g]
  BY DEF AwaitTask
<1>0. yes \in BOOLEAN /\ (Prompt => yes)
  BY DEF Prompt
<1> HIDE DEF b, g, yes
<1>3. LET a == [b EXCEPT !.read = yes, !.got = g]
      IN /\ LocalShape(a)
         /\ a.pc = pc /\ a.cur = j /\ a.read = yes /\ a.result = NoSession
         /\ a.got = g
         /\ a.op = r.op /\ a.card = r.card /\ a.lane = r.lane /\ a.force = r.force
         /\ a.visit = r.visit /\ a.keep = r.keep /\ a.limit = r.limit
  BY <1>1 DEF LocalShape
<1> QED BY <1>0, <1>2, <1>3 DEF g

\* Issuing a read of the limit keeps what the call is about.
LEMMA AwaitLimitFields ==
  ASSUME NEW r, LocalShape(r)
  PROVE  LET a == AwaitLimit(r)
         IN /\ LocalShape(a)
            /\ a.pc = "limit" /\ a.cur = NoJob /\ a.read \in BOOLEAN /\ (Prompt => a.read) /\ a.result = NoSession
            /\ a.got = BlankTask
            /\ a.op = r.op /\ a.card = r.card /\ a.lane = r.lane /\ a.force = r.force
            /\ a.visit = r.visit /\ a.keep = r.keep /\ a.limit = IF Prompt THEN limit ELSE 0
<1> DEFINE b == At(r, "limit", NoJob)
           yes == Prompt
           g == IF Prompt THEN limit ELSE 0
<1>1. /\ LocalShape(b)
      /\ b.pc = "limit" /\ b.cur = NoJob /\ b.result = NoSession /\ b.got = BlankTask
      /\ b.op = r.op /\ b.card = r.card /\ b.lane = r.lane /\ b.force = r.force
      /\ b.visit = r.visit /\ b.keep = r.keep /\ b.limit = r.limit
  BY DEF LocalShape, At
<1>2. AwaitLimit(r) = [b EXCEPT !.read = yes, !.limit = g]
  BY DEF AwaitLimit
<1>0. yes \in BOOLEAN /\ (Prompt => yes)
  BY DEF Prompt
<1> HIDE DEF b, g, yes
<1>3. LET a == [b EXCEPT !.read = yes, !.limit = g]
      IN /\ LocalShape(a)
         /\ a.pc = "limit" /\ a.cur = NoJob /\ a.read = yes /\ a.result = NoSession
         /\ a.got = BlankTask
         /\ a.op = r.op /\ a.card = r.card /\ a.lane = r.lane /\ a.force = r.force
         /\ a.visit = r.visit /\ a.keep = r.keep /\ a.limit = g
  BY <1>1 DEF LocalShape
<1> QED BY <1>0, <1>2, <1>3 DEF g

\* An array of some kind is an array of every wider kind.
LEMMA WiderSeq ==
  ASSUME NEW S, NEW T, S \subseteq T, NEW q \in Seq(S)
  PROVE  q \in Seq(T)
<1>1. Len(q) \in Nat /\ q \in [1 .. Len(q) -> S]
  OBVIOUS
<1> QED BY <1>1

\* A call about the same operation as another: what it was asked to do.
SameCall(r, o) == r.op = o.op /\ r.card = o.card /\ r.lane = o.lane /\ r.force = o.force

\* The locals of a call that awaits the task of a running entry, or went through all of them.
VisitsRunning(r, o, js, es, visit) ==
  /\ LocalShape(r) /\ SameCall(r, o) /\ r.keep = o.keep /\ r.limit = o.limit
  /\ r.result = NoSession /\ r.read \in BOOLEAN /\ r.visit \in SUBSET visit
  /\ \/ r.pc = "ranRunning" /\ r.cur = NoJob /\ r.got = BlankTask
     \/ /\ r.pc = "running" /\ r.cur \in visit /\ IsCurrent(js, es, r.cur, "running")
        /\ (Prompt => r.read)
        /\ r.got = IF Prompt THEN task[es[r.cur].card] ELSE BlankTask

\* The loop over the running entries sets one call to such locals.
LEMMA VisitRunningEffect ==
  ASSUME NEW calls, NEW p \in Calls, LocalShape(calls[p]), NEW js, NEW es, NEW visit,
         VisitRunning(calls, p, js, es, visit)
  PROVE  \E r : call' = [calls EXCEPT ![p] = r] /\ VisitsRunning(r, calls[p], js, es, visit)
<1> DEFINE left == {j \in visit : IsCurrent(js, es, j, "running")}
<1>1. CASE left = {} /\ call' = [calls EXCEPT ![p] = [At(calls[p], "ranRunning", NoJob) EXCEPT !.visit = {}]]
  <2> DEFINE a == At(calls[p], "ranRunning", NoJob)
             b == [a EXCEPT !.visit = {}]
  <2>1. /\ LocalShape(a)
        /\ a.pc = "ranRunning" /\ a.cur = NoJob /\ a.got = BlankTask /\ a.result = NoSession
        /\ a.read \in BOOLEAN /\ SameCall(a, calls[p]) /\ a.keep = calls[p].keep /\ a.limit = calls[p].limit
    BY AtFields DEF SameCall
  <2>2. call' = [calls EXCEPT ![p] = b]
    BY <1>1
  <2> HIDE DEF a
  <2>3. VisitsRunning(b, calls[p], js, es, visit)
    BY <2>1 DEF LocalShape, SameCall, VisitsRunning
  <2> QED BY <2>2, <2>3
<1>2. CASE \E j \in left : call' = [calls EXCEPT ![p] =
             [AwaitTask(calls[p], "running", j, es[j].card) EXCEPT !.visit = left \ {j}]]
  <2>0. PICK j \in left : call' = [calls EXCEPT ![p] =
             [AwaitTask(calls[p], "running", j, es[j].card) EXCEPT !.visit = left \ {j}]]
    BY <1>2
  <2> DEFINE a == AwaitTask(calls[p], "running", j, es[j].card)
             g == IF Prompt THEN task[es[j].card] ELSE BlankTask
             rest == left \ {j}
             b == [a EXCEPT !.visit = rest]
  <2>1. /\ LocalShape(a)
        /\ a.pc = "running" /\ a.cur = j /\ a.got = g /\ a.result = NoSession
        /\ a.read \in BOOLEAN /\ (Prompt => a.read)
        /\ SameCall(a, calls[p]) /\ a.keep = calls[p].keep /\ a.limit = calls[p].limit
    BY AwaitTaskFields DEF SameCall
  <2>2. call' = [calls EXCEPT ![p] = b]
    BY <2>0
  <2>3. j \in visit /\ IsCurrent(js, es, j, "running") /\ rest \in SUBSET visit
    OBVIOUS
  <2> HIDE DEF a, g, rest
  <2>4. /\ LocalShape(b)
        /\ b.pc = "running" /\ b.cur = j /\ b.got = g /\ b.result = NoSession
        /\ b.read \in BOOLEAN /\ (Prompt => b.read) /\ b.visit = rest
        /\ SameCall(b, calls[p]) /\ b.keep = calls[p].keep /\ b.limit = calls[p].limit
    BY <2>1 DEF LocalShape, SameCall
  <2> HIDE DEF b
  <2>5. VisitsRunning(b, calls[p], js, es, visit)
    BY <2>3, <2>4 DEF VisitsRunning, g
  <2> QED BY <2>2, <2>5
<1> QED BY <1>1, <1>2 DEF VisitRunning

\* The locals an operation begins with.
Fresh(op, c, lane, force) == [Idle EXCEPT !.op = op, !.card = c, !.lane = lane, !.force = force]

\* The locals of a call that has just begun: it lists the running entries.
Begun(r, op, c, lane, force, js, es) ==
  VisitsRunning(r, Fresh(op, c, lane, force), js, es, {js[d] : d \in RunningCards(js, es)})

\* An operation that begins sets one call to such locals.
LEMMA BeginEffect ==
  ASSUME NEW calls, calls = [q \in Calls |-> calls[q]], NEW p \in Calls, NEW op, NEW c, NEW lane, NEW force,
         NEW js, NEW es, Begin(calls, p, op, c, lane, force, js, es)
  PROVE  \E r : call' = [calls EXCEPT ![p] = r] /\ Begun(r, op, c, lane, force, js, es)
<1> DEFINE a == Fresh(op, c, lane, force)
           fresh == [calls EXCEPT ![p] = a]
<1>1. LocalShape(a)
  BY DEF Fresh, Idle, LocalShape
<1>2. VisitRunning(fresh, p, js, es, {js[d] : d \in RunningCards(js, es)})
  BY DEF Begin, Fresh
<1> HIDE DEF a
<1>3. fresh[p] = a
  OBVIOUS
<1> HIDE DEF fresh
<1>4. PICK r : call' = [fresh EXCEPT ![p] = r] /\ VisitsRunning(r, a, js, es, {js[d] : d \in RunningCards(js, es)})
  BY <1>1, <1>2, <1>3, VisitRunningEffect
<1>5. [fresh EXCEPT ![p] = r] = [calls EXCEPT ![p] = r]
  BY DEF fresh
<1> QED BY <1>4, <1>5 DEF a, Begun

\* The locals of a call that awaits the task of a waiting entry, or went through all of them.
VisitsQueued(r, o, js, keep) ==
  /\ LocalShape(r) /\ SameCall(r, o) /\ r.visit = o.visit /\ r.limit = o.limit
  /\ r.result = NoSession /\ r.read \in BOOLEAN
  /\ \/ r.pc = "reconciled" /\ r.cur = NoJob /\ r.got = BlankTask /\ r.keep = <<>>
     \/ /\ r.pc = "queued" /\ IsCurrent(js, job, r.cur, "queued") /\ r.keep = keep
        /\ (Prompt => r.read)
        /\ r.got = IF Prompt THEN task[job[r.cur].card] ELSE BlankTask

\* The loop over the waiting entries sets one call to such locals; the queue is left alone or
\* replaced by what the loop has kept.
LEMMA VisitQueuedEffect ==
  ASSUME NEW p \in Calls, LocalShape(call[p]), NEW js, NEW rest \in Seq(Jobs), NEW keep, NEW onBoard \in BOOLEAN,
         VisitQueued(p, js, rest, keep, onBoard)
  PROVE  /\ \E r : Goto(p, r) /\ VisitsQueued(r, call[p], js, keep)
         /\ queue' = keep \/ queue' = queue
         /\ shared \in [Calls -> BOOLEAN] => shared' \in [Calls -> BOOLEAN]
         /\ todo \in [Calls -> Seq(Jobs)] => todo' \in [Calls -> Seq(Jobs)]
<1> DEFINE hits == {i \in DOMAIN rest : IsCurrent(js, job, rest[i], "queued")}
           next == CHOOSE i \in hits : \A k \in hits : i <= k
<1>1. CASE hits = {}
  <2> DEFINE a == At(call[p], "reconciled", NoJob)
             b == [a EXCEPT !.keep = <<>>]
  <2>1. /\ LocalShape(a)
        /\ a.pc = "reconciled" /\ a.cur = NoJob /\ a.got = BlankTask /\ a.result = NoSession
        /\ a.read \in BOOLEAN /\ SameCall(a, call[p]) /\ a.visit = call[p].visit /\ a.limit = call[p].limit
    BY AtFields DEF SameCall
  <2>2. /\ queue' = keep /\ shared' = [q \in Calls |-> FALSE] /\ todo' = [todo EXCEPT ![p] = <<>>]
        /\ Goto(p, b)
    BY <1>1 DEF VisitQueued
  <2> HIDE DEF a
  <2>3. VisitsQueued(b, call[p], js, keep)
    BY <2>1 DEF LocalShape, SameCall, VisitsQueued
  <2>4. todo \in [Calls -> Seq(Jobs)] => todo' \in [Calls -> Seq(Jobs)]
    BY <2>2
  <2>5. shared' \in [Calls -> BOOLEAN]
    BY <2>2
  <2> QED BY <2>2, <2>3, <2>4, <2>5
<1>2. CASE hits # {}
  <2>1. next \in hits
    <3>1. Len(rest) \in Nat /\ hits \in SUBSET (1 .. Len(rest))
      OBVIOUS
    <3> HIDE DEF hits
    <3> QED BY <1>2, <3>1, FirstPosition
  <2> DEFINE j == rest[next]
             a == AwaitTask(call[p], "queued", j, job[j].card)
             g == IF Prompt THEN task[job[j].card] ELSE BlankTask
             b == [a EXCEPT !.keep = keep]
  <2>2. /\ queue' = queue /\ shared' = [shared EXCEPT ![p] = onBoard]
        /\ todo' = [todo EXCEPT ![p] = SubSeq(rest, next + 1, Len(rest))]
        /\ Goto(p, b)
    BY <1>2 DEF VisitQueued
  <2>3. IsCurrent(js, job, j, "queued") /\ next \in 1 .. Len(rest)
    BY <2>1
  <2>4. todo \in [Calls -> Seq(Jobs)] => todo' \in [Calls -> Seq(Jobs)]
    <3> HIDE DEF next
    <3>1. SubSeq(rest, next + 1, Len(rest)) \in Seq(Jobs)
      BY <2>3
    <3> QED BY <2>2, <3>1
  <2>5. shared \in [Calls -> BOOLEAN] => shared' \in [Calls -> BOOLEAN]
    BY <2>2
  <2> HIDE DEF next, j
  <2>6. /\ LocalShape(a)
        /\ a.pc = "queued" /\ a.cur = j /\ a.got = g /\ a.result = NoSession
        /\ a.read \in BOOLEAN /\ (Prompt => a.read)
        /\ SameCall(a, call[p]) /\ a.visit = call[p].visit /\ a.limit = call[p].limit
    BY AwaitTaskFields DEF SameCall
  <2> HIDE DEF a, g
  <2>7. /\ LocalShape(b)
        /\ b.pc = "queued" /\ b.cur = j /\ b.got = g /\ b.result = NoSession
        /\ b.read \in BOOLEAN /\ (Prompt => b.read) /\ b.keep = keep
        /\ SameCall(b, call[p]) /\ b.visit = call[p].visit /\ b.limit = call[p].limit
    BY <2>6 DEF LocalShape, SameCall
  <2> HIDE DEF b
  <2>8. VisitsQueued(b, call[p], js, keep)
    BY <2>3, <2>7 DEF VisitsQueued, g
  <2> QED BY <2>2, <2>4, <2>5, <2>8
<1> QED BY <1>1, <1>2

\* What the invariant says of one call.
LEMMA TypedCall ==
  ASSUME TypeInv, NEW p \in Calls
  PROVE  /\ LocalShape(call[p]) /\ CallTyped(call[p], made)
         /\ call = [q \in Calls |-> call[q]] /\ task \in [Cards -> Task]
  BY TypedFields DEF TypeInv, TasksTyped, CallsTyped, CallTyped

\* A card's stored copy, or nothing, is what a read answers.
LEMMA BlankTyped == BlankTask \in Task /\ Idle.keep = <<>>
  BY SetsAssumption DEF BlankTask, Task, NoSession, Idle

\* The locals of an idle call.
LEMMA IdleTyped == ASSUME NEW m PROVE CallTyped(Idle, m) /\ Idle.op = "snapshot"
<1>1. LocalShape(Idle)
  BY DEF Idle, LocalShape
<1>2. /\ Idle.pc = "idle" /\ Idle.op = "snapshot" /\ Idle.card = NoCard /\ Idle.lane = BlockedLane
      /\ Idle.force \in BOOLEAN /\ Idle.cur = NoJob /\ Idle.visit = {} /\ Idle.keep = <<>>
      /\ Idle.read \in BOOLEAN /\ Idle.got = BlankTask /\ Idle.limit = 0 /\ Idle.result = NoSession
  BY DEF Idle
<1>3. <<>> \in Seq(Jobs) /\ <<>> \in Seq(1 .. m)
  OBVIOUS
<1>4. Idle \in Call
  <2>1. /\ Idle.pc \in Awaits /\ Idle.op \in {"enqueue", "drain", "snapshot", "drop"}
        /\ Idle.card \in Cards \cup {NoCard} /\ Idle.lane \in Lanes /\ Idle.cur \in Jobs \cup {NoJob}
        /\ Idle.visit \in SUBSET Jobs /\ Idle.keep \in Seq(Jobs) /\ Idle.got \in Task /\ Idle.limit \in Nat
        /\ Idle.result \in Jobs \cup {NoSession}
    BY <1>2, <1>3, SetsAssumption, BlankTyped DEF Awaits
  <2> QED BY <1>1, <1>2, <2>1, FieldsTyped
<1> QED BY <1>2, <1>3, <1>4 DEF CallTyped, OnEntry

\* The beginning of an operation is typed when it is about a card.
LEMMA FreshTyped ==
  ASSUME NEW op \in {"enqueue", "drain", "snapshot", "drop"}, NEW c \in Cards \cup {NoCard},
         op \in {"enqueue", "drop"} => c \in Cards, NEW lane \in Lanes, NEW force \in BOOLEAN, NEW m
  PROVE  /\ CallTyped(Fresh(op, c, lane, force), m) /\ Fresh(op, c, lane, force).op = op
         /\ Fresh(op, c, lane, force).card = c /\ Fresh(op, c, lane, force).lane = lane
         /\ Fresh(op, c, lane, force).force = force /\ Fresh(op, c, lane, force).limit = 0
<1> DEFINE r == Fresh(op, c, lane, force)
<1>1. LocalShape(r)
  BY DEF Fresh, Idle, LocalShape
<1>2. /\ r.pc = "idle" /\ r.op = op /\ r.card = c /\ r.lane = lane
      /\ r.force = force /\ r.cur = NoJob /\ r.visit = {} /\ r.keep = <<>>
      /\ r.got = BlankTask /\ r.limit = 0 /\ r.result = NoSession
  BY DEF Fresh, Idle
<1>3. r.read \in BOOLEAN
  BY DEF Fresh, Idle
<1>4. <<>> \in Seq(Jobs) /\ <<>> \in Seq(1 .. m)
  OBVIOUS
<1> HIDE DEF r
<1>5. r \in Call
  <2>1. /\ r.pc \in Awaits /\ r.cur \in Jobs \cup {NoJob} /\ r.visit \in SUBSET Jobs /\ r.keep \in Seq(Jobs)
        /\ r.got \in Task /\ r.limit \in Nat /\ r.result \in Jobs \cup {NoSession}
    BY <1>2, <1>4, BlankTyped DEF Awaits
  <2> QED BY <1>1, <1>2, <1>3, <2>1, FieldsTyped
<1>6. CallTyped(r, m)
  BY <1>2, <1>4, <1>5 DEF CallTyped, OnEntry
<1> QED BY <1>2, <1>6 DEF r

\* The entry that the map holds for a card exists and is that card's.
LEMMA CurrentTyped ==
  ASSUME NEW m \in 0 .. MaxJobs, NEW js, NEW es, MapOK(js, es, m), NEW j, NEW status, IsCurrent(js, es, j, status)
  PROVE  j \in 1 .. m /\ j \in Jobs /\ es[j].card \in Cards /\ js[es[j].card] = j /\ es[j].status = status
<1>1. PICK c \in Cards : js[c] = j /\ j # NoJob /\ es[j].card = c /\ es[j].status = status
  BY DEF IsCurrent
<1> QED BY <1>1, MaxJobsAssumption DEF MapOK, Jobs

\* A call in the loop over the running entries is typed.
LEMMA VisitsRunningTyped ==
  ASSUME task \in [Cards -> Task], NEW m \in 0 .. MaxJobs, NEW js, NEW es, MapOK(js, es, m),
         NEW o, CallTyped(o, m), NEW visit \in SUBSET Jobs, NEW r, VisitsRunning(r, o, js, es, visit)
  PROVE  CallTyped(r, m)
<1>1. /\ o.op \in {"enqueue", "drain", "snapshot", "drop"}
      /\ o.card \in Cards \cup {NoCard} /\ o.lane \in Lanes /\ o.force \in BOOLEAN
      /\ o.keep \in Seq(Jobs) /\ o.limit \in Nat
  BY TypedFields DEF CallTyped
<1>2. /\ LocalShape(r)
      /\ r.op = o.op /\ r.card = o.card /\ r.lane = o.lane /\ r.force = o.force
      /\ r.keep = o.keep /\ r.limit = o.limit /\ r.result = NoSession /\ r.read \in BOOLEAN
      /\ r.visit \in SUBSET Jobs /\ r.pc \in {"ranRunning", "running"}
  BY DEF VisitsRunning, SameCall
<1>3. r.cur \in Jobs \cup {NoJob} /\ r.got \in Task /\ (r.pc = "running" => r.cur \in 1 .. m)
  BY CurrentTyped, BlankTyped DEF VisitsRunning
<1>4. r \in Call
  BY <1>1, <1>2, <1>3, FieldsTyped DEF Awaits, NoSession
<1> QED BY <1>1, <1>2, <1>3, <1>4 DEF CallTyped, OnEntry

\* A call in the loop over the waiting entries is typed.
LEMMA VisitsQueuedTyped ==
  ASSUME task \in [Cards -> Task], NEW m \in 0 .. MaxJobs, NEW js, MapOK(js, job, m),
         NEW o, CallTyped(o, m), NEW keep \in Seq(1 .. m), NEW r, VisitsQueued(r, o, js, keep)
  PROVE  CallTyped(r, m)
<1>0. \A q \in Seq(1 .. m) : q \in Seq(Jobs)
  BY WiderSeq, MaxJobsAssumption DEF Jobs
<1>1. /\ o.op \in {"enqueue", "drain", "snapshot", "drop"}
      /\ o.card \in Cards \cup {NoCard} /\ o.lane \in Lanes /\ o.force \in BOOLEAN
      /\ o.visit \in SUBSET Jobs /\ o.limit \in Nat
  BY TypedFields DEF CallTyped
<1>2. /\ LocalShape(r)
      /\ r.op = o.op /\ r.card = o.card /\ r.lane = o.lane /\ r.force = o.force
      /\ r.visit = o.visit /\ r.limit = o.limit /\ r.result = NoSession /\ r.read \in BOOLEAN
      /\ r.pc \in {"reconciled", "queued"}
  BY DEF VisitsQueued, SameCall
<1>3. r.cur \in Jobs \cup {NoJob} /\ r.got \in Task /\ (r.pc = "queued" => r.cur \in 1 .. m)
  BY CurrentTyped, BlankTyped DEF VisitsQueued
<1>4. r.keep \in Seq(1 .. m)
  <2>1. <<>> \in Seq(1 .. m)
    OBVIOUS
  <2> QED BY <2>1 DEF VisitsQueued
<1>5. r \in Call
  BY <1>0, <1>1, <1>2, <1>3, <1>4, FieldsTyped DEF Awaits, NoSession
<1> QED BY <1>1, <1>2, <1>3, <1>4, <1>5 DEF CallTyped, OnEntry

\* A call that waits elsewhere for an entry that exists, or for none.
LEMMA AtTyped ==
  ASSUME NEW m \in 0 .. MaxJobs, NEW r, CallTyped(r, m), NEW pc \in Awaits, NEW j \in 0 .. m,
         pc \in OnEntry => j # NoJob, pc = "existing" => r.op = "enqueue", pc = "drop" => r.op = "drop"
  PROVE  CallTyped(At(r, pc, j), m)
<1> DEFINE a == At(r, pc, j)
<1>0. j \in Jobs \cup {NoJob} /\ (pc \in OnEntry => j \in 1 .. m)
  BY MaxJobsAssumption DEF Jobs, NoJob
<1>1. LocalShape(r) /\ r \in Call /\ r.keep \in Seq(1 .. m) /\ (r.op \in {"enqueue", "drop"} => r.card \in Cards)
  BY TypedFields DEF CallTyped
<1>2. /\ LocalShape(a)
      /\ a.pc = pc /\ a.cur = j /\ a.read \in BOOLEAN /\ a.got = BlankTask /\ a.result = NoSession
      /\ a.op = r.op /\ a.card = r.card /\ a.lane = r.lane /\ a.force = r.force
      /\ a.visit = r.visit /\ a.keep = r.keep /\ a.limit = r.limit
  BY <1>1, AtFields
<1> HIDE DEF a
<1>3. a \in Call
  BY <1>0, <1>1, <1>2, BlankTyped, TypedFields, FieldsTyped DEF NoSession
<1>4. CallTyped(a, m)
  BY <1>0, <1>1, <1>2, <1>3 DEF CallTyped
<1> QED BY <1>4 DEF a

\* A call that awaits a task is typed.
LEMMA AwaitTaskTyped ==
  ASSUME task \in [Cards -> Task],
         NEW m \in 0 .. MaxJobs, NEW r, CallTyped(r, m), NEW pc \in Awaits, NEW j \in 0 .. m, NEW c \in Cards,
         pc \in OnEntry => j # NoJob, pc = "existing" => r.op = "enqueue", pc # "drop"
  PROVE  CallTyped(AwaitTask(r, pc, j, c), m)
<1> DEFINE a == AwaitTask(r, pc, j, c)
<1>0. j \in Jobs \cup {NoJob} /\ (pc \in OnEntry => j \in 1 .. m)
  BY MaxJobsAssumption DEF Jobs, NoJob
<1>1. LocalShape(r) /\ r \in Call /\ r.keep \in Seq(1 .. m) /\ (r.op \in {"enqueue", "drop"} => r.card \in Cards)
  BY TypedFields DEF CallTyped
<1>2. /\ LocalShape(a)
      /\ a.pc = pc /\ a.cur = j /\ a.read \in BOOLEAN /\ a.result = NoSession
      /\ a.got = IF Prompt THEN task[c] ELSE BlankTask
      /\ a.op = r.op /\ a.card = r.card /\ a.lane = r.lane /\ a.force = r.force
      /\ a.visit = r.visit /\ a.keep = r.keep /\ a.limit = r.limit
  BY <1>1, AwaitTaskFields
<1> HIDE DEF a
<1>3. a.got \in Task
  BY <1>2, BlankTyped
<1>4. a \in Call
  BY <1>0, <1>1, <1>2, <1>3, TypedFields, FieldsTyped DEF NoSession
<1>5. CallTyped(a, m)
  BY <1>0, <1>1, <1>2, <1>4 DEF CallTyped
<1> QED BY <1>5 DEF a

\* A call that awaits the limit is typed.
LEMMA AwaitLimitTyped ==
  ASSUME NEW m \in 0 .. MaxJobs, NEW r, CallTyped(r, m), limit \in Nat
  PROVE  CallTyped(AwaitLimit(r), m)
<1> DEFINE a == AwaitLimit(r)
<1>1. LocalShape(r) /\ r \in Call /\ r.keep \in Seq(1 .. m) /\ (r.op \in {"enqueue", "drop"} => r.card \in Cards)
  BY TypedFields DEF CallTyped
<1>2. /\ LocalShape(a)
      /\ a.pc = "limit" /\ a.cur = NoJob /\ a.read \in BOOLEAN /\ a.result = NoSession /\ a.got = BlankTask
      /\ a.op = r.op /\ a.card = r.card /\ a.lane = r.lane /\ a.force = r.force
      /\ a.visit = r.visit /\ a.keep = r.keep /\ a.limit = IF Prompt THEN limit ELSE 0
  BY <1>1, AwaitLimitFields
<1> HIDE DEF a
<1>3. a.limit \in Nat
  BY <1>2
<1>4. a \in Call
  BY <1>1, <1>2, <1>3, BlankTyped, TypedFields, FieldsTyped DEF NoSession, NoJob, Awaits
<1>5. CallTyped(a, m)
  BY <1>1, <1>2, <1>4 DEF CallTyped, OnEntry
<1> QED BY <1>5 DEF a

\* One call moves on, in its types, and so does the rest.
LEMMA TypeStep ==
  ASSUME TypeInv, IndInv', TasksTyped', EntriesTyped(job', made'), QueueTyped(queue', todo', shared', made'),
         made <= made', NEW p \in Calls, NEW r, CallTyped(r, made'), call' = [call EXCEPT ![p] = r]
  PROVE  TypeInv'
<1>1. made \in Nat /\ made' \in Nat /\ 1 .. made \subseteq 1 .. made'
  BY MaxJobsAssumption DEF TypeInv, IndInv
<1>2. \A q \in Calls : call[q] \in Call /\ CallTyped(call[q], made)
  BY DEF TypeInv, CallsTyped
<1>3. ASSUME NEW q \in Calls PROVE CallTyped(call[q], made')
  <2>1. call[q].keep \in Seq(1 .. made')
    BY <1>1, <1>2, WiderSeq DEF CallTyped
  <2> QED BY <1>1, <1>2, <2>1 DEF CallTyped
<1>4. r \in Call /\ call \in [Calls -> Call]
  BY DEF CallTyped, TypeInv, CallsTyped
<1>5. CallsTyped(call', made')
  BY <1>3, <1>4 DEF CallsTyped
<1> QED BY <1>5 DEF TypeInv

\* The queue is left alone.
LEMMA KeepTyped ==
  ASSUME TypeInv, KeepQueue, UNCHANGED made
  PROVE  QueueTyped(queue', todo', shared', made')
  BY DEF TypeInv, QueueTyped, KeepQueue

\* The queue is replaced by an array of existing entries.
LEMMA ReplaceTyped ==
  ASSUME TypeInv, NEW q \in Seq(1 .. made'), ReplaceQueue(q)
  PROVE  QueueTyped(queue', todo', shared', made')
  BY DEF TypeInv, QueueTyped, ReplaceQueue

\* Removing entries leaves existing entries.
LEMMA UnqueueTyped ==
  ASSUME TypeInv
  PROVE  /\ \A c : Unqueue(c) \in Seq(1 .. made)
         /\ \A j : UnqueueInstance(j) \in Seq(1 .. made)
<1>1. queue \in Seq(1 .. made)
  BY DEF TypeInv, QueueTyped
<1>2. \A K \in SUBSET DOMAIN queue : Filtered(queue, K) \in Seq(1 .. made)
  BY <1>1, FilteredOK
<1>3. \A c : {i \in DOMAIN queue : job[queue[i]].card # c} \in SUBSET DOMAIN queue
  OBVIOUS
<1>4. \A j : {i \in DOMAIN queue : queue[i] # j} \in SUBSET DOMAIN queue
  OBVIOUS
<1> QED BY <1>2, <1>3, <1>4 DEF Unqueue, UnqueueInstance

\* A step that moves one call on and leaves the entries and the queue alone.
LEMMA TypeGoto ==
  ASSUME TypeInv, IndInv', TasksTyped', UNCHANGED <<job, made>>, KeepQueue,
         NEW p \in Calls, NEW r, CallTyped(r, made), call' = [call EXCEPT ![p] = r]
  PROVE  TypeInv'
<1>1. EntriesTyped(job', made') /\ made <= made' /\ CallTyped(r, made')
  BY MaxJobsAssumption DEF TypeInv, IndInv
<1> QED BY <1>1, KeepTyped, TypeStep

\* What the invariant says of the sizes and the map.
LEMMA TypedMap ==
  ASSUME TypeInv
  PROVE  /\ made \in 0 .. MaxJobs /\ made \in Nat /\ 1 .. made \subseteq Jobs /\ limit \in Nat
         /\ MapOK(jobs, job, made) /\ task \in [Cards -> Task] /\ active \subseteq Jobs
         /\ job \in [Jobs -> Job] /\ \A j \in 1 .. made : job[j].card \in Cards
  BY MaxJobsAssumption, LimitsAssumption DEF TypeInv, IndInv, TasksTyped, EntriesTyped, Jobs

\* The types in the steps, action by action: the answers of a slow store.
LEMMA ReadTypes ==
  ASSUME TypeInv, IndInv', NEW p \in Calls, ReadTask(p) \/ ReadLimit(p)
  PROVE  TypeInv'
<1>0. UNCHANGED <<job, made>> /\ KeepQueue /\ TasksTyped'
  BY DEF TypeInv, TasksTyped, ReadTask, ReadLimit, boardVars
<1> DEFINE o == call[p]
<1>1. LocalShape(o) /\ CallTyped(o, made) /\ o \in Call
  BY TypedCall DEF CallTyped
<1> DEFINE yes == TRUE
<1>2. yes \in BOOLEAN
  OBVIOUS
<1>3. CASE ReadTask(p)
  <2> DEFINE c == IF o.pc = "existing" THEN o.card ELSE job[o.cur].card
  <2>1. call' = [call EXCEPT ![p] = [o EXCEPT !.read = yes, !.got = task[c]]]
    BY <1>3 DEF ReadTask, Goto
  <2>2. c \in Cards
    BY <1>1, <1>3, TypedMap DEF ReadTask, AwaitsTask, CallTyped, OnEntry
  <2>3. task[c] \in Task
    BY <2>2, TypedMap
  <2> HIDE DEF yes, c, o
  <2> DEFINE r == [o EXCEPT !.read = yes, !.got = task[c]]
  <2>4. /\ r \in Call /\ r.keep = o.keep /\ r.pc = o.pc /\ r.cur = o.cur /\ r.op = o.op /\ r.card = o.card
    BY <1>1, <1>2, <2>3 DEF Call
  <2> HIDE DEF r
  <2>5. CallTyped(r, made)
    BY <1>1, <2>4 DEF CallTyped
  <2> QED BY <1>0, <2>1, <2>5, TypeGoto DEF r
<1>4. CASE ReadLimit(p)
  <2>1. call' = [call EXCEPT ![p] = [o EXCEPT !.read = yes, !.limit = limit]]
    BY <1>4 DEF ReadLimit, Goto
  <2>2. limit \in Nat
    BY TypedMap
  <2> HIDE DEF yes, o
  <2> DEFINE r == [o EXCEPT !.read = yes, !.limit = limit]
  <2>4. /\ r \in Call /\ r.keep = o.keep /\ r.pc = o.pc /\ r.cur = o.cur /\ r.op = o.op /\ r.card = o.card
    BY <1>1, <1>2, <2>2 DEF Call
  <2> HIDE DEF r
  <2>5. CallTyped(r, made)
    BY <1>1, <2>4 DEF CallTyped
  <2> QED BY <1>0, <2>1, <2>5, TypeGoto DEF r
<1> QED BY <1>3, <1>4

\* reconcileRunningEntries.
LEMMA CheckRunningTypes ==
  ASSUME TypeInv, IndInv', NEW p \in Calls, CheckRunning(p)
  PROVE  TypeInv'
<1>0. /\ UNCHANGED <<job, made>> /\ KeepQueue /\ TasksTyped'
      /\ VisitRunning(call, p, jobs', job, call[p].visit)
  BY DEF TypeInv, TasksTyped, CheckRunning, boardVars
<1>1. PICK r : call' = [call EXCEPT ![p] = r] /\ VisitsRunning(r, call[p], jobs', job, call[p].visit)
  BY <1>0, TypedCall, VisitRunningEffect
<1>2. MapOK(jobs', job, made)
  BY <1>0 DEF IndInv
<1>3. call[p].visit \in SUBSET Jobs /\ CallTyped(call[p], made)
  BY TypedCall, TypedFields DEF CallTyped
<1>4. CallTyped(r, made)
  BY <1>1, <1>2, <1>3, TypedMap, VisitsRunningTyped
<1> QED BY <1>0, <1>1, <1>4, TypeGoto

\* reconcileQueuedEntries: the array it writes back holds entries that exist.
LEMMA ReconcileQueuedTypes ==
  ASSUME TypeInv, IndInv', NEW p \in Calls, BeginQueued(p) \/ CheckQueued(p)
  PROVE  TypeInv'
<1>0. UNCHANGED <<job, made>> /\ TasksTyped' /\ EntriesTyped(job', made') /\ made <= made' /\ MapOK(jobs', job, made)
  <2>1. UNCHANGED <<job, made, task, active>>
    BY DEF BeginQueued, CheckQueued, boardVars
  <2> QED BY <2>1, TypedMap DEF TypeInv, TasksTyped, IndInv
<1>1. /\ queue \in Seq(1 .. made) /\ queue \in Seq(Jobs) /\ todo \in [Calls -> Seq(Jobs)] /\ shared \in [Calls -> BOOLEAN]
      /\ <<>> \in Seq(1 .. made)
  <2>1. queue \in Seq(1 .. made) /\ todo \in [Calls -> Seq(Jobs)] /\ shared \in [Calls -> BOOLEAN]
    BY DEF TypeInv, QueueTyped
  <2>2. 1 .. made \subseteq Jobs
    BY TypedMap
  <2>3. queue \in Seq(Jobs)
    BY <2>1, <2>2, WiderSeq
  <2>4. <<>> \in Seq(1 .. made)
    OBVIOUS
  <2> QED BY <2>1, <2>3, <2>4
<1>2. LocalShape(call[p]) /\ CallTyped(call[p], made)
  BY TypedCall
<1>3. ASSUME NEW rest \in Seq(Jobs), NEW keep \in Seq(1 .. made), NEW onBoard \in BOOLEAN,
             VisitQueued(p, jobs', rest, keep, onBoard)
      PROVE  TypeInv'
  <2>1. /\ \E r : Goto(p, r) /\ VisitsQueued(r, call[p], jobs', keep)
        /\ queue' = keep \/ queue' = queue
        /\ shared' \in [Calls -> BOOLEAN] /\ todo' \in [Calls -> Seq(Jobs)]
    BY <1>1, <1>2, <1>3, VisitQueuedEffect
  <2>2. PICK r : Goto(p, r) /\ VisitsQueued(r, call[p], jobs', keep)
    BY <2>1
  <2>3. CallTyped(r, made)
    BY <1>0, <1>2, <2>2, TypedMap, VisitsQueuedTyped
  <2>4. QueueTyped(queue', todo', shared', made')
    BY <1>0, <1>1, <2>1 DEF QueueTyped
  <2> QED BY <1>0, <2>2, <2>3, <2>4, TypeStep DEF Goto
<1>4. CASE BeginQueued(p) /\ queue = <<>>
  <2>1. KeepQueue /\ Goto(p, At(call[p], "reconciled", NoJob))
    BY <1>4 DEF BeginQueued
  <2>2. CallTyped(At(call[p], "reconciled", NoJob), made)
    BY <1>2, TypedMap, AtTyped DEF Awaits, NoJob, OnEntry
  <2> QED BY <1>0, <2>1, <2>2, TypeGoto DEF Goto
<1>5. CASE BeginQueued(p) /\ queue # <<>>
  <2>1. VisitQueued(p, jobs', queue, <<>>, TRUE)
    BY <1>5 DEF BeginQueued
  <2> QED BY <1>1, <1>3, <2>1
<1>6. CASE CheckQueued(p)
  <2> DEFINE stale == \/ ~ call[p].got.exists \/ call[p].got.trigger # NoSession
                      \/ call[p].got.lane # job[call[p].cur].lane
             keep == IF stale THEN call[p].keep ELSE Append(call[p].keep, call[p].cur)
  <2>1. VisitQueued(p, jobs', todo[p], keep, shared[p])
    BY <1>6 DEF CheckQueued
  <2>2. call[p].keep \in Seq(1 .. made) /\ call[p].cur \in 1 .. made
    BY <1>2, <1>6 DEF CheckQueued, CallTyped, OnEntry
  <2>3. keep \in Seq(1 .. made)
    <3>1. Append(call[p].keep, call[p].cur) \in Seq(1 .. made)
      BY <2>2
    <3> HIDE DEF stale
    <3> QED BY <2>2, <3>1
  <2>4. todo[p] \in Seq(Jobs) /\ shared[p] \in BOOLEAN
    BY <1>1
  <2> HIDE DEF keep
  <2> QED BY <1>3, <2>1, <2>3, <2>4
<1> QED BY <1>4, <1>5, <1>6

\* startEntry's synchronous part is typed when the entry it starts is.
LEMMA StartTypes ==
  ASSUME TypeInv, IndInv', UNCHANGED boardVars, made <= made', NEW p \in Calls, NEW j \in 1 .. made',
         CallTyped(call[p], made'), NEW es, EntriesTyped(es, made'), StartEntry(p, j, es)
  PROVE  TypeInv'
<1>0. made' \in 0 .. MaxJobs /\ made' \in Nat /\ j \in Jobs /\ j # NoJob /\ task \in [Cards -> Task] /\ TasksTyped'
  BY MaxJobsAssumption DEF TypeInv, IndInv, TasksTyped, Jobs, NoJob, boardVars
<1>1. /\ ReplaceQueue(Unqueue(es[j].card))
      /\ job' = [es EXCEPT ![j] = [es[j] EXCEPT !.status = "running", !.starts = es[j].starts + 1]]
      /\ call' = [call EXCEPT ![p] = AwaitTask(call[p], "starting", j, es[j].card)]
  BY DEF StartEntry, Goto
<1>2. EntriesTyped(job', made')
  <2> DEFINE f == es[j]
             n == f.starts + 1
             e == [f EXCEPT !.status = "running", !.starts = n]
  <2>0. f \in Job /\ es \in [Jobs -> Job] /\ \A k \in 1 .. made' : es[k].card \in Cards
    BY <1>0 DEF EntriesTyped
  <2>2. job' = [es EXCEPT ![j] = e]
    BY <1>1
  <2>3. f.card \in Cards
    BY <2>0
  <2> HIDE DEF f
  <2>5. n \in Nat
    BY <2>0 DEF Job
  <2> HIDE DEF n
  <2>1. e \in Job /\ e.card = f.card
    BY <2>0, <2>5 DEF Job
  <2> HIDE DEF e
  <2>4. job' \in [Jobs -> Job]
    BY <2>0, <2>1, <2>2
  <2>6. \A k \in 1 .. made' : job'[k].card \in Cards
    BY <1>0, <2>0, <2>1, <2>2, <2>3
  <2> QED BY <2>4, <2>6 DEF EntriesTyped
<1>3. QueueTyped(queue', todo', shared', made')
  <2>1. Unqueue(es[j].card) \in Seq(1 .. made)
    BY UnqueueTyped
  <2>2. 1 .. made \subseteq 1 .. made'
    BY <1>0, TypedMap
  <2>3. Unqueue(es[j].card) \in Seq(1 .. made')
    BY <2>1, <2>2, WiderSeq
  <2> QED BY <1>1, <2>3, ReplaceTyped
<1>4. CallTyped(AwaitTask(call[p], "starting", j, es[j].card), made')
  <2>1. es[j].card \in Cards /\ j \in 0 .. made' /\ "starting" \in Awaits
    BY <1>0 DEF EntriesTyped, Awaits
  <2> QED BY <1>0, <2>1, AwaitTaskTyped
<1> QED BY <1>0, <1>1, <1>2, <1>3, <1>4, TypeStep

\* The start closure.
LEMMA ClosureTypes ==
  ASSUME TypeInv, IndInv', NEW p \in Calls, StartCheck(p) \/ StartSave(p) \/ StartThrows(p)
  PROVE  TypeInv'
<1> DEFINE o == call[p]
           j == o.cur
           a == At(o, "started", j)
<1>0. /\ UNCHANGED <<job, made>> /\ KeepQueue /\ j \in 1 .. made /\ job[j].card \in Cards /\ j \in Jobs
      /\ LocalShape(o) /\ CallTyped(o, made) /\ o \in Call /\ o.got \in Task
  <2>1. /\ UNCHANGED <<job, made>> /\ KeepQueue /\ o.pc \in {"starting", "working"}
    BY DEF StartCheck, StartSave, StartThrows
  <2> QED BY <2>1, TypedCall, TypedMap, TypedFields DEF CallTyped, OnEntry
<1>1. CallTyped(a, made)
  <2>1. "started" \in Awaits /\ j \in 0 .. made /\ j # NoJob
    BY <1>0, TypedMap DEF Awaits, NoJob
  <2> QED BY <1>0, <2>1, TypedMap, AtTyped
<1>2. ASSUME NEW s \in Jobs \cup {NoSession} PROVE CallTyped([a EXCEPT !.result = s], made)
  <2> HIDE DEF a
  <2> DEFINE r == [a EXCEPT !.result = s]
  <2>1. a \in Call
    BY <1>1 DEF CallTyped
  <2>2. r \in Call /\ r.pc = a.pc /\ r.cur = a.cur /\ r.keep = a.keep /\ r.op = a.op /\ r.card = a.card
    BY <2>1 DEF Call
  <2> HIDE DEF r
  <2>3. CallTyped(r, made)
    BY <1>1, <2>2 DEF CallTyped
  <2> QED BY <2>3 DEF r
<1>3. CASE StartCheck(p)
  <2>1. \/ Goto(p, [o EXCEPT !.pc = "working"])
        \/ \E s \in {o.got.trigger, NoSession} : Goto(p, [a EXCEPT !.result = s])
    BY <1>3 DEF StartCheck
  <2>2. o.got.trigger \in Jobs \cup {NoSession} /\ UNCHANGED <<task, active>> /\ TasksTyped'
    BY <1>0, <1>3 DEF Task, StartCheck, boardVars, TypeInv, TasksTyped
  <2>3. CallTyped([o EXCEPT !.pc = "working"], made)
    <3> HIDE DEF o
    <3> DEFINE r == [o EXCEPT !.pc = "working"]
    <3>1. r \in Call /\ r.pc = "working" /\ r.cur = o.cur /\ r.keep = o.keep /\ r.op = o.op /\ r.card = o.card
      BY <1>0 DEF Call, Awaits
    <3> HIDE DEF r
    <3>2. CallTyped(r, made)
      BY <1>0, <3>1 DEF CallTyped
    <3> QED BY <3>2 DEF r
  <2> HIDE DEF a
  <2>4. PICK r : Goto(p, r) /\ CallTyped(r, made)
    BY <1>2, <2>1, <2>2, <2>3
  <2> QED BY <1>0, <2>2, <2>4, TypeGoto DEF Goto
<1>4. CASE StartSave(p)
  <2>1. PICK saved, s : /\ task' = [task EXCEPT ![job[j].card] = saved]
                        /\ active' = active \cup ({s} \ {NoSession})
                        /\ Goto(p, [a EXCEPT !.result = s])
                        /\ s \in {j, NoSession}
                        /\ \/ saved = [o.got EXCEPT !.trigger = j]
                           \/ \E l \in {o.got.lane, BlockedLane} : saved = [o.got EXCEPT !.lane = l]
    BY <1>4 DEF StartSave
  <2>2. saved \in Task
    BY <1>0, <2>1, SetsAssumption DEF Task
  <2>3. TasksTyped'
    BY <1>0, <2>1, <2>2, TypedMap DEF TasksTyped, TypeInv
  <2> HIDE DEF a
  <2>4. PICK r : Goto(p, r) /\ CallTyped(r, made)
    BY <1>0, <1>2, <2>1
  <2> QED BY <1>0, <2>3, <2>4, TypeGoto DEF Goto
<1>5. CASE StartThrows(p)
  <2>1. PICK s \in {j, NoSession} : active' = active \cup ({s} \ {NoSession})
    BY <1>5 DEF StartThrows
  <2>2. UNCHANGED task /\ Goto(p, a)
    BY <1>5 DEF StartThrows
  <2>3. TasksTyped'
    BY <1>0, <2>1, <2>2, TypedMap DEF TasksTyped
  <2> QED BY <1>0, <1>1, <2>2, <2>3, TypeGoto DEF Goto
<1> QED BY <1>3, <1>4, <1>5

\* startEntry resumes with a session.
LEMMA StartSucceededTypes ==
  ASSUME TypeInv, IndInv', NEW p \in Calls, StartSucceeded(p)
  PROVE  TypeInv'
<1> DEFINE o == call[p]
           j == o.cur
           e == [job[j] EXCEPT !.session = o.result]
<1>0. /\ UNCHANGED <<boardVars, made>> /\ KeepQueue /\ job' = [job EXCEPT ![j] = e]
      /\ Goto(p, At(o, "loop", NoJob)) \/ Goto(p, Idle)
      /\ o.pc = "started"
  BY DEF StartSucceeded, Return
<1>1. CallTyped(o, made) /\ j \in 1 .. made /\ j \in Jobs /\ o.result \in Jobs \cup {NoSession}
  BY <1>0, TypedCall, TypedMap, TypedFields DEF CallTyped, OnEntry
<1>2. e \in Job /\ e.card = job[j].card
  BY <1>1, TypedMap DEF Job
<1>3. EntriesTyped(job', made')
  <2> HIDE DEF e
  <2> QED BY <1>0, <1>1, <1>2, TypedMap DEF EntriesTyped
<1>4. TasksTyped' /\ made <= made' /\ made' = made
  BY <1>0, TypedMap DEF TypeInv, TasksTyped, boardVars
<1>5. CallTyped(At(o, "loop", NoJob), made) /\ CallTyped(Idle, made)
  <2>1. "loop" \in Awaits /\ NoJob \in 0 .. made
    BY TypedMap DEF Awaits, NoJob
  <2>2. CallTyped(At(o, "loop", NoJob), made)
    BY <1>1, <2>1, TypedMap, AtTyped DEF OnEntry
  <2> QED BY <2>2, IdleTyped
<1>6. PICK r : call' = [call EXCEPT ![p] = r] /\ CallTyped(r, made)
  <2> HIDE DEF o
  <2> QED BY <1>0, <1>5 DEF Goto
<1>7. QueueTyped(queue', todo', shared', made')
  BY <1>0, <1>4, KeepTyped
<1> QED BY <1>3, <1>4, <1>6, <1>7, TypeStep

\* A step that begins an operation in call p.
LEMMA BeginTypes ==
  ASSUME TypeInv, IndInv', TasksTyped', UNCHANGED <<task, made>>, EntriesTyped(job', made'), KeepQueue,
         NEW p \in Calls, NEW calls, calls = [q \in Calls |-> calls[q]],
         NEW op \in {"enqueue", "drain", "snapshot", "drop"}, NEW c \in Cards \cup {NoCard},
         op \in {"enqueue", "drop"} => c \in Cards, NEW lane \in Lanes, NEW force, force \in BOOLEAN,
         Begin(calls, p, op, c, lane, force, jobs', job')
  PROVE  \E r : call' = [calls EXCEPT ![p] = r] /\ CallTyped(r, made)
<1> DEFINE js == jobs'
           es == job'
<1>2. MapOK(js, es, made)
  BY DEF IndInv
<1>0. Begin(calls, p, op, c, lane, force, js, es)
  OBVIOUS
<1> HIDE DEF js, es
<1>1. PICK r : call' = [calls EXCEPT ![p] = r] /\ Begun(r, op, c, lane, force, js, es)
  BY <1>0, BeginEffect
<1>3. {js[d] : d \in RunningCards(js, es)} \in SUBSET Jobs
  BY <1>2, TypedMap DEF MapOK, RunningCards
<1>4. CallTyped(Fresh(op, c, lane, force), made)
  BY FreshTyped
<1>5. CallTyped(r, made)
  BY <1>1, <1>2, <1>3, <1>4, TypedMap, VisitsRunningTyped DEF Begun
<1> QED BY <1>1, <1>5

\* An operation begins.
LEMMA NewCallTypes ==
  ASSUME TypeInv, IndInv', NEW p \in Calls, NewCall(p) \/ \E s \in Jobs : SessionEnds(p, s)
  PROVE  TypeInv'
<1>0. UNCHANGED <<task, job, made>> /\ active' \subseteq active /\ KeepQueue
  BY DEF NewCall, SessionEnds, LifecycleEvent, Enqueue, Snapshot, DropQueuedCardJob, boardVars
<1>1. TasksTyped' /\ EntriesTyped(job', made') /\ call = [q \in Calls |-> call[q]] /\ BlockedLane \in Lanes
  BY <1>0, SetsAssumption, TypedCall DEF TypeInv, TasksTyped
<1> DEFINE Begins(op, c, lane, force) ==
             /\ op \in {"enqueue", "drain", "snapshot", "drop"} /\ c \in Cards \cup {NoCard}
             /\ lane \in Lanes /\ force \in BOOLEAN /\ (op \in {"enqueue", "drop"} => c \in Cards)
             /\ Begin(call, p, op, c, lane, force, jobs', job')
<1>2. \E op, c, lane, force : Begins(op, c, lane, force)
  <2>1. ASSUME NEW c \in Cards, NEW f \in Forced, Enqueue(p, c, f) PROVE Begins("enqueue", c, task[c].lane, f)
    BY <1>0, <2>1, TypedMap, ForcedAssumption DEF Enqueue, Task
  <2>2. ASSUME Snapshot(p) PROVE Begins("snapshot", NoCard, BlockedLane, FALSE)
    BY <1>0, <1>1, <2>2 DEF Snapshot
  <2>3. ASSUME NEW c \in Cards, DropQueuedCardJob(p, c) PROVE Begins("drop", c, BlockedLane, FALSE)
    BY <1>0, <1>1, <2>3 DEF DropQueuedCardJob
  <2>4. ASSUME NEW s \in Jobs, SessionEnds(p, s) PROVE Begins("drain", NoCard, BlockedLane, FALSE)
    BY <1>0, <1>1, <2>4 DEF SessionEnds, BeginDrain
  <2> HIDE DEF Begins
  <2> QED BY <2>1, <2>2, <2>3, <2>4 DEF NewCall
<1>3. PICK r : call' = [call EXCEPT ![p] = r] /\ CallTyped(r, made)
  BY <1>0, <1>1, <1>2, BeginTypes
<1> QED BY <1>0, <1>1, <1>3, TypeGoto

\* startEntry resumes without a session.
LEMMA StartRefusedTypes ==
  ASSUME TypeInv, IndInv', NEW p \in Calls, NEW q \in Calls, StartRefused(p, q)
  PROVE  TypeInv'
<1> DEFINE a == At(call[p], "loop", NoJob)
           calls == [call EXCEPT ![p] = a]
<1>0. /\ UNCHANGED <<boardVars, job, made>> /\ KeepQueue
      /\ Begin(calls, q, "drain", NoCard, BlockedLane, FALSE, jobs', job')
  BY DEF StartRefused, BeginDrain
<1>1. TasksTyped' /\ EntriesTyped(job', made') /\ call = [r \in Calls |-> call[r]] /\ BlockedLane \in Lanes
      /\ UNCHANGED <<task, made>> /\ made <= made'
  BY <1>0, SetsAssumption, TypedCall, TypedMap DEF TypeInv, TasksTyped, boardVars
<1>2. CallTyped(a, made)
  <2>1. "loop" \in Awaits /\ "loop" \notin OnEntry /\ NoJob \in 0 .. made
    BY TypedMap DEF Awaits, OnEntry, NoJob
  <2> QED BY <2>1, TypedCall, TypedMap, AtTyped
<1>3. CallsTyped(calls, made)
  <2> HIDE DEF a
  <2> QED BY <1>2 DEF TypeInv, CallsTyped, CallTyped
<1>4. calls = [r \in Calls |-> calls[r]]
  BY <1>1
<1> HIDE DEF calls
<1>5. PICK r : call' = [calls EXCEPT ![q] = r] /\ CallTyped(r, made)
  BY <1>0, <1>1, <1>4, BeginTypes
<1>6. CallsTyped(call', made')
  BY <1>1, <1>3, <1>5 DEF CallsTyped, CallTyped
<1>7. QueueTyped(queue', todo', shared', made')
  BY <1>0, <1>1, KeepTyped
<1> QED BY <1>1, <1>6, <1>7 DEF TypeInv

\* enqueue looks the card up.
LEMMA EnqueueTypes ==
  ASSUME TypeInv, IndInv', NEW p \in Calls, EnqueueExisting(p) \/ EnqueueReplace(p)
  PROVE  TypeInv'
<1>0. UNCHANGED <<task, active, job, made>> /\ KeepQueue /\ TasksTyped'
  BY DEF EnqueueExisting, EnqueueReplace, boardVars, TypeInv, TasksTyped
<1>1. CallTyped(call[p], made) /\ call[p].op = "enqueue"
  BY TypedCall DEF EnqueueExisting, EnqueueReplace, CallTyped
<1>2. CallTyped(AwaitLimit(call[p]), made) /\ CallTyped(Idle, made)
  BY <1>1, TypedMap, AwaitLimitTyped, IdleTyped
<1>3. CallTyped(AwaitTask(call[p], "existing", NoJob, call[p].card), made)
  <2>1. "existing" \in Awaits /\ NoJob \in 0 .. made /\ call[p].card \in Cards /\ "existing" \notin OnEntry
    BY <1>1, TypedMap DEF Awaits, NoJob, CallTyped, OnEntry
  <2> QED BY <1>1, <2>1, TypedMap, AwaitTaskTyped
<1>4. \E r : call' = [call EXCEPT ![p] = r] /\ CallTyped(r, made)
  BY <1>2, <1>3 DEF EnqueueExisting, EnqueueReplace, Return, Goto
<1> QED BY <1>0, <1>4, TypeGoto

\* enqueue creates an entry.
LEMMA EnqueueAdmitTypes ==
  ASSUME TypeInv, IndInv', NEW p \in Calls, EnqueueAdmit(p)
  PROVE  TypeInv'
<1> DEFINE j == made + 1
           c == call[p].card
           e == [card |-> c, lane |-> call[p].lane, force |-> call[p].force,
                 status |-> "queued", session |-> NoSession, starts |-> 0]
           es == [job EXCEPT ![j] = e]
<1>1. /\ made' = j /\ UNCHANGED boardVars /\ TasksTyped' /\ UNCHANGED task
      /\ j \in Jobs /\ j \in 1 .. made' /\ made <= made' /\ made' \in 0 .. MaxJobs /\ 1 .. made \subseteq 1 .. made'
      /\ j # NoJob
  BY TypedMap, MaxJobsAssumption DEF EnqueueAdmit, Jobs, boardVars, TypeInv, TasksTyped, NoJob
<1>2. CallTyped(call[p], made) /\ c \in Cards /\ call[p].lane \in Lanes /\ call[p].force \in BOOLEAN
  BY TypedCall, TypedFields DEF CallTyped, EnqueueAdmit
<1>3. e \in Job /\ e.card = c
  BY <1>2 DEF Job, NoSession
<1>4. EntriesTyped(es, made')
  <2> HIDE DEF e
  <2>1. es \in [Jobs -> Job] /\ es[j] = e
    BY <1>1, <1>3, TypedMap
  <2>2. \A k \in 1 .. made' : es[k].card \in Cards
    BY <1>1, <1>2, <1>3, <2>1, TypedMap
  <2> QED BY <2>1, <2>2 DEF EntriesTyped
<1>5. CallTyped(call[p], made')
  BY <1>1, <1>2, WiderSeq, TypedMap DEF CallTyped
<1> HIDE DEF e
<1>6. CASE StartEntry(p, j, es)
  <2> HIDE DEF es
  <2> QED BY <1>1, <1>4, <1>5, <1>6, StartTypes
<1>7. CASE PushQueuedEntry(j) /\ job' = es /\ (Return(p) \/ BeginDrain(call, p, jobs', es))
  <2>1. QueueTyped(queue', todo', shared', made')
    <3>1. queue \in Seq(1 .. made') /\ todo \in [Calls -> Seq(Jobs)] /\ shared \in [Calls -> BOOLEAN]
      BY <1>1, WiderSeq DEF TypeInv, QueueTyped
    <3>2. Append(queue, j) \in Seq(1 .. made') /\ \A q \in Calls : Append(todo[q], j) \in Seq(Jobs)
      BY <1>1, <3>1
    <3>3. /\ queue' = Append(queue, j) /\ shared' = shared
          /\ todo' = [q \in Calls |-> IF shared[q] THEN Append(todo[q], j) ELSE todo[q]]
      BY <1>7 DEF PushQueuedEntry
    <3> QED BY <3>1, <3>2, <3>3 DEF QueueTyped
  <2>2. EntriesTyped(job', made')
    BY <1>4, <1>7
  <2>3. \E r : call' = [call EXCEPT ![p] = r] /\ CallTyped(r, made')
    <3>1. CASE Return(p)
      BY <3>1, IdleTyped DEF Return, Goto
    <3>2. CASE BeginDrain(call, p, jobs', es)
      <4> DEFINE js == jobs'
      <4>1. Begin(call, p, "drain", NoCard, BlockedLane, FALSE, js, es) /\ call = [q \in Calls |-> call[q]]
        BY <3>2, TypedCall DEF BeginDrain
      <4> HIDE DEF js, es, j, c
      <4>2. PICK r : call' = [call EXCEPT ![p] = r] /\ Begun(r, "drain", NoCard, BlockedLane, FALSE, js, es)
        BY <4>1, BeginEffect
      <4>3. MapOK(js, es, made')
        BY <1>7 DEF IndInv, js, es
      <4>4. {js[d] : d \in RunningCards(js, es)} \in SUBSET Jobs
        BY <1>1, <4>3, MaxJobsAssumption DEF MapOK, RunningCards, Jobs
      <4>5. CallTyped(Fresh("drain", NoCard, BlockedLane, FALSE), made')
        <5> DEFINE op == "drain"
                   nc == NoCard
                   lane == BlockedLane
                   force == FALSE
                   m == made'
        <5>1. /\ op \in {"enqueue", "drain", "snapshot", "drop"} /\ op \notin {"enqueue", "drop"}
              /\ nc \in Cards \cup {NoCard} /\ lane \in Lanes /\ force \in BOOLEAN
          BY SetsAssumption
        <5> HIDE DEF op, nc, lane, force, m
        <5>2. CallTyped(Fresh(op, nc, lane, force), m)
          BY <5>1, FreshTyped
        <5> QED BY <5>2 DEF op, nc, lane, force, m
      <4>6. CallTyped(r, made')
        BY <1>1, <4>2, <4>3, <4>4, <4>5, TypedMap, VisitsRunningTyped DEF Begun
      <4> QED BY <4>2, <4>6
    <3> QED BY <1>7, <3>1, <3>2
  <2> QED BY <1>1, <2>1, <2>2, <2>3, TypeStep
<1> QED BY <1>6, <1>7 DEF EnqueueAdmit, e

\* The loop of drainQueue goes on with the head of the queue, which exists.
LEMMA DrainNextTyped ==
  ASSUME TypeInv, NEW p \in Calls, NEW js, NEW q \in Seq(1 .. made), DrainNext(p, js, q)
  PROVE  \E r : call' = [call EXCEPT ![p] = r] /\ CallTyped(r, made)
<1>1. CASE Return(p)
  BY <1>1, IdleTyped DEF Return, Goto
<1>2. CASE q # <<>> /\ Goto(p, AwaitTask(call[p], "head", Head(q), job[Head(q)].card))
  <2>1. Head(q) \in 1 .. made
    BY <1>2, HeadTailProperties
  <2> DEFINE j == Head(q)
  <2> HIDE DEF j
  <2>2. job[j].card \in Cards /\ j \in 0 .. made /\ j # NoJob /\ "head" \in Awaits
    BY <2>1, TypedMap DEF j, Awaits, NoJob
  <2>3. CallTyped(AwaitTask(call[p], "head", j, job[j].card), made)
    BY <2>2, TypedCall, TypedMap, AwaitTaskTyped
  <2> QED BY <1>2, <2>3 DEF Goto, j
<1> QED BY <1>1, <1>2 DEF DrainNext

\* drainQueue without a start.
LEMMA DrainTypes ==
  ASSUME TypeInv, IndInv', NEW p \in Calls, DrainLimit(p) \/ DrainLoop(p) \/ DrainUnlink(p) \/ DrainDrop(p)
  PROVE  TypeInv'
<1>0. /\ UNCHANGED <<task, active, job, made>> /\ TasksTyped' /\ EntriesTyped(job', made') /\ made <= made'
      /\ queue \in Seq(1 .. made)
  <2>1. UNCHANGED <<task, active, job, made>>
    BY DEF DrainLimit, DrainLoop, DrainUnlink, DrainDrop, boardVars
  <2> QED BY <2>1, TypedMap DEF TypeInv, TasksTyped, QueueTyped
<1>1. CASE DrainLimit(p)
  <2>1. KeepQueue /\ call' = [call EXCEPT ![p] = AwaitLimit(call[p])]
    BY <1>1 DEF DrainLimit, Goto
  <2>2. CallTyped(AwaitLimit(call[p]), made)
    BY TypedCall, TypedMap, AwaitLimitTyped
  <2> QED BY <1>0, <2>1, <2>2, TypeGoto
<1>2. CASE DrainLoop(p)
  <2>1. KeepQueue /\ \E r : call' = [call EXCEPT ![p] = r] /\ CallTyped(r, made)
    BY <1>0, <1>2, DrainNextTyped DEF DrainLoop
  <2> QED BY <1>0, <2>1, TypeGoto
<1>3. CASE DrainUnlink(p) \/ DrainDrop(p)
  <2>1. ReplaceQueue(UnqueueInstance(call[p].cur)) /\ \E js : DrainNext(p, js, queue')
    BY <1>3 DEF DrainUnlink, DrainDrop
  <2>2. UnqueueInstance(call[p].cur) \in Seq(1 .. made) /\ queue' = UnqueueInstance(call[p].cur)
    BY <2>1, UnqueueTyped DEF ReplaceQueue
  <2>3. queue' \in Seq(1 .. made)
    BY <2>2
  <2>4. \E r : call' = [call EXCEPT ![p] = r] /\ CallTyped(r, made)
    BY <2>1, <2>3, DrainNextTyped
  <2>5. QueueTyped(queue', todo', shared', made')
    BY <1>0, <2>1, <2>2, ReplaceTyped
  <2> QED BY <1>0, <2>4, <2>5, TypeStep
<1> QED BY <1>1, <1>2, <1>3

\* drainQueue starts the head.
LEMMA DrainStartTypes ==
  ASSUME TypeInv, IndInv', NEW p \in Calls, DrainStart(p)
  PROVE  TypeInv'
<1>0. UNCHANGED <<boardVars, made>> /\ TasksTyped' /\ made <= made'
  BY TypedMap DEF DrainStart, boardVars, TypeInv, TasksTyped
<1>1. CASE Return(p) /\ KeepQueue /\ UNCHANGED job
  BY <1>0, <1>1, IdleTyped, TypeGoto DEF Return, Goto
<1>2. CASE StartEntry(p, call[p].cur, job)
  <2>1. call[p].cur \in 1 .. made /\ CallTyped(call[p], made)
    BY TypedCall DEF DrainStart, CallTyped, OnEntry
  <2>2. call[p].cur \in 1 .. made' /\ CallTyped(call[p], made') /\ EntriesTyped(job, made')
    BY <1>0, <2>1 DEF TypeInv
  <2> QED BY <1>0, <1>2, <2>2, StartTypes
<1> QED BY <1>1, <1>2 DEF DrainStart

\* removeCardJob keeps the queue an array of entries.
LEMMA RemoveJobTyped ==
  ASSUME TypeInv, UNCHANGED made, NEW c, RemoveJobOf(c)
  PROVE  QueueTyped(queue', todo', shared', made')
<1>1. CASE KeepQueue
  BY <1>1, KeepTyped
<1>2. CASE ReplaceQueue(Unqueue(c))
  BY <1>2, UnqueueTyped, ReplaceTyped
<1> QED BY <1>1, <1>2 DEF RemoveJobOf

\* getBoardSnapshot and dropQueuedCardJob.
LEMMA SnapshotTypes ==
  ASSUME TypeInv, IndInv', NEW p \in Calls, SnapshotTaken(p) \/ DropListed(p)
  PROVE  TypeInv'
<1>0. /\ UNCHANGED <<task, active, job, made>> /\ TasksTyped' /\ EntriesTyped(job', made') /\ made <= made'
  <2>1. UNCHANGED <<task, active, job, made>>
    BY DEF SnapshotTaken, DropListed, boardVars
  <2> QED BY <2>1, TypedMap DEF TypeInv, TasksTyped
<1>1. CASE SnapshotTaken(p)
  <2>1. call[p].op = "drop" => CallTyped(At(call[p], "drop", NoJob), made)
    <3>1. "drop" \in Awaits /\ "drop" \notin OnEntry /\ NoJob \in 0 .. made
      BY TypedMap DEF Awaits, OnEntry, NoJob
    <3> QED BY <3>1, TypedCall, TypedMap, AtTyped
  <2>2. \E r : call' = [call EXCEPT ![p] = r] /\ CallTyped(r, made)
    BY <1>1, <2>1, IdleTyped DEF SnapshotTaken, Return, Goto
  <2>3. KeepQueue
    BY <1>1 DEF SnapshotTaken
  <2> QED BY <1>0, <2>2, <2>3, TypeGoto
<1>2. CASE DropListed(p)
  <2>1. call' = [call EXCEPT ![p] = Idle] /\ RemoveJobOf(call[p].card)
    BY <1>2 DEF DropListed, Return, Goto
  <2> QED BY <1>0, <2>1, IdleTyped, RemoveJobTyped, TypeStep
<1> QED BY <1>1, <1>2

\* The rest of the system.
LEMMA EnvironmentTypes ==
  ASSUME TypeInv, IndInv', Environment
  PROVE  TypeInv'
<1>0. UNCHANGED <<job, made, call>>
  BY DEF Environment, SessionEndsUnnoticed, RemoveCardJob, DeleteTask, ToggleHold,
         ClearTrigger, MoveCard, SetLimit, EditTask
<1>1. QueueTyped(queue', todo', shared', made')
  BY <1>0, KeepTyped, RemoveJobTyped DEF Environment, SessionEndsUnnoticed, RemoveCardJob, DeleteTask, ToggleHold,
         ClearTrigger, MoveCard, SetLimit, EditTask
<1>2. TasksTyped'
  <2>1. ASSUME NEW c \in Cards, NEW t \in Task, EditTask(c, t) PROVE TasksTyped'
    BY <2>1, TypedMap DEF EditTask, TasksTyped
  <2>2. ASSUME NEW c \in Cards PROVE /\ task[c] \in Task /\ [task[c] EXCEPT !.trigger = NoSession] \in Task
    <3> DEFINE t == task[c]
    <3>1. t \in Task
      BY TypedMap
    <3> HIDE DEF t
    <3>2. [t EXCEPT !.trigger = NoSession] \in Task
      BY <3>1 DEF Task
    <3> QED BY <3>1, <3>2 DEF t
  <2>3. ASSUME NEW c \in Cards, NEW l \in Lanes PROVE [task[c] EXCEPT !.lane = l, !.trigger = NoSession] \in Task
    <3> DEFINE t == task[c]
    <3>1. t \in Task
      BY TypedMap
    <3> HIDE DEF t
    <3>2. [t EXCEPT !.lane = l, !.trigger = NoSession] \in Task
      BY <3>1 DEF Task
    <3> QED BY <3>2 DEF t
  <2>4. ASSUME NEW c \in Cards PROVE [task[c] EXCEPT !.hold = ~ task[c].hold] \in Task
    <3> DEFINE t == task[c]
               h == ~ t.hold
    <3>1. t \in Task /\ h \in BOOLEAN
      BY TypedMap
    <3> HIDE DEF h
    <3>2. [t EXCEPT !.hold = h] \in Task
      <4> HIDE DEF t
      <4> QED BY <3>1 DEF Task
    <3> QED BY <3>2 DEF h
  <2>5. \A c \in Cards : DeleteTask(c) \/ ToggleHold(c) \/ ClearTrigger(c) \/ (\E l \in Lanes : MoveCard(c, l)) => TasksTyped'
    BY <2>1, <2>2, <2>3, <2>4, BlankTyped DEF DeleteTask, ToggleHold, ClearTrigger, MoveCard
  <2>6. (\E s \in Jobs : SessionEndsUnnoticed(s)) \/ (\E c \in Cards : RemoveCardJob(c)) \/ (\E n \in Limits : SetLimit(n))
        => task' = task /\ active' \subseteq active
    BY DEF SessionEndsUnnoticed, LifecycleEvent, RemoveCardJob, SetLimit, boardVars
  <2>7. task' = task /\ active' \subseteq active => TasksTyped'
    BY DEF TypeInv, TasksTyped
  <2> QED BY <2>5, <2>6, <2>7 DEF Environment
<1>3. CallsTyped(call', made') /\ EntriesTyped(job', made')
  BY <1>0 DEF TypeInv
<1> QED BY <1>1, <1>2, <1>3 DEF TypeInv

-----------------------------------------------------------------------------
\* The types hold at first.
LEMMA InitTypes == Init => TypeInv
<1> SUFFICES ASSUME Init PROVE TypeInv
  OBVIOUS
<1>1. IndInv
  BY InitInv
<1>2. TasksTyped
  <2>1. \A l \in Lanes : [BlankTask EXCEPT !.exists = TRUE, !.lane = l] \in Task
    BY DEF BlankTask, Task, NoSession
  <2>2. active = {} /\ task \in [Cards -> {[BlankTask EXCEPT !.exists = TRUE, !.lane = l] : l \in Lanes}]
    BY DEF Init
  <2>3. {[BlankTask EXCEPT !.exists = TRUE, !.lane = l] : l \in Lanes} \subseteq Task
    BY <2>1
  <2> QED BY <2>2, <2>3 DEF TasksTyped
<1>3. EntriesTyped(job, made)
  <2>1. BlankJob \in Job
    BY SetsAssumption DEF BlankJob, Job, NoSession
  <2>2. job = [j \in Jobs |-> BlankJob] /\ made = 0
    BY DEF Init
  <2> HIDE DEF Init
  <2> QED BY <2>1, <2>2 DEF EntriesTyped
<1>4. QueueTyped(queue, todo, shared, made)
  <2>1. <<>> \in Seq(Jobs) /\ <<>> \in Seq(1 .. made)
    OBVIOUS
  <2> QED BY <2>1 DEF Init, QueueTyped
<1>5. CallsTyped(call, made)
  <2>1. call = [p \in Calls |-> Idle]
    BY DEF Init
  <2> QED BY <2>1, IdleTyped DEF CallsTyped, CallTyped
<1> QED BY <1>1, <1>2, <1>3, <1>4, <1>5 DEF TypeInv

\* Every step keeps the types.
LEMMA NextTypes == TypeInv /\ [Next]_vars => TypeInv'
<1> SUFFICES ASSUME TypeInv, [Next]_vars PROVE TypeInv'
  OBVIOUS
<1>0. IndInv'
  BY NextInv DEF TypeInv
<1>1. ASSUME NEW p \in Calls, Resume(p) PROVE TypeInv'
  BY <1>0, <1>1, ReadTypes, CheckRunningTypes, ReconcileQueuedTypes, EnqueueTypes, EnqueueAdmitTypes, DrainTypes,
     DrainStartTypes, ClosureTypes, StartSucceededTypes, SnapshotTypes DEF Resume
<1>2. ASSUME NEW p \in Calls, NewCall(p) \/ \E s \in Jobs : SessionEnds(p, s) PROVE TypeInv'
  BY <1>0, <1>2, NewCallTypes
<1>3. ASSUME NEW p \in Calls, NEW q \in Calls, StartRefused(p, q) PROVE TypeInv'
  BY <1>0, <1>3, StartRefusedTypes
<1>4. CASE Environment
  BY <1>0, <1>4, EnvironmentTypes
<1>5. CASE UNCHANGED vars
  BY <1>5 DEF vars, TypeInv, IndInv, TasksTyped
<1> QED BY <1>1, <1>2, <1>3, <1>4, <1>5 DEF Next

FinishingTyped == finishing \subseteq Jobs

\* Only an event announces a session as completed inside its turn.
LEMMA FinishingJobs == Spec => []FinishingTyped
<1>1. Init => FinishingTyped
  BY DEF Init, FinishingTyped
<1>2. FinishingTyped /\ [Next]_vars => FinishingTyped'
  <2> SUFFICES ASSUME finishing \subseteq Jobs, [Next]_vars PROVE finishing' \subseteq Jobs
    BY DEF FinishingTyped
  <2>1. ASSUME NEW p \in Calls, Resume(p) PROVE finishing' = finishing
    <3>1. ReadTask(p) \/ ReadLimit(p) \/ CheckRunning(p) \/ BeginQueued(p) \/ CheckQueued(p) => finishing' = finishing
      BY DEF ReadTask, ReadLimit, CheckRunning, BeginQueued, CheckQueued, boardVars
    <3>2. EnqueueExisting(p) \/ EnqueueReplace(p) \/ EnqueueAdmit(p) => finishing' = finishing
      BY DEF EnqueueExisting, EnqueueReplace, EnqueueAdmit, boardVars
    <3>3. DrainLimit(p) \/ DrainLoop(p) \/ DrainUnlink(p) \/ DrainDrop(p) \/ DrainStart(p) => finishing' = finishing
      BY DEF DrainLimit, DrainLoop, DrainUnlink, DrainDrop, DrainStart, boardVars
    <3>4. StartCheck(p) \/ StartSave(p) \/ StartThrows(p) \/ StartSucceeded(p) => finishing' = finishing
      BY DEF StartCheck, StartSave, StartThrows, StartSucceeded, boardVars
    <3>5. SnapshotTaken(p) \/ DropListed(p) => finishing' = finishing
      BY DEF SnapshotTaken, DropListed, boardVars
    <3> QED BY <2>1, <3>1, <3>2, <3>3, <3>4, <3>5 DEF Resume
  <2>2. ASSUME NEW p \in Calls, NEW q \in Calls, NewCall(p) \/ StartRefused(p, q) PROVE finishing' = finishing
    BY <2>2 DEF NewCall, Enqueue, Snapshot, DropQueuedCardJob, StartRefused, boardVars
  <2>3. ASSUME NEW p \in Calls, NEW s \in Jobs, SessionEnds(p, s) \/ SessionEndsUnnoticed(s) PROVE finishing' \subseteq Jobs
    <3>1. LifecycleEvent(s)
      BY <2>3 DEF SessionEnds, SessionEndsUnnoticed
    <3> QED BY <3>1 DEF LifecycleEvent
  <2>4. CASE Environment
    <3>1. ASSUME NEW s \in Jobs, SessionEndsUnnoticed(s) PROVE finishing' \subseteq Jobs
      <4>1. LifecycleEvent(s)
        BY <3>1 DEF SessionEndsUnnoticed
      <4> QED BY <4>1 DEF LifecycleEvent
    <3>2. finishing' = finishing \/ \E s \in Jobs : SessionEndsUnnoticed(s)
      BY <2>4 DEF Environment, RemoveCardJob, DeleteTask, ToggleHold, ClearTrigger, MoveCard, SetLimit, EditTask, boardVars
    <3> QED BY <3>1, <3>2
  <2>5. CASE UNCHANGED vars
    BY <2>5 DEF vars
  <2> QED BY <2>1, <2>2, <2>3, <2>4, <2>5 DEF Next
<1> QED BY <1>1, <1>2, PTL DEF Spec

\* In every behaviour of the queue each variable has its type; in particular the queue and
\* every list a suspended call still holds name entries that were created, whatever was
\* deleted meanwhile.
THEOREM Typing == Spec => []TypeOK
<1>1. TypeInv /\ FinishingTyped => TypeOK
  <2> SUFFICES ASSUME TypeInv, finishing \subseteq Jobs PROVE TypeOK
    BY DEF FinishingTyped
  <2>1. queue \in Seq(Jobs)
    BY TypedMap, WiderSeq DEF TypeInv, QueueTyped
  <2>2. jobs \in [Cards -> Jobs \cup {NoJob}]
    BY TypedMap DEF MapOK
  <2> QED BY <2>1, <2>2, TypedMap DEF TypeInv, IndInv, TasksTyped, EntriesTyped, QueueTyped, CallsTyped, TypeOK
<1> QED BY <1>1, InitTypes, NextTypes, FinishingJobs, PTL DEF Spec

-----------------------------------------------------------------------------
(* What a call does that starts nothing                                    *)

\* Where a call is inside startEntry.
Starting == {"starting", "working", "started"}

Starter(p) == call[p].pc \in Starting

\* The card of the entry a call works on.
CardOf(p) == job[call[p].cur].card

\* A call goes on to an await outside startEntry; a reconcile loop awaits the task of
\* an entry that the map still holds.
MovesOn(p) ==
  LET r == call'[p]
      o == call[p]
  IN /\ r.pc \notin Starting
     /\ r.op = "drop" => o.op = "drop" \/ "delete" \in Disturbances
     /\ r.limit \in {o.limit, limit, 0}
     /\ r.pc = "running" => IsCurrent(jobs', job', r.cur, "running")
     /\ r.pc = "queued" => IsCurrent(jobs', job', r.cur, "queued")
     /\ r.pc \in {"running", "queued"} /\ Prompt => r.read /\ r.got = task[job'[r.cur].card]

\* A call that is an enqueue was that enqueue before.
SameEnqueue(p) ==
  LET r == call'[p]
      o == call[p]
  IN r.op = "enqueue" /\ r.pc # "idle" => /\ o.op = "enqueue" /\ o.pc \notin Starting \cup {"idle"}
                                          /\ SameCall(r, o)

\* The calls other than p are not resumed.
OthersStay(p) == \A q \in Calls : q # p => call'[q] = call[q]

\* Nothing is created or started, and the map only loses entries.
OnlyDeletes == UNCHANGED <<job, made>> /\ Fewer(jobs, jobs')

\* Deleting a key, or nothing, only deletes.
LEMMA OnlyDeletesWithout ==
  ASSUME TypeInv, UNCHANGED <<job, made>>, UNCHANGED jobs \/ \E c : jobs' = Without(jobs, c)
  PROVE  OnlyDeletes
<1>1. jobs = [c \in Cards |-> jobs[c]]
  BY TypedMap DEF MapOK
<1> QED BY <1>1, WithoutFewer DEF OnlyDeletes, Fewer

\* A call set to new locals.
LEMMA SetCall ==
  ASSUME TypeInv, NEW p \in Calls, NEW r, call' = [call EXCEPT ![p] = r]
  PROVE  call'[p] = r /\ OthersStay(p)
  BY TypedCall DEF OthersStay

\* A call that returns moves on.
LEMMA ReturnMoves ==
  ASSUME TypeInv, NEW p \in Calls, Return(p)
  PROVE  MovesOn(p) /\ SameEnqueue(p) /\ OthersStay(p)
<1>1. call'[p] = Idle /\ OthersStay(p)
  BY SetCall DEF Return, Goto
<1>2. Idle.pc = "idle" /\ Idle.op = "snapshot" /\ Idle.limit = 0 /\ Idle.result = NoSession
  BY DEF Idle
<1> QED BY <1>1, <1>2 DEF MovesOn, SameEnqueue, Starting

\* A call that goes on to an await outside the reconcile loops and startEntry.
LEMMA GotoMoves ==
  ASSUME TypeInv, NEW p \in Calls, NEW r, Goto(p, r), r.pc \notin Starting \cup {"running", "queued"},
         SameCall(r, call[p]), r.limit \in {call[p].limit, limit, 0}, call[p].pc \notin Starting \cup {"idle"}
  PROVE  MovesOn(p) /\ SameEnqueue(p) /\ OthersStay(p)
<1>1. call'[p] = r /\ OthersStay(p)
  BY SetCall DEF Goto
<1> QED BY <1>1 DEF MovesOn, SameEnqueue, SameCall

\* The same for a call that waits for its own continuation.
LEMMA AtMoves ==
  ASSUME TypeInv, NEW p \in Calls, NEW pc, NEW j, pc \notin Starting \cup {"running", "queued"},
         Goto(p, At(call[p], pc, j)), call[p].pc \notin Starting \cup {"idle"}
  PROVE  MovesOn(p) /\ SameEnqueue(p) /\ OthersStay(p)
<1> DEFINE r == At(call[p], pc, j)
<1>1. r.pc = pc /\ SameCall(r, call[p]) /\ r.limit = call[p].limit
  BY TypedCall, AtFields DEF SameCall
<1> HIDE DEF r
<1> QED BY <1>1, GotoMoves DEF r

\* The same for a call that awaits a task.
LEMMA AwaitTaskMoves ==
  ASSUME TypeInv, NEW p \in Calls, NEW pc, NEW j, NEW c, pc \notin Starting \cup {"running", "queued"},
         Goto(p, AwaitTask(call[p], pc, j, c)), call[p].pc \notin Starting \cup {"idle"}
  PROVE  MovesOn(p) /\ SameEnqueue(p) /\ OthersStay(p)
<1> DEFINE r == AwaitTask(call[p], pc, j, c)
<1>1. r.pc = pc /\ SameCall(r, call[p]) /\ r.limit = call[p].limit
  BY TypedCall, AwaitTaskFields DEF SameCall
<1> HIDE DEF r
<1> QED BY <1>1, GotoMoves DEF r

\* The same for a call that awaits the limit.
LEMMA AwaitLimitMoves ==
  ASSUME TypeInv, NEW p \in Calls, Goto(p, AwaitLimit(call[p])), call[p].pc \notin Starting \cup {"idle"}
  PROVE  MovesOn(p) /\ SameEnqueue(p) /\ OthersStay(p)
<1> DEFINE r == AwaitLimit(call[p])
<1>1. r.pc = "limit" /\ SameCall(r, call[p]) /\ r.limit \in {limit, 0}
  BY TypedCall, AwaitLimitFields DEF SameCall
<1> HIDE DEF r
<1> QED BY <1>1, GotoMoves DEF r, Starting

\* The reconcile loops.
LEMMA VisitMoves ==
  ASSUME TypeInv, UNCHANGED job, NEW p \in Calls, call[p].pc \notin Starting \cup {"idle"}, NEW r,
         call' = [call EXCEPT ![p] = r],
         \/ \E visit : VisitsRunning(r, call[p], jobs', job, visit)
         \/ \E keep : VisitsQueued(r, call[p], jobs', keep)
  PROVE  MovesOn(p) /\ SameEnqueue(p) /\ OthersStay(p)
<1>1. call'[p] = r /\ OthersStay(p)
  BY SetCall
<1>2. CASE \E visit : VisitsRunning(r, call[p], jobs', job, visit)
  BY <1>1, <1>2 DEF VisitsRunning, MovesOn, SameEnqueue, SameCall, Starting
<1>3. CASE \E keep : VisitsQueued(r, call[p], jobs', keep)
  BY <1>1, <1>3 DEF VisitsQueued, MovesOn, SameEnqueue, SameCall, Starting
<1> QED BY <1>1, <1>2, <1>3

\* reconcileRunningEntries starts nothing.
LEMMA CheckRunningMoves ==
  ASSUME TypeInv, NEW p \in Calls, CheckRunning(p)
  PROVE  MovesOn(p) /\ SameEnqueue(p) /\ OthersStay(p) /\ OnlyDeletes
<1>1. /\ VisitRunning(call, p, jobs', job, call[p].visit) /\ call[p].pc = "running"
  BY DEF CheckRunning
<1>2. PICK r : call' = [call EXCEPT ![p] = r] /\ VisitsRunning(r, call[p], jobs', job, call[p].visit)
  BY <1>1, TypedCall, VisitRunningEffect
<1>3. OnlyDeletes
  <2>1. UNCHANGED <<job, made>> /\ (UNCHANGED jobs \/ jobs' = Without(jobs, job[call[p].cur].card))
    BY DEF CheckRunning, boardVars
  <2> QED BY <2>1, OnlyDeletesWithout
<1> QED BY <1>1, <1>2, <1>3, VisitMoves DEF Starting, OnlyDeletes

\* reconcileQueuedEntries starts nothing.
LEMMA ReconcileQueuedMoves ==
  ASSUME TypeInv, NEW p \in Calls, BeginQueued(p) \/ CheckQueued(p)
  PROVE  MovesOn(p) /\ SameEnqueue(p) /\ OthersStay(p) /\ OnlyDeletes
<1>0. call[p].pc \in {"ranRunning", "queued"}
  BY DEF BeginQueued, CheckQueued
<1>1. OnlyDeletes
  <2>1. UNCHANGED <<job, made>>
    BY DEF BeginQueued, CheckQueued, boardVars
  <2>2. CASE BeginQueued(p)
    BY <2>1, <2>2 DEF OnlyDeletes, Fewer, BeginQueued
  <2>3. CASE CheckQueued(p)
    BY <2>1, <2>3, OnlyDeletesWithout DEF CheckQueued
  <2> QED BY <2>2, <2>3
<1>2. ASSUME NEW rest \in Seq(Jobs), NEW keep, NEW onBoard \in BOOLEAN, VisitQueued(p, jobs', rest, keep, onBoard)
      PROVE  MovesOn(p) /\ SameEnqueue(p) /\ OthersStay(p)
  <2>1. PICK r : Goto(p, r) /\ VisitsQueued(r, call[p], jobs', keep)
    BY <1>2, TypedCall, VisitQueuedEffect
  <2> QED BY <1>0, <1>1, <2>1, VisitMoves DEF Goto, Starting, OnlyDeletes
<1>3. queue \in Seq(Jobs) /\ todo[p] \in Seq(Jobs) /\ shared[p] \in BOOLEAN
  BY TypedMap, WiderSeq DEF TypeInv, QueueTyped
<1>4. CASE BeginQueued(p) /\ queue = <<>>
  <2>1. Goto(p, At(call[p], "reconciled", NoJob))
    BY <1>4 DEF BeginQueued
  <2> QED BY <1>0, <1>1, <2>1, AtMoves DEF Starting
<1>5. CASE BeginQueued(p) /\ queue # <<>>
  <2>1. VisitQueued(p, jobs', queue, <<>>, TRUE)
    BY <1>5 DEF BeginQueued
  <2> QED BY <1>1, <1>2, <1>3, <2>1
<1>6. CASE CheckQueued(p)
  <2>1. \E keep : VisitQueued(p, jobs', todo[p], keep, shared[p])
    BY <1>6 DEF CheckQueued
  <2> QED BY <1>1, <1>2, <1>3, <2>1
<1> QED BY <1>4, <1>5, <1>6

\* enqueue starts nothing before it has the limit.
LEMMA EnqueueMoves ==
  ASSUME TypeInv, NEW p \in Calls, EnqueueExisting(p) \/ EnqueueReplace(p)
  PROVE  MovesOn(p) /\ SameEnqueue(p) /\ OthersStay(p) /\ OnlyDeletes
<1>0. call[p].pc \in {"reconciled", "existing"}
  BY DEF EnqueueExisting, EnqueueReplace
<1>1. OnlyDeletes
  <2>1. UNCHANGED <<job, made>> /\ (UNCHANGED jobs \/ jobs' = Without(jobs, call[p].card))
    BY DEF EnqueueExisting, EnqueueReplace, boardVars
  <2> QED BY <2>1, OnlyDeletesWithout
<1>2. \/ Goto(p, AwaitLimit(call[p])) \/ Goto(p, AwaitTask(call[p], "existing", NoJob, call[p].card)) \/ Return(p)
  BY DEF EnqueueExisting, EnqueueReplace
<1>3. CASE Goto(p, AwaitLimit(call[p]))
  BY <1>0, <1>1, <1>3, AwaitLimitMoves DEF Starting
<1>4. CASE Goto(p, AwaitTask(call[p], "existing", NoJob, call[p].card))
  BY <1>0, <1>1, <1>4, AwaitTaskMoves DEF Starting
<1> QED BY <1>1, <1>2, <1>3, <1>4, ReturnMoves

\* drainQueue starts nothing in these steps.
LEMMA DrainMoves ==
  ASSUME TypeInv, NEW p \in Calls, DrainLimit(p) \/ DrainLoop(p) \/ DrainUnlink(p) \/ DrainDrop(p)
  PROVE  MovesOn(p) /\ SameEnqueue(p) /\ OthersStay(p) /\ OnlyDeletes
<1>0. call[p].pc \in {"reconciled", "limit", "loop", "head"}
  BY DEF DrainLimit, DrainLoop, DrainUnlink, DrainDrop
<1>1. OnlyDeletes
  <2>1. UNCHANGED <<job, made>> /\ (UNCHANGED jobs \/ jobs' = Without(jobs, job[call[p].cur].card))
    BY DEF DrainLimit, DrainLoop, DrainUnlink, DrainDrop, boardVars
  <2> QED BY <2>1, OnlyDeletesWithout
<1>2. \/ Goto(p, AwaitLimit(call[p])) \/ Return(p)
      \/ \E j, c : Goto(p, AwaitTask(call[p], "head", j, c))
  <2>1. (\E js, q : DrainNext(p, js, q)) => Return(p) \/ \E j, c : Goto(p, AwaitTask(call[p], "head", j, c))
    BY DEF DrainNext
  <2>2. DrainLoop(p) \/ DrainUnlink(p) \/ DrainDrop(p) => \E js, q : DrainNext(p, js, q)
    BY DEF DrainLoop, DrainUnlink, DrainDrop
  <2> QED BY <2>1, <2>2 DEF DrainLimit
<1>3. CASE Goto(p, AwaitLimit(call[p]))
  BY <1>0, <1>1, <1>3, AwaitLimitMoves DEF Starting
<1>4. CASE \E j, c : Goto(p, AwaitTask(call[p], "head", j, c))
  BY <1>0, <1>1, <1>4, AwaitTaskMoves DEF Starting
<1> QED BY <1>1, <1>2, <1>3, <1>4, ReturnMoves

\* getBoardSnapshot and dropQueuedCardJob start nothing.
LEMMA SnapshotMoves ==
  ASSUME TypeInv, NEW p \in Calls, SnapshotTaken(p) \/ DropListed(p)
  PROVE  MovesOn(p) /\ SameEnqueue(p) /\ OthersStay(p) /\ OnlyDeletes
<1>0. call[p].pc \in {"reconciled", "drop"}
  BY DEF SnapshotTaken, DropListed
<1>1. OnlyDeletes
  <2>1. UNCHANGED <<job, made>> /\ (UNCHANGED jobs \/ jobs' = Without(jobs, call[p].card))
    BY DEF SnapshotTaken, DropListed, RemoveJobOf, boardVars
  <2> QED BY <2>1, OnlyDeletesWithout
<1>2. Return(p) \/ Goto(p, At(call[p], "drop", NoJob))
  BY DEF SnapshotTaken, DropListed
<1>3. CASE Goto(p, At(call[p], "drop", NoJob))
  BY <1>0, <1>1, <1>3, AtMoves DEF Starting
<1> QED BY <1>1, <1>2, <1>3, ReturnMoves

\* An answered limit.
LEMMA ReadLimitMoves ==
  ASSUME TypeInv, NEW p \in Calls, ReadLimit(p)
  PROVE  MovesOn(p) /\ SameEnqueue(p) /\ OthersStay(p) /\ OnlyDeletes
<1> DEFINE o == call[p]
           yes == TRUE
           r == [o EXCEPT !.read = yes, !.limit = limit]
<1>1. Goto(p, r) /\ LocalShape(o) /\ o.pc = "limit"
  BY TypedCall DEF ReadLimit
<1>2. OnlyDeletes
  <2>1. UNCHANGED <<job, made, jobs>>
    BY DEF ReadLimit, boardVars
  <2> QED BY <2>1, OnlyDeletesWithout
<1> HIDE DEF yes
<1>3. r.pc = "limit" /\ r.limit = limit /\ SameCall(r, o)
  BY <1>1 DEF LocalShape, SameCall
<1> HIDE DEF r
<1> QED BY <1>1, <1>2, <1>3, GotoMoves DEF Starting

\* A call that begins.
LEMMA BeginMoves ==
  ASSUME TypeInv, NEW p \in Calls, NEW calls, calls = [q \in Calls |-> calls[q]], NEW op, NEW c, NEW lane, NEW force,
         op # "drop" \/ "delete" \in Disturbances,
         Begin(calls, p, op, c, lane, force, jobs', job')
  PROVE  /\ MovesOn(p) /\ \A q \in Calls : q # p => call'[q] = calls[q]
         /\ LET r == call'[p]
            IN r.op = op /\ r.card = c /\ r.lane = lane /\ r.force = force /\ r.pc \in {"ranRunning", "running"}
<1> DEFINE js == jobs'
           es == job'
<1>0. Begin(calls, p, op, c, lane, force, js, es)
  OBVIOUS
<1> HIDE DEF js, es
<1>1. PICK r : call' = [calls EXCEPT ![p] = r] /\ Begun(r, op, c, lane, force, js, es)
  BY <1>0, BeginEffect
<1>2. call'[p] = r /\ \A q \in Calls : q # p => call'[q] = calls[q]
  BY <1>1
<1> DEFINE f == Fresh(op, c, lane, force)
<1>3. f.op = op /\ f.card = c /\ f.lane = lane /\ f.force = force /\ f.limit = 0
  BY DEF Fresh, Idle
<1> HIDE DEF f
<1>4. /\ r.op = op /\ r.card = c /\ r.lane = lane /\ r.force = force /\ r.limit = 0
      /\ r.pc \in {"ranRunning", "running"}
      /\ r.pc = "running" => IsCurrent(js, es, r.cur, "running")
      /\ r.pc = "running" /\ Prompt => r.read /\ r.got = task[es[r.cur].card]
  BY <1>1, <1>3 DEF Begun, VisitsRunning, SameCall, f
<1>5. MovesOn(p)
  BY <1>2, <1>4 DEF MovesOn, Starting, js, es
<1> QED BY <1>2, <1>4, <1>5

\* A new operation of the queue, and the drain at the end of a session.
LEMMA NewCallMoves ==
  ASSUME TypeInv, NEW p \in Calls,
         \/ Snapshot(p) \/ \E c \in Cards : DropQueuedCardJob(p, c)
         \/ \E s \in Jobs : SessionEnds(p, s)
  PROVE  MovesOn(p) /\ SameEnqueue(p) /\ OthersStay(p) /\ OnlyDeletes
<1>1. OnlyDeletes
  <2>1. UNCHANGED <<job, made>> /\ (UNCHANGED jobs \/ \E c : jobs' = Without(jobs, c))
    BY DEF Snapshot, DropQueuedCardJob, SessionEnds, boardVars
  <2> QED BY <2>1, OnlyDeletesWithout
<1> DEFINE Begins(op, c) == /\ Begin(call, p, op, c, BlockedLane, FALSE, jobs', job')
                            /\ op # "enqueue" /\ (op # "drop" \/ "delete" \in Disturbances)
<1>2. \E op, c : Begins(op, c)
  <2>1. CASE Snapshot(p)
    <3>1. Begins("snapshot", NoCard)
      BY <2>1 DEF Snapshot
    <3> HIDE DEF Begins
    <3> QED BY <3>1
  <2>2. ASSUME NEW c \in Cards, DropQueuedCardJob(p, c) PROVE Begins("drop", c)
    BY <2>2 DEF DropQueuedCardJob
  <2>3. ASSUME NEW s \in Jobs, SessionEnds(p, s) PROVE Begins("drain", NoCard)
    BY <2>3 DEF SessionEnds, BeginDrain
  <2> HIDE DEF Begins
  <2> QED BY <2>1, <2>2, <2>3
<1>3. call = [q \in Calls |-> call[q]]
  BY TypedCall
<1>4. PICK op, c : Begins(op, c)
  BY <1>2
<1>5. MovesOn(p) /\ OthersStay(p) /\ call'[p].op = op
  <2> DEFINE lane == BlockedLane
             force == FALSE
  <2>1. Begin(call, p, op, c, lane, force, jobs', job') /\ (op # "drop" \/ "delete" \in Disturbances)
    BY <1>4
  <2> HIDE DEF lane, force
  <2>2. MovesOn(p) /\ (\A q \in Calls : q # p => call'[q] = call[q]) /\ call'[p].op = op
    BY <1>3, <2>1, BeginMoves
  <2> QED BY <2>2 DEF OthersStay
<1> QED BY <1>1, <1>4, <1>5 DEF SameEnqueue

-----------------------------------------------------------------------------
(* One call works on a card                                                *)

\* An enqueue that may still create a job has its card for itself: the map holds nothing,
\* no other enqueue and no start is about the card.
EnteringAlone ==
  \A p \in Entering :
    LET c == call[p].card
    IN /\ jobs[c] = NoJob
       /\ \A q \in Entering : call[q].card = c => q = p
       /\ \A q \in Calls : Starter(q) => CardOf(q) # c
       /\ call[p].force \/ task[c].trigger = NoSession

StartersApart == \A p, q \in Calls : Starter(p) /\ Starter(q) /\ CardOf(p) = CardOf(q) => p = q

\* The map holds nothing but the entry being started; the session that the start answers is
\* the entry's own, since an entry that was not forced has found its card without one.
StarterOK(p) ==
  LET i == call[p].cur
      c == job[i].card
  IN /\ jobs[c] \in {i, NoJob}
     /\ job[i].status = "running" /\ job[i].session = NoSession
     /\ call[p].pc = "started" => call[p].result \in {NoSession, i}
     /\ call[p].pc = "starting" /\ ~ job[i].force => /\ task[c].trigger = NoSession
                                                     /\ call[p].read => call[p].got.trigger = NoSession

\* An entry's session is its own, and it has one only after its start.
SessionsOwn == \A j \in Jobs : /\ job[j].session \in {NoSession, j}
                               /\ job[j].status = "queued" => job[j].session = NoSession

QueuedFree ==
  \A c \in Cards : jobs[c] # NoJob /\ job[jobs[c]].status = "queued" /\ ~ job[jobs[c]].force
                     => task[c].trigger = NoSession

AloneInv ==
  /\ EnteringAlone
  /\ StartersApart
  /\ \A p \in Calls : Starter(p) => StarterOK(p)
  /\ SessionsOwn
  /\ QueuedFree

\* A session that a start answers, and one that the map knows, has not ended.
ActiveInv ==
  /\ EndedFreesSlot
  /\ \A p \in Calls : call[p].pc = "started" /\ call[p].result # NoSession => call[p].result \in active

Quiet == OnlyDeletes /\ \A p \in Calls : call'[p] = call[p] \/ MovesOn(p)

SameEnqueues == \A p \in Calls : call'[p] = call[p] \/ SameEnqueue(p)

TriggersCleared == \A c \in Cards : task'[c].trigger \in {task[c].trigger, NoSession}

\* The card of an enqueue is a card, and that of an entry at work too.
LEMMA WorkedCards ==
  ASSUME TypeInv
  PROVE  /\ \A p \in Entering : p \in Calls /\ call[p].card \in Cards
         /\ \A p \in Calls : call[p].pc \in OnEntry => call[p].cur \in 1 .. made /\ call[p].cur \in Jobs /\ CardOf(p) \in Cards
         /\ \A c \in Cards : jobs[c] # NoJob => jobs[c] \in 1 .. made /\ jobs[c] \in Jobs /\ job[jobs[c]].card = c
  BY TypedCall, TypedMap DEF Entering, CallTyped, CardOf, MapOK

\* In a quiet step an enqueue keeps its card for itself.
LEMMA QuietEntering ==
  ASSUME TypeInv, EnteringAlone, Quiet, SameEnqueues, TriggersCleared
  PROVE  EnteringAlone'
<1>1. \A p \in Entering' : p \in Entering /\ call'[p].card = call[p].card /\ call'[p].force = call[p].force
  BY DEF SameEnqueues, SameEnqueue, SameCall, Entering, Starting
<1>2. \A q \in Calls : Starter(q)' => Starter(q) /\ CardOf(q)' = CardOf(q)
  BY DEF Quiet, MovesOn, Starter, CardOf, OnlyDeletes
<1>3. \A c \in Cards : jobs[c] = NoJob => jobs'[c] = NoJob
  BY DEF Quiet, OnlyDeletes, Fewer
<1>4. ASSUME NEW p \in Entering'
      PROVE  /\ jobs'[call'[p].card] = NoJob
             /\ \A q \in Entering' : call'[q].card = call'[p].card => q = p
             /\ \A q \in Calls : Starter(q)' => CardOf(q)' # call'[p].card
             /\ call'[p].force \/ task'[call'[p].card].trigger = NoSession
  <2>1. p \in Entering /\ call'[p].card = call[p].card /\ call'[p].force = call[p].force /\ call[p].card \in Cards
    BY <1>1, WorkedCards
  <2>2. /\ jobs[call[p].card] = NoJob
        /\ \A q \in Entering : call[q].card = call[p].card => q = p
        /\ \A q \in Calls : Starter(q) => CardOf(q) # call[p].card
        /\ call[p].force \/ task[call[p].card].trigger = NoSession
    BY <2>1 DEF EnteringAlone
  <2>3. task[call[p].card].trigger = NoSession => task'[call[p].card].trigger = NoSession
    BY <2>1 DEF TriggersCleared
  <2> QED BY <1>1, <1>2, <1>3, <2>1, <2>2, <2>3
<1> QED BY <1>4 DEF EnteringAlone

\* In a quiet step the other parts of the invariant are kept.
LEMMA QuietRest ==
  ASSUME TypeInv, AloneInv, EnteringAlone', Quiet, TriggersCleared
  PROVE  AloneInv'
<1>1. \A q \in Calls : Starter(q)' => Starter(q) /\ CardOf(q)' = CardOf(q) /\ call'[q] = call[q]
  BY DEF Quiet, MovesOn, Starter, CardOf, OnlyDeletes
<1>2. StartersApart'
  BY <1>1 DEF AloneInv, StartersApart
<1>3. job' = job /\ \A c \in Cards : jobs'[c] \in {jobs[c], NoJob}
  BY DEF Quiet, OnlyDeletes, Fewer
<1>4. ASSUME NEW p \in Calls, Starter(p)' PROVE StarterOK(p)'
  <2>1. Starter(p) /\ call'[p] = call[p] /\ StarterOK(p)
    BY <1>1, <1>4 DEF AloneInv
  <2>2. CardOf(p) \in Cards
    BY <2>1, WorkedCards DEF Starter, Starting, OnEntry
  <2>3. jobs'[CardOf(p)] \in {jobs[CardOf(p)], NoJob} /\ task'[CardOf(p)].trigger \in {task[CardOf(p)].trigger, NoSession}
    BY <1>3, <2>2 DEF TriggersCleared
  <2> QED BY <1>3, <2>1, <2>3 DEF StarterOK, CardOf
<1>5. SessionsOwn'
  BY <1>3 DEF AloneInv, SessionsOwn
<1>6. QueuedFree'
  BY <1>3 DEF AloneInv, QueuedFree, TriggersCleared
<1> QED BY <1>2, <1>4, <1>5, <1>6 DEF AloneInv

\* A quiet step in which no enqueue begins keeps the invariant.
LEMMA QuietAlone ==
  ASSUME TypeInv, AloneInv, Quiet, SameEnqueues, TriggersCleared
  PROVE  AloneInv'
  BY QuietEntering, QuietRest DEF AloneInv

\* A quiet step that ends no session keeps the sessions of starts and entries active.
LEMMA QuietActive ==
  ASSUME TypeInv, ActiveInv, Quiet, UNCHANGED active
  PROVE  ActiveInv'
<1>1. \A c \in RunningCards(jobs', job') : c \in RunningCards(jobs, job) /\ jobs'[c] = jobs[c] /\ job' = job
  BY DEF RunningCards, Quiet, OnlyDeletes, Fewer
<1>2. \A p \in Calls : call'[p].pc = "started" => call'[p] = call[p]
  BY DEF Quiet, MovesOn, Starting
<1>3. EndedFreesSlot'
  BY <1>1 DEF ActiveInv, EndedFreesSlot
<1> QED BY <1>2, <1>3 DEF ActiveInv

\* A step of call p about card c leaves the other cards, and the entries of other cards, alone.
Frame(p, c) ==
  /\ OthersStay(p)
  /\ \A d \in Cards : d # c => jobs'[d] = jobs[d] /\ task'[d].trigger \in {task[d].trigger, NoSession}
  /\ \A k \in 1 .. made : /\ job'[k].card = job[k].card
                          /\ job[k].card # c => job'[k] = job[k]

\* No call but p enqueues or starts card c.
Alone(p, c) ==
  /\ \A q \in Entering : q # p => call[q].card # c
  /\ \A q \in Calls : Starter(q) /\ q # p => CardOf(q) # c

\* An enqueue that may still create a job is alone with its card.
LEMMA EnteringIsAlone ==
  ASSUME EnteringAlone, NEW p \in Entering
  PROVE  Alone(p, call[p].card) /\ jobs[call[p].card] = NoJob
  BY DEF EnteringAlone, Alone, Entering, Starter, Starting

\* So is a call inside startEntry.
LEMMA StarterIsAlone ==
  ASSUME TypeInv, AloneInv, NEW p \in Calls, Starter(p)
  PROVE  Alone(p, CardOf(p)) /\ StarterOK(p) /\ p \notin Entering
  BY DEF AloneInv, EnteringAlone, StartersApart, Alone, Entering, Starter, Starting

\* A step of one call about a card that no other call works on.
LEMMA FrameAlone ==
  ASSUME TypeInv, AloneInv, NEW p \in Calls, NEW c \in Cards, Frame(p, c), Alone(p, c),
         ~ (call'[p].op = "enqueue" /\ call'[p].pc \notin {"idle", "starting", "working", "started"}),
         Starter(p)' => CardOf(p)' = c /\ StarterOK(p)',
         SessionsOwn',
         jobs'[c] # NoJob /\ job'[jobs'[c]].status = "queued" /\ ~ job'[jobs'[c]].force => task'[c].trigger = NoSession
  PROVE  AloneInv'
<1>1. \A q \in Entering' : q # p /\ q \in Entering /\ call'[q] = call[q] /\ call[q].card \in Cards \ {c}
  BY WorkedCards DEF Entering, Frame, OthersStay, Alone
<1>2. ASSUME NEW q \in Calls, q # p, Starter(q)'
      PROVE  /\ Starter(q) /\ call'[q] = call[q] /\ CardOf(q)' = CardOf(q) /\ CardOf(q) \in Cards \ {c}
             /\ job'[call[q].cur] = job[call[q].cur]
  <2>1. Starter(q) /\ call'[q] = call[q]
    BY <1>2 DEF Frame, OthersStay, Starter
  <2>2. call[q].cur \in 1 .. made /\ CardOf(q) \in Cards
    BY <2>1, WorkedCards DEF Starter, Starting, OnEntry
  <2>3. CardOf(q) # c
    BY <1>2, <2>1 DEF Alone
  <2> QED BY <2>1, <2>2, <2>3 DEF Frame, CardOf
<1>3. EnteringAlone'
  <2>1. ASSUME NEW q \in Entering'
        PROVE  /\ jobs'[call'[q].card] = NoJob
               /\ \A r \in Entering' : call'[r].card = call'[q].card => r = q
               /\ \A r \in Calls : Starter(r)' => CardOf(r)' # call'[q].card
               /\ call'[q].force \/ task'[call'[q].card].trigger = NoSession
    <3>1. /\ jobs[call[q].card] = NoJob
          /\ \A r \in Entering : call[r].card = call[q].card => r = q
          /\ \A r \in Calls : Starter(r) => CardOf(r) # call[q].card
          /\ call[q].force \/ task[call[q].card].trigger = NoSession
      BY <1>1 DEF AloneInv, EnteringAlone
    <3>2. \A r \in Calls : Starter(r)' => CardOf(r)' # call[q].card
      BY <1>1, <1>2, <3>1
    <3>3. jobs'[call[q].card] = jobs[call[q].card] /\ task'[call[q].card].trigger \in {task[call[q].card].trigger, NoSession}
      BY <1>1 DEF Frame
    <3> QED BY <1>1, <3>1, <3>2, <3>3
  <2> QED BY <2>1 DEF EnteringAlone
<1>4. StartersApart'
  <2>1. ASSUME NEW q \in Calls, NEW r \in Calls, Starter(q)', Starter(r)', CardOf(q)' = CardOf(r)' PROVE q = r
    <3>1. CASE q = p \/ r = p
      BY <1>2, <2>1, <3>1
    <3>2. CASE q # p /\ r # p
      BY <1>2, <2>1, <3>2 DEF AloneInv, StartersApart
    <3> QED BY <3>1, <3>2
  <2> QED BY <2>1 DEF StartersApart
<1>5. ASSUME NEW q \in Calls, Starter(q)' PROVE StarterOK(q)'
  <2>1. CASE q = p
    BY <1>5, <2>1
  <2>2. CASE q # p
    <3>1. StarterOK(q) /\ call'[q] = call[q] /\ job'[call[q].cur] = job[call[q].cur] /\ CardOf(q) \in Cards \ {c}
      BY <1>2, <1>5, <2>2 DEF AloneInv
    <3>2. jobs'[CardOf(q)] = jobs[CardOf(q)] /\ task'[CardOf(q)].trigger \in {task[CardOf(q)].trigger, NoSession}
      BY <3>1 DEF Frame
    <3> QED BY <3>1, <3>2 DEF StarterOK, CardOf
  <2> QED BY <2>1, <2>2
<1>6. QueuedFree'
  <2>1. ASSUME NEW d \in Cards, jobs'[d] # NoJob, job'[jobs'[d]].status = "queued", ~ job'[jobs'[d]].force
        PROVE  task'[d].trigger = NoSession
    <3>1. CASE d = c
      BY <2>1, <3>1
    <3>2. CASE d # c
      <4>1. jobs'[d] = jobs[d] /\ task'[d].trigger \in {task[d].trigger, NoSession}
        BY <3>2 DEF Frame
      <4>2. job'[jobs[d]] = job[jobs[d]]
        BY <2>1, <3>2, <4>1, WorkedCards DEF Frame
      <4> QED BY <2>1, <4>1, <4>2 DEF AloneInv, QueuedFree
    <3> QED BY <3>1, <3>2
  <2> QED BY <2>1 DEF QueuedFree
<1> QED BY <1>3, <1>4, <1>5, <1>6 DEF AloneInv

\* The same for the sessions, when the step ends none.
LEMMA FrameActive ==
  ASSUME TypeInv, ActiveInv, NEW p \in Calls, NEW c \in Cards, Frame(p, c), active \subseteq active',
         jobs'[c] # NoJob /\ job'[jobs'[c]].status = "running" => job'[jobs'[c]].session \in active' \cup {NoSession},
         call'[p].pc = "started" /\ call'[p].result # NoSession => call'[p].result \in active'
  PROVE  ActiveInv'
<1>1. ASSUME NEW d \in Cards, jobs'[d] # NoJob, job'[jobs'[d]].status = "running"
      PROVE  job'[jobs'[d]].session \in active' \cup {NoSession}
  <2>1. CASE d = c
    BY <1>1, <2>1
  <2>2. CASE d # c
    <3>1. jobs'[d] = jobs[d]
      BY <2>2 DEF Frame
    <3>2. job'[jobs[d]] = job[jobs[d]]
      BY <1>1, <2>2, <3>1, WorkedCards DEF Frame
    <3> QED BY <1>1, <3>1, <3>2 DEF ActiveInv, EndedFreesSlot, RunningCards
  <2> QED BY <2>1, <2>2
<1>2. EndedFreesSlot'
  BY <1>1 DEF EndedFreesSlot, RunningCards
<1>3. ASSUME NEW q \in Calls, call'[q].pc = "started", call'[q].result # NoSession PROVE call'[q].result \in active'
  <2>1. CASE q = p
    BY <1>3, <2>1
  <2>2. CASE q # p
    BY <1>3, <2>2 DEF Frame, OthersStay, ActiveInv
  <2> QED BY <2>1, <2>2
<1> QED BY <1>2, <1>3 DEF ActiveInv

-----------------------------------------------------------------------------
(* The steps                                                               *)

\* A step of one call that starts nothing and stores nothing.
LEMMA QuietCall ==
  ASSUME TypeInv, AloneInv, UNCHANGED <<task, active>>, NEW p \in Calls,
         MovesOn(p), SameEnqueue(p), OthersStay(p), OnlyDeletes
  PROVE  AloneInv' /\ (ActiveInv => ActiveInv')
<1>1. Quiet /\ SameEnqueues /\ TriggersCleared
  BY DEF Quiet, SameEnqueues, TriggersCleared, OthersStay
<1> QED BY <1>1, QuietAlone, QuietActive

\* The steps of a call that start nothing.
LEMMA QuietSteps ==
  ASSUME TypeInv, AloneInv, NEW p \in Calls,
         \/ ReadLimit(p) \/ CheckRunning(p) \/ BeginQueued(p) \/ CheckQueued(p)
         \/ EnqueueExisting(p) \/ EnqueueReplace(p)
         \/ DrainLimit(p) \/ DrainLoop(p) \/ DrainUnlink(p) \/ DrainDrop(p)
         \/ SnapshotTaken(p) \/ DropListed(p)
         \/ Snapshot(p) \/ \E c \in Cards : DropQueuedCardJob(p, c)
  PROVE  AloneInv' /\ (ActiveInv => ActiveInv')
<1>1. UNCHANGED <<task, active>>
  BY DEF ReadLimit, CheckRunning, BeginQueued, CheckQueued, EnqueueExisting, EnqueueReplace, DrainLimit, DrainLoop,
         DrainUnlink, DrainDrop, SnapshotTaken, DropListed, Snapshot, DropQueuedCardJob, boardVars
<1>2. MovesOn(p) /\ SameEnqueue(p) /\ OthersStay(p) /\ OnlyDeletes
  BY ReadLimitMoves, CheckRunningMoves, ReconcileQueuedMoves, EnqueueMoves, DrainMoves, SnapshotMoves, NewCallMoves
<1> QED BY <1>1, <1>2, QuietCall

\* The end of a session frees the slot of the one entry that ran it.
LEMMA SessionEndsAlone ==
  ASSUME TypeInv, AloneInv, NEW p \in Calls, NEW s \in Jobs, SessionEnds(p, s)
  PROVE  AloneInv' /\ (ActiveInv => ActiveInv')
<1>1. MovesOn(p) /\ SameEnqueue(p) /\ OthersStay(p) /\ OnlyDeletes
  BY NewCallMoves
<1>2. Quiet /\ SameEnqueues /\ TriggersCleared
  BY <1>1 DEF Quiet, SameEnqueues, TriggersCleared, OthersStay, SessionEnds
<1>3. PICK d \in RunningCards(jobs, job) : job[jobs[d]].session = s /\ jobs' = Without(jobs, d) /\ active' = active \ {s}
  BY DEF SessionEnds, LifecycleEvent
<1>4. s # NoSession /\ d \in Cards /\ jobs[d] = s /\ job[s].session = s
  BY <1>3, WorkedCards DEF AloneInv, SessionsOwn, RunningCards, Jobs, NoSession
<1>5. ASSUME ActiveInv, NEW c \in RunningCards(jobs', job') PROVE job'[jobs'[c]].session \in active' \cup {NoSession}
  <2>1. c \in RunningCards(jobs, job) /\ c # d /\ jobs'[c] = jobs[c] /\ job' = job /\ jobs[c] \in Jobs
    BY <1>1, <1>3, <1>5, WorkedCards, TypedMap DEF RunningCards, OnlyDeletes, Fewer, Without, MapOK
  <2>2. job[jobs[c]].session # s
    BY <1>4, <2>1, WorkedCards DEF AloneInv, SessionsOwn, RunningCards
  <2> QED BY <1>3, <1>5, <2>1, <2>2 DEF ActiveInv, EndedFreesSlot
<1>6. ASSUME ActiveInv, NEW q \in Calls, call'[q].pc = "started", call'[q].result # NoSession PROVE call'[q].result \in active'
  <2>1. call'[q] = call[q] /\ StarterOK(q) /\ call[q].cur \in Jobs
    BY <1>2, <1>6, WorkedCards DEF Quiet, MovesOn, Starting, AloneInv, Starter, OnEntry
  <2>2. call[q].result = call[q].cur /\ call[q].result # s
    BY <1>4, <1>6, <2>1 DEF StarterOK
  <2> QED BY <1>3, <1>6, <2>1, <2>2 DEF ActiveInv
<1> QED BY <1>2, <1>5, <1>6, QuietAlone DEF ActiveInv, EndedFreesSlot

\* A refused start frees the card's slot.
LEMMA StartRefusedAlone ==
  ASSUME TypeInv, AloneInv, NEW p \in Calls, NEW q \in Calls, StartRefused(p, q)
  PROVE  AloneInv' /\ (ActiveInv => ActiveInv') /\ Quiet /\ SameEnqueues /\ ~ Starter(p)'
<1> DEFINE a == At(call[p], "loop", NoJob)
           calls == [call EXCEPT ![p] = a]
<1>0. /\ UNCHANGED <<task, active, job, made>> /\ jobs' = Without(jobs, CardOf(p))
      /\ Begin(calls, q, "drain", NoCard, BlockedLane, FALSE, jobs', job')
      /\ IF call[p].op = "drain" THEN q # p ELSE q = p
  BY DEF StartRefused, BeginDrain, boardVars, CardOf
<1>1. OnlyDeletes
  BY <1>0, OnlyDeletesWithout
<1>2. a.pc = "loop" /\ a.op = call[p].op /\ a.limit = call[p].limit
  BY TypedCall, AtFields
<1>3. calls = [r \in Calls |-> calls[r]] /\ calls[p] = a /\ \A r \in Calls : r # p => calls[r] = call[r]
  BY TypedCall
<1> HIDE DEF calls, a
<1>4. /\ MovesOn(q) /\ \A r \in Calls : r # q => call'[r] = calls[r]
      /\ call'[q].op = "drain"
  <2> DEFINE op == "drain"
             c == NoCard
             lane == BlockedLane
             force == FALSE
  <2>1. Begin(calls, q, op, c, lane, force, jobs', job') /\ op # "drop"
    BY <1>0
  <2> HIDE DEF op, c, lane, force
  <2>2. MovesOn(q) /\ (\A r \in Calls : r # q => call'[r] = calls[r]) /\ call'[q].op = op
    BY <1>3, <2>1, BeginMoves
  <2> QED BY <2>2 DEF op
<1>5. ASSUME q # p PROVE MovesOn(p) /\ SameEnqueue(p)
  BY <1>0, <1>2, <1>3, <1>4, <1>5 DEF MovesOn, SameEnqueue, Starting
<1>6. Quiet /\ SameEnqueues /\ TriggersCleared
  BY <1>0, <1>1, <1>3, <1>4, <1>5 DEF Quiet, SameEnqueues, TriggersCleared, SameEnqueue
<1>7. ~ Starter(p)'
  BY <1>0, <1>4, <1>5 DEF MovesOn, Starter
<1> QED BY <1>0, <1>6, <1>7, QuietAlone, QuietActive

\* The rest of the system clears triggers; a session that it ends unnoticed is not one that a
\* start is about to report.
LEMMA EnvironmentAlone ==
  ASSUME TypeInv, AloneInv, Environment
  PROVE  AloneInv' /\ (ActiveInv /\ "early" \notin Disturbances => ActiveInv')
<1>0. UNCHANGED <<job, made, call>>
  BY DEF Environment, SessionEndsUnnoticed, RemoveCardJob, DeleteTask, ToggleHold, ClearTrigger, MoveCard, SetLimit, EditTask
<1>1. OnlyDeletes
  BY <1>0, OnlyDeletesWithout DEF Environment, SessionEndsUnnoticed, RemoveCardJob, RemoveJobOf, DeleteTask, ToggleHold,
     ClearTrigger, MoveCard, SetLimit, EditTask
<1>2. TriggersCleared
  <2>1. ASSUME NEW d \in Cards, NEW t \in Task, EditTask(d, t), t.trigger \in {task[d].trigger, NoSession} PROVE TriggersCleared
    BY <2>1, TypedMap DEF EditTask, TriggersCleared
  <2>2. ASSUME NEW d \in Cards, DeleteTask(d) \/ ToggleHold(d) \/ ClearTrigger(d) \/ \E l \in Lanes : MoveCard(d, l)
        PROVE  TriggersCleared
    <3> DEFINE t == task[d]
    <3>0. t \in Task /\ BlankTask \in Task /\ BlankTask.trigger = NoSession
      BY TypedMap, BlankTyped DEF BlankTask
    <3>1. PICK u : EditTask(d, u) /\ \/ u = BlankTask \/ u = [t EXCEPT !.hold = ~ t.hold] \/ u = [t EXCEPT !.trigger = NoSession]
                                     \/ \E l \in Lanes : u = [t EXCEPT !.lane = l, !.trigger = NoSession]
      BY <2>2 DEF DeleteTask, ToggleHold, ClearTrigger, MoveCard
    <3> HIDE DEF t
    <3>2. u.trigger \in {t.trigger, NoSession}
      BY <3>0, <3>1 DEF Task
    <3> QED BY <3>1, <3>2, TypedMap DEF EditTask, TriggersCleared, t
  <2>3. (\E s \in Jobs : SessionEndsUnnoticed(s)) \/ (\E d \in Cards : RemoveCardJob(d)) \/ (\E n \in Limits : SetLimit(n))
        => task' = task
    BY DEF SessionEndsUnnoticed, RemoveCardJob, SetLimit, boardVars
  <2> QED BY <2>2, <2>3 DEF Environment, TriggersCleared
<1>3. Quiet /\ SameEnqueues
  BY <1>0, <1>1 DEF Quiet, SameEnqueues
<1>4. ASSUME ActiveInv, "early" \notin Disturbances, NEW s \in Jobs, SessionEndsUnnoticed(s) PROVE ActiveInv'
  <2>1. /\ active' = active \ {s} /\ UNCHANGED <<jobs, job, call>>
        /\ \A c \in RunningCards(jobs, job) : job[jobs[c]].session # s
        /\ \A q \in Calls : call[q].result # s
    BY <1>4 DEF SessionEndsUnnoticed, LifecycleEvent
  <2> QED BY <1>4, <2>1 DEF ActiveInv, EndedFreesSlot
<1>5. UNCHANGED active \/ \E s \in Jobs : SessionEndsUnnoticed(s)
  BY DEF Environment, RemoveCardJob, DeleteTask, ToggleHold, ClearTrigger, MoveCard, SetLimit, EditTask, boardVars
<1> QED BY <1>2, <1>3, <1>4, <1>5, QuietAlone, QuietActive

\* An enqueue is let in only for a card that no call works on.
LEMMA EnqueueAlone ==
  ASSUME TypeInv, AloneInv, "again" \notin Disturbances, NEW p \in Calls, NEW c \in Cards, NEW f \in Forced, Enqueue(p, c, f)
  PROVE  /\ AloneInv' /\ (ActiveInv => ActiveInv')
         /\ Quiet /\ OthersStay(p) /\ MovesOn(p)
         /\ LET r == call'[p] IN r.op = "enqueue" /\ r.card = c /\ r.lane = task[c].lane /\ r.force = f /\ r.pc \in {"ranRunning", "running"}
<1>0. /\ UNCHANGED <<task, active, jobs, job, made>> /\ call[p].pc = "idle" /\ ~ Busy(c)
      /\ Begin(call, p, "enqueue", c, task[c].lane, f, jobs', job')
      /\ task[c].trigger = NoSession \/ f
  BY DEF Enqueue, boardVars
<1>1. /\ MovesOn(p) /\ OthersStay(p)
      /\ LET r == call'[p] IN r.op = "enqueue" /\ r.card = c /\ r.lane = task[c].lane /\ r.force = f /\ r.pc \in {"ranRunning", "running"}
  <2> DEFINE op == "enqueue"
             lane == task[c].lane
  <2>1. Begin(call, p, op, c, lane, f, jobs', job') /\ op # "drop" /\ call = [q \in Calls |-> call[q]]
    BY <1>0, TypedCall
  <2> HIDE DEF op, lane
  <2>2. /\ MovesOn(p) /\ (\A q \in Calls : q # p => call'[q] = call[q])
        /\ LET r == call'[p] IN r.op = op /\ r.card = c /\ r.lane = lane /\ r.force = f /\ r.pc \in {"ranRunning", "running"}
    BY <2>1, BeginMoves
  <2> QED BY <2>2 DEF op, lane, OthersStay
<1>2. OnlyDeletes /\ Quiet /\ TriggersCleared
  <2>1. OnlyDeletes
    BY <1>0, OnlyDeletesWithout
  <2> QED BY <1>0, <1>1, <2>1 DEF Quiet, TriggersCleared, OthersStay
<1>3. /\ jobs[c] = NoJob /\ \A q \in Entering : call[q].card # c
      /\ \A q \in Calls : Starter(q) => CardOf(q) # c
  <2>1. \A q \in Calls : Starter(q) => call[q].cur # NoJob
    BY WorkedCards DEF Starter, Starting, OnEntry, Jobs, NoJob
  <2> QED BY <1>0, <2>1 DEF Busy, Entering, Starter, Starting, CardOf
<1>4. EnteringAlone'
  <2>1. \A q \in Entering' : q = p \/ (q \in Entering /\ q # p /\ call'[q] = call[q])
    BY <1>0, <1>1 DEF Entering, OthersStay
  <2>2. \A q \in Calls : Starter(q)' => Starter(q) /\ CardOf(q)' = CardOf(q)
    BY <1>0, <1>1 DEF MovesOn, OthersStay, Starter, CardOf
  <2>3. ASSUME NEW q \in Entering'
        PROVE  /\ jobs'[call'[q].card] = NoJob
               /\ \A r \in Entering' : call'[r].card = call'[q].card => r = q
               /\ \A r \in Calls : Starter(r)' => CardOf(r)' # call'[q].card
               /\ call'[q].force \/ task'[call'[q].card].trigger = NoSession
    <3>1. CASE q = p
      BY <1>0, <1>1, <1>3, <2>1, <2>2, <3>1
    <3>2. CASE q # p
      <4>1. q \in Entering /\ call'[q] = call[q] /\ call[q].card # c
        BY <1>3, <2>1, <3>2
      <4>2. /\ jobs[call[q].card] = NoJob
            /\ \A r \in Entering : call[r].card = call[q].card => r = q
            /\ \A r \in Calls : Starter(r) => CardOf(r) # call[q].card
            /\ call[q].force \/ task[call[q].card].trigger = NoSession
        BY <4>1 DEF AloneInv, EnteringAlone
      <4> QED BY <1>0, <1>1, <2>1, <2>2, <4>1, <4>2
    <3> QED BY <3>1, <3>2
  <2> QED BY <2>3 DEF EnteringAlone
<1> QED BY <1>0, <1>1, <1>2, <1>4, QuietRest, QuietActive

\* What startEntry's synchronous part does to the entry and the call.
LEMMA StartEffect ==
  ASSUME TypeInv, NEW p \in Calls, NEW j \in Jobs, NEW es, es \in [Jobs -> Job], StartEntry(p, j, es)
  PROVE  /\ OthersStay(p)
         /\ \A k \in Jobs : k # j => job'[k] = es[k]
         /\ LET e == job'[j]
            IN e.card = es[j].card /\ e.lane = es[j].lane /\ e.force = es[j].force /\ e.session = es[j].session /\ e.status = "running"
         /\ LET r == call'[p]
            IN /\ r.pc = "starting" /\ r.cur = j /\ r.result = NoSession /\ r.op = call[p].op /\ r.limit = call[p].limit
               /\ r.force = call[p].force
               /\ (Prompt => r.read) /\ r.got = IF Prompt THEN task[es[j].card] ELSE BlankTask
<1> DEFINE f == es[j]
           n == f.starts + 1
           e == [f EXCEPT !.status = "running", !.starts = n]
           r == AwaitTask(call[p], "starting", j, f.card)
<1>1. job' = [es EXCEPT ![j] = e] /\ call' = [call EXCEPT ![p] = r]
  BY DEF StartEntry, Goto
<1>2. /\ r.pc = "starting" /\ r.cur = j /\ r.result = NoSession /\ r.op = call[p].op /\ r.limit = call[p].limit
      /\ r.force = call[p].force
      /\ (Prompt => r.read) /\ r.got = IF Prompt THEN task[f.card] ELSE BlankTask
  BY TypedCall, AwaitTaskFields
<1>3. f \in Job
  OBVIOUS
<1> HIDE DEF r, n
<1>4. call'[p] = r /\ OthersStay(p)
  BY <1>1, SetCall
<1>5. e.card = f.card /\ e.lane = f.lane /\ e.force = f.force /\ e.session = f.session /\ e.status = "running"
  <2> HIDE DEF f
  <2> QED BY <1>3 DEF Job
<1> HIDE DEF e
<1>6. job'[j] = e /\ \A k \in Jobs : k # j => job'[k] = es[k]
  BY <1>1
<1> QED BY <1>2, <1>4, <1>5, <1>6

\* The start of an entry of a card that no other call works on.
LEMMA StartAlone ==
  ASSUME TypeInv, AloneInv, UNCHANGED <<task, active>>, made <= made', made' \in 0 .. MaxJobs,
         NEW p \in Calls, NEW j \in 1 .. made', NEW es, es \in [Jobs -> Job], StartEntry(p, j, es),
         NEW c \in Cards, es[j].card = c, es[j].session = NoSession, jobs'[c] = j,
         ~ es[j].force => task[c].trigger = NoSession,
         \A d \in Cards : d # c => jobs'[d] = jobs[d],
         \A k \in 1 .. made : (k # j => es[k] = job[k]) /\ es[k].card = job[k].card,
         \A k \in Jobs : k # j => /\ es[k].session \in {NoSession, k}
                                  /\ es[k].status = "queued" => es[k].session = NoSession,
         Alone(p, c)
  PROVE  AloneInv' /\ (ActiveInv => ActiveInv')
<1>0. j \in Jobs /\ \A k \in 1 .. made : k \in Jobs
  BY MaxJobsAssumption, TypedMap DEF Jobs
<1>1. /\ OthersStay(p)
      /\ \A k \in Jobs : k # j => job'[k] = es[k]
      /\ job'[j].card = c /\ job'[j].force = es[j].force /\ job'[j].session = NoSession /\ job'[j].status = "running"
      /\ call'[p].pc = "starting" /\ call'[p].cur = j /\ call'[p].result = NoSession
      /\ call'[p].got = IF Prompt THEN task[c] ELSE BlankTask
  BY <1>0, StartEffect
<1>2. Frame(p, c)
  BY <1>0, <1>1, TypedMap DEF Frame
<1>3. CardOf(p)' = c
  BY <1>1 DEF CardOf
<1>4. BlankTask.trigger = NoSession
  BY DEF BlankTask
<1>5. StarterOK(p)'
  BY <1>1, <1>4 DEF StarterOK
<1>6. SessionsOwn'
  BY <1>1 DEF SessionsOwn
<1>7. AloneInv'
  BY <1>1, <1>2, <1>3, <1>5, <1>6, FrameAlone
<1>8. ActiveInv => ActiveInv'
  BY <1>1, <1>2, FrameActive
<1> QED BY <1>7, <1>8

\* drainQueue starts a current queued entry: no enqueue and no start is about its card.
LEMMA DrainStartAlone ==
  ASSUME TypeInv, AloneInv, NEW p \in Calls, DrainStart(p)
  PROVE  AloneInv' /\ (ActiveInv => ActiveInv')
<1>0. UNCHANGED <<task, active, made, jobs>>
  BY DEF DrainStart, boardVars
<1>1. CASE Return(p) /\ UNCHANGED job
  <2>1. OnlyDeletes
    BY <1>0, <1>1, OnlyDeletesWithout
  <2> QED BY <1>0, <1>1, <2>1, ReturnMoves, QuietCall
<1>2. CASE StartEntry(p, call[p].cur, job)
  <2> DEFINE j == call[p].cur
             c == job[j].card
  <2>1. j \in 1 .. made /\ j \in Jobs /\ c \in Cards /\ jobs[c] = j /\ job[j].status = "queued"
    BY TypedMap, CurrentTyped DEF DrainStart, Startable
  <2>2. j # NoJob /\ made \in Nat
    BY <2>1, TypedMap DEF NoJob
  <2>3. Alone(p, c)
    <3>1. \A q \in Entering : call[q].card # c
      BY <2>1, <2>2 DEF AloneInv, EnteringAlone
    <3>2. ASSUME NEW q \in Calls, Starter(q) PROVE CardOf(q) # c
      <4>1. StarterOK(q)
        BY <3>2 DEF AloneInv
      <4> QED BY <2>1, <2>2, <4>1 DEF StarterOK, CardOf
    <3> QED BY <3>1, <3>2 DEF Alone
  <2>4. job[j].session = NoSession /\ (~ job[j].force => task[c].trigger = NoSession)
    BY <2>1, <2>2 DEF AloneInv, SessionsOwn, QueuedFree
  <2>5. /\ \A k \in Jobs : k # j => /\ job[k].session \in {NoSession, k}
                                    /\ job[k].status = "queued" => job[k].session = NoSession
    BY DEF AloneInv, SessionsOwn
  <2>6. /\ UNCHANGED <<task, active>> /\ made <= made' /\ made' \in 0 .. MaxJobs
        /\ j \in 1 .. made' /\ job \in [Jobs -> Job] /\ jobs'[c] = j
        /\ \A d \in Cards : d # c => jobs'[d] = jobs[d]
    BY <1>0, <2>1, <2>2, TypedMap
  <2>7. StartEntry(p, j, job)
    BY <1>2
  <2> HIDE DEF j
  <2> QED BY <2>1, <2>3, <2>4, <2>5, <2>6, <2>7, StartAlone
<1> QED BY <1>1, <1>2 DEF DrainStart

\* A new entry has its card for itself, whether it waits or is started.
LEMMA EnqueueAdmitAlone ==
  ASSUME TypeInv, AloneInv, NEW p \in Calls, EnqueueAdmit(p)
  PROVE  AloneInv' /\ (ActiveInv => ActiveInv')
<1> DEFINE j == made + 1
           c == call[p].card
           e == [card |-> c, lane |-> call[p].lane, force |-> call[p].force,
                 status |-> "queued", session |-> NoSession, starts |-> 0]
           es == [job EXCEPT ![j] = e]
<1>1. /\ made' = j /\ UNCHANGED <<task, active>> /\ jobs' = [jobs EXCEPT ![c] = j]
      /\ j \in Jobs /\ j \in 1 .. made' /\ made <= made' /\ made' \in 0 .. MaxJobs /\ j # NoJob /\ j \notin 1 .. made
      /\ 1 .. made \subseteq Jobs
  BY TypedMap, MaxJobsAssumption DEF EnqueueAdmit, Jobs, boardVars, NoJob
<1>2. p \in Entering /\ c \in Cards /\ call[p].lane \in Lanes /\ call[p].force \in BOOLEAN
  BY WorkedCards, TypedCall, TypedFields DEF CallTyped, EnqueueAdmit, Entering
<1>3. Alone(p, c) /\ (~ call[p].force => task[c].trigger = NoSession)
  BY <1>2, EnteringIsAlone DEF AloneInv, EnteringAlone
<1>4. e \in Job /\ e.card = c /\ e.status = "queued" /\ e.session = NoSession /\ e.force = call[p].force
  BY <1>2 DEF Job, NoSession
<1> HIDE DEF e
<1>5. es \in [Jobs -> Job] /\ es[j] = e /\ \A k \in Jobs : k # j => es[k] = job[k]
  BY <1>1, <1>4, TypedMap
<1> HIDE DEF es
<1>6. \A d \in Cards : d # c => jobs'[d] = jobs[d]
  BY <1>1
<1>7. jobs'[c] = j
  BY <1>1, <1>2, TypedMap DEF MapOK
<1>8. \A k \in Jobs : k # j => /\ es[k].session \in {NoSession, k}
                               /\ es[k].status = "queued" => es[k].session = NoSession
  BY <1>5 DEF AloneInv, SessionsOwn
<1>9. \A k \in 1 .. made : k # j /\ es[k] = job[k]
  BY <1>1, <1>5
<1>10. CASE StartEntry(p, j, es)
  <2>1. es[j].card = c /\ es[j].session = NoSession /\ (~ es[j].force => task[c].trigger = NoSession)
    BY <1>3, <1>4, <1>5
  <2>2. \A k \in 1 .. made : (k # j => es[k] = job[k]) /\ es[k].card = job[k].card
    BY <1>9
  <2> HIDE DEF j, c
  <2> QED BY <1>1, <1>2, <1>3, <1>5, <1>6, <1>7, <1>8, <1>10, <2>1, <2>2, StartAlone
<1>11. CASE job' = es /\ (Return(p) \/ BeginDrain(call, p, jobs', es))
  <2>1. MovesOn(p) /\ OthersStay(p) /\ (call'[p].op # "enqueue" \/ call'[p].pc = "idle")
    <3>1. CASE Return(p)
      <4>1. call'[p] = Idle
        BY <3>1, SetCall DEF Return, Goto
      <4> QED BY <3>1, <4>1, ReturnMoves DEF Idle
    <3>2. CASE BeginDrain(call, p, jobs', es)
      <4> DEFINE op == "drain"
                 nc == NoCard
                 lane == BlockedLane
                 force == FALSE
      <4>1. Begin(call, p, op, nc, lane, force, jobs', job') /\ op # "drop" /\ call = [q \in Calls |-> call[q]]
        BY <1>11, <3>2, TypedCall DEF BeginDrain
      <4> HIDE DEF op, nc, lane, force
      <4>2. MovesOn(p) /\ (\A q \in Calls : q # p => call'[q] = call[q]) /\ call'[p].op = op
        BY <4>1, BeginMoves
      <4> QED BY <4>2 DEF op, OthersStay
    <3> QED BY <1>11, <3>1, <3>2
  <2>2. Frame(p, c)
    BY <1>1, <1>6, <1>9, <1>11, <2>1 DEF Frame
  <2>3. ~ Starter(p)' /\ call'[p].pc \notin Starting
    BY <2>1 DEF MovesOn, Starter
  <2>4. SessionsOwn'
    BY <1>1, <1>4, <1>5, <1>8, <1>11 DEF SessionsOwn
  <2>5. ~ (call'[p].op = "enqueue" /\ call'[p].pc \notin {"idle", "starting", "working", "started"})
    BY <2>1
  <2>6. job'[jobs'[c]] = e
    BY <1>5, <1>7, <1>11
  <2>7. AloneInv'
    <3>1. ~ job'[jobs'[c]].force => task'[c].trigger = NoSession
      BY <1>1, <1>3, <1>4, <2>6
    <3> HIDE DEF c
    <3> QED BY <1>2, <1>3, <2>2, <2>3, <2>4, <2>5, <3>1, FrameAlone
  <2>8. ActiveInv => ActiveInv'
    <3>1. job'[jobs'[c]].session = NoSession /\ active \subseteq active' /\ call'[p].pc # "started"
      BY <1>1, <1>4, <2>3, <2>6 DEF Starting
    <3> HIDE DEF c
    <3> QED BY <1>2, <2>2, <3>1, FrameActive
  <2> QED BY <2>7, <2>8
<1> QED BY <1>10, <1>11 DEF EnqueueAdmit, es, e

\* What an answered read changes.
LEMMA ReadTaskEffect ==
  ASSUME TypeInv, NEW p \in Calls, ReadTask(p)
  PROVE  /\ OthersStay(p) /\ UNCHANGED <<task, active, limit, jobs, job, made>>
         /\ call[p].pc \in AwaitsTask /\ ~ call[p].read
         /\ LET r == call'[p]
            IN /\ r.pc = call[p].pc /\ r.cur = call[p].cur /\ r.result = call[p].result /\ r.limit = call[p].limit
               /\ SameCall(r, call[p])
               /\ r.pc # "existing" => r.got = task[CardOf(p)]
<1> DEFINE o == call[p]
           yes == TRUE
           c == IF o.pc = "existing" THEN o.card ELSE job[o.cur].card
           t == task[c]
           r == [o EXCEPT !.read = yes, !.got = t]
<1>1. Goto(p, r) /\ o.pc \in AwaitsTask /\ ~ o.read /\ UNCHANGED <<task, active, limit, jobs, job, made>>
  BY DEF ReadTask, boardVars
<1>2. LocalShape(o)
  BY TypedCall
<1>3. o.pc # "existing" => t = task[CardOf(p)]
  BY DEF CardOf
<1> HIDE DEF yes, t
<1>4. r.pc = o.pc /\ r.cur = o.cur /\ r.result = o.result /\ r.limit = o.limit /\ SameCall(r, o) /\ r.got = t
  BY <1>2 DEF LocalShape, SameCall
<1> HIDE DEF r
<1>5. call'[p] = r /\ OthersStay(p)
  BY <1>1, SetCall DEF Goto
<1> QED BY <1>1, <1>3, <1>4, <1>5

\* An answered read.
LEMMA ReadTaskAlone ==
  ASSUME TypeInv, AloneInv, NEW p \in Calls, ReadTask(p)
  PROVE  AloneInv' /\ (ActiveInv => ActiveInv')
<1> DEFINE r == call'[p]
           o == call[p]
<1>1. /\ OthersStay(p) /\ UNCHANGED <<task, active, jobs, job, made>>
      /\ r.pc = o.pc /\ r.cur = o.cur /\ r.result = o.result /\ SameCall(r, o)
      /\ r.pc # "existing" => r.got = task[CardOf(p)]
      /\ o.pc \in AwaitsTask
  BY ReadTaskEffect
<1>2. \A q \in Calls : /\ call'[q].pc = call[q].pc /\ call'[q].cur = call[q].cur /\ call'[q].result = call[q].result
                       /\ SameCall(call'[q], call[q])
  BY <1>1 DEF OthersStay, SameCall
<1>3. Entering' = Entering /\ \A q \in Calls : Starter(q)' = Starter(q) /\ CardOf(q)' = CardOf(q)
  BY <1>1, <1>2 DEF Entering, SameCall, Starter, CardOf
<1>4. EnteringAlone'
  BY <1>1, <1>2, <1>3, WorkedCards DEF AloneInv, EnteringAlone, SameCall
<1>5. StartersApart'
  BY <1>3 DEF AloneInv, StartersApart
<1>6. ASSUME NEW q \in Calls, Starter(q)' PROVE StarterOK(q)'
  <2>1. StarterOK(q)
    BY <1>3, <1>6 DEF AloneInv
  <2>2. CASE q = p
    BY <1>1, <2>1, <2>2 DEF StarterOK, CardOf
  <2>3. CASE q # p
    BY <1>1, <2>1, <2>3 DEF StarterOK, OthersStay
  <2> QED BY <2>2, <2>3
<1>7. SessionsOwn' /\ QueuedFree'
  BY <1>1 DEF AloneInv, SessionsOwn, QueuedFree
<1>8. ActiveInv => ActiveInv'
  BY <1>1, <1>2 DEF ActiveInv, EndedFreesSlot
<1> QED BY <1>4, <1>5, <1>6, <1>7, <1>8 DEF AloneInv

\* What a step of the start closure changes: the call goes on with the same entry, the card is
\* saved with its old trigger, with none or with the new session, and only that session begins.
LEMMA ClosureEffect ==
  ASSUME TypeInv, NEW p \in Calls, StartCheck(p) \/ StartSave(p) \/ StartThrows(p)
  PROVE  /\ OthersStay(p) /\ UNCHANGED <<jobs, job, made, limit>>
         /\ call[p].pc \in {"starting", "working"}
         /\ LET r == call'[p]
                o == call[p]
                i == o.cur
            IN /\ r.pc \in {"working", "started"} /\ r.cur = i /\ SameCall(r, o) /\ r.limit = o.limit
               /\ StartCheck(p) => /\ UNCHANGED <<task, active>> /\ o.pc = "starting" /\ o.read
                                   /\ \/ r.pc = "started" /\ r.result = NoSession
                                      \/ /\ r.pc = "started" /\ r.result = o.got.trigger /\ ~ job[i].force
                                         /\ o.got.trigger # NoSession
                                      \/ /\ r.pc = "working" /\ r.got = o.got /\ r.result = o.result
                                         /\ o.got.exists /\ o.got.lane = job[i].lane
               /\ ~ StartCheck(p) =>
                    /\ r.pc = "started" /\ r.result \in {NoSession, i} /\ o.pc = "working"
                    /\ active' \in {active, active \cup {i}}
                    /\ r.result = i => active' = active \cup {i}
                    /\ StartSave(p) =>
                         /\ r.result = NoSession => active' = active
                         /\ \E t : /\ task' = [task EXCEPT ![CardOf(p)] = t]
                                   /\ t.exists = o.got.exists
                                   /\ r.result # NoSession => t.lane = o.got.lane
                    /\ ~ StartSave(p) => "fail" \in Disturbances /\ UNCHANGED task
<1> DEFINE o == call[p]
           i == o.cur
           a == At(o, "started", i)
           b == [o EXCEPT !.pc = "working"]
           put(s) == [a EXCEPT !.result = s]
<1>0. o.pc \in {"starting", "working"} /\ UNCHANGED <<jobs, job, made, limit>>
  BY DEF StartCheck, StartSave, StartThrows, boardVars
<1>1. o \in Call /\ LocalShape(o) /\ i \in Jobs /\ i # NoSession /\ o.got \in Task /\ call = [q \in Calls |-> call[q]]
  BY <1>0, TypedCall, TypedFields, WorkedCards DEF CallTyped, OnEntry, Jobs, NoSession
<1>2. /\ LocalShape(a) /\ a.pc = "started" /\ a.cur = i /\ SameCall(a, o) /\ a.limit = o.limit /\ a.result = NoSession
  BY <1>1, AtFields DEF SameCall
<1>3. /\ b.pc = "working" /\ b.cur = i /\ SameCall(b, o) /\ b.limit = o.limit /\ b.got = o.got /\ b.result = o.result
  <2> HIDE DEF o
  <2> QED BY <1>1 DEF LocalShape, SameCall
<1>4. \A s : /\ put(s).pc = "started" /\ put(s).cur = i /\ SameCall(put(s), o) /\ put(s).limit = o.limit
             /\ put(s).result = s
  <2> HIDE DEF a
  <2> QED BY <1>2 DEF LocalShape, SameCall
<1> DEFINE Effect(r) ==
             /\ StartCheck(p) => /\ UNCHANGED <<task, active>> /\ o.pc = "starting" /\ o.read
                                   /\ \/ r.pc = "started" /\ r.result = NoSession
                                      \/ /\ r.pc = "started" /\ r.result = o.got.trigger /\ ~ job[i].force
                                         /\ o.got.trigger # NoSession
                                      \/ /\ r.pc = "working" /\ r.got = o.got /\ r.result = o.result
                                         /\ o.got.exists /\ o.got.lane = job[i].lane
             /\ ~ StartCheck(p) =>
                    /\ r.pc = "started" /\ r.result \in {NoSession, i} /\ o.pc = "working"
                    /\ active' \in {active, active \cup {i}}
                    /\ r.result = i => active' = active \cup {i}
                    /\ StartSave(p) =>
                         /\ r.result = NoSession => active' = active
                         /\ \E t : /\ task' = [task EXCEPT ![CardOf(p)] = t]
                                   /\ t.exists = o.got.exists
                                   /\ r.result # NoSession => t.lane = o.got.lane
                    /\ ~ StartSave(p) => "fail" \in Disturbances /\ UNCHANGED task
<1>5. \E r : /\ Goto(p, r) /\ r.pc \in {"working", "started"} /\ r.cur = i /\ SameCall(r, o) /\ r.limit = o.limit
             /\ Effect(r)
  <2>1. CASE StartCheck(p)
    <3>1. /\ UNCHANGED <<task, active>> /\ o.pc = "starting" /\ o.read
          /\ \/ Goto(p, put(NoSession))
             \/ Goto(p, put(o.got.trigger)) /\ o.got.trigger # NoSession /\ ~ job[i].force
             \/ Goto(p, b) /\ o.got.exists /\ o.got.lane = job[i].lane
      BY <2>1 DEF StartCheck, boardVars
    <3> HIDE DEF a, b, put
    <3> QED BY <1>3, <1>4, <2>1, <3>1
  <2>2. CASE StartSave(p)
    <3>0. ~ StartCheck(p) /\ o.pc = "working"
      BY <2>2 DEF StartCheck, StartSave
    <3>1. PICK t, s : /\ task' = [task EXCEPT ![CardOf(p)] = t]
                      /\ active' = active \cup ({s} \ {NoSession})
                      /\ Goto(p, put(s))
                      /\ \/ s = i /\ t = [o.got EXCEPT !.trigger = i]
                         \/ s = NoSession /\ \E l \in {o.got.lane, BlockedLane} : t = [o.got EXCEPT !.lane = l]
      BY <2>2 DEF StartSave, CardOf
    <3>2. t.exists = o.got.exists /\ (s # NoSession => t.lane = o.got.lane)
      BY <1>1, <3>1 DEF Task
    <3> DEFINE r == put(s)
    <3>3. /\ r.pc = "started" /\ r.cur = i /\ SameCall(r, o) /\ r.limit = o.limit /\ r.result = s /\ Goto(p, r)
      BY <1>4, <3>1
    <3> HIDE DEF r, a, b, put
    <3>4. s \in {NoSession, i} /\ (s = NoSession => active' = active) /\ (s = i => active' = active \cup {i})
      BY <1>1, <3>1
    <3>5. Effect(r)
      BY <2>2, <3>0, <3>1, <3>2, <3>3, <3>4
    <3> QED BY <3>3, <3>5
  <2>3. CASE StartThrows(p) /\ ~ StartSave(p)
    <3>1. ~ StartCheck(p) /\ o.pc = "working" /\ "fail" \in Disturbances /\ UNCHANGED task /\ Goto(p, a)
      BY <2>3 DEF StartCheck, StartThrows
    <3>2. active' \in {active, active \cup {i}}
      BY <1>1, <2>3 DEF StartThrows
    <3>3. Effect(a)
      <4> HIDE DEF a
      <4> QED BY <1>1, <1>2, <2>3, <3>1, <3>2
    <3> HIDE DEF a, Effect
    <3> QED BY <1>2, <3>1, <3>3
  <2> QED BY <2>1, <2>2, <2>3
<1>6. PICK r : /\ Goto(p, r) /\ r.pc \in {"working", "started"} /\ r.cur = i /\ SameCall(r, o) /\ r.limit = o.limit
               /\ Effect(r)
  BY <1>5
<1>7. call'[p] = r /\ OthersStay(p)
  BY <1>6, SetCall DEF Goto
<1> QED BY <1>0, <1>6, <1>7

\* The start closure is about the one card of its entry.
LEMMA ClosureAlone ==
  ASSUME TypeInv, AloneInv, NEW p \in Calls, StartCheck(p) \/ StartSave(p) \/ StartThrows(p)
  PROVE  AloneInv' /\ (ActiveInv => ActiveInv')
<1> DEFINE o == call[p]
           r == call'[p]
           i == o.cur
           c == CardOf(p)
<1>1. /\ OthersStay(p) /\ UNCHANGED <<jobs, job, made>> /\ o.pc \in {"starting", "working"}
      /\ r.pc \in {"working", "started"} /\ r.cur = i
      /\ StartCheck(p) => /\ UNCHANGED <<task, active>> /\ o.pc = "starting" /\ o.read
                          /\ \/ r.pc = "started" /\ r.result = NoSession
                             \/ /\ r.pc = "started" /\ ~ job[i].force /\ o.got.trigger # NoSession
                             \/ r.pc = "working"
      /\ ~ StartCheck(p) =>
           /\ r.pc = "started" /\ r.result \in {NoSession, i} /\ active' \in {active, active \cup {i}}
           /\ r.result = i => active' = active \cup {i}
           /\ StartSave(p) => \E t : task' = [task EXCEPT ![c] = t]
           /\ ~ StartSave(p) => UNCHANGED task
  BY ClosureEffect
<1>2. c \in Cards /\ Alone(p, c) /\ StarterOK(p) /\ i \in Jobs
  BY <1>1, StarterIsAlone, WorkedCards DEF Starter, Starting, OnEntry
<1>3. r.pc = "started" => r.result \in {NoSession, i}
  BY <1>1, <1>2 DEF StarterOK
<1>4. \A d \in Cards : d # c => task'[d] = task[d]
  BY <1>1, <1>2, TypedMap DEF TypeInv, TasksTyped
<1>5. active \subseteq active' /\ (r.pc = "started" /\ r.result # NoSession => r.result \in active')
  BY <1>1, <1>2, <1>3 DEF StarterOK
<1>6. Frame(p, c)
  BY <1>1, <1>4 DEF Frame
<1>7. CardOf(p)' = c
  BY <1>1 DEF CardOf
<1>8. StarterOK(p)'
  BY <1>1, <1>2, <1>3 DEF StarterOK
<1>9. SessionsOwn'
  BY <1>1 DEF AloneInv, SessionsOwn
<1>10. jobs'[c] \in {i, NoJob} /\ job'[i].status = "running" /\ job'[i].session = NoSession
  BY <1>1, <1>2 DEF StarterOK, CardOf
<1>11. r.pc \notin {"idle", "starting"}
  BY <1>1
<1>12. AloneInv'
  <2>1. ~ (r.op = "enqueue" /\ r.pc \notin {"idle", "starting", "working", "started"})
    BY <1>1
  <2>2. ~ (jobs'[c] # NoJob /\ job'[jobs'[c]].status = "queued")
    BY <1>10
  <2> HIDE DEF c, r, i
  <2> QED BY <1>2, <1>6, <1>7, <1>8, <1>9, <2>1, <2>2, FrameAlone DEF r
<1>13. ActiveInv => ActiveInv'
  <2>1. jobs'[c] # NoJob /\ job'[jobs'[c]].status = "running" => job'[jobs'[c]].session \in active' \cup {NoSession}
    BY <1>10
  <2> HIDE DEF c, r, i
  <2> QED BY <1>2, <1>5, <1>6, <2>1, FrameActive DEF r
<1> QED BY <1>12, <1>13

\* What a successful start stores: its entry with its own session.
LEMMA SucceededEffect ==
  ASSUME TypeInv, NEW p \in Calls, StartSucceeded(p)
  PROVE  LET i == call[p].cur
         IN /\ call[p].pc = "started" /\ call[p].result # NoSession
            /\ OthersStay(p) /\ UNCHANGED <<task, active, limit, made>>
            /\ MovesOn(p) /\ call'[p].pc \in {"idle", "loop"} /\ (call'[p].pc = "loop" => call'[p].op = "drain")
            /\ i \in 1 .. made /\ i \in Jobs /\ i # NoJob /\ CardOf(p) \in Cards
            /\ jobs' = [jobs EXCEPT ![CardOf(p)] = i]
            /\ jobs'[CardOf(p)] = i
            /\ job'[i].card = job[i].card /\ job'[i].lane = job[i].lane /\ job'[i].force = job[i].force
            /\ job'[i].status = job[i].status /\ job'[i].session = call[p].result
            /\ \A k \in Jobs : k # i => job'[k] = job[k]
<1> DEFINE o == call[p]
           i == o.cur
           s == o.result
           f == job[i]
           e == [f EXCEPT !.session = s]
           a == At(o, "loop", NoJob)
<1>1. /\ o.pc = "started" /\ s # NoSession /\ UNCHANGED <<task, active, limit, made>>
      /\ job' = [job EXCEPT ![i] = e] /\ jobs' = [jobs EXCEPT ![CardOf(p)] = i]
      /\ IF o.op = "drain" THEN Goto(p, a) ELSE Return(p)
  BY DEF StartSucceeded, boardVars, CardOf
<1>2. i \in 1 .. made /\ i \in Jobs /\ i # NoJob /\ CardOf(p) \in Cards /\ f \in Job /\ job \in [Jobs -> Job]
  BY <1>1, WorkedCards, TypedMap DEF OnEntry, Jobs, NoJob, TypeInv, EntriesTyped
<1>3. e.card = f.card /\ e.lane = f.lane /\ e.force = f.force /\ e.status = f.status /\ e.session = s
  <2> HIDE DEF f, s
  <2> QED BY <1>2 DEF Job
<1>4. job'[i] = e /\ \A k \in Jobs : k # i => job'[k] = job[k]
  <2> HIDE DEF e, i
  <2> QED BY <1>1, <1>2
<1>5. jobs'[CardOf(p)] = i
  BY <1>1, <1>2, TypedMap DEF MapOK
<1>6. a.pc = "loop" /\ a.op = o.op /\ a.limit = o.limit
  BY TypedCall, AtFields
<1>7. Idle.pc = "idle" /\ Idle.op = "snapshot" /\ Idle.limit = 0
  BY DEF Idle
<1>8. OthersStay(p) /\ (call'[p] = Idle \/ (call'[p] = a /\ o.op = "drain"))
  <2> HIDE DEF a
  <2> QED BY <1>1, SetCall DEF Goto, Return
<1> HIDE DEF a, e
<1>9. MovesOn(p) /\ call'[p].pc \in {"idle", "loop"} /\ (call'[p].pc = "loop" => call'[p].op = "drain")
  BY <1>6, <1>7, <1>8 DEF MovesOn, Starting
<1> QED BY <1>1, <1>2, <1>3, <1>4, <1>5, <1>8, <1>9

\* A start that succeeded gives its entry its session.
LEMMA StartSucceededAlone ==
  ASSUME TypeInv, AloneInv, NEW p \in Calls, StartSucceeded(p)
  PROVE  AloneInv' /\ (ActiveInv => ActiveInv')
<1> DEFINE i == call[p].cur
           c == CardOf(p)
<1>1. /\ call[p].pc = "started" /\ call[p].result # NoSession
      /\ OthersStay(p) /\ UNCHANGED <<task, active, made>>
      /\ call'[p].pc \in {"idle", "loop"} /\ (call'[p].pc = "loop" => call'[p].op = "drain")
      /\ i \in 1 .. made /\ i \in Jobs /\ i # NoJob /\ c \in Cards
      /\ jobs' = [jobs EXCEPT ![c] = i] /\ jobs'[c] = i
      /\ job'[i].card = c /\ job'[i].status = job[i].status /\ job'[i].session = call[p].result
      /\ \A k \in Jobs : k # i => job'[k] = job[k]
  BY SucceededEffect DEF CardOf
<1>2. Alone(p, c) /\ StarterOK(p)
  BY <1>1, StarterIsAlone DEF Starter, Starting
<1>3. job'[i].session = i /\ job'[i].status = "running"
  BY <1>1, <1>2 DEF StarterOK
<1>4. \A d \in Cards : d # c => jobs'[d] = jobs[d]
  BY <1>1
<1>5. \A k \in 1 .. made : k \in Jobs
  BY TypedMap, MaxJobsAssumption DEF Jobs
<1>6. \A k \in 1 .. made : job'[k].card = job[k].card /\ (job[k].card # c => job'[k] = job[k])
  BY <1>1, <1>5 DEF CardOf
<1>7. Frame(p, c)
  BY <1>1, <1>4, <1>6 DEF Frame
<1>8. SessionsOwn'
  BY <1>1, <1>3 DEF AloneInv, SessionsOwn
<1>9. ~ Starter(p)' /\ ~ (call'[p].op = "enqueue" /\ call'[p].pc \notin {"idle", "starting", "working", "started"})
      /\ call'[p].pc # "started"
  BY <1>1 DEF Starter, Starting
<1>10. ~ (jobs'[c] # NoJob /\ job'[jobs'[c]].status = "queued")
  BY <1>1, <1>3
<1>11. ActiveInv => job'[jobs'[c]].session \in active'
  <2>1. ActiveInv => call[p].result \in active
    BY <1>1 DEF ActiveInv
  <2>2. job'[jobs'[c]].session = call[p].result
    <3> HIDE DEF c
    <3> QED BY <1>1
  <2> QED BY <1>1, <2>1, <2>2
<1>12. active \subseteq active'
  BY <1>1
<1> HIDE DEF c
<1>13. AloneInv'
  BY <1>1, <1>2, <1>7, <1>8, <1>9, <1>10, FrameAlone
<1>14. ActiveInv => ActiveInv'
  BY <1>1, <1>7, <1>9, <1>11, <1>12, FrameActive
<1> QED BY <1>13, <1>14

\* Nobody works on anything at first.
LEMMA InitAlone ==
  ASSUME Init
  PROVE  AloneInv /\ ActiveInv
<1>1. /\ \A p \in Calls : call[p].pc = "idle"
      /\ \A j \in Jobs : job[j].session = NoSession /\ job[j].status = "queued"
      /\ \A c \in Cards : jobs[c] = NoJob
  BY DEF Init, Idle, BlankJob
<1> QED BY <1>1 DEF AloneInv, ActiveInv, EnteringAlone, StartersApart, SessionsOwn, QueuedFree, EndedFreesSlot,
          RunningCards, Entering, Starter, Starting

\* Every step keeps each card to one call, and the sessions active when none ends early.
LEMMA NextAlone ==
  ASSUME TypeInv, AloneInv, "again" \notin Disturbances, Next
  PROVE  AloneInv' /\ (ActiveInv /\ "early" \notin Disturbances => ActiveInv')
<1>1. ASSUME NEW p \in Calls, Resume(p) PROVE AloneInv' /\ (ActiveInv => ActiveInv')
  BY <1>1, ReadTaskAlone, QuietSteps, EnqueueAdmitAlone, DrainStartAlone, ClosureAlone, StartSucceededAlone DEF Resume
<1>2. ASSUME NEW p \in Calls, NewCall(p) PROVE AloneInv' /\ (ActiveInv => ActiveInv')
  BY <1>2, EnqueueAlone, QuietSteps DEF NewCall
<1>3. ASSUME NEW p \in Calls, NEW q \in Calls, StartRefused(p, q) PROVE AloneInv' /\ (ActiveInv => ActiveInv')
  BY <1>3, StartRefusedAlone
<1>4. ASSUME NEW p \in Calls, NEW s \in Jobs, SessionEnds(p, s) PROVE AloneInv' /\ (ActiveInv => ActiveInv')
  BY <1>4, SessionEndsAlone
<1> QED BY <1>1, <1>2, <1>3, <1>4, EnvironmentAlone DEF Next

\* EndedFreesSlot holds of every board as long as nobody enqueues a card that is at work
\* ("again") and no session ends before startEntry was told of it ("early"): an entry keeps a
\* slot only as long as its own session runs, because the call that stores a session is the one
\* that created it, and no other call works on its card (handleAgentLifecycleEvent, startEntry).
THEOREM EndReleases ==
  ASSUME "again" \notin Disturbances, "early" \notin Disturbances
  PROVE  Spec => []EndedFreesSlot
<1> DEFINE Inv == TypeInv /\ AloneInv /\ ActiveInv
<1>1. Init => Inv
  BY InitTypes, InitAlone
<1>2. Inv /\ [Next]_vars => Inv'
  <2>1. CASE Next
    BY <2>1, NextTypes, NextAlone
  <2>2. CASE UNCHANGED vars
    <3>1. ASSUME TypeInv, UNCHANGED vars PROVE TypeInv'
      BY <3>1, NextTypes
    <3>2. ASSUME AloneInv, ActiveInv, UNCHANGED vars PROVE AloneInv' /\ ActiveInv'
      BY <3>2 DEF vars, boardVars, AloneInv, ActiveInv, EnteringAlone, StartersApart, StarterOK, SessionsOwn, QueuedFree,
         EndedFreesSlot, RunningCards, Entering, Starter, CardOf
    <3> QED BY <2>2, <3>1, <3>2
  <2> QED BY <2>1, <2>2
<1>3. Inv => EndedFreesSlot
  BY DEF ActiveInv
<1> QED BY <1>1, <1>2, <1>3, PTL DEF Spec

-----------------------------------------------------------------------------
(* The board's limit in a calm system                                      *)

\* Nobody forces a start, and what the rest of the system does is to label cards and to end
\* sessions, even before startEntry is told of them.
Calm == Forced \subseteq {FALSE} /\ Disturbances \subseteq {"hold", "early", "report"}

\* A start that has not failed.
Live(p) == Starter(p) /\ ~ (call[p].pc = "started" /\ call[p].result = NoSession)

\* An entry without a session, now and later.
Over(i) == i \notin active /\ \A p \in Calls : Live(p) => call[p].cur # i

SameLane(t, i) == t.exists /\ t.lane = job[i].lane

\* A call reads what is stored, and never more than the limit.
CallCalm(p) ==
  LET o == call[p]
  IN /\ o.op # "drop" /\ o.limit <= limit
     /\ o.pc \in {"running", "queued", "starting"} => o.read

\* What a reconcile loop has read lets the entry be, unless nothing runs for it.
VisitOK(p) ==
  LET o == call[p]
  IN /\ o.pc = "running" => /\ jobs[CardOf(p)] \in {o.cur, NoJob} /\ job[o.cur].status = "running"
                            /\ SameLane(o.got, o.cur) \/ Over(o.cur)
     /\ o.pc = "queued" => SameLane(o.got, o.cur) /\ o.got.trigger = NoSession

\* The map holds an entry as long as its start may succeed.
StartHeld(p) ==
  LET o == call[p]
  IN /\ o.pc \in {"starting", "working"} => SameLane(o.got, o.cur)
     /\ Live(p) => jobs[CardOf(p)] = o.cur
     /\ Starter(p) /\ (o.pc = "started" => o.result = NoSession) => o.cur \notin active

\* An enqueue will create an entry of the card's lane that no reconcile loop is about.
EnteringKept ==
  \A p \in Entering : /\ ~ call[p].force /\ task[call[p].card].lane = call[p].lane
                      /\ \A q \in Calls : call[q].pc = "running" => CardOf(q) # call[p].card

\* A card exists and is in the lane of its entry, unless nothing runs for that any more.
CardKept(c) ==
  /\ task[c].exists
  /\ jobs[c] # NoJob => SameLane(task[c], jobs[c]) \/ (job[jobs[c]].status = "running" /\ Over(jobs[c]))

\* A session that runs is counted.
Counted(s) == job[s].card \in Cards /\ jobs[job[s].card] = s /\ job[s].status = "running"

CalmInv ==
  /\ \A j \in Jobs : ~ job[j].force
  /\ \A p \in Calls : CallCalm(p) /\ VisitOK(p) /\ StartHeld(p)
  /\ EnteringKept
  /\ \A c \in Cards : CardKept(c)
  /\ \A s \in active : Counted(s)
  /\ CountRunning(jobs, job) <= limit

\* The entries that a step removes from the map wait or are over.
Harmless ==
  \A c \in Cards, i \in Jobs : jobs[c] = i /\ jobs'[c] # i => job[i].status = "queued" \/ Over(i)'

LanesKept == \A c \in Cards : task'[c].exists = task[c].exists /\ task'[c].lane = task[c].lane

\* The cards of a smaller set are not more.
LEMMA FewerCards ==
  ASSUME NEW S, NEW T, S \subseteq T, T \subseteq Cards
  PROVE  IsFiniteSet(S) /\ IsFiniteSet(T) /\ Cardinality(S) <= Cardinality(T)
         /\ Cardinality(S) \in Nat /\ Cardinality(T) \in Nat
<1>1. IsFiniteSet(T)
  BY SetsAssumption, FS_Subset
<1> QED BY <1>1, FS_Subset, FS_CardinalityType

\* A live session belongs to an entry that counts as running, so there are not more of them.
LEMMA CalmWithin ==
  ASSUME TypeInv, CalmInv
  PROVE  BoardLimit
<1> DEFINE S == active
           T == RunningCards(jobs, job)
           f == [s \in S |-> job[s].card]
<1>1. \A s \in S : s \in Jobs /\ job[s].card \in Cards /\ jobs[job[s].card] = s /\ job[s].status = "running"
  BY DEF TypeInv, TasksTyped, CalmInv, Counted
<1>2. \A s \in S : job[s].card \in T
  BY <1>1 DEF RunningCards, Jobs, NoJob
<1>3. f \in Injection(S, T)
  BY <1>1, <1>2 DEF Injection, IsInjective
<1>4. IsFiniteSet(T) /\ Cardinality(T) <= limit
  BY FewerCards DEF CalmInv, CountRunning, RunningCards
<1>5. Cardinality(S) <= Cardinality(T)
  BY <1>3, <1>4, FS_Injection
<1>6. limit \in Nat /\ IsFiniteSet(S) /\ Cardinality(S) \in Nat /\ Cardinality(T) \in Nat
  BY <1>3, <1>4, FS_Injection, FS_CardinalityType, TypedMap, LimitsAssumption
<1> QED BY <1>4, <1>5, <1>6 DEF BoardLimit

\* A step that starts nothing, and removes from the map only what waits or is over.
LEMMA QuietCalm ==
  ASSUME Calm, TypeInv, AloneInv, AloneInv', CalmInv, Quiet, Harmless, LanesKept, EnteringKept',
         active' \subseteq active, UNCHANGED limit
  PROVE  CalmInv'
<1>0. Prompt /\ "delete" \notin Disturbances /\ limit \in Nat
  BY TypedMap DEF Calm, Prompt
<1>1. job' = job /\ made' = made /\ \A c \in Cards : jobs'[c] \in {jobs[c], NoJob}
  BY DEF Quiet, OnlyDeletes, Fewer
<1>2. \A p \in Calls : Starter(p)' => call'[p] = call[p]
  BY DEF Quiet, MovesOn, Starter
<1>3. \A i : Over(i) => Over(i)'
  BY <1>2 DEF Over, Live, Starter
<1>4. \A c \in Cards : CardKept(c)'
  <2>1. ASSUME NEW c \in Cards PROVE CardKept(c)'
    <3>1. CardKept(c)
      BY DEF CalmInv
    <3>2. task'[c].exists = task[c].exists /\ task'[c].lane = task[c].lane
      BY DEF LanesKept
    <3>3. ASSUME jobs'[c] # NoJob PROVE SameLane(task[c], jobs[c])' \/ (job'[jobs'[c]].status = "running" /\ Over(jobs[c])')
      <4>1. jobs'[c] = jobs[c]
        BY <1>1, <3>3
      <4>2. SameLane(task[c], jobs[c]) \/ (job[jobs[c]].status = "running" /\ Over(jobs[c]))
        BY <3>1, <3>3, <4>1 DEF CardKept
      <4>3. SameLane(task[c], jobs[c]) => SameLane(task[c], jobs[c])'
        BY <1>1, <3>2, <4>1 DEF SameLane
      <4> QED BY <1>1, <1>3, <4>1, <4>2, <4>3
    <3> QED BY <1>1, <3>1, <3>2, <3>3 DEF CardKept, SameLane
  <2> QED BY <2>1
<1>5. ASSUME NEW p \in Calls PROVE CallCalm(p)' /\ VisitOK(p)' /\ StartHeld(p)'
  <2> DEFINE r == call'[p]
  <2>0. CallCalm(p) /\ VisitOK(p) /\ StartHeld(p)
    BY DEF CalmInv
  <2>1. CASE r = call[p]
    <3>1. CallCalm(p)'
      BY <2>0, <2>1 DEF CallCalm
    <3>2. VisitOK(p)'
      <4>1. r.pc = "running" => r.cur \in 1 .. made /\ CardOf(p) \in Cards
        BY <2>1, WorkedCards DEF OnEntry
      <4>2. r.pc = "running" => jobs'[CardOf(p)] \in {r.cur, NoJob}
        BY <1>1, <2>0, <2>1, <4>1 DEF VisitOK
      <4>3. CardOf(p)' = CardOf(p)
        BY <1>1, <2>1 DEF CardOf
      <4>4. \A t, i : SameLane(t, i) => SameLane(t, i)'
        BY <1>1 DEF SameLane
      <4>5. r.pc = "running" => job'[r.cur].status = "running" /\ (SameLane(r.got, r.cur) \/ Over(r.cur))
        BY <1>1, <2>0, <2>1 DEF VisitOK
      <4>6. r.pc = "queued" => SameLane(r.got, r.cur) /\ r.got.trigger = NoSession
        BY <2>0, <2>1 DEF VisitOK
      <4> QED BY <1>3, <4>2, <4>3, <4>4, <4>5, <4>6 DEF VisitOK
    <3>3. StartHeld(p)'
      <4>1. Starter(p)' = Starter(p) /\ Live(p)' = Live(p) /\ CardOf(p)' = CardOf(p)
        BY <1>1, <2>1 DEF Starter, Live, CardOf
      <4>2. r.pc \in {"starting", "working"} => r.got.exists /\ r.got.lane = job'[r.cur].lane
        BY <1>1, <2>0, <2>1 DEF StartHeld, SameLane
      <4>3. Live(p) => jobs'[CardOf(p)] = r.cur
        <5>1. ASSUME Live(p) PROVE jobs'[CardOf(p)] = r.cur
          <6>0. PICK i : i = r.cur
            OBVIOUS
          <6>1. Starter(p) /\ jobs[CardOf(p)] = r.cur /\ r.cur \in Jobs /\ CardOf(p) \in Cards
            BY <2>0, <2>1, <5>1, WorkedCards DEF Live, StartHeld, Starter, Starting, OnEntry
          <6>2. job[r.cur].status = "running"
            BY <2>1, <6>1 DEF AloneInv, StarterOK
          <6>3. ~ Over(i)'
            BY <4>1, <5>1, <6>0 DEF Over
          <6> QED BY <6>0, <6>1, <6>2, <6>3 DEF Harmless
        <5> QED BY <5>1
      <4>4. Starter(p) /\ (r.pc = "started" => r.result = NoSession) => r.cur \notin active'
        BY <2>0, <2>1 DEF StartHeld
      <4> QED BY <4>1, <4>2, <4>3, <4>4 DEF StartHeld, SameLane
    <3> QED BY <3>1, <3>2, <3>3
  <2>2. CASE r # call[p]
    <3>1. /\ r.pc \notin Starting
          /\ r.op = "drop" => call[p].op = "drop"
          /\ r.limit \in {call[p].limit, limit, 0}
          /\ r.pc = "running" => IsCurrent(jobs', job', r.cur, "running")
          /\ r.pc = "queued" => IsCurrent(jobs', job', r.cur, "queued")
          /\ r.pc \in {"running", "queued"} => r.read /\ r.got = task[CardOf(p)']
      BY <1>0, <2>2 DEF Quiet, MovesOn, CardOf
    <3>2. CallCalm(p)'
      BY <1>0, <2>0, <3>1 DEF CallCalm, Starting
    <3>3. StartHeld(p)'
      BY <3>1 DEF StartHeld, Live, Starter, Starting
    <3>4. ASSUME r.pc \in {"running", "queued"} PROVE VisitOK(p)'
      <4>1. /\ IsCurrent(jobs', job, r.cur, r.pc) /\ CardOf(p)' = job[r.cur].card
        BY <1>1, <3>1, <3>4 DEF CardOf
      <4>0. PICK i : i = r.cur
        OBVIOUS
      <4> DEFINE c == job[i].card
      <4>2. i \in Jobs /\ c \in Cards /\ jobs'[c] = i /\ jobs[c] = i /\ i # NoJob /\ job[i].status = r.pc
        BY <1>1, <4>0, <4>1, TypedMap DEF IsCurrent, Jobs, NoJob, MapOK
      <4>3. SameLane(task[c], i) \/ (r.pc = "running" /\ Over(i))
        BY <4>2 DEF CalmInv, CardKept
      <4>4. r.pc = "queued" => task[c].trigger = NoSession
        BY <4>2 DEF AloneInv, QueuedFree, CalmInv
      <4>5. r.got = task[c]
        BY <3>1, <3>4, <4>0, <4>1
      <4>6. SameLane(task[c], i) => r.got.exists /\ r.got.lane = job'[i].lane
        BY <1>1, <4>5 DEF SameLane
      <4>7. r.pc = "running" => (r.got.exists /\ r.got.lane = job'[i].lane) \/ Over(i)'
        BY <1>3, <4>3, <4>6
      <4>8. r.pc = "queued" => r.got.exists /\ r.got.lane = job'[i].lane /\ r.got.trigger = NoSession
        BY <4>3, <4>4, <4>5, <4>6
      <4>9. jobs'[CardOf(p)'] = r.cur /\ (r.pc = "running" => job'[r.cur].status = "running")
        BY <1>1, <4>0, <4>1, <4>2
      <4> HIDE DEF c
      <4> QED BY <4>0, <4>7, <4>8, <4>9 DEF VisitOK, SameLane
    <3> QED BY <3>2, <3>3, <3>4 DEF VisitOK
  <2> QED BY <2>1, <2>2
<1>6. ASSUME NEW s \in active' PROVE Counted(s)'
  <2>1. Counted(s) /\ s \in active /\ s # NoJob
    BY TypedMap DEF CalmInv, Jobs, NoJob
  <2>2. s \in Jobs /\ ~ Over(s)'
    BY TypedMap DEF Over
  <2>3. jobs'[job[s].card] = s
    BY <2>1, <2>2 DEF Harmless, Counted
  <2> QED BY <1>1, <2>1, <2>3 DEF Counted
<1>7. CountRunning(jobs', job') <= limit
  <2>1. RunningCards(jobs', job') \subseteq RunningCards(jobs, job)
    BY <1>1 DEF RunningCards
  <2>2. Cardinality(RunningCards(jobs', job')) <= Cardinality(RunningCards(jobs, job))
        /\ Cardinality(RunningCards(jobs', job')) \in Nat /\ Cardinality(RunningCards(jobs, job)) \in Nat
    <3>1. RunningCards(jobs, job) \subseteq Cards
      BY DEF RunningCards
    <3> QED BY <2>1, <3>1, FewerCards
  <2> QED BY <1>0, <2>2 DEF CalmInv, CountRunning
<1> QED BY <1>1, <1>4, <1>5, <1>6, <1>7 DEF CalmInv

\* A step of one call about one card.
LEMMA FrameCalm ==
  ASSUME TypeInv, AloneInv, AloneInv', CalmInv, NEW p \in Calls, NEW c \in Cards, Frame(p, c), Alone(p, c), UNCHANGED limit,
         \A d \in Cards : d # c => task'[d].exists = task[d].exists /\ task'[d].lane = task[d].lane,
         \A k \in 1 .. made : job'[k].lane = job[k].lane,
         \A k \in Jobs : ~ job'[k].force,
         ~ (call'[p].op = "enqueue" /\ call'[p].pc \notin {"idle", "starting", "working", "started"}),
         CallCalm(p)', VisitOK(p)', StartHeld(p)', Starter(p)' => CardOf(p)' = c,
         call'[p].pc = "running" => IsCurrent(jobs', job', call'[p].cur, "running"),
         \A r \in Calls : r # p /\ call[r].pc = "running" /\ CardOf(r) = c => VisitOK(r)',
         CardKept(c)',
         \A s \in active' : (s \in active \/ job'[s].card = c) /\ (job'[s].card = c => Counted(s)'),
         CountRunning(jobs', job') <= limit
  PROVE  CalmInv'
<1>1. \A r \in Calls : r # p => call'[r] = call[r]
  BY DEF Frame, OthersStay
<1>2. \A d \in Cards : d # c => jobs'[d] = jobs[d]
  BY DEF Frame
<1>3. \A k \in 1 .. made : job'[k].card = job[k].card /\ (job[k].card # c => job'[k] = job[k])
  BY DEF Frame
<1>4. \A s \in active : s \in 1 .. made /\ s \in Jobs /\ Counted(s) /\ s # NoJob
  BY WorkedCards, TypedMap DEF CalmInv, Counted, Jobs, NoJob
<1>5. ASSUME NEW r \in Calls, r # p, call[r].pc \in OnEntry
      PROVE  call[r].cur \in 1 .. made /\ CardOf(r)' = CardOf(r) /\ CardOf(r) \in Cards /\ job'[call[r].cur].lane = job[call[r].cur].lane
             /\ (CardOf(r) # c => job'[call[r].cur] = job[call[r].cur])
  BY <1>1, <1>3, <1>5, WorkedCards DEF CardOf
<1>6. ASSUME NEW i \in 1 .. made, job[i].card # c, Over(i) PROVE Over(i)'
  <2>1. i \notin active'
    BY <1>3, <1>6 DEF Over
  <2>2. ASSUME NEW r \in Calls, Live(r)' PROVE call'[r].cur # i
    <3>1. CASE r = p
      <4>1. Starter(p)' /\ CardOf(p)' = c
        BY <2>2, <3>1 DEF Live
      <4> QED BY <1>3, <1>6, <3>1, <4>1 DEF CardOf
    <3>2. CASE r # p
      BY <1>1, <1>6, <2>2, <3>2 DEF Over, Live, Starter
    <3> QED BY <3>1, <3>2
  <2> QED BY <2>1, <2>2 DEF Over
<1>7. EnteringKept'
  <2>1. ASSUME NEW q \in Entering'
        PROVE  /\ ~ call'[q].force /\ task'[call'[q].card].lane = call'[q].lane
               /\ \A r \in Calls : call'[r].pc = "running" => CardOf(r)' # call'[q].card
    <3>1. q # p /\ q \in Entering /\ call'[q] = call[q] /\ call[q].card \in Cards \ {c}
      BY <1>1, WorkedCards DEF Entering, Alone
    <3>2. /\ ~ call[q].force /\ task[call[q].card].lane = call[q].lane
          /\ \A r \in Calls : call[r].pc = "running" => CardOf(r) # call[q].card
      BY <3>1 DEF CalmInv, EnteringKept
    <3>3. ASSUME NEW r \in Calls, call'[r].pc = "running" PROVE CardOf(r)' # call'[q].card
      <4>1. CASE r = p
        <5>1. jobs'[call'[q].card] = NoJob
          BY DEF AloneInv, EnteringAlone
        <5>2. jobs'[CardOf(r)'] # NoJob
          BY <3>3, <4>1 DEF IsCurrent, CardOf
        <5> QED BY <5>1, <5>2
      <4>2. CASE r # p
        BY <1>1, <1>5, <3>1, <3>2, <3>3, <4>2 DEF OnEntry
      <4> QED BY <4>1, <4>2
    <3> QED BY <3>1, <3>2, <3>3
  <2> QED BY <2>1 DEF EnteringKept
<1>8. ASSUME NEW d \in Cards PROVE CardKept(d)'
  <2>1. CASE d = c
    BY <2>1
  <2>2. CASE d # c
    <3>0. PICK i : i = jobs[d]
      OBVIOUS
    <3>1. jobs'[d] = i /\ CardKept(d)
      BY <1>2, <2>2, <3>0 DEF CalmInv
    <3>2. task'[d].exists = task[d].exists /\ task'[d].lane = task[d].lane
      BY <2>2
    <3>3. CASE i = NoJob
      BY <3>1, <3>2, <3>3 DEF CardKept
    <3>4. CASE i # NoJob
      <4>1. i \in 1 .. made /\ job[i].card = d /\ job'[i] = job[i]
        BY <1>3, <2>2, <3>0, <3>4, WorkedCards
      <4>2. SameLane(task[d], i) \/ (job[i].status = "running" /\ Over(i))
        BY <3>0, <3>1, <3>4 DEF CardKept
      <4>3. Over(i) => Over(i)'
        BY <1>6, <2>2, <4>1
      <4>4. SameLane(task[d], i) => SameLane(task[d], i)'
        BY <3>2, <4>1 DEF SameLane
      <4>5. task'[d].exists /\ (SameLane(task[d], i)' \/ (job'[i].status = "running" /\ Over(i)'))
        BY <3>1, <3>2, <4>1, <4>2, <4>3, <4>4 DEF CardKept
      <4> QED BY <3>1, <4>5 DEF CardKept, SameLane
    <3> QED BY <3>3, <3>4
  <2> QED BY <2>1, <2>2
<1>9. ASSUME NEW r \in Calls, r # p PROVE CallCalm(r)' /\ VisitOK(r)' /\ StartHeld(r)'
  <2>0. call'[r] = call[r] /\ CallCalm(r) /\ VisitOK(r) /\ StartHeld(r)
    BY <1>1, <1>9 DEF CalmInv
  <2>1. CallCalm(r)'
    BY <2>0 DEF CallCalm
  <2>2. VisitOK(r)'
    <3>0. PICK i : i = call[r].cur
      OBVIOUS
    <3>1. CASE call[r].pc = "running" /\ CardOf(r) = c
      BY <1>9, <3>1
    <3>2. CASE call[r].pc = "running" /\ CardOf(r) # c
      <4>1. i \in 1 .. made /\ CardOf(r)' = CardOf(r) /\ CardOf(r) \in Cards /\ job'[i] = job[i] /\ job[i].card # c
        BY <1>5, <1>9, <3>0, <3>2 DEF OnEntry, CardOf
      <4>2. Over(i) => Over(i)'
        BY <1>6, <4>1
      <4>3. jobs'[CardOf(r)] \in {i, NoJob} /\ job'[i].status = "running"
        BY <1>2, <2>0, <3>0, <3>2, <4>1 DEF VisitOK
      <4>4. (call[r].got.exists /\ call[r].got.lane = job'[i].lane) \/ Over(i)
        BY <2>0, <3>0, <3>2, <4>1 DEF VisitOK, SameLane
      <4> QED BY <2>0, <3>0, <3>2, <4>1, <4>2, <4>3, <4>4 DEF VisitOK, SameLane
    <3>3. CASE call[r].pc = "queued"
      <4>1. job'[i].lane = job[i].lane
        BY <1>5, <1>9, <3>0, <3>3 DEF OnEntry
      <4> QED BY <2>0, <3>0, <3>3, <4>1 DEF VisitOK, SameLane
    <3>4. CASE call[r].pc \notin {"running", "queued"}
      BY <2>0, <3>4 DEF VisitOK
    <3> QED BY <3>1, <3>2, <3>3, <3>4
  <2>3. StartHeld(r)'
    <3>1. CASE Starter(r)
      <4>1. /\ CardOf(r)' = CardOf(r) /\ CardOf(r) \in Cards \ {c} /\ job'[call[r].cur] = job[call[r].cur]
        BY <1>5, <1>9, <3>1 DEF Starter, Starting, OnEntry, Alone
      <4>2. jobs'[CardOf(r)] = jobs[CardOf(r)] /\ Starter(r)' = Starter(r) /\ Live(r)' = Live(r)
        BY <1>2, <2>0, <4>1 DEF Starter, Live
      <4>3. Starter(r) /\ (call[r].pc = "started" => call[r].result = NoSession) => call[r].cur \notin active'
        BY <2>0, <4>1 DEF StartHeld, CardOf
      <4>4. call[r].pc \in {"starting", "working"} => call[r].got.exists /\ call[r].got.lane = job'[call[r].cur].lane
        BY <2>0, <4>1 DEF StartHeld, SameLane
      <4> QED BY <2>0, <4>1, <4>2, <4>3, <4>4 DEF StartHeld, SameLane
    <3>2. CASE ~ Starter(r)
      BY <2>0, <3>2 DEF StartHeld, Starter, Live, Starting
    <3> QED BY <3>1, <3>2
  <2> QED BY <2>1, <2>2, <2>3
<1>10. ASSUME NEW s \in active' PROVE Counted(s)'
  <2>1. CASE job'[s].card = c
    BY <2>1
  <2>2. CASE job'[s].card # c
    <3>1. s \in active /\ s \in 1 .. made /\ Counted(s) /\ job'[s] = job[s] /\ job[s].card # c
      BY <1>3, <1>4, <2>2
    <3> QED BY <1>2, <2>2, <3>1 DEF Counted
  <2> QED BY <2>1, <2>2
<1>11. \A r \in Calls : CallCalm(r)' /\ VisitOK(r)' /\ StartHeld(r)'
  BY <1>9
<1> QED BY <1>7, <1>8, <1>10, <1>11 DEF CalmInv

\* What is over stays over in a step that starts nothing.
LEMMA OverStays ==
  ASSUME Quiet, active' \subseteq active, NEW i, Over(i)
  PROVE  Over(i)'
<1>1. \A p \in Calls : Starter(p)' => call'[p] = call[p]
  BY DEF Quiet, MovesOn, Starter
<1> QED BY <1>1 DEF Over, Live, Starter

\* The enqueues in flight keep their cards when no other begins.
LEMMA EnteringStays ==
  ASSUME TypeInv, AloneInv', CalmInv, Quiet, SameEnqueues, LanesKept
  PROVE  EnteringKept'
<1>1. ASSUME NEW q \in Entering'
      PROVE  /\ ~ call'[q].force /\ task'[call'[q].card].lane = call'[q].lane
             /\ \A r \in Calls : call'[r].pc = "running" => CardOf(r)' # call'[q].card
  <2>1. /\ q \in Entering /\ call'[q].card = call[q].card /\ call'[q].force = call[q].force /\ call'[q].lane = call[q].lane
        /\ call[q].card \in Cards
    BY WorkedCards DEF SameEnqueues, SameEnqueue, SameCall, Entering, Starting
  <2>2. /\ ~ call[q].force /\ task[call[q].card].lane = call[q].lane
        /\ \A r \in Calls : call[r].pc = "running" => CardOf(r) # call[q].card
    BY <2>1 DEF CalmInv, EnteringKept
  <2>3. task'[call[q].card].lane = task[call[q].card].lane
    BY <2>1 DEF LanesKept
  <2>4. ASSUME NEW r \in Calls, call'[r].pc = "running" PROVE CardOf(r)' # call'[q].card
    <3>1. CASE call'[r] = call[r]
      BY <2>1, <2>2, <2>4, <3>1 DEF Quiet, OnlyDeletes, CardOf
    <3>2. CASE MovesOn(r)
      <4>1. jobs'[CardOf(r)'] # NoJob
        BY <2>4, <3>2 DEF MovesOn, IsCurrent, CardOf
      <4>2. jobs'[call'[q].card] = NoJob
        BY DEF AloneInv, EnteringAlone
      <4> QED BY <4>1, <4>2
    <3> QED BY <3>1, <3>2 DEF Quiet
  <2> QED BY <2>1, <2>2, <2>3, <2>4
<1> QED BY <1>1 DEF EnteringKept

\* A step of one call that starts nothing.
LEMMA QuietCallCalm ==
  ASSUME Calm, TypeInv, AloneInv, CalmInv, UNCHANGED <<task, active, limit>>, NEW p \in Calls,
         MovesOn(p), SameEnqueue(p), OthersStay(p), OnlyDeletes, Harmless
  PROVE  CalmInv'
<1>1. Quiet /\ SameEnqueues /\ LanesKept
  BY DEF Quiet, SameEnqueues, LanesKept, OthersStay
<1>2. AloneInv'
  BY QuietCall
<1> QED BY <1>1, <1>2, EnteringStays, QuietCalm

\* An entry that waits, or that is over, may go.
LEMMA HarmlessWithout ==
  ASSUME TypeInv, Quiet, active' \subseteq active,
         UNCHANGED jobs \/ \E c : /\ jobs' = Without(jobs, c)
                                  /\ c \in Cards /\ jobs[c] # NoJob
                                       => job[jobs[c]].status = "queued" \/ Over(jobs[c])
  PROVE  Harmless
<1>1. CASE UNCHANGED jobs
  BY <1>1 DEF Harmless
<1>2. CASE ~ UNCHANGED jobs
  <2>1. PICK c : /\ jobs' = Without(jobs, c)
                 /\ c \in Cards /\ jobs[c] # NoJob => job[jobs[c]].status = "queued" \/ Over(jobs[c])
    BY <1>2
  <2>2. ASSUME NEW d \in Cards, NEW i \in Jobs, jobs[d] = i, jobs'[d] # i PROVE job[i].status = "queued" \/ Over(i)'
    <3>1. d = c /\ i # NoJob
      BY <2>1, <2>2, TypedMap DEF Without, MapOK, Jobs, NoJob
    <3> QED BY <2>1, <2>2, <3>1, OverStays
  <2> QED BY <2>2 DEF Harmless
<1> QED BY <1>1, <1>2

\* The steps of a call that start nothing.
LEMMA QuietStepsCalm ==
  ASSUME Calm, TypeInv, AloneInv, CalmInv, NEW p \in Calls,
         \/ ReadLimit(p) \/ CheckRunning(p) \/ BeginQueued(p) \/ CheckQueued(p)
         \/ EnqueueExisting(p) \/ EnqueueReplace(p)
         \/ DrainLimit(p) \/ DrainLoop(p) \/ DrainUnlink(p) \/ DrainDrop(p)
         \/ SnapshotTaken(p) \/ DropListed(p)
         \/ Snapshot(p) \/ \E c \in Cards : DropQueuedCardJob(p, c)
  PROVE  CalmInv'
<1>1. UNCHANGED <<task, active, limit>>
  BY DEF ReadLimit, CheckRunning, BeginQueued, CheckQueued, EnqueueExisting, EnqueueReplace, DrainLimit, DrainLoop,
         DrainUnlink, DrainDrop, SnapshotTaken, DropListed, Snapshot, DropQueuedCardJob, boardVars
<1>2. MovesOn(p) /\ SameEnqueue(p) /\ OthersStay(p) /\ OnlyDeletes
  BY ReadLimitMoves, CheckRunningMoves, ReconcileQueuedMoves, EnqueueMoves, DrainMoves, SnapshotMoves, NewCallMoves
<1>3. Quiet
  BY <1>2 DEF Quiet, OthersStay
<1>4. CallCalm(p) /\ VisitOK(p)
  BY DEF CalmInv
<1>5. \/ UNCHANGED jobs
      \/ BeginQueued(p)
      \/ \E c : /\ jobs' = Without(jobs, c)
                /\ c \in Cards /\ jobs[c] # NoJob => job[jobs[c]].status = "queued" \/ Over(jobs[c])
  <2>1. ReadLimit(p) \/ DrainLimit(p) \/ DrainLoop(p) \/ DrainUnlink(p) \/ SnapshotTaken(p) \/ Snapshot(p) => UNCHANGED jobs
    BY DEF ReadLimit, DrainLimit, DrainLoop, DrainUnlink, SnapshotTaken, Snapshot
  <2>2. ~ DropListed(p) /\ ~ \E c \in Cards : DropQueuedCardJob(p, c)
    <3>1. call[p].pc = "drop" => call[p].op = "drop"
      BY TypedCall DEF CallTyped
    <3> QED BY <1>4, <3>1 DEF Calm, DropListed, DropQueuedCardJob, CallCalm
  <2>3. CASE CheckRunning(p)
    <3> DEFINE i == call[p].cur
               c == CardOf(p)
    <3>1. /\ call[p].pc = "running"
          /\ \/ UNCHANGED jobs
             \/ /\ jobs' = Without(jobs, c)
                /\ ~ SameLane(call[p].got, i)
      BY <2>3 DEF CheckRunning, CardOf, SameLane
    <3>2. jobs[c] \in {i, NoJob} /\ (SameLane(call[p].got, i) \/ Over(i))
      BY <1>4, <3>1 DEF VisitOK
    <3> QED BY <3>1, <3>2
  <2>4. CASE CheckQueued(p)
    <3>1. /\ call[p].pc = "queued"
          /\ UNCHANGED jobs \/ ~ SameLane(call[p].got, call[p].cur) \/ call[p].got.trigger # NoSession
      BY <2>4 DEF CheckQueued, SameLane
    <3> QED BY <1>4, <3>1 DEF VisitOK
  <2>5. CASE EnqueueExisting(p) \/ EnqueueReplace(p)
    <3>1. UNCHANGED jobs \/ jobs' = Without(jobs, call[p].card)
      BY <2>5 DEF EnqueueExisting, EnqueueReplace
    <3>2. p \in Entering
      BY <2>5, TypedCall DEF EnqueueExisting, EnqueueReplace, Entering, CallTyped
    <3>3. jobs[call[p].card] = NoJob
      BY <3>2 DEF AloneInv, EnteringAlone
    <3> QED BY <3>1, <3>3
  <2>6. CASE DrainDrop(p)
    <3> DEFINE i == call[p].cur
    <3>1. jobs' = Without(jobs, job[i].card) /\ IsCurrent(jobs, job, i, "queued")
      BY <2>6 DEF DrainDrop, Startable
    <3>2. jobs[job[i].card] = i /\ job[i].status = "queued"
      BY <3>1, TypedMap, CurrentTyped
    <3> QED BY <3>1, <3>2
  <2> QED BY <2>1, <2>2, <2>3, <2>4, <2>5, <2>6
<1>6. Harmless
  <2>1. CASE BeginQueued(p)
    <3>1. ASSUME NEW c \in Cards, NEW i \in Jobs, jobs[c] = i, jobs'[c] # i PROVE job[i].status = "queued"
      BY <2>1, <3>1 DEF BeginQueued, Orphaned
    <3> QED BY <3>1 DEF Harmless
  <2>2. CASE ~ BeginQueued(p)
    BY <1>1, <1>3, <1>5, <2>2, HarmlessWithout
  <2> QED BY <2>1, <2>2
<1> QED BY <1>1, <1>2, <1>6, QuietCallCalm

\* An answered read: the task of a queue's head, or of a card that has a job.
LEMMA ReadTaskCalm ==
  ASSUME Calm, TypeInv, AloneInv, CalmInv, NEW p \in Calls, ReadTask(p)
  PROVE  CalmInv'
<1> DEFINE r == call'[p]
           o == call[p]
<1>1. /\ OthersStay(p) /\ UNCHANGED <<task, active, limit, jobs, job, made>>
      /\ o.pc \in AwaitsTask /\ ~ o.read
      /\ r.pc = o.pc /\ r.limit = o.limit /\ SameCall(r, o)
  BY ReadTaskEffect
<1>2. r.pc \in {"existing", "head"}
  BY <1>1 DEF CalmInv, CallCalm, AwaitsTask
<1>3. MovesOn(p) /\ SameEnqueue(p)
  BY <1>1, <1>2 DEF MovesOn, SameEnqueue, SameCall, Starting
<1>4. OnlyDeletes
  BY <1>1, OnlyDeletesWithout
<1>5. Harmless
  BY <1>1 DEF Harmless
<1> QED BY <1>1, <1>3, <1>4, <1>5, QuietCallCalm

\* A refused start removes its own entry, for which nothing runs.
LEMMA StartRefusedCalm ==
  ASSUME Calm, TypeInv, AloneInv, CalmInv, NEW p \in Calls, NEW q \in Calls, StartRefused(p, q)
  PROVE  CalmInv'
<1>0. UNCHANGED <<task, active, limit>> /\ jobs' = Without(jobs, CardOf(p)) /\ call[p].pc = "started" /\ call[p].result = NoSession
  BY DEF StartRefused, boardVars, CardOf
<1>1. AloneInv' /\ Quiet /\ SameEnqueues /\ ~ Starter(p)'
  BY StartRefusedAlone
<1>2. PICK i : i = call[p].cur
  OBVIOUS
<1>3. Starter(p) /\ StarterOK(p) /\ StartHeld(p) /\ CardOf(p) \in Cards
  BY <1>0, StarterIsAlone, WorkedCards DEF Starter, Starting, OnEntry, CalmInv
<1>4. jobs[CardOf(p)] \in {i, NoJob} /\ i \notin active
  BY <1>0, <1>2, <1>3 DEF StarterOK, StartHeld, CardOf
<1>5. Over(i)'
  <2>1. ASSUME NEW r \in Calls, Live(r)', call'[r].cur = i PROVE FALSE
    <3>1. r # p /\ call'[r] = call[r] /\ Starter(r)
      BY <1>1, <2>1 DEF Live, Quiet, MovesOn, Starter
    <3>2. CardOf(r) = CardOf(p)
      BY <1>2, <2>1, <3>1 DEF CardOf
    <3> QED BY <1>3, <3>1, <3>2 DEF AloneInv, StartersApart
  <2> QED BY <1>0, <1>4, <2>1 DEF Over
<1>6. Harmless
  <2>1. ASSUME NEW d \in Cards, NEW k \in Jobs, jobs[d] = k, jobs'[d] # k PROVE Over(k)'
    <3>1. d = CardOf(p) /\ k # NoJob
      BY <1>0, <2>1, TypedMap DEF Without, MapOK, Jobs, NoJob
    <3>2. k = i
      BY <1>4, <2>1, <3>1
    <3> QED BY <1>5, <3>2
  <2> QED BY <2>1 DEF Harmless
<1>7. LanesKept
  BY <1>0 DEF LanesKept
<1> QED BY <1>0, <1>1, <1>6, <1>7, EnteringStays, QuietCalm

\* The end of a session removes the entry that ran it, and its start is done.
LEMMA SessionEndsCalm ==
  ASSUME Calm, TypeInv, AloneInv, CalmInv, NEW p \in Calls, NEW s \in Jobs, SessionEnds(p, s)
  PROVE  CalmInv'
<1>0. UNCHANGED <<task, limit>> /\ active' = active \ {s}
  BY DEF SessionEnds, LifecycleEvent
<1>1. MovesOn(p) /\ SameEnqueue(p) /\ OthersStay(p) /\ OnlyDeletes /\ AloneInv'
  BY NewCallMoves, SessionEndsAlone
<1>2. Quiet /\ SameEnqueues /\ LanesKept
  BY <1>0, <1>1 DEF Quiet, SameEnqueues, LanesKept, OthersStay
<1>3. PICK d \in RunningCards(jobs, job) : job[jobs[d]].session = s /\ jobs' = Without(jobs, d)
  BY DEF SessionEnds
<1>4. s # NoSession /\ d \in Cards /\ jobs[d] = s /\ job[s].session = s
  BY <1>3, WorkedCards DEF AloneInv, SessionsOwn, RunningCards, Jobs, NoSession
<1>5. Over(s)'
  <2>1. ASSUME NEW r \in Calls, Live(r)', call'[r].cur = s PROVE FALSE
    <3>1. call'[r] = call[r] /\ Starter(r)
      BY <1>1, <1>2, <2>1 DEF Live, Quiet, MovesOn, Starter
    <3>2. StarterOK(r)
      BY <3>1 DEF AloneInv
    <3> QED BY <1>4, <2>1, <3>1, <3>2 DEF StarterOK
  <2> QED BY <1>0, <2>1 DEF Over
<1>6. Harmless
  <2>1. ASSUME NEW c \in Cards, NEW k \in Jobs, jobs[c] = k, jobs'[c] # k PROVE k = s
    BY <1>3, <1>4, <2>1, TypedMap DEF Without, MapOK
  <2> QED BY <1>5, <2>1 DEF Harmless
<1> QED BY <1>0, <1>1, <1>2, <1>6, EnteringStays, QuietCalm

\* The rest of the system labels cards, clears the triggers of ended sessions, and ends sessions
\* that no entry of the map knows.
LEMMA EnvironmentCalm ==
  ASSUME Calm, TypeInv, AloneInv, CalmInv, Environment
  PROVE  CalmInv'
<1>0. "move" \notin Disturbances /\ "delete" \notin Disturbances /\ "limit" \notin Disturbances /\ "cleanup" \notin Disturbances
  BY DEF Calm
<1>1. \/ \E s \in Jobs : SessionEndsUnnoticed(s)
      \/ \E c \in Cards : ToggleHold(c) \/ ClearTrigger(c)
  BY <1>0 DEF Environment, RemoveCardJob, DeleteTask, MoveCard, SetLimit
<1>2. UNCHANGED <<job, made, call, jobs, limit>> /\ active' \subseteq active
  BY <1>1 DEF SessionEndsUnnoticed, LifecycleEvent, ToggleHold, ClearTrigger, EditTask, boardVars
<1>3. OnlyDeletes
  BY <1>2, OnlyDeletesWithout
<1>4. Quiet /\ SameEnqueues
  BY <1>2, <1>3 DEF Quiet, SameEnqueues
<1>5. LanesKept
  <2>1. ASSUME NEW d \in Cards, ToggleHold(d) \/ ClearTrigger(d) PROVE LanesKept
    <3> DEFINE t == task[d]
               n == ~ t.hold
    <3>1. t \in Task
      BY TypedMap
    <3>2. PICK u : EditTask(d, u) /\ (u = [t EXCEPT !.hold = n] \/ u = [t EXCEPT !.trigger = NoSession])
      BY <2>1 DEF ToggleHold, ClearTrigger
    <3> HIDE DEF t, n
    <3>3. u.exists = t.exists /\ u.lane = t.lane
      BY <3>1, <3>2 DEF Task
    <3> QED BY <3>2, <3>3, TypedMap DEF EditTask, LanesKept, t
  <2>2. ASSUME NEW s \in Jobs, SessionEndsUnnoticed(s) PROVE LanesKept
    BY <2>2 DEF SessionEndsUnnoticed, LanesKept
  <2> QED BY <1>1, <2>1, <2>2
<1>6. Harmless
  BY <1>2 DEF Harmless
<1>7. AloneInv'
  BY EnvironmentAlone
<1> QED BY <1>2, <1>4, <1>5, <1>6, <1>7, EnteringStays, QuietCalm

\* An enqueue takes the card's lane, and no reconcile loop is about a card that no call works on.
LEMMA EnqueueCalm ==
  ASSUME Calm, TypeInv, AloneInv, CalmInv, NEW p \in Calls, NEW c \in Cards, NEW f \in Forced, Enqueue(p, c, f)
  PROVE  CalmInv'
<1>0. UNCHANGED <<task, active, limit, jobs, job, made>> /\ call[p].pc = "idle" /\ ~ Busy(c) /\ f = FALSE /\ "again" \notin Disturbances
  BY DEF Enqueue, boardVars, Calm
<1>1. /\ AloneInv' /\ Quiet /\ OthersStay(p) /\ MovesOn(p)
      /\ LET r == call'[p] IN r.op = "enqueue" /\ r.card = c /\ r.lane = task[c].lane /\ r.force = f /\ r.pc \in {"ranRunning", "running"}
  BY <1>0, EnqueueAlone
<1>2. LanesKept /\ Harmless
  BY <1>0 DEF LanesKept, Harmless
<1>3. jobs[c] = NoJob /\ \A q \in Calls : call[q].pc = "running" => CardOf(q) # c
  <2>1. \A q \in Calls : call[q].pc = "running" => call[q].cur # NoJob
    BY WorkedCards DEF OnEntry, Jobs, NoJob
  <2> QED BY <1>0, <2>1 DEF Busy, CardOf
<1>4. EnteringKept'
  <2>1. ASSUME NEW q \in Entering'
        PROVE  /\ ~ call'[q].force /\ task'[call'[q].card].lane = call'[q].lane
               /\ \A r \in Calls : call'[r].pc = "running" => CardOf(r)' # call'[q].card
    <3>0. jobs'[call'[q].card] = NoJob
      BY <1>1 DEF AloneInv, EnteringAlone
    <3>1. call'[p].pc = "running" => CardOf(p)' # call'[q].card
      BY <1>1, <3>0 DEF MovesOn, IsCurrent, CardOf
    <3>2. CASE q = p
      BY <1>0, <1>1, <1>3, <3>1, <3>2 DEF OthersStay, CardOf
    <3>3. CASE q # p
      <4>1. q \in Entering /\ call'[q] = call[q]
        BY <1>1, <3>3 DEF Entering, OthersStay
      <4>2. /\ ~ call[q].force /\ task[call[q].card].lane = call[q].lane
            /\ \A r \in Calls : call[r].pc = "running" => CardOf(r) # call[q].card
        BY <4>1 DEF CalmInv, EnteringKept
      <4> QED BY <1>0, <1>1, <3>1, <4>1, <4>2 DEF OthersStay, CardOf
    <3> QED BY <3>2, <3>3
  <2> QED BY <2>1 DEF EnteringKept
<1> QED BY <1>0, <1>1, <1>2, <1>4, QuietCalm

\* The start of an entry of a card that no other call works on, within the limit.
LEMMA StartCalm ==
  ASSUME Calm, TypeInv, AloneInv, AloneInv', CalmInv, UNCHANGED <<task, active, limit>>, made <= made', made' \in 0 .. MaxJobs,
         NEW p \in Calls, NEW j \in 1 .. made', NEW es, es \in [Jobs -> Job], StartEntry(p, j, es),
         NEW c \in Cards, es[j].card = c, jobs'[c] = j, es[j].lane = task[c].lane, jobs[c] \in {j, NoJob}, j \notin active,
         \A d \in Cards : d # c => jobs'[d] = jobs[d],
         \A k \in 1 .. made : (k # j => es[k] = job[k]) /\ es[k].card = job[k].card /\ es[k].lane = job[k].lane,
         \A k \in Jobs : ~ es[k].force,
         \A r \in Calls : call[r].pc = "running" => CardOf(r) # c,
         Alone(p, c),
         Cardinality(RunningCards(jobs', job')) <= call'[p].limit
  PROVE  CalmInv'
<1>0. j \in Jobs /\ Prompt /\ \A k \in 1 .. made : k \in Jobs
  BY MaxJobsAssumption, TypedMap DEF Jobs, Calm, Prompt
<1>1. /\ OthersStay(p)
      /\ \A k \in Jobs : k # j => job'[k] = es[k]
      /\ job'[j].card = c /\ job'[j].lane = es[j].lane /\ job'[j].force = es[j].force /\ job'[j].status = "running"
      /\ call'[p].pc = "starting" /\ call'[p].cur = j /\ call'[p].result = NoSession /\ call'[p].op = call[p].op
      /\ call'[p].limit = call[p].limit /\ call'[p].read /\ call'[p].got = task[c]
  <2>1. /\ OthersStay(p)
        /\ \A k \in Jobs : k # j => job'[k] = es[k]
        /\ LET e == job'[j]
           IN e.card = es[j].card /\ e.lane = es[j].lane /\ e.force = es[j].force /\ e.session = es[j].session /\ e.status = "running"
        /\ LET r == call'[p]
           IN /\ r.pc = "starting" /\ r.cur = j /\ r.result = NoSession /\ r.op = call[p].op /\ r.limit = call[p].limit
              /\ r.force = call[p].force
              /\ (Prompt => r.read) /\ r.got = IF Prompt THEN task[es[j].card] ELSE BlankTask
    BY <1>0, StartEffect
  <2> QED BY <1>0, <2>1
<1>2. Frame(p, c)
  BY <1>0, <1>1, TypedMap DEF Frame
<1>3. CardOf(p)' = c /\ task[c].exists /\ CallCalm(p)
  BY <1>1 DEF CardOf, CalmInv, CardKept
<1>4. CallCalm(p)'
  BY <1>1, <1>3 DEF CallCalm
<1>5. VisitOK(p)'
  BY <1>1 DEF VisitOK
<1>6. StartHeld(p)'
  BY <1>1, <1>3 DEF StartHeld, SameLane
<1>7. CardKept(c)'
  BY <1>1, <1>3 DEF CardKept, SameLane
<1>8. \A k \in 1 .. made : job'[k].lane = job[k].lane
  BY <1>0, <1>1
<1>9. \A k \in Jobs : ~ job'[k].force
  BY <1>0, <1>1
<1>10. ASSUME NEW s \in active' PROVE s \in active /\ job'[s].card # c
  <2>1. s \in active /\ s # j /\ Counted(s) /\ s # NoJob
    BY TypedMap DEF CalmInv, Jobs, NoJob
  <2>2. s \in 1 .. made /\ s \in Jobs /\ job[s].card # c
    BY <2>1, WorkedCards DEF Counted
  <2> QED BY <1>1, <2>1, <2>2
<1>11. CountRunning(jobs', job') <= limit
  <2>1. RunningCards(jobs', job') \subseteq Cards
    BY DEF RunningCards
  <2>2. Cardinality(RunningCards(jobs', job')) \in Nat
    BY <2>1, FewerCards
  <2>3. call[p].limit \in Nat /\ limit \in Nat
    BY TypedCall, TypedFields, TypedMap DEF CallTyped
  <2> QED BY <1>1, <1>3, <2>2, <2>3 DEF CallCalm, CountRunning
<1>12. \A r \in Calls : r # p /\ call[r].pc = "running" => CardOf(r) # c
  OBVIOUS
<1>13. ~ (call'[p].op = "enqueue" /\ call'[p].pc \notin {"idle", "starting", "working", "started"}) /\ call'[p].pc # "running"
  BY <1>1
<1>14. \A d \in Cards : d # c => task'[d].exists = task[d].exists /\ task'[d].lane = task[d].lane
  OBVIOUS
<1> QED BY <1>2, <1>3, <1>4, <1>5, <1>6, <1>7, <1>8, <1>9, <1>10, <1>11, <1>12, <1>13, <1>14, FrameCalm

\* drainQueue starts a waiting entry of the card's lane.
LEMMA DrainStartCalm ==
  ASSUME Calm, TypeInv, AloneInv, CalmInv, NEW p \in Calls, DrainStart(p)
  PROVE  CalmInv'
<1>0. UNCHANGED <<task, active, limit, made, jobs>> /\ AloneInv' /\ call[p].pc = "head"
  BY DrainStartAlone DEF DrainStart, boardVars
<1>1. CASE Return(p) /\ UNCHANGED job
  <2>1. OnlyDeletes /\ Harmless
    BY <1>0, <1>1, OnlyDeletesWithout DEF Harmless
  <2> QED BY <1>0, <1>1, <2>1, ReturnMoves, QuietCallCalm
<1>2. CASE StartEntry(p, call[p].cur, job)
  <2> DEFINE j == call[p].cur
             c == job[j].card
  <2>0. j \in 1 .. made /\ j \in Jobs /\ c \in Cards /\ jobs[c] = j /\ job[j].status = "queued"
    BY TypedMap, CurrentTyped DEF DrainStart, Startable
  <2>1. j \in 1 .. made /\ j \in Jobs /\ j # NoJob /\ c \in Cards /\ jobs[c] = j /\ job[j].status = "queued"
    BY <2>0, TypedMap DEF NoJob
  <2>3. Alone(p, c)
    <3>1. \A q \in Entering : call[q].card # c
      BY <2>1 DEF AloneInv, EnteringAlone
    <3>2. ASSUME NEW q \in Calls, Starter(q) PROVE CardOf(q) # c
      <4>1. StarterOK(q)
        BY <3>2 DEF AloneInv
      <4> QED BY <2>1, <4>1 DEF StarterOK, CardOf
    <3> QED BY <3>1, <3>2 DEF Alone
  <2>4. job[j].lane = task[c].lane
    BY <2>1 DEF CalmInv, CardKept, SameLane
  <2>5. j \notin active
    BY <2>1 DEF CalmInv, Counted
  <2>6. ASSUME NEW r \in Calls, call[r].pc = "running" PROVE CardOf(r) # c
    <3>1. jobs[CardOf(r)] \in {call[r].cur, NoJob} /\ job[call[r].cur].status = "running"
      BY <2>6 DEF CalmInv, VisitOK
    <3> QED BY <2>1, <3>1
  <2>7. Cardinality(RunningCards(jobs', job')) <= call'[p].limit
    <3>1. StartsWithin
      BY DrainStartStep DEF TypeInv
    <3>2. call'[p].pc = "starting"
      BY <1>2, <2>1, TypedMap, StartEffect
    <3> QED BY <1>0, <3>1, <3>2 DEF StartsWithin
  <2>8. /\ UNCHANGED <<task, active, limit>> /\ made <= made' /\ made' \in 0 .. MaxJobs
        /\ j \in 1 .. made' /\ job \in [Jobs -> Job] /\ jobs'[c] = j /\ jobs[c] \in {j, NoJob}
        /\ \A d \in Cards : d # c => jobs'[d] = jobs[d]
    BY <1>0, <2>1, TypedMap
  <2>9. StartEntry(p, j, job) /\ \A k \in Jobs : ~ job[k].force
    BY <1>2 DEF CalmInv
  <2> HIDE DEF j
  <2> QED BY <1>0, <2>1, <2>3, <2>4, <2>5, <2>6, <2>7, <2>8, <2>9, StartCalm
<1> QED BY <1>1, <1>2 DEF DrainStart

\* A new entry is of the card's lane, whether it waits or is started.
LEMMA EnqueueAdmitCalm ==
  ASSUME Calm, TypeInv, AloneInv, CalmInv, NEW p \in Calls, EnqueueAdmit(p)
  PROVE  CalmInv'
<1>a. PICK c : c = call[p].card
  OBVIOUS
<1> DEFINE j == made + 1
           e == [card |-> c, lane |-> call[p].lane, force |-> call[p].force,
                 status |-> "queued", session |-> NoSession, starts |-> 0]
           es == [job EXCEPT ![j] = e]
<1>0. AloneInv' /\ call[p].pc = "limit"
  BY EnqueueAdmitAlone DEF EnqueueAdmit
<1>1. /\ made' = j /\ UNCHANGED <<task, active, limit>> /\ jobs' = [jobs EXCEPT ![c] = j]
      /\ j \in Jobs /\ j \in 1 .. made' /\ made <= made' /\ made' \in 0 .. MaxJobs /\ j # NoJob /\ j \notin 1 .. made
      /\ 1 .. made \subseteq Jobs
  BY <1>a, TypedMap, MaxJobsAssumption DEF EnqueueAdmit, Jobs, boardVars, NoJob
<1>2. p \in Entering /\ c \in Cards /\ call[p].lane \in Lanes /\ call[p].force \in BOOLEAN
  BY <1>a, WorkedCards, TypedCall, TypedFields DEF CallTyped, EnqueueAdmit, Entering
<1>3. /\ Alone(p, c) /\ jobs[c] = NoJob /\ ~ call[p].force /\ task[c].lane = call[p].lane /\ task[c].exists
      /\ \A r \in Calls : call[r].pc = "running" => CardOf(r) # c
      /\ task[c].trigger = NoSession
  BY <1>a, <1>2, EnteringIsAlone DEF AloneInv, EnteringAlone, CalmInv, EnteringKept, CardKept
<1>4. e \in Job /\ e.card = c /\ e.lane = call[p].lane /\ e.status = "queued" /\ e.session = NoSession /\ ~ e.force
  BY <1>2, <1>3 DEF Job, NoSession
<1> HIDE DEF e
<1>5. es \in [Jobs -> Job] /\ es[j] = e /\ \A k \in Jobs : k # j => es[k] = job[k]
  BY <1>1, <1>4, TypedMap
<1> HIDE DEF es
<1>6. \A d \in Cards : d # c => jobs'[d] = jobs[d]
  BY <1>1
<1>7. jobs'[c] = j
  BY <1>1, <1>2, TypedMap DEF MapOK
<1>8. \A k \in Jobs : ~ es[k].force
  BY <1>4, <1>5 DEF CalmInv
<1>9. \A k \in 1 .. made : k # j /\ es[k] = job[k]
  BY <1>1, <1>5
<1>10. \A s \in active : s \in 1 .. made /\ Counted(s) /\ job[s].card # c
  <2>1. \A s \in active : s # NoJob /\ Counted(s)
    BY TypedMap DEF CalmInv, Jobs, NoJob
  <2> QED BY <1>3, <2>1, WorkedCards DEF Counted
<1>11. CASE StartEntry(p, j, es)
  <2>1. es[j].card = c /\ es[j].lane = task[c].lane /\ j \notin active /\ jobs[c] \in {j, NoJob}
    BY <1>1, <1>3, <1>4, <1>5, <1>10
  <2>2. \A k \in 1 .. made : (k # j => es[k] = job[k]) /\ es[k].card = job[k].card /\ es[k].lane = job[k].lane
    BY <1>9
  <2>3. Cardinality(RunningCards(jobs', job')) <= call'[p].limit
    <3>1. StartsWithin
      BY EnqueueAdmitStep DEF TypeInv
    <3>2. call'[p].pc = "starting"
      BY <1>1, <1>5, <1>11, StartEffect
    <3> QED BY <1>0, <3>1, <3>2 DEF StartsWithin
  <2> HIDE DEF j
  <2> QED BY <1>0, <1>1, <1>2, <1>3, <1>5, <1>6, <1>7, <1>8, <1>11, <2>1, <2>2, <2>3, StartCalm
<1>12. CASE job' = es /\ (Return(p) \/ BeginDrain(call, p, jobs', es))
  <2>1. MovesOn(p) /\ OthersStay(p) /\ (call'[p].op # "enqueue" \/ call'[p].pc = "idle") /\ call'[p].pc \in {"idle", "ranRunning", "running"}
    <3>1. CASE Return(p)
      <4>1. call'[p] = Idle
        BY <3>1, SetCall DEF Return, Goto
      <4> QED BY <3>1, <4>1, ReturnMoves DEF Idle
    <3>2. CASE BeginDrain(call, p, jobs', es)
      <4> DEFINE op == "drain"
                 nc == NoCard
                 lane == BlockedLane
                 force == FALSE
      <4>1. Begin(call, p, op, nc, lane, force, jobs', job') /\ op # "drop" /\ call = [q \in Calls |-> call[q]]
        BY <1>12, <3>2, TypedCall DEF BeginDrain
      <4> HIDE DEF op, nc, lane, force
      <4>2. MovesOn(p) /\ (\A q \in Calls : q # p => call'[q] = call[q]) /\ call'[p].op = op /\ call'[p].pc \in {"ranRunning", "running"}
        BY <4>1, BeginMoves
      <4> QED BY <4>2 DEF op, OthersStay
    <3> QED BY <1>12, <3>1, <3>2
  <2>2. Frame(p, c)
    BY <1>1, <1>6, <1>9, <1>12, <2>1 DEF Frame
  <2>3. job'[j].card = c /\ job'[j].lane = task[c].lane /\ job'[j].status = "queued"
    BY <1>3, <1>4, <1>5, <1>12
  <2>4. CardKept(c)'
    BY <1>1, <1>3, <1>7, <2>3 DEF CardKept, SameLane
  <2>5. ~ Starter(p)' /\ StartHeld(p)'
    BY <2>1 DEF MovesOn, Starter, StartHeld, Live, Starting
  <2>6. call'[p].pc = "running" => /\ IsCurrent(jobs', job', call'[p].cur, "running")
                                   /\ call'[p].read /\ call'[p].got = task[CardOf(p)']
    BY <2>1 DEF MovesOn, Calm, Prompt, CardOf
  <2>7. CallCalm(p)'
    <3>1. call[p].op # "drop" /\ call[p].limit <= limit /\ limit \in Nat
      BY TypedMap DEF CalmInv, CallCalm
    <3>2. call'[p].limit <= limit /\ call'[p].op # "drop"
      BY <2>1, <3>1 DEF MovesOn, Calm
    <3> QED BY <1>1, <2>1, <2>6, <3>2 DEF CallCalm
  <2>8. VisitOK(p)'
    <3>1. CASE call'[p].pc = "running"
      <4>0. PICK i : i = call'[p].cur
        OBVIOUS
      <4>1. PICK d \in Cards : jobs'[d] = i /\ i # NoJob /\ job'[i].card = d /\ job'[i].status = "running"
        BY <2>6, <3>1, <4>0 DEF IsCurrent
      <4>2. d # c /\ jobs[d] = i
        BY <1>6, <1>7, <2>3, <4>1
      <4>3. i \in 1 .. made /\ job'[i] = job[i] /\ job[i].card = d
        BY <1>9, <1>12, <4>1, <4>2, WorkedCards
      <4>4. SameLane(task[d], i) \/ Over(i)
        BY <4>1, <4>2 DEF CalmInv, CardKept
      <4>5. Over(i) => Over(i)'
        <5>1. \A r \in Calls : Starter(r)' => call'[r] = call[r]
          BY <2>1, <2>5 DEF OthersStay
        <5> QED BY <1>1, <5>1 DEF Over, Live, Starter
      <4>6. CardOf(p)' = d /\ call'[p].got = task[d]
        BY <2>6, <3>1, <4>0, <4>1 DEF CardOf
      <4> QED BY <3>1, <4>0, <4>1, <4>3, <4>4, <4>5, <4>6 DEF VisitOK, SameLane
    <3>2. CASE call'[p].pc # "running"
      BY <2>1, <3>2 DEF VisitOK
    <3> QED BY <3>1, <3>2
  <2>9. \A s \in active' : s \in active /\ job'[s].card # c
    BY <1>1, <1>9, <1>10, <1>12
  <2>10. CountRunning(jobs', job') <= limit
    <3>1. RunningCards(jobs', job') \subseteq RunningCards(jobs, job)
      <4>1. ASSUME NEW d \in RunningCards(jobs', job') PROVE d \in RunningCards(jobs, job)
        <5>1. d \in Cards /\ d # c /\ jobs[d] = jobs'[d] /\ jobs[d] # NoJob /\ job'[jobs[d]].status = "running"
          BY <1>6, <1>7, <2>3 DEF RunningCards
        <5>2. job'[jobs[d]] = job[jobs[d]]
          BY <1>9, <1>12, <5>1, WorkedCards
        <5> QED BY <5>1, <5>2 DEF RunningCards
      <4> QED BY <4>1
    <3>2. RunningCards(jobs, job) \subseteq Cards
      BY DEF RunningCards
    <3>3. /\ Cardinality(RunningCards(jobs', job')) <= Cardinality(RunningCards(jobs, job))
          /\ Cardinality(RunningCards(jobs', job')) \in Nat /\ Cardinality(RunningCards(jobs, job)) \in Nat
      BY <3>1, <3>2, FewerCards
    <3>4. Cardinality(RunningCards(jobs, job)) <= limit /\ limit \in Nat
      BY TypedMap DEF CalmInv, CountRunning
    <3> QED BY <3>3, <3>4 DEF CountRunning
  <2>11. \A k \in 1 .. made : job'[k].lane = job[k].lane
    BY <1>9, <1>12
  <2>12. \A k \in Jobs : ~ job'[k].force
    BY <1>8, <1>12
  <2>13. /\ \A r \in Calls : r # p /\ call[r].pc = "running" => CardOf(r) # c
         /\ \A d \in Cards : d # c => task'[d].exists = task[d].exists /\ task'[d].lane = task[d].lane
         /\ ~ (call'[p].op = "enqueue" /\ call'[p].pc \notin {"idle", "starting", "working", "started"})
         /\ UNCHANGED limit
    BY <1>1, <1>3, <2>1
  <2> HIDE DEF j
  <2> QED BY <1>0, <1>2, <1>3, <2>2, <2>4, <2>5, <2>6, <2>7, <2>8, <2>9, <2>10, <2>11, <2>12, <2>13, FrameCalm
<1> QED BY <1>a, <1>11, <1>12 DEF EnqueueAdmit, es, e

\* While a start may succeed, the map holds its entry, the card is in the entry's lane, and a
\* reconcile loop that is about the card has read that.
LEMMA LiveHeld ==
  ASSUME TypeInv, AloneInv, CalmInv, NEW p \in Calls, Live(p), NEW i, i = call[p].cur, NEW c, c = CardOf(p)
  PROVE  /\ i \in 1 .. made /\ i \in Jobs /\ i # NoJob /\ c \in Cards /\ job[i].card = c /\ jobs[c] = i
         /\ job[i].status = "running" /\ SameLane(task[c], i) /\ Alone(p, c)
         /\ \A r \in Calls : call[r].pc = "running" /\ CardOf(r) = c => call[r].cur = i /\ SameLane(call[r].got, i)
         /\ \A s \in active : job[s].card = c => s = i
         /\ \A q \in Calls : Starter(q) /\ q # p => call[q].cur # i
<1>1. Starter(p) /\ StarterOK(p) /\ StartHeld(p) /\ Alone(p, c)
  BY StarterIsAlone DEF Live, CalmInv
<1>2. i \in 1 .. made /\ i \in Jobs /\ i # NoJob /\ c \in Cards /\ job[i].card = c /\ jobs[c] = i /\ job[i].status = "running"
  BY <1>1, WorkedCards DEF Starter, Starting, OnEntry, CardOf, StarterOK, StartHeld, Jobs, NoJob
<1>3. ~ Over(i)
  BY DEF Over
<1>4. SameLane(task[c], i)
  BY <1>2, <1>3 DEF CalmInv, CardKept
<1>5. ASSUME NEW r \in Calls, call[r].pc = "running", CardOf(r) = c PROVE call[r].cur = i /\ SameLane(call[r].got, i)
  BY <1>2, <1>3, <1>5 DEF CalmInv, VisitOK
<1>6. ASSUME NEW s \in active, job[s].card = c PROVE s = i
  BY <1>2, <1>6 DEF CalmInv, Counted
<1>7. ASSUME NEW q \in Calls, Starter(q), q # p PROVE call[q].cur # i
  BY <1>1, <1>2, <1>7 DEF Alone, CardOf
<1> QED BY <1>1, <1>2, <1>4, <1>5, <1>6, <1>7

\* The start closure saves the card in the entry's lane, or it creates no session.
LEMMA ClosureCalm ==
  ASSUME Calm, TypeInv, AloneInv, CalmInv, NEW p \in Calls, StartCheck(p) \/ StartSave(p) \/ StartThrows(p)
  PROVE  CalmInv'
<1> DEFINE o == call[p]
           r == call'[p]
<1>0. PICK i, c : i = o.cur /\ c = CardOf(p)
  OBVIOUS
<1>1. /\ OthersStay(p) /\ UNCHANGED <<jobs, job, made, limit>> /\ o.pc \in {"starting", "working"}
      /\ r.pc \in {"working", "started"} /\ r.cur = i /\ r.op = o.op /\ r.limit = o.limit
      /\ StartCheck(p) => /\ UNCHANGED <<task, active>> /\ o.pc = "starting" /\ o.read
                          /\ \/ r.pc = "started" /\ r.result = NoSession
                             \/ /\ r.pc = "started" /\ ~ job[i].force /\ o.got.trigger # NoSession
                             \/ r.pc = "working" /\ r.got = o.got
      /\ ~ StartCheck(p) =>
           /\ r.pc = "started" /\ r.result \in {NoSession, i}
           /\ active' \in {active, active \cup {i}}
           /\ r.result = i => active' = active \cup {i}
           /\ StartSave(p) => /\ r.result = NoSession => active' = active
                              /\ \E t : /\ task' = [task EXCEPT ![c] = t]
                                        /\ t.exists = o.got.exists
                                        /\ r.result # NoSession => t.lane = o.got.lane
           /\ ~ StartSave(p) => "fail" \in Disturbances
  BY <1>0, ClosureEffect DEF SameCall
<1>2. Live(p) /\ StarterOK(p) /\ StartHeld(p)
  BY <1>1, StarterIsAlone DEF Live, Starter, Starting, CalmInv
<1>3. /\ i \in 1 .. made /\ i \in Jobs /\ i # NoJob /\ c \in Cards /\ job[i].card = c /\ jobs[c] = i
      /\ job[i].status = "running" /\ SameLane(task[c], i) /\ Alone(p, c)
      /\ \A q \in Calls : call[q].pc = "running" /\ CardOf(q) = c => call[q].cur = i /\ SameLane(call[q].got, i)
      /\ \A s \in active : job[s].card = c => s = i
      /\ \A q \in Calls : Starter(q) /\ q # p => call[q].cur # i
  BY <1>0, <1>2, LiveHeld
<1>4. SameLane(o.got, i) /\ i \notin active
  BY <1>0, <1>1, <1>2 DEF StartHeld, Starter, Starting
<1>5. \/ UNCHANGED <<task, active>> /\ (r.pc = "started" => r.result = NoSession) /\ (r.pc = "working" => r.got = o.got)
      \/ /\ r.pc = "started" /\ r.result = NoSession /\ active' = active
         /\ \E t : task' = [task EXCEPT ![c] = t] /\ t.exists
      \/ /\ r.pc = "started" /\ r.result = i /\ active' = active \cup {i}
         /\ \E t : task' = [task EXCEPT ![c] = t] /\ SameLane(t, i)
  <2>1. CASE StartCheck(p)
    <3>1. ~ (~ job[i].force /\ o.got.trigger # NoSession)
      BY <1>0, <1>1, <1>2, <2>1 DEF StarterOK
    <3> QED BY <1>1, <2>1, <3>1
  <2>2. CASE ~ StartCheck(p)
    <3>1. StartSave(p)
      BY <1>1, <2>2 DEF Calm
    <3> QED BY <1>1, <1>4, <2>2, <3>1 DEF SameLane
  <2> QED BY <2>1, <2>2
<1>6. AloneInv'
  BY ClosureAlone
<1>7. CardOf(p)' = c
  BY <1>0, <1>1 DEF CardOf
<1>8. \A d \in Cards : d # c => task'[d] = task[d]
  BY <1>5, TypedMap
<1>9. Frame(p, c)
  BY <1>1, <1>8 DEF Frame
<1>10. active' \subseteq active \cup {i} /\ ((r.pc = "started" /\ r.result # NoSession) \/ i \notin active')
  BY <1>1, <1>3, <1>4, <1>5 DEF Jobs, NoJob, NoSession
<1>11. CallCalm(p)'
  BY <1>1 DEF CalmInv, CallCalm
<1>12. VisitOK(p)'
  BY <1>1 DEF VisitOK
<1>13. StartHeld(p)'
  <2>1. r.pc = "working" => r.got.exists /\ r.got.lane = job'[r.cur].lane
    BY <1>1, <1>4, <1>5 DEF SameLane
  <2>2. jobs'[c] = r.cur
    BY <1>1, <1>3
  <2>3. (r.pc = "started" => r.result = NoSession) => r.cur \notin active'
    BY <1>1, <1>10
  <2> QED BY <1>1, <1>7, <2>1, <2>2, <2>3 DEF StartHeld, SameLane
<1>14. CardKept(c)'
  <2>0. jobs'[c] = i /\ job'[i] = job[i]
    BY <1>1, <1>3
  <2>1. CASE task'[c].exists /\ task'[c].lane = job[i].lane
    BY <2>0, <2>1 DEF CardKept, SameLane
  <2>2. CASE r.pc = "started" /\ r.result = NoSession /\ active' = active /\ task'[c].exists
    <3>1. ASSUME NEW q \in Calls, Live(q)' PROVE call'[q].cur # i
      <4>1. q # p
        BY <2>2, <3>1 DEF Live
      <4>2. Starter(q) /\ call'[q] = call[q]
        BY <1>1, <3>1, <4>1 DEF OthersStay, Live, Starter
      <4> QED BY <1>3, <4>1, <4>2
    <3>2. Over(i)'
      BY <1>4, <2>2, <3>1 DEF Over
    <3> QED BY <1>3, <2>0, <2>2, <3>2 DEF CardKept
  <2>3. UNCHANGED task => task'[c].exists /\ task'[c].lane = job[i].lane
    BY <1>3 DEF SameLane
  <2>4. \A t : task' = [task EXCEPT ![c] = t] => task'[c] = t
    BY <1>3, TypedMap
  <2> QED BY <1>5, <2>1, <2>2, <2>3, <2>4 DEF SameLane
<1>15. ASSUME NEW q \in Calls, q # p, call[q].pc = "running", CardOf(q) = c PROVE VisitOK(q)'
  <2>1. call'[q] = call[q] /\ call[q].cur = i /\ SameLane(call[q].got, i)
    BY <1>1, <1>3, <1>15 DEF OthersStay
  <2>2. CardOf(q)' = c
    BY <1>1, <1>15, <2>1 DEF CardOf
  <2> QED BY <1>1, <1>3, <1>15, <2>1, <2>2 DEF VisitOK, SameLane
<1>16. ASSUME NEW s \in active' PROVE (s \in active \/ job'[s].card = c) /\ (job'[s].card = c => Counted(s)')
  <2>1. job'[s].card = c => s = i
    BY <1>1, <1>3, <1>10
  <2> QED BY <1>1, <1>3, <1>10, <2>1 DEF Counted
<1>17. CountRunning(jobs', job') <= limit /\ (\A k \in Jobs : ~ job'[k].force) /\ (\A k \in 1 .. made : job'[k].lane = job[k].lane)
  BY <1>1 DEF CalmInv
<1>18. \A d \in Cards : d # c => task'[d].exists = task[d].exists /\ task'[d].lane = task[d].lane
  BY <1>8
<1>19. r.pc # "running" /\ ~ (r.op = "enqueue" /\ r.pc \notin {"idle", "starting", "working", "started"}) /\ UNCHANGED limit
  BY <1>1
<1> QED BY <1>3, <1>6, <1>7, <1>9, <1>11, <1>12, <1>13, <1>14, <1>15, <1>16, <1>17, <1>18, <1>19, FrameCalm DEF r

\* A start that succeeded was held by the map all the time.
LEMMA StartSucceededCalm ==
  ASSUME Calm, TypeInv, AloneInv, CalmInv, NEW p \in Calls, StartSucceeded(p)
  PROVE  CalmInv'
<1> DEFINE o == call[p]
           r == call'[p]
<1>0. PICK i, c : i = o.cur /\ c = CardOf(p)
  OBVIOUS
<1>1. /\ o.pc = "started" /\ o.result # NoSession /\ MovesOn(p)
      /\ OthersStay(p) /\ UNCHANGED <<task, active, limit, made>>
      /\ r.pc \in {"idle", "loop"} /\ (r.pc = "loop" => r.op = "drain")
      /\ jobs' = [jobs EXCEPT ![c] = i]
      /\ job'[i].card = job[i].card /\ job'[i].lane = job[i].lane /\ job'[i].force = job[i].force
      /\ job'[i].status = job[i].status
      /\ \A k \in Jobs : k # i => job'[k] = job[k]
  BY <1>0, SucceededEffect
<1>2. Live(p)
  BY <1>1 DEF Live, Starter, Starting
<1>3. /\ i \in 1 .. made /\ i \in Jobs /\ i # NoJob /\ c \in Cards /\ job[i].card = c /\ jobs[c] = i
      /\ job[i].status = "running" /\ SameLane(task[c], i) /\ Alone(p, c)
      /\ \A q \in Calls : call[q].pc = "running" /\ CardOf(q) = c => call[q].cur = i /\ SameLane(call[q].got, i)
      /\ \A s \in active : job[s].card = c => s = i
  BY <1>0, <1>2, LiveHeld
<1>4. jobs' = jobs
  BY <1>1, <1>3, TypedMap DEF MapOK
<1>5. \A k \in Jobs : job'[k].card = job[k].card /\ job'[k].lane = job[k].lane /\ job'[k].force = job[k].force
                      /\ job'[k].status = job[k].status /\ (k # i => job'[k] = job[k])
  BY <1>1
<1>6. \A k \in 1 .. made : k \in Jobs
  BY TypedMap
<1>7. AloneInv'
  BY StartSucceededAlone
<1>8. Frame(p, c)
  BY <1>1, <1>3, <1>4, <1>5, <1>6 DEF Frame
<1>9. CallCalm(p)'
  <2>1. o.op # "drop" /\ o.limit <= limit /\ limit \in Nat
    BY TypedMap DEF CalmInv, CallCalm
  <2> QED BY <1>1, <2>1 DEF MovesOn, Calm, CallCalm
<1>10. VisitOK(p)' /\ StartHeld(p)' /\ ~ Starter(p)'
  BY <1>1 DEF VisitOK, StartHeld, Live, Starter, Starting
<1>11. CardKept(c)'
  BY <1>1, <1>3, <1>4, <1>5 DEF CardKept, SameLane
<1>12. ASSUME NEW q \in Calls, q # p, call[q].pc = "running", CardOf(q) = c PROVE VisitOK(q)'
  <2>1. call'[q] = call[q] /\ call[q].cur = i /\ SameLane(call[q].got, i)
    BY <1>1, <1>3, <1>12 DEF OthersStay
  <2>2. CardOf(q)' = c
    BY <1>1, <1>3, <2>1 DEF CardOf
  <2>3. job'[i].status = "running" /\ call[q].got.exists /\ call[q].got.lane = job'[i].lane /\ jobs'[c] = i
    BY <1>1, <1>3, <1>4, <2>1 DEF SameLane
  <2> QED BY <1>12, <2>1, <2>2, <2>3 DEF VisitOK, SameLane
<1>13. ASSUME NEW s \in active' PROVE (s \in active \/ job'[s].card = c) /\ (job'[s].card = c => Counted(s)')
  <2>1. s \in active /\ s \in Jobs
    BY <1>1, TypedMap
  <2> QED BY <1>3, <1>4, <1>5, <2>1 DEF Counted
<1>14. CountRunning(jobs', job') <= limit
  <2>1. RunningCards(jobs', job') = RunningCards(jobs, job)
    BY <1>4, <1>5, WorkedCards DEF RunningCards
  <2> QED BY <2>1 DEF CalmInv, CountRunning
<1>15. (\A k \in Jobs : ~ job'[k].force) /\ (\A k \in 1 .. made : job'[k].lane = job[k].lane)
  BY <1>5, <1>6 DEF CalmInv
<1>16. /\ \A d \in Cards : d # c => task'[d].exists = task[d].exists /\ task'[d].lane = task[d].lane
       /\ r.pc # "running" /\ ~ (r.op = "enqueue" /\ r.pc \notin {"idle", "starting", "working", "started"}) /\ UNCHANGED limit
  BY <1>1
<1> QED BY <1>3, <1>7, <1>8, <1>9, <1>10, <1>11, <1>12, <1>13, <1>14, <1>15, <1>16, FrameCalm DEF r

\* The board is empty at first.
LEMMA InitCalm ==
  ASSUME Init
  PROVE  CalmInv
<1>1. /\ \A p \in Calls : call[p].pc = "idle" /\ call[p].op = "snapshot" /\ call[p].limit = 0
      /\ \A j \in Jobs : ~ job[j].force
      /\ \A c \in Cards : jobs[c] = NoJob
      /\ active = {} /\ limit \in Nat
  BY LimitsAssumption DEF Init, Idle, BlankJob
<1>2. ASSUME NEW c \in Cards PROVE task[c].exists
  BY DEF Init, BlankTask
<1>3. RunningCards(jobs, job) = {}
  BY <1>1 DEF RunningCards
<1>4. CountRunning(jobs, job) <= limit
  BY <1>1, <1>3, FS_EmptySet DEF CountRunning
<1>5. \A p \in Calls : CallCalm(p) /\ VisitOK(p) /\ StartHeld(p)
  BY <1>1 DEF CallCalm, VisitOK, StartHeld, Live, Starter, Starting
<1>6. EnteringKept /\ \A c \in Cards : CardKept(c)
  BY <1>1, <1>2 DEF EnteringKept, Entering, CardKept
<1> QED BY <1>1, <1>4, <1>5, <1>6 DEF CalmInv

\* Every step of a calm system keeps the sessions at work counted.
LEMMA NextCalm ==
  ASSUME Calm, TypeInv, AloneInv, CalmInv, Next
  PROVE  CalmInv'
<1>1. ASSUME NEW p \in Calls, Resume(p) PROVE CalmInv'
  BY <1>1, ReadTaskCalm, QuietStepsCalm, EnqueueAdmitCalm, DrainStartCalm, ClosureCalm, StartSucceededCalm DEF Resume
<1>2. ASSUME NEW p \in Calls, NewCall(p) PROVE CalmInv'
  BY <1>2, EnqueueCalm, QuietStepsCalm DEF NewCall
<1>3. ASSUME NEW p \in Calls, NEW q \in Calls, StartRefused(p, q) PROVE CalmInv'
  BY <1>3, StartRefusedCalm
<1>4. ASSUME NEW p \in Calls, NEW s \in Jobs, SessionEnds(p, s) PROVE CalmInv'
  BY <1>4, SessionEndsCalm
<1> QED BY <1>1, <1>2, <1>3, <1>4, EnvironmentCalm DEF Next

\* The board's sessions at work stay within its limit, for every number of cards, calls and jobs,
\* as long as the system is calm: a session begins only for an entry that the map holds as
\* running, nobody removes that entry before an event announces the session's end, and startEntry
\* counted it against a limit that has not changed (drainQueue, enqueue, startEntry,
\* handleAgentLifecycleEvent).  A session that reports inside its turn is no longer counted, by
\* the code and by the theorem: with it the limit may be exceeded (SessionsWithinLimit).
THEOREM LimitKept ==
  ASSUME Forced \subseteq {FALSE}, Disturbances \subseteq {"hold", "early", "report"}
  PROVE  Spec => []BoardLimit
<1> DEFINE Inv == TypeInv /\ AloneInv /\ CalmInv
<1>0. Calm
  BY DEF Calm
<1>1. Init => Inv
  BY InitTypes, InitAlone, InitCalm
<1>2. Inv /\ [Next]_vars => Inv'
  <2>1. CASE Next
    BY <1>0, <2>1, NextTypes, NextAlone, NextCalm DEF Calm
  <2>2. CASE UNCHANGED vars
    <3>1. ASSUME TypeInv, UNCHANGED vars PROVE TypeInv'
      BY <3>1, NextTypes
    <3>2. ASSUME AloneInv, UNCHANGED vars PROVE AloneInv'
      BY <3>2 DEF vars, boardVars, AloneInv, EnteringAlone, StartersApart, StarterOK, SessionsOwn, QueuedFree,
         RunningCards, Entering, Starter, CardOf
    <3>3. ASSUME CalmInv, UNCHANGED vars PROVE CalmInv'
      BY <3>3 DEF vars, boardVars, CalmInv, CallCalm, VisitOK, StartHeld, EnteringKept, CardKept, Counted, CountRunning,
         RunningCards, SameLane, Over, Live, Entering, Starter, CardOf
    <3> QED BY <2>2, <3>1, <3>2, <3>3
  <2> QED BY <2>1, <2>2
<1>3. Inv => BoardLimit
  BY CalmWithin
<1> QED BY <1>1, <1>2, <1>3, PTL DEF Spec
=============================================================================
