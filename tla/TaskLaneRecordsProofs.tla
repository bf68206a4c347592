----------------------- MODULE TaskLaneRecordsProofs -----------------------
(***************************************************************************)
(* Proofs about TaskLaneRecords, for every set of sessions, columns and    *)
(* handlers.                                                               *)
(***************************************************************************)
EXTENDS TaskLaneRecords, TLAPS

\* The record of a session without a run, and a fresh card, are well typed.
LEMMA BlankType == Blank \in Card /\ NoRecord \in LaneRecord
  BY ColumnsAssumption DEF Blank, Card, NoRecord, LaneRecord

\* mergeLaneSession returns a lane record that is present, is ended when
\* either side is, keeps both planned reruns, and has the column of one side.
LEMMA MergeRecord ==
  ASSUME NEW r \in LaneRecord, NEW q \in LaneRecord, Present(r), Present(q)
  PROVE  LET m == MergeLaneSession(r, q)
         IN /\ m \in LaneRecord
            /\ Present(m)
            /\ Ended(r) \/ Ended(q) => Ended(m)
            /\ m.retry = (r.retry \/ q.retry)
            /\ m.column \in {r.column, q.column}
  BY DEF MergeLaneSession, LaneRecord, Present, Ended

\* Ending a record, with or without a planned rerun, keeps its column.
LEMMA EndedRecord ==
  ASSUME NEW r \in LaneRecord, NEW b \in BOOLEAN
  PROVE  LET q == [r EXCEPT !.status = "ended", !.retry = b]
         IN q \in LaneRecord /\ Present(q) /\ Ended(q) /\ q.column = r.column /\ q.retry = b
  BY DEF LaneRecord, Present, Ended

\* markTaskLaneSessionStatus keeps the column and the planned rerun of a record.
LEMMA MarkedRecord ==
  ASSUME NEW r \in LaneRecord, Present(r)
  PROVE  LET q == [r EXCEPT !.status = "ended"]
         IN Present(q) /\ q.column = r.column /\ q.retry = r.retry
  BY DEF LaneRecord, Present

\* mergeCard keeps the type of a card.
LEMMA MergeCardType ==
  ASSUME NEW a \in Card, NEW b \in Card
  PROVE  MergeCard(a, b) \in Card
<1>1. MergeLaneSessions(a.lanes, b.lanes) \in [Sessions -> LaneRecord]
  <2>1. \A s \in Sessions : a.lanes[s] \in LaneRecord /\ b.lanes[s] \in LaneRecord
    BY DEF Card
  <2>2. ASSUME NEW s \in Sessions, Present(a.lanes[s]), Present(b.lanes[s])
        PROVE  MergeLaneSession(a.lanes[s], b.lanes[s]) \in LaneRecord
    BY <2>1, <2>2, MergeRecord
  <2> QED
    BY <2>1, <2>2 DEF MergeLaneSessions
<1> QED
  BY <1>1 DEF MergeCard, Card

\* The upsert writes a card whose records, session ids, column and existence are
\* those of the merged card; only its trigger may be the row's.
LEMMA UpsertedCard ==
  ASSUME NEW a \in Card, NEW b \in Card
  PROVE  LET u == Upserted(a, b)
         IN /\ u \in Card
            /\ u.lanes = b.lanes /\ u.ids = b.ids /\ u.column = b.column /\ u.exists = b.exists
            /\ u.trigger = b.trigger \/ (u.trigger = a.trigger /\ a.exists)
            /\ store = "sqlite" => u = b
<1> DEFINE u == Upserted(a, b)
<1>1. CASE store # "sqlite" /\ a.exists /\ b.trigger = NoSession
  <2>1. u = [b EXCEPT !.trigger = a.trigger]
    BY <1>1 DEF Upserted
  <2> QED
    BY <1>1, <2>1 DEF Card
<1>2. CASE ~ (store # "sqlite" /\ a.exists /\ b.trigger = NoSession)
  <2>1. u = b
    BY <1>2 DEF Upserted
  <2> QED
    BY <2>1
<1> QED
  BY <1>1, <1>2

\* upsertTaskLaneSession keeps the type of a card.
LEMMA UpsertType ==
  ASSUME NEW c \in Card, NEW s \in Sessions, NEW r \in LaneRecord
  PROVE  Upsert(c, s, r) \in Card
  BY DEF Upsert, Card

\* archiveActiveTaskSession keeps the type of a card and only adds a session id.
LEMMA ArchiveType ==
  ASSUME NEW c \in Card
  PROVE  LET d == ArchiveActive(c)
         IN /\ d \in Card /\ c.ids \subseteq d.ids
            /\ d.trigger = c.trigger /\ d.lanes = c.lanes /\ d.exists = c.exists
  BY DEF ArchiveActive, Card

\* finalizeActiveTaskSession keeps the type of a card.
LEMMA FinalizeType ==
  ASSUME NEW c \in Card
  PROVE  FinalizeActive(c) \in Card
<1> SUFFICES ASSUME c.trigger # NoSession PROVE FinalizeActive(c) \in Card
  BY DEF FinalizeActive
<1>1. c.trigger \in Sessions
  BY DEF Card
<1> DEFINE d == ArchiveActive(c)
<1>2. d \in Card
  BY ArchiveType
<1> HIDE DEF d
<1>3. [d.lanes[c.trigger] EXCEPT !.status = "ended"] \in LaneRecord
  BY <1>1, <1>2 DEF Card, LaneRecord
<1>4. MarkEnded(d, c.trigger) \in Card
  BY <1>1, <1>2, <1>3, UpsertType DEF MarkEnded
<1> QED
  BY <1>4 DEF FinalizeActive, Card, d

\* completeRunningSessionsOutsideColumn keeps the type of a card and touches
\* only its lane records.
LEMMA CompleteType ==
  ASSUME NEW c \in Card, NEW s \in Sessions
  PROVE  CompleteOutsideColumn(c, s) \in Card
<1>1. [t \in Sessions |->
         IF t # s /\ c.lanes[t].status = "running" /\ c.lanes[t].column # c.column
         THEN [c.lanes[t] EXCEPT !.status = "ended"] ELSE c.lanes[t]]
        \in [Sessions -> LaneRecord]
  BY DEF Card, LaneRecord
<1> QED
  BY <1>1 DEF CompleteOutsideColumn, Card

\* The type invariant of the store and of the handlers' copies holds in every
\* state, on every store.
THEOREM Typing == Spec => []TypeOK
<1>1. Init => TypeOK
  BY BlankType DEF Init, TypeOK
<1>2. TypeOK /\ [Next]_vars => TypeOK'
  <2> SUFFICES ASSUME TypeOK, [Next]_vars PROVE TypeOK'
    OBVIOUS
  <2> USE DEF TypeOK
  <2>1. CASE UNCHANGED vars
    BY <2>1 DEF vars
  <2>2. CASE Delete
    BY <2>2, BlankType DEF Delete, Card
  <2>3. ASSUME NEW w \in Writers, Get(w) PROVE TypeOK'
    BY <2>3 DEF Get
  <2>4. ASSUME NEW w \in Writers, RetryTrigger(w) PROVE TypeOK'
    <3>1. ArchiveActive(copy[w]) \in Card
      BY ArchiveType
    <3>2. [ArchiveActive(copy[w]) EXCEPT !.trigger = NoSession] \in Card
      BY <3>1 DEF Card
    <3> QED
      BY <2>4, <3>2 DEF RetryTrigger, Edit
  <2>5. ASSUME NEW w \in Writers, SaveLocked(w) PROVE TypeOK'
    <3>1. card \in Card /\ MergeCard(card, copy[w]) \in Card
      BY MergeCardType
    <3>2. Upserted(card, MergeCard(card, copy[w])) \in Card
      BY <3>1, UpsertedCard
    <3> QED
      BY <2>5, <3>2 DEF SaveLocked
  <2>6. ASSUME NEW w \in Writers, SaveRead(w) PROVE TypeOK'
    BY <2>6 DEF SaveRead
  <2>7. ASSUME NEW w \in Writers, SaveWrite(w) PROVE TypeOK'
    <3>1. card \in Card /\ MergeCard(row[w], copy[w]) \in Card
      BY MergeCardType
    <3>2. Upserted(card, MergeCard(row[w], copy[w])) \in Card
      BY <3>1, UpsertedCard
    <3> QED
      BY <2>7, <3>2, BlankType DEF SaveWrite
  <2>8. ASSUME NEW w \in Writers, NEW c \in Columns, MoveColumn(w, c) PROVE TypeOK'
    <3>1. [copy[w] EXCEPT !.column = c] \in Card
      BY DEF Card
    <3> QED
      BY <2>8, <3>1, FinalizeType DEF MoveColumn, Edit
  <2>9. ASSUME NEW w \in Writers, NEW s \in Sessions, StepStarted(w, s) PROVE TypeOK'
    <3> DEFINE c == CompleteOutsideColumn(copy[w], s)
               d == [c EXCEPT !.trigger = s, !.ids = c.ids \cup {s}]
               r == [status |-> "running", column |-> c.column, retry |-> FALSE]
    <3>1. c \in Card
      BY CompleteType
    <3> HIDE DEF c
    <3>2. d \in Card /\ r \in LaneRecord
      BY <3>1 DEF Card, LaneRecord
    <3>3. copy' = [copy EXCEPT ![w] = Upsert(d, s, r)] /\ UNCHANGED <<store, card, pc, row>> /\ spawned' = spawned \cup {s}
      BY <2>9 DEF StepStarted, Edit, c
    <3> QED
      BY <3>2, <3>3, UpsertType
  <2>10. ASSUME NEW w \in Writers, NEW s \in Sessions, NEW r \in BOOLEAN, StartFailed(w, s, r)
         PROVE  TypeOK'
    <3>1. [status |-> "ended", column |-> copy[w].column, retry |-> r] \in LaneRecord
      BY DEF Card, LaneRecord
    <3> QED
      BY <2>10, <3>1, UpsertType DEF StartFailed, Edit
  <2>11. ASSUME NEW w \in Writers, NEW s \in Sessions, NEW r \in BOOLEAN, SessionEnded(w, s, r)
         PROVE  TypeOK'
    <3>0. (copy[w].lanes[s].retry \/ r) \in BOOLEAN /\ copy[w].lanes[s] \in LaneRecord
      BY DEF Card
    <3>1. [copy[w].lanes[s] EXCEPT !.status = "ended", !.retry = copy[w].lanes[s].retry \/ r] \in LaneRecord
      BY <3>0, EndedRecord
    <3> QED
      BY <2>11, <3>1, UpsertType DEF SessionEnded, Edit
  <2> QED
    BY <2>1, <2>2, <2>3, <2>4, <2>5, <2>6, <2>7, <2>8, <2>9, <2>10, <2>11 DEF Next
<1> QED
  BY <1>1, <1>2, PTL DEF Spec

\* No step changes the driver behind the store.
LEMMA StoreFixed ==
  ASSUME [Next]_vars
  PROVE  store' = store
  BY DEF Next, vars, Delete, Get, RetryTrigger, SaveLocked, SaveRead, SaveWrite, MoveColumn,
         StepStarted, StartFailed, SessionEnded, Edit

-----------------------------------------------------------------------------
(***************************************************************************)
(* The trigger session is documented when saves lock the row.  The copies  *)
(* must be documented too, for a save takes the trigger from the copy, or  *)
(* leaves the row's, whose record is in the row that was merged.           *)
(***************************************************************************)
DocumentedInv ==
  /\ Documented(card)
  /\ \A w \in Writers : pc[w] # "saving" /\ Documented(copy[w])

\* Merging never removes the lane record or the session id of the incoming card.
LEMMA MergeDocumented ==
  ASSUME NEW a \in Card, NEW b \in Card, Documented(b)
  PROVE  Documented(MergeCard(a, b))
<1> SUFFICES ASSUME a.exists, b.trigger # NoSession PROVE Documented(MergeCard(a, b))
  BY DEF Documented, MergeCard, Card
<1> DEFINE t == b.trigger
<1>1. t \in Sessions /\ t \in b.ids /\ Present(b.lanes[t])
  BY DEF Documented, Card
<1>2. a.lanes[t] \in LaneRecord /\ b.lanes[t] \in LaneRecord
  BY <1>1 DEF Card
<1>3. Present(MergeLaneSessions(a.lanes, b.lanes)[t])
  BY <1>1, <1>2, MergeRecord DEF MergeLaneSessions
<1>4. /\ MergeCard(a, b).trigger = t
      /\ MergeCard(a, b).ids = b.ids \cup a.ids
      /\ MergeCard(a, b).lanes = MergeLaneSessions(a.lanes, b.lanes)
  BY DEF MergeCard, Card
<1> QED
  BY <1>1, <1>3, <1>4 DEF Documented

\* Merging keeps the lane record and the session id of the stored trigger as well,
\* so it does not matter whose trigger the upsert leaves in the row.
LEMMA UpsertedDocumented ==
  ASSUME NEW a \in Card, NEW b \in Card, Documented(a), Documented(b)
  PROVE  Documented(Upserted(a, MergeCard(a, b)))
<1> DEFINE m == MergeCard(a, b)
           u == Upserted(a, m)
<1>1. m \in Card /\ Documented(m)
  BY MergeCardType, MergeDocumented
<1>2. /\ u.lanes = m.lanes /\ u.ids = m.ids
      /\ u.trigger = m.trigger \/ (u.trigger = a.trigger /\ a.exists)
  BY <1>1, UpsertedCard
<1>3. ASSUME a.exists, a.trigger # NoSession
      PROVE  a.trigger \in m.ids /\ Present(m.lanes[a.trigger])
  <2> DEFINE t == a.trigger
  <2>1. t \in Sessions /\ t \in a.ids /\ Present(a.lanes[t])
    BY <1>3 DEF Documented, Card
  <2>2. a.lanes[t] \in LaneRecord /\ b.lanes[t] \in LaneRecord
    BY <2>1 DEF Card
  <2>3. Present(MergeLaneSessions(a.lanes, b.lanes)[t])
    BY <2>1, <2>2, MergeRecord DEF MergeLaneSessions
  <2>4. m.ids = b.ids \cup a.ids /\ m.lanes = MergeLaneSessions(a.lanes, b.lanes)
    BY <1>3 DEF MergeCard, Card
  <2> QED
    BY <2>1, <2>3, <2>4
<1> HIDE DEF m, u
<1>4. Documented(u)
  BY <1>1, <1>2, <1>3 DEF Documented
<1> QED
  BY <1>4 DEF m, u

\* With a row lock, on SQLite as on Postgres, the stored trigger session always has
\* its lane record and its place in sessionIds, whatever copies are saved and
\* whether or not the store writes a cleared trigger.
THEOREM TriggerSafety == Spec => []TriggerDocumented
<1> DEFINE Inv == RowLock => DocumentedInv
<1>1. Init => DocumentedInv
  <2>1. Documented(Blank)
    BY DEF Documented, Blank
  <2> QED
    BY <2>1 DEF Init, DocumentedInv
<1>2. TypeOK /\ RowLock /\ DocumentedInv /\ [Next]_vars => DocumentedInv'
  <2> SUFFICES ASSUME TypeOK, RowLock, DocumentedInv, [Next]_vars PROVE DocumentedInv'
    OBVIOUS
  <2>0. card \in Card /\ \A v \in Writers : copy[v] \in Card /\ row[v] \in Card
    BY DEF TypeOK
  <2>00. copy \in [Writers -> Card]
    BY DEF TypeOK
  <2>000. pc \in [Writers -> {"idle", "editing", "saving"}]
    BY DEF TypeOK
  <2> USE DEF DocumentedInv
  <2>1. CASE UNCHANGED vars
    BY <2>1 DEF vars
  <2>2. CASE Delete
    BY <2>2 DEF Delete, Documented, Blank
  <2>3. ASSUME NEW w \in Writers, Get(w) PROVE DocumentedInv'
    BY <2>3, <2>00, <2>000 DEF Get
  <2>4. ASSUME NEW w \in Writers, NEW d, Edit(w, d), Documented(d) PROVE DocumentedInv'
    BY <2>4, <2>00 DEF Edit
  <2>5. ASSUME NEW w \in Writers, RetryTrigger(w) PROVE DocumentedInv'
    <3>0. ArchiveActive(copy[w]) \in Card
      BY <2>0, ArchiveType
    <3>1. Documented([ArchiveActive(copy[w]) EXCEPT !.trigger = NoSession])
      BY <3>0 DEF Documented, Card
    <3> QED
      BY <2>4, <2>5, <3>1 DEF RetryTrigger
  <2>6. ASSUME NEW w \in Writers, SaveLocked(w) PROVE DocumentedInv'
    BY <2>6, <2>0, UpsertedDocumented DEF SaveLocked
  <2>7. ASSUME NEW w \in Writers, SaveRead(w) PROVE DocumentedInv'
    BY <2>7 DEF SaveRead
  <2>8. ASSUME NEW w \in Writers, SaveWrite(w) PROVE DocumentedInv'
    BY <2>8 DEF SaveWrite
  <2>9. ASSUME NEW w \in Writers, NEW c \in Columns, MoveColumn(w, c) PROVE DocumentedInv'
    <3> DEFINE d == [copy[w] EXCEPT !.column = c]
    <3>1. d.trigger = copy[w].trigger /\ d.ids = copy[w].ids /\ d.lanes = copy[w].lanes /\ d \in Card
      BY <2>0 DEF Card
    <3>2. Documented(d)
      BY <3>1 DEF Documented
    <3> HIDE DEF d
    <3>3. d.trigger # NoSession => FinalizeActive(d).trigger = NoSession
      BY <3>1, ArchiveType DEF FinalizeActive, MarkEnded, Upsert, Card
    <3>4. Documented(FinalizeActive(d))
      BY <3>2, <3>3 DEF Documented, FinalizeActive
    <3> QED
      BY <2>4, <2>9, <3>4 DEF MoveColumn, d
  <2>10. ASSUME NEW w \in Writers, NEW s \in Sessions, StepStarted(w, s) PROVE DocumentedInv'
    <3> DEFINE c == CompleteOutsideColumn(copy[w], s)
               d == [c EXCEPT !.trigger = s, !.ids = c.ids \cup {s}]
               r == [status |-> "running", column |-> c.column, retry |-> FALSE]
    <3>1. c \in Card
      BY <2>0, CompleteType
    <3>2. Edit(w, Upsert(d, s, r))
      BY <2>10 DEF StepStarted
    <3> HIDE DEF c
    <3>3. Upsert(d, s, r).trigger = s /\ s \in Upsert(d, s, r).ids /\ Upsert(d, s, r).lanes[s] = r
      BY <3>1 DEF Upsert, Card
    <3>4. Documented(Upsert(d, s, r))
      BY <3>3 DEF Documented, Present
    <3> QED
      BY <2>4, <3>2, <3>4
  <2>11. ASSUME NEW w \in Writers, NEW s \in Sessions, NEW r \in LaneRecord, Present(r)
         PROVE  Documented(Upsert(copy[w], s, r))
    BY <2>11, <2>0 DEF Documented, Upsert, Card
  <2>12. ASSUME NEW w \in Writers, NEW s \in Sessions, NEW b \in BOOLEAN, StartFailed(w, s, b)
         PROVE  DocumentedInv'
    <3> DEFINE r == [status |-> "ended", column |-> copy[w].column, retry |-> b]
    <3>1. r \in LaneRecord /\ Present(r)
      BY <2>0 DEF Card, LaneRecord, Present
    <3> QED
      BY <2>4, <2>11, <2>12, <3>1 DEF StartFailed
  <2>13. ASSUME NEW w \in Writers, NEW s \in Sessions, NEW b \in BOOLEAN, SessionEnded(w, s, b)
         PROVE  DocumentedInv'
    <3> DEFINE q == copy[w].lanes[s]
               r == [q EXCEPT !.status = "ended", !.retry = q.retry \/ b]
    <3>0. (q.retry \/ b) \in BOOLEAN /\ q \in LaneRecord
      BY <2>0 DEF Card
    <3>1. r \in LaneRecord /\ Present(r)
      BY <3>0, EndedRecord
    <3> QED
      BY <2>4, <2>11, <2>13, <3>1 DEF SessionEnded
  <2> QED
    BY <2>1, <2>2, <2>3, <2>5, <2>6, <2>7, <2>8, <2>9, <2>10, <2>12, <2>13 DEF Next
<1>3. TypeOK /\ Inv /\ [Next]_vars => Inv'
  BY <1>2, StoreFixed DEF RowLock
<1>4. Inv => TriggerDocumented
  BY DEF DocumentedInv, TriggerDocumented
<1> QED
  BY <1>1, <1>3, <1>4, Typing, PTL DEF Spec

-----------------------------------------------------------------------------
(***************************************************************************)
(* Refinement of the ledger.  A save compares the stored row with a copy   *)
(* of any age, so the invariant relates all of them: the records two       *)
(* holders both have agree on the column, only spawned sessions have       *)
(* records, an absent record carries no planned rerun, and a deleted card  *)
(* has no record.                                                          *)
(***************************************************************************)
Clean(c) == \A s \in Sessions : ~ Present(c.lanes[s]) => ~ c.lanes[s].retry

Agree(c, d) == \A s \in Sessions :
  Present(c.lanes[s]) /\ Present(d.lanes[s]) => c.lanes[s].column = d.lanes[s].column

Known(c) == \A s \in Sessions : Present(c.lanes[s]) => s \in spawned

LedgerInv ==
  /\ ~ card.exists => \A s \in Sessions : ~ Present(card.lanes[s])
  /\ Clean(card) /\ Known(card)
  /\ \A w \in Writers : /\ pc[w] # "saving" /\ copy[w].exists
                        /\ Clean(copy[w]) /\ Known(copy[w]) /\ Agree(card, copy[w])
  /\ \A v, w \in Writers : Agree(copy[v], copy[w])

\* What a save does to the record of one session, row by row.
LEMMA MergedLane ==
  ASSUME NEW a \in Card, NEW b \in Card, Clean(a), Clean(b), NEW s \in Sessions,
         ~ a.exists => ~ Present(a.lanes[s])
  PROVE  LET r == a.lanes[s]
             q == b.lanes[s]
             m == MergeCard(a, b).lanes[s]
         IN /\ m \in LaneRecord
            /\ Present(m) <=> Present(r) \/ Present(q)
            /\ Present(m) => \/ Present(r) /\ m.column = r.column
                             \/ Present(q) /\ m.column = q.column
            /\ Ended(r) => Ended(m)
            /\ m.retry <=> r.retry \/ q.retry
<1> DEFINE r == a.lanes[s]
           q == b.lanes[s]
           m == MergeCard(a, b).lanes[s]
<1>1. r \in LaneRecord /\ q \in LaneRecord /\ (~ Present(r) => ~ r.retry) /\ (~ Present(q) => ~ q.retry)
  BY DEF Card, Clean
<1>2. CASE ~ a.exists
  <2>1. m = q /\ ~ Present(r) /\ ~ r.retry
    BY <1>1, <1>2 DEF MergeCard
  <2> QED
    BY <1>1, <2>1 DEF Ended, Present
<1>3. CASE a.exists
  <2>1. m = MergeLaneSessions(a.lanes, b.lanes)[s]
    BY <1>3 DEF MergeCard, Card
  <2>2. CASE ~ Present(q)
    <3>1. m = r
      BY <2>1, <2>2 DEF MergeLaneSessions
    <3> QED
      BY <1>1, <2>2, <3>1
  <2>3. CASE Present(q) /\ ~ Present(r)
    <3>1. m = q
      BY <2>1, <2>3 DEF MergeLaneSessions
    <3> QED
      BY <1>1, <2>3, <3>1 DEF Ended, Present
  <2>4. CASE Present(q) /\ Present(r)
    <3>1. m = MergeLaneSession(r, q)
      BY <2>1, <2>4 DEF MergeLaneSessions
    <3> HIDE DEF r, q, m
    <3>2. /\ m \in LaneRecord /\ Present(m)
          /\ Ended(r) => Ended(m)
          /\ m.retry = (r.retry \/ q.retry)
          /\ m.column \in {r.column, q.column}
      BY <1>1, <2>4, <3>1, MergeRecord
    <3>3. /\ Present(m) <=> Present(r) \/ Present(q)
          /\ Present(m) => \/ Present(r) /\ m.column = r.column
                           \/ Present(q) /\ m.column = q.column
          /\ m.retry <=> r.retry \/ q.retry
      BY <2>4, <3>2
    <3> QED
      BY <3>2, <3>3 DEF r, q, m
  <2> QED
    BY <2>2, <2>3, <2>4
<1> QED
  BY <1>2, <1>3 DEF Card

\* A handler's edit keeps the invariant when it adds records of fresh sessions
\* only and leaves the column of the records it had.
LEMMA EditKeepsLedgerInv ==
  ASSUME TypeOK, LedgerInv, NEW w \in Writers, NEW d, Edit(w, d), d.exists, Clean(d),
         spawned \subseteq spawned',
         \A s \in Sessions : Present(d.lanes[s]) =>
            /\ s \in spawned'
            /\ \/ Present(copy[w].lanes[s]) /\ d.lanes[s].column = copy[w].lanes[s].column
               \/ s \notin spawned
  PROVE  LedgerInv'
<1>1. copy \in [Writers -> Card]
  BY DEF TypeOK
<1>2. copy' = [copy EXCEPT ![w] = d] /\ card' = card /\ pc' = pc
  BY DEF Edit
<1>3. copy'[w] = d /\ \A v \in Writers \ {w} : copy'[v] = copy[v]
  BY <1>1, <1>2
<1>4. ASSUME NEW c, Known(c), Agree(c, copy[w]) PROVE Agree(c, d)
  BY <1>4 DEF Known, Agree
<1>5. Agree(d, d)
  BY DEF Agree
<1>6. ASSUME NEW v \in Writers, NEW u \in Writers PROVE Agree(copy'[v], copy'[u])
  <2>1. CASE v # w /\ u # w
    BY <2>1, <1>3 DEF LedgerInv
  <2>2. CASE v # w /\ u = w
    BY <2>2, <1>3, <1>4 DEF LedgerInv
  <2>3. CASE v = w /\ u # w
    <3>1. Agree(copy[u], d)
      BY <2>3, <1>4 DEF LedgerInv
    <3> QED
      BY <2>3, <1>3, <3>1 DEF Agree
  <2> QED
    BY <2>1, <2>2, <2>3, <1>3, <1>5
<1>7. \A v \in Writers : Clean(copy'[v]) /\ copy'[v].exists
  BY <1>3 DEF LedgerInv
<1>8. \A v \in Writers, s \in Sessions : Present(copy'[v].lanes[s]) => s \in spawned'
  BY <1>3 DEF LedgerInv, Known
<1>9. \A v \in Writers : Agree(card, copy'[v])
  BY <1>3, <1>4 DEF LedgerInv
<1>10. LedgerInv' <=>
         /\ ~ card'.exists => \A s \in Sessions : ~ Present(card'.lanes[s])
         /\ Clean(card') /\ \A s \in Sessions : Present(card'.lanes[s]) => s \in spawned'
         /\ \A v \in Writers : /\ pc'[v] # "saving" /\ copy'[v].exists
                               /\ Clean(copy'[v])
                               /\ \A s \in Sessions : Present(copy'[v].lanes[s]) => s \in spawned'
                               /\ Agree(card', copy'[v])
         /\ \A v, u \in Writers : Agree(copy'[v], copy'[u])
  BY DEF LedgerInv, Known, Clean, Agree, Present
<1> QED
  BY <1>2, <1>6, <1>7, <1>8, <1>9, <1>10 DEF LedgerInv, Known

\* The invariant of the refinement is inductive when saves lock the row.
LEMMA LedgerInvInductive ==
  ASSUME RowLock, TypeOK, LedgerInv, [Next]_vars
  PROVE  LedgerInv'
<1>0. card \in Card /\ \A v \in Writers : copy[v] \in Card
  BY DEF TypeOK
<1>00. copy \in [Writers -> Card]
  BY DEF TypeOK
<1>1. CASE UNCHANGED vars
  BY <1>1 DEF vars, LedgerInv, Clean, Known, Agree
<1>2. CASE Delete
  <2>1. \A s \in Sessions : card'.lanes[s] = NoRecord
    BY <1>2 DEF Delete, Blank
  <2>2. ~ Present(NoRecord) /\ ~ NoRecord.retry
    BY DEF NoRecord, Present
  <2> QED
    BY <1>2, <2>1, <2>2 DEF Delete, LedgerInv, Clean, Known, Agree
<1>3. ASSUME NEW w \in Writers, Get(w) PROVE LedgerInv'
  <2>1. card.exists /\ copy'[w] = card /\ \A v \in Writers \ {w} : copy'[v] = copy[v]
    BY <1>3, <1>00 DEF Get
  <2>2. card' = card /\ spawned' = spawned /\ \A v \in Writers : pc'[v] # "saving"
    BY <1>3 DEF Get, LedgerInv, TypeOK
  <2> QED
    BY <2>1, <2>2 DEF LedgerInv, Clean, Known, Agree
<1>4. ASSUME NEW w \in Writers, RetryTrigger(w) PROVE LedgerInv'
  <2> DEFINE d == [ArchiveActive(copy[w]) EXCEPT !.trigger = NoSession]
  <2>1. d.lanes = copy[w].lanes /\ d.exists = copy[w].exists
    BY <1>0, ArchiveType DEF Card
  <2>2. Edit(w, d) /\ spawned' = spawned
    BY <1>4 DEF RetryTrigger
  <2> HIDE DEF d
  <2> QED
    BY <2>1, <2>2, EditKeepsLedgerInv DEF LedgerInv, Clean, Known
<1>5. ASSUME NEW w \in Writers, SaveLocked(w) PROVE LedgerInv'
  <2> DEFINE m == Upserted(card, MergeCard(card, copy[w]))
  <2>0. m.lanes = MergeCard(card, copy[w]).lanes /\ m.exists = MergeCard(card, copy[w]).exists
    BY <1>0, MergeCardType, UpsertedCard
  <2>1. card' = m /\ m.exists /\ pc' = pc /\ copy' = copy /\ spawned' = spawned
    BY <1>5, <1>0, <2>0 DEF SaveLocked, MergeCard, Card, LedgerInv
  <2>2. \A s \in Sessions :
          /\ Present(m.lanes[s]) <=> Present(card.lanes[s]) \/ Present(copy[w].lanes[s])
          /\ Present(m.lanes[s]) =>
               \/ Present(card.lanes[s]) /\ m.lanes[s].column = card.lanes[s].column
               \/ Present(copy[w].lanes[s]) /\ m.lanes[s].column = copy[w].lanes[s].column
          /\ m.lanes[s].retry <=> card.lanes[s].retry \/ copy[w].lanes[s].retry
    BY <1>0, <2>0, MergedLane DEF LedgerInv
  <2> HIDE DEF m
  <2>3. Clean(m) /\ Known(m)
    BY <2>2 DEF LedgerInv, Clean, Known
  <2>4. \A v \in Writers : Agree(m, copy[v])
    BY <2>2 DEF LedgerInv, Agree
  <2> QED
    BY <2>1, <2>3, <2>4 DEF LedgerInv, Clean, Known, Agree
<1>6. ASSUME NEW w \in Writers, SaveRead(w) \/ SaveWrite(w) PROVE LedgerInv'
  BY <1>6, RowLock DEF SaveRead, SaveWrite, LedgerInv
<1>7. ASSUME NEW w \in Writers, NEW s \in Sessions, NEW d \in Card, NEW r \in LaneRecord,
             Edit(w, Upsert(d, s, r)), d.exists, Clean(d), Present(r), spawned \subseteq spawned',
             s \in spawned',
             s \in spawned => Present(copy[w].lanes[s]) /\ r.column = copy[w].lanes[s].column,
             \A t \in Sessions : Present(d.lanes[t]) =>
                Present(copy[w].lanes[t]) /\ d.lanes[t].column = copy[w].lanes[t].column
      PROVE  LedgerInv'
  <2> DEFINE u == Upsert(d, s, r)
  <2>1. u.exists /\ u.lanes[s] = r /\ \A t \in Sessions \ {s} : u.lanes[t] = d.lanes[t]
    BY <1>7 DEF Upsert, Card
  <2> HIDE DEF u
  <2>2. Clean(u)
    BY <1>7, <2>1 DEF Clean
  <2>3. \A t \in Sessions : Present(u.lanes[t]) =>
            /\ t \in spawned'
            /\ \/ Present(copy[w].lanes[t]) /\ u.lanes[t].column = copy[w].lanes[t].column
               \/ t \notin spawned
    BY <1>7, <2>1 DEF LedgerInv, Known
  <2> QED
    BY <1>7, <2>1, <2>2, <2>3, EditKeepsLedgerInv DEF u
<1>8. ASSUME NEW w \in Writers, NEW c \in Columns, MoveColumn(w, c) PROVE LedgerInv'
  <2> DEFINE d == [copy[w] EXCEPT !.column = c]
             u == FinalizeActive(d)
  <2>1. d \in Card /\ d.exists = copy[w].exists /\ d.lanes = copy[w].lanes
    BY <1>0 DEF Card
  <2> HIDE DEF d
  <2>2. \A t \in Sessions :
          \/ u.lanes[t] = d.lanes[t]
          \/ Present(d.lanes[t]) /\ u.lanes[t] = [d.lanes[t] EXCEPT !.status = "ended"]
    BY <2>1, ArchiveType DEF FinalizeActive, MarkEnded, Upsert, Card
  <2>3. u.exists = d.exists
    BY <2>1, ArchiveType DEF FinalizeActive, MarkEnded, Upsert, Card
  <2>4. \A t \in Sessions : /\ d.lanes[t] \in LaneRecord
                            /\ Present(u.lanes[t]) <=> Present(d.lanes[t])
                            /\ u.lanes[t].column = d.lanes[t].column
                            /\ u.lanes[t].retry = d.lanes[t].retry
    <3> TAKE t \in Sessions
    <3>1. d.lanes[t] \in LaneRecord
      BY <2>1 DEF Card
    <3> QED
      BY <3>1, <2>2, MarkedRecord
  <2>5. Edit(w, u) /\ spawned' = spawned
    BY <1>8 DEF MoveColumn, d
  <2> HIDE DEF u
  <2> QED
    BY <2>1, <2>3, <2>4, <2>5, EditKeepsLedgerInv DEF LedgerInv, Clean, Known
<1>9. ASSUME NEW w \in Writers, NEW s \in Sessions, StepStarted(w, s) PROVE LedgerInv'
  <2> DEFINE c == CompleteOutsideColumn(copy[w], s)
             d == [c EXCEPT !.trigger = s, !.ids = c.ids \cup {s}]
             r == [status |-> "running", column |-> c.column, retry |-> FALSE]
  <2>1. c \in Card
    BY <1>0, CompleteType
  <2>2. /\ c.exists = copy[w].exists
        /\ \A t \in Sessions : \/ c.lanes[t] = copy[w].lanes[t]
                                \/ /\ copy[w].lanes[t].status = "running"
                                   /\ c.lanes[t] = [copy[w].lanes[t] EXCEPT !.status = "ended"]
    BY <1>0 DEF CompleteOutsideColumn, Card
  <2>3. \A t \in Sessions : /\ Present(c.lanes[t]) <=> Present(copy[w].lanes[t])
                            /\ c.lanes[t].column = copy[w].lanes[t].column
                            /\ c.lanes[t].retry = copy[w].lanes[t].retry
    <3> TAKE t \in Sessions
    <3>1. copy[w].lanes[t] \in LaneRecord
      BY <1>0 DEF Card
    <3>2. copy[w].lanes[t].status = "running" => Present(copy[w].lanes[t])
      BY DEF Present
    <3> QED
      BY <3>1, <3>2, <2>2, MarkedRecord
  <2>4. Edit(w, Upsert(d, s, r)) /\ s \notin spawned /\ spawned' = spawned \cup {s}
    BY <1>9 DEF StepStarted
  <2> HIDE DEF c
  <2>5. d \in Card /\ r \in LaneRecord /\ d.lanes = c.lanes /\ d.exists = c.exists /\ Present(r)
    BY <2>1 DEF Card, LaneRecord, Present
  <2> HIDE DEF d, r
  <2>6. Clean(d)
    BY <2>3, <2>5 DEF LedgerInv, Clean
  <2> QED
    BY <1>7, <2>2, <2>3, <2>4, <2>5, <2>6 DEF LedgerInv
<1>10. ASSUME NEW w \in Writers, NEW s \in Sessions, NEW b \in BOOLEAN, StartFailed(w, s, b)
       PROVE  LedgerInv'
  <2> DEFINE r == [status |-> "ended", column |-> copy[w].column, retry |-> b]
  <2>1. r \in LaneRecord /\ Present(r)
    BY <1>0 DEF Card, LaneRecord, Present
  <2>2. Edit(w, Upsert(copy[w], s, r)) /\ s \notin spawned /\ spawned' = spawned \cup {s}
    BY <1>10 DEF StartFailed
  <2> HIDE DEF r
  <2> QED
    BY <1>0, <1>7, <2>1, <2>2 DEF LedgerInv
<1>11. ASSUME NEW w \in Writers, NEW s \in Sessions, NEW b \in BOOLEAN, SessionEnded(w, s, b)
       PROVE  LedgerInv'
  <2> DEFINE q == copy[w].lanes[s]
             r == [q EXCEPT !.status = "ended", !.retry = q.retry \/ b]
  <2>1. q \in LaneRecord /\ (q.retry \/ b) \in BOOLEAN
    BY <1>0 DEF Card
  <2>2. r \in LaneRecord /\ Present(r) /\ r.column = q.column
    BY <2>1, EndedRecord
  <2>3. Edit(w, Upsert(copy[w], s, r)) /\ Present(q) /\ spawned' = spawned
    BY <1>11 DEF SessionEnded
  <2>4. s \in spawned
    BY <2>3 DEF LedgerInv, Known
  <2> HIDE DEF r
  <2> QED
    BY <1>0, <1>7, <2>2, <2>3, <2>4 DEF LedgerInv
<1> QED
  BY <1>1, <1>2, <1>3, <1>4, <1>5, <1>6, <1>8, <1>9, <1>10, <1>11 DEF Next

\* The instance of the ledger has the same records as the store.
LEMMA SameRecords ==
  /\ Ledger!LaneRecord = LaneRecord
  /\ \A r : (Ledger!Present(r) <=> Present(r)) /\ (Ledger!Ended(r) <=> Ended(r))
  BY DEF Ledger!LaneRecord, LaneRecord, Ledger!Present, Present, Ledger!Ended, Ended

\* With a row lock the task store implements the append-only ledger: no save of
\* a stale copy drops, reopens or re-homes a lane record or loses its rerun.
THEOREM LedgerRefinement ==
  ASSUME "neon" \notin Stores
  PROVE  Spec => LedgerSpec
<1>0. TypeOK => RowLock
  BY DEF TypeOK, RowLock
<1>1. Init => LedgerInv /\ Ledger!Init
  <2> SUFFICES ASSUME Init PROVE LedgerInv /\ Ledger!Init
    OBVIOUS
  <2>1. ~ Present(NoRecord) /\ ~ NoRecord.retry
    BY DEF NoRecord, Present
  <2>2. Blank.exists /\ \A s \in Sessions : Blank.lanes[s] = NoRecord
    BY DEF Blank
  <2>3. card = Blank /\ \A w \in Writers : copy[w] = Blank /\ pc[w] = "idle"
    BY DEF Init
  <2>4. LedgerInv
    BY <2>1, <2>2, <2>3 DEF LedgerInv, Clean, Known, Agree
  <2>5. card.lanes \in [Sessions -> LaneRecord]
    BY <2>3, BlankType DEF Card
  <2> QED
    BY <2>1, <2>2, <2>3, <2>4, <2>5, SameRecords DEF Ledger!Init
<1>2. TypeOK /\ LedgerInv /\ [Next]_vars => LedgerInv'
  BY <1>0, LedgerInvInductive
<1>3. TypeOK /\ TypeOK' /\ LedgerInv /\ [Next]_vars => [Ledger!Next]_(card.lanes)
  <2> SUFFICES ASSUME TypeOK, TypeOK', LedgerInv, [Next]_vars, card' # card PROVE Ledger!Next
    OBVIOUS
  <2>0. card \in Card /\ card' \in Card /\ \A v \in Writers : copy[v] \in Card
    BY DEF TypeOK
  <2>1. CASE Delete
    <3>1. \A s \in Sessions : card'.lanes[s] = NoRecord
      BY <2>1 DEF Delete, Blank
    <3>2. ~ Present(NoRecord)
      BY DEF NoRecord, Present
    <3>3. card'.lanes \in [Sessions -> LaneRecord]
      BY <2>0 DEF Card
    <3> QED
      BY <3>1, <3>2, <3>3, SameRecords DEF Ledger!Next, Ledger!Erase
  <2>2. ASSUME NEW w \in Writers, SaveLocked(w) PROVE Ledger!Next
    <3>1. ASSUME NEW s \in Sessions PROVE Ledger!Grows(card.lanes[s], card'.lanes[s])
      <4>1. ~ card.exists => ~ Present(card.lanes[s])
        BY DEF LedgerInv
      <4>2. Clean(card) /\ Clean(copy[w]) /\ Agree(card, copy[w])
        BY DEF LedgerInv
      <4>3. card'.lanes = MergeCard(card, copy[w]).lanes
        BY <2>0, <2>2, MergeCardType, UpsertedCard DEF SaveLocked
      <4> QED
        BY <2>0, <4>1, <4>2, <4>3, MergedLane, SameRecords DEF Ledger!Grows, Agree
    <3> QED
      BY <2>0, <3>1, SameRecords DEF Ledger!Next, Ledger!Write, Card
  <2>3. ASSUME NEW w \in Writers, SaveWrite(w) PROVE FALSE
    BY <2>3 DEF SaveWrite, LedgerInv
  <2> QED
    BY <2>1, <2>2, <2>3
    DEF Next, vars, Get, RetryTrigger, SaveRead, MoveColumn, StepStarted, StartFailed, SessionEnded, Edit
<1> QED
  BY <1>1, <1>2, <1>3, Typing, PTL DEF Spec, LedgerSpec, Ledger!Spec

-----------------------------------------------------------------------------
(***************************************************************************)
(* The trigger runs for the card's column, on a store that writes cleared  *)
(* triggers.  Copies have the property too, and the ledger's invariant     *)
(* makes a merge of two records of one session agree on the column.        *)
(***************************************************************************)
AtHome(c) ==
  c.trigger # NoSession => /\ Present(c.lanes[c.trigger])
                           /\ c.lanes[c.trigger].column = c.column

HomeInv == AtHome(card) /\ \A w \in Writers : AtHome(copy[w])

\* A save on SQLite takes trigger and column from the same copy, and the merged
\* record of that trigger has the column both sides agree on.
LEMMA MergedAtHome ==
  ASSUME NEW a \in Card, NEW b \in Card, Clean(a), Clean(b), Agree(a, b),
         ~ a.exists => \A s \in Sessions : ~ Present(a.lanes[s]), AtHome(b)
  PROVE  AtHome(MergeCard(a, b))
<1> DEFINE m == MergeCard(a, b)
<1>1. m.trigger = b.trigger /\ m.column = b.column
  BY DEF MergeCard, Card
<1> SUFFICES ASSUME b.trigger # NoSession
             PROVE  Present(m.lanes[b.trigger]) /\ m.lanes[b.trigger].column = b.column
  BY <1>1 DEF AtHome
<1>2. b.trigger \in Sessions /\ Present(b.lanes[b.trigger]) /\ b.lanes[b.trigger].column = b.column
  BY DEF AtHome, Card
<1> DEFINE t == b.trigger
<1>3. /\ Present(m.lanes[t]) <=> Present(a.lanes[t]) \/ Present(b.lanes[t])
      /\ Present(m.lanes[t]) => \/ Present(a.lanes[t]) /\ m.lanes[t].column = a.lanes[t].column
                                \/ Present(b.lanes[t]) /\ m.lanes[t].column = b.lanes[t].column
  BY <1>2, MergedLane
<1> QED
  BY <1>2, <1>3 DEF Agree

\* On a store that writes a cleared trigger as cleared, the stored trigger session
\* has run for the column the card is in, whatever old copies are saved.
THEOREM TriggerHome == Spec => []TriggerInColumn
<1> DEFINE OnSqlite == store = "sqlite"
           Inv == OnSqlite => HomeInv /\ LedgerInv
<1>0. OnSqlite => RowLock
  BY DEF RowLock
<1>1. Init => HomeInv /\ LedgerInv
  <2> SUFFICES ASSUME Init PROVE HomeInv /\ LedgerInv
    OBVIOUS
  <2>1. ~ Present(NoRecord) /\ ~ NoRecord.retry
    BY DEF NoRecord, Present
  <2>2. Blank.exists /\ Blank.trigger = NoSession /\ \A s \in Sessions : Blank.lanes[s] = NoRecord
    BY DEF Blank
  <2>3. card = Blank /\ \A w \in Writers : copy[w] = Blank /\ pc[w] = "idle"
    BY DEF Init
  <2> QED
    BY <2>1, <2>2, <2>3 DEF HomeInv, AtHome, LedgerInv, Clean, Known, Agree
<1>2. TypeOK /\ OnSqlite /\ LedgerInv /\ [Next]_vars => LedgerInv'
  BY <1>0, LedgerInvInductive
<1>3. TypeOK /\ OnSqlite /\ LedgerInv /\ HomeInv /\ [Next]_vars => HomeInv'
  <2> SUFFICES ASSUME TypeOK, OnSqlite, LedgerInv, HomeInv, [Next]_vars PROVE HomeInv'
    OBVIOUS
  <2>0. card \in Card /\ \A v \in Writers : copy[v] \in Card
    BY DEF TypeOK
  <2>00. copy \in [Writers -> Card]
    BY DEF TypeOK
  <2> USE DEF HomeInv
  <2>1. CASE UNCHANGED vars
    BY <2>1 DEF vars, AtHome
  <2>2. CASE Delete
    BY <2>2 DEF Delete, AtHome, Blank
  <2>3. ASSUME NEW w \in Writers, Get(w) PROVE HomeInv'
    BY <2>3, <2>00 DEF Get, AtHome
  <2>4. ASSUME NEW w \in Writers, NEW d, Edit(w, d), AtHome(d) PROVE HomeInv'
    BY <2>4, <2>00 DEF Edit, AtHome
  <2>5. ASSUME NEW w \in Writers, RetryTrigger(w) PROVE HomeInv'
    <3> DEFINE d == [ArchiveActive(copy[w]) EXCEPT !.trigger = NoSession]
    <3>1. ArchiveActive(copy[w]) \in Card
      BY <2>0, ArchiveType
    <3>2. d.trigger = NoSession
      BY <3>1 DEF Card
    <3>3. Edit(w, d)
      BY <2>5 DEF RetryTrigger
    <3> HIDE DEF d
    <3> QED
      BY <2>4, <3>2, <3>3 DEF AtHome
  <2>6. ASSUME NEW w \in Writers, SaveLocked(w) PROVE HomeInv'
    <3>1. card' = MergeCard(card, copy[w]) /\ copy' = copy
      BY <2>0, <2>6, MergeCardType, UpsertedCard DEF SaveLocked
    <3>2. AtHome(MergeCard(card, copy[w]))
      BY <2>0, MergedAtHome DEF LedgerInv
    <3> QED
      BY <3>1, <3>2 DEF AtHome
  <2>7. ASSUME NEW w \in Writers, SaveRead(w) \/ SaveWrite(w) PROVE HomeInv'
    BY <1>0, <2>7 DEF SaveRead, SaveWrite, LedgerInv
  <2>8. ASSUME NEW w \in Writers, NEW c \in Columns, MoveColumn(w, c) PROVE HomeInv'
    <3> DEFINE d == [copy[w] EXCEPT !.column = c]
               u == FinalizeActive(d)
    <3>1. d \in Card
      BY <2>0 DEF Card
    <3> HIDE DEF d
    <3>2. u.trigger = NoSession
      BY <3>1, ArchiveType DEF FinalizeActive, MarkEnded, Upsert, Card
    <3>3. Edit(w, u)
      BY <2>8 DEF MoveColumn, d
    <3> HIDE DEF u
    <3> QED
      BY <2>4, <3>2, <3>3 DEF AtHome
  <2>9. ASSUME NEW w \in Writers, NEW s \in Sessions, StepStarted(w, s) PROVE HomeInv'
    <3> DEFINE c == CompleteOutsideColumn(copy[w], s)
               d == [c EXCEPT !.trigger = s, !.ids = c.ids \cup {s}]
               r == [status |-> "running", column |-> c.column, retry |-> FALSE]
    <3>1. c \in Card
      BY <2>0, CompleteType
    <3>2. Edit(w, Upsert(d, s, r))
      BY <2>9 DEF StepStarted
    <3> HIDE DEF c
    <3>3. /\ Upsert(d, s, r).trigger = s /\ Upsert(d, s, r).lanes[s] = r
          /\ Upsert(d, s, r).column = c.column
      BY <3>1 DEF Upsert, Card
    <3>4. AtHome(Upsert(d, s, r))
      BY <3>3 DEF AtHome, Present
    <3> QED
      BY <2>4, <3>2, <3>4
  <2>10. ASSUME NEW w \in Writers, NEW s \in Sessions, NEW r, Present(r),
                s = copy[w].trigger => r.column = copy[w].column
         PROVE  AtHome(Upsert(copy[w], s, r))
    <3> DEFINE u == Upsert(copy[w], s, r)
    <3>1. /\ u.trigger = copy[w].trigger /\ u.column = copy[w].column
          /\ u.lanes[s] = r /\ \A t \in Sessions \ {s} : u.lanes[t] = copy[w].lanes[t]
      BY <2>0 DEF Upsert, Card
    <3> HIDE DEF u
    <3>2. AtHome(u)
      BY <2>0, <2>10, <3>1 DEF AtHome, Card
    <3> QED
      BY <3>2 DEF u
  <2>11. ASSUME NEW w \in Writers, NEW s \in Sessions, NEW b \in BOOLEAN, StartFailed(w, s, b)
         PROVE  HomeInv'
    <3> DEFINE r == [status |-> "ended", column |-> copy[w].column, retry |-> b]
    <3>1. Present(r) /\ r.column = copy[w].column
      BY DEF Present
    <3>2. Edit(w, Upsert(copy[w], s, r))
      BY <2>11 DEF StartFailed
    <3> HIDE DEF r
    <3> QED
      BY <2>4, <2>10, <3>1, <3>2
  <2>12. ASSUME NEW w \in Writers, NEW s \in Sessions, NEW b \in BOOLEAN, SessionEnded(w, s, b)
         PROVE  HomeInv'
    <3> DEFINE q == copy[w].lanes[s]
               r == [q EXCEPT !.status = "ended", !.retry = q.retry \/ b]
    <3>0. (q.retry \/ b) \in BOOLEAN /\ q \in LaneRecord
      BY <2>0 DEF Card
    <3>1. Present(r) /\ r.column = q.column
      BY <3>0, EndedRecord
    <3>2. Edit(w, Upsert(copy[w], s, r))
      BY <2>12 DEF SessionEnded
    <3>3. s = copy[w].trigger => q.column = copy[w].column
      BY <2>0, NoSessionAssumption DEF AtHome
    <3> HIDE DEF r, q
    <3> QED
      BY <2>4, <2>10, <3>1, <3>2, <3>3
  <2> QED
    BY <2>1, <2>2, <2>3, <2>5, <2>6, <2>7, <2>8, <2>9, <2>11, <2>12 DEF Next
<1>4. TypeOK /\ Inv /\ [Next]_vars => Inv'
  BY <1>2, <1>3, StoreFixed
<1>5. Inv => TriggerInColumn
  BY DEF HomeInv, AtHome, TriggerInColumn, InColumn
<1> QED
  BY <1>1, <1>4, <1>5, Typing, PTL DEF Spec
=============================================================================
