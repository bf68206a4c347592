--------------------------- MODULE TaskLaneRecords ---------------------------
(***************************************************************************)
(* One card of the task store and the request handlers that write it.      *)
(*                                                                         *)
(* Every handler (session start, end-of-session handling, column move,     *)
(* manual rerun) reads the whole card, edits its own copy across awaits    *)
(* and saves the whole copy back.  All card fields are last-writer-wins    *)
(* except the lane records, which TaskStore.save merges with the stored    *)
(* row (lane-session-merge.ts).  The writers here are those handlers in    *)
(* flight; their copies may be arbitrarily old when they are saved.        *)
(*                                                                         *)
(* The order of records inside laneSessions is abstracted away: lane       *)
(* records are a function of the session id.                               *)
(***************************************************************************)
EXTENDS LaneRecord

CONSTANTS
  Writers,        \* handler invocations; one that reads the card again counts as another
  NoSession,      \* triggerSessionId = undefined
  Stores          \* the drivers TaskStore may have: SQLite (the in-memory store saves
                  \* alike), Postgres, or Postgres over neon-http

ASSUME ColumnsAssumption == Columns # {}
ASSUME NoSessionAssumption == NoSession \notin Sessions
ASSUME StoresAssumption == Stores \subseteq {"sqlite", "postgres", "neon"}

VARIABLES
  store,          \* the driver behind TaskStore, fixed
  card,           \* the stored row
  pc,             \* pc[w]: "idle", "editing" a copy, or "saving" without a row lock
  copy,           \* copy[w]: the card as handler w holds it
  row,            \* row[w]: the row an unlocked save has read and not yet written
  spawned         \* sessions the ACP runtime has already handed out

vars == <<store, card, pc, copy, row, spawned>>

\* save reads and writes the row in one step: one transaction, or better-sqlite3's
\* synchronous calls.  neon-http has no interactive transactions.
RowLock == store # "neon"

Card == [exists : BOOLEAN, column : Columns, trigger : Sessions \cup {NoSession},
         ids : SUBSET Sessions, lanes : [Sessions -> LaneRecord]]

NoRecord == [status |-> "none", column |-> CHOOSE c \in Columns : TRUE, retry |-> FALSE]

\* Mutant of MergeLaneSession: the last writer wins the whole record.
MergeLastWriter(stored, incoming) == incoming

\* mergeLaneSession: the ended side wins, the incoming one when both or neither
\* ended; a field the winner lacks is filled from the other side.
MergeLaneSession(stored, incoming) ==
  LET incomingWins == incoming.status # "running" \/ stored.status = "running"
      winner == IF incomingWins THEN incoming ELSE stored
      other  == IF incomingWins THEN stored ELSE incoming
  IN [winner EXCEPT !.retry = winner.retry \/ other.retry]

\* mergeLaneSessions: records only one side has are kept as they are.
MergeLaneSessions(stored, incoming) ==
  [s \in Sessions |->
     IF ~ Present(incoming[s]) THEN stored[s]
     ELSE IF ~ Present(stored[s]) THEN incoming[s]
     ELSE MergeLaneSession(stored[s], incoming[s])]

\* mergeLaneRecords applied to the row `stored` and the card `incoming` being
\* saved; a missing row is simply inserted, every other field is incoming's.
MergeCard(stored, incoming) ==
  IF stored.exists
  THEN [incoming EXCEPT !.ids = incoming.ids \cup stored.ids,
                        !.lanes = MergeLaneSessions(stored.lanes, incoming.lanes)]
  ELSE incoming

\* The upsert of the merged card over the row as it is at the write.  An undefined
\* field is left out of the conflict update: only SQLite writes `?? null` for a
\* cleared trigger, on Postgres the row keeps its own.
Upserted(current, merged) ==
  IF store # "sqlite" /\ current.exists /\ merged.trigger = NoSession
  THEN [merged EXCEPT !.trigger = current.trigger] ELSE merged

\* Mutant of Upsert: sessions are found by position, the new record is not pushed.
UpsertOnlyExisting(c, s, r) ==
  IF Present(c.lanes[s]) THEN [c EXCEPT !.lanes = [c.lanes EXCEPT ![s] = r]] ELSE c

\* upsertTaskLaneSession on a copy.
Upsert(c, s, r) == [c EXCEPT !.lanes = [c.lanes EXCEPT ![s] = r]]

\* markTaskLaneSessionStatus on a copy: a session without a record stays without.
MarkEnded(c, s) ==
  IF Present(c.lanes[s]) THEN Upsert(c, s, [c.lanes[s] EXCEPT !.status = "ended"]) ELSE c

\* Mutant of ArchiveActive: the guard on an unset trigger session is dropped.
ArchiveUnset(c) == [c EXCEPT !.ids = c.ids \cup {c.trigger}]

\* archiveActiveTaskSession on a copy.
ArchiveActive(c) ==
  IF c.trigger = NoSession THEN c ELSE [c EXCEPT !.ids = c.ids \cup {c.trigger}]

\* Mutant of FinalizeActive: the trigger is not cleared.
FinalizeUncleared(c) ==
  IF c.trigger = NoSession THEN c ELSE MarkEnded(ArchiveActive(c), c.trigger)

\* finalizeActiveTaskSession on a copy: archive the trigger session, end its
\* lane record if it has one, clear the trigger.
FinalizeActive(c) ==
  IF c.trigger = NoSession THEN c
  ELSE [MarkEnded(ArchiveActive(c), c.trigger) EXCEPT !.trigger = NoSession]

\* completeRunningSessionsOutsideColumn on a copy, keeping session s.
CompleteOutsideColumn(c, s) ==
  [c EXCEPT !.lanes = [t \in Sessions |->
     IF t # s /\ c.lanes[t].status = "running" /\ c.lanes[t].column # c.column
     THEN [c.lanes[t] EXCEPT !.status = "ended"] ELSE c.lanes[t]]]

-----------------------------------------------------------------------------
Blank == [exists |-> TRUE, column |-> CHOOSE c \in Columns : TRUE, trigger |-> NoSession,
          ids |-> {}, lanes |-> [s \in Sessions |-> NoRecord]]

\* A freshly created card, no handler in flight.
Init ==
  /\ store \in Stores
  /\ card = Blank
  /\ pc = [w \in Writers |-> "idle"]
  /\ copy = [w \in Writers |-> Blank]
  /\ row = [w \in Writers |-> Blank]
  /\ spawned = {}

Get(w) ==       \* taskStore.get: a handler that finds no card stops there
  /\ pc[w] = "idle"
  /\ card.exists
  /\ pc' = [pc EXCEPT ![w] = "editing"]
  /\ copy' = [copy EXCEPT ![w] = card]
  /\ UNCHANGED <<store, card, row, spawned>>

Edit(w, edited) ==
  /\ pc[w] = "editing"
  /\ copy' = [copy EXCEPT ![w] = edited]
  /\ UNCHANGED <<store, card, pc, row>>

StepStarted(w, s) ==     \* startKanbanTaskSession, a session was triggered
  /\ s \notin spawned
  /\ spawned' = spawned \cup {s}
  /\ LET c == CompleteOutsideColumn(copy[w], s)
     IN Edit(w, Upsert([c EXCEPT !.trigger = s, !.ids = c.ids \cup {s}], s,
                       [status |-> "running", column |-> c.column, retry |-> FALSE]))

StartFailed(w, s, rateLimited) ==  \* a broken environment or a rate limit: a failed run is recorded
  /\ s \notin spawned
  /\ spawned' = spawned \cup {s}
  /\ Edit(w, Upsert(copy[w], s,
               [status |-> "ended", column |-> copy[w].column, retry |-> rateLimited]))

SessionEnded(w, s, rateLimited) ==  \* markTaskLaneSessionStatus, then a rerun may be planned
  /\ Present(copy[w].lanes[s])
  /\ LET r == copy[w].lanes[s]
     IN Edit(w, Upsert(copy[w], s, [r EXCEPT !.status = "ended", !.retry = r.retry \/ rateLimited]))
  /\ UNCHANGED spawned

MoveColumn(w, column) ==   \* prepareTaskForColumnChange
  /\ column # copy[w].column
  /\ Edit(w, FinalizeActive([copy[w] EXCEPT !.column = column]))
  /\ UNCHANGED spawned

RetryTrigger(w) ==         \* PATCH retryTrigger: archive the session, then clear it
  /\ Edit(w, [ArchiveActive(copy[w]) EXCEPT !.trigger = NoSession])
  /\ UNCHANGED spawned

SaveLocked(w) ==           \* the row is read, merged and upserted in one step
  /\ RowLock
  /\ pc[w] = "editing"
  /\ card' = Upserted(card, MergeCard(card, copy[w]))
  /\ UNCHANGED <<store, pc, copy, row, spawned>>

SaveRead(w) ==             \* neon-http: the stored row is read without a lock ...
  /\ ~ RowLock
  /\ pc[w] = "editing"
  /\ row' = [row EXCEPT ![w] = card]
  /\ pc' = [pc EXCEPT ![w] = "saving"]
  /\ UNCHANGED <<store, card, copy, spawned>>

SaveWrite(w) ==            \* ... and the merged row is upserted later
  /\ pc[w] = "saving"
  /\ card' = Upserted(card, MergeCard(row[w], copy[w]))
  /\ pc' = [pc EXCEPT ![w] = "editing"]
  /\ row' = [row EXCEPT ![w] = Blank]
  /\ UNCHANGED <<store, copy, spawned>>

Delete ==                  \* DELETE /api/tasks/{id}: taskStore.delete
  /\ card.exists
  /\ card' = [Blank EXCEPT !.exists = FALSE]
  /\ UNCHANGED <<store, pc, copy, row, spawned>>

Next ==
  \/ Delete
  \/ \E w \in Writers :
       \/ Get(w) \/ RetryTrigger(w) \/ SaveLocked(w) \/ SaveRead(w) \/ SaveWrite(w)
       \/ \E c \in Columns : MoveColumn(w, c)
       \/ \E s \in Sessions :
            \/ StepStarted(w, s)
            \/ \E r \in BOOLEAN : StartFailed(w, s, r) \/ SessionEnded(w, s, r)

Spec == Init /\ [][Next]_vars
-----------------------------------------------------------------------------
\* Type correctness of the stored row, the copies and the unlocked reads.
TypeOK ==
  /\ store \in Stores
  /\ card \in Card
  /\ pc \in [Writers -> {"idle", "editing", "saving"}]
  /\ copy \in [Writers -> Card]
  /\ row \in [Writers -> Card]
  /\ spawned \subseteq Sessions

\* The stored lane records of an existing card are the abstract ledger: however
\* stale the copy a handler saves, no record is dropped, reopened or loses its
\* planned rerun time (TaskStore.save with mergeLaneRecords, under a row lock).
Ledger == INSTANCE LaneLedger WITH ledger <- card.lanes
LedgerSpec == Ledger!Spec

\* The trigger session of a stored card is never a dangling id: it is in
\* sessionIds and has a lane record, whichever stale copy was saved last and
\* whichever trigger the upsert left in the row (startKanbanTaskSession writes the
\* three together, the merge keeps them), as long as a save locks the row.
Documented(c) == c.trigger # NoSession => c.trigger \in c.ids /\ Present(c.lanes[c.trigger])
TriggerDocumented == RowLock => Documented(card)

\* The same of every store.  False of the code on neon-http, where a save may drop the
\* record that another one has written since it read the row.
TriggerNeverDangles == Documented(card)

\* On SQLite the trigger session of a stored card runs for the column the card is in: a
\* move ends it and clears the trigger (prepareTaskForColumnChange), and a stale copy that
\* brings an old trigger back brings its column back too.
InColumn(c) == c.trigger # NoSession => c.lanes[c.trigger].column = c.column
TriggerInColumn == store = "sqlite" => InColumn(card)

\* "moving a Done card to blocked clears the pusher's trigger session": false of the code
\* on Postgres, whose upsert keeps the row's trigger (pg-task-store.ts:170).
MoveClearsTrigger == InColumn(card)

\* Without a row lock records are lost, and a trigger is left without its record,
\* only where saves overlap: a save that upserts over the very row it has read
\* (PgTaskStore.save on neon-http) keeps every stored record as the ledger does and
\* documents the trigger if its handler's copy and the row did.
OnlyOverlapLoses ==
  [][\A w \in Writers : SaveWrite(w) /\ row[w] = card =>
       /\ \A s \in Sessions : Ledger!Grows(card.lanes[s], card'.lanes[s])
       /\ Documented(card) /\ Documented(copy[w]) => Documented(card')]_vars

\* "Nothing of a deleted card may start again" (DELETE /api/tasks/{id}): once
\* deleted, the store never again shows a running lane session for the card.
NothingRunsAfterDelete ==
  [][~ card.exists => \A s \in Sessions : card'.lanes[s].status # "running"]_vars
=============================================================================
