----------------------- MODULE LaneAutomationProofs -----------------------
(***************************************************************************)
(* LaneAutomation has its types, and what its calls may rely on: one call  *)
(* is between two waits, automations in use stay so, a session that was    *)
(* not started is unknown, an event tells the truth of its session.        *)
(***************************************************************************)
EXTENDS LaneAutomation, FiniteSetTheorems, WellFoundedInduction, TLAPS

-----------------------------------------------------------------------------
(* The types of the calls *)

Sid == Session \cup {None}

AutoType == [lane : Lanes, step : Nat, status : {"none", "queued", "running", "completed", "failed"},
             sid : Sid, recoveries : Nat, signaled : SUBSET Session, fallback : BOOLEAN]

Pcs == Awaiting \cup {"deliver", "swept", "route", "judge", "recover", "create", "created", "finish",
                      "enter", "register"}
Starts == {"enter", "next", "fallback", "recover"}    \* what createSession is called for
Whys == Starts \cup {"none", "swept", "judge", "queue"}
Events == {"report", "end", "failed", "timeout"}

CallType == [pc : Pcs, ev : Events \cup {"none"}, sid : Sid, auto : Visit \cup {None}, why : Whys,
             recover : BOOLEAN, copy : Card, job : Jobs, row : Card, res : {"none", "session", "queued"},
             got : Sid, todo : SUBSET Session, clean : BOOLEAN]

\* A call that has an event and does not know yet whose it is.
Receives(k) == k.pc \in {"deliver", "swept", "route"} \/ (k.pc = "killing" /\ k.why = "swept")

\* A call that has found the automation of its event.
Handles(k) == \/ k.pc \in {"judge", "recover", "finish"}
              \/ k.pc = "killing" /\ k.why = "judge"
              \/ k.pc \in {"create", "spawning", "created"} /\ k.why \in {"next", "fallback", "recover"}

\* A call that starts a lane's first step.
Enters(k) == k.pc \in {"create", "spawning", "created"} /\ k.why = "enter"

\* What the program counter of a call says of its other fields.
CallOK(k) ==
  /\ Handles(k) \/ Enters(k) => k.auto \in Visit
  /\ Handles(k) \/ Receives(k) => k.sid \in Session /\ k.ev \in Events
  /\ k.pc = "killing" => k.why \in {"swept", "judge"}
  /\ k.pc \in {"create", "created"} => k.why \in Starts
  /\ k.pc = "spawning" => k.why \in Starts \cup {"queue"}
  /\ k.pc = "created" => (k.res = "session" <=> k.got # None)
  /\ k.pc \in {"create", "spawning"} => k.job.auto \in Visit
  /\ k.pc = "recover" => k.why = "fallback" /\ k.recover
  /\ k.pc = "judge" => k.why = "none"
  /\ Handles(k) => /\ k.why = "next" => Success(k.ev)
                   /\ k.why \in {"fallback", "recover"} => ~ Success(k.ev)
  /\ k.pc = "ending" /\ k.sid # None => k.ev \in Events
  /\ k.pc = "ending" /\ k.clean => k.sid \in Session
  /\ k.pc # "ending" => k.todo = {}

CallsOK == call \in [Calls -> CallType] /\ \A c \in Calls : CallOK(call[c])

\* Who waits in the board queue is an automation.
WaitingOK == waiting # NoRun => waiting.auto \in Visit

Types == TypeOK /\ CallsOK /\ WaitingOK

-----------------------------------------------------------------------------
(* Lemmas about the operators *)

\* The bounds are numbers.
LEMMA Bounds == MaxSessions \in Nat /\ MaxVisits \in Nat /\ MaxEvents \in Nat /\ MaxCalls \in Nat
  BY BoundsAssumption

\* The constant records have their types, and None names no session or automation.
LEMMA CardTypes ==
  /\ NoCard \in Card /\ NoRun \in Jobs /\ NoAuto \in AutoType
  /\ Idle \in CallType /\ CallOK(Idle)
  /\ None \notin Session /\ None \notin Visit
  <1>1. NoCard \in Card
    BY DEF NoCard, Card, Columns, Status, None
  <1>2. NoRun \in Jobs /\ NoAuto \in AutoType
    BY DEF NoRun, Jobs, NoAuto, AutoType, Lanes, None, Sid
  <1>3. Idle \in CallType
    BY <1>1, <1>2 DEF Idle, CallType, Pcs, Awaiting, Whys, Sid, None
  <1>4. CallOK(Idle)
    BY DEF CallOK, Idle, Handles, Enters, Receives
  <1>5. None \notin Session /\ None \notin Visit
    BY Bounds DEF None, Session, Visit
  <1> QED BY <1>1, <1>2, <1>3, <1>4, <1>5

\* A save takes column, trigger and setting from the copy and merges the records.
LEMMA SavedType == ASSUME NEW t \in Card, card \in Card
  PROVE  /\ Saved(t) \in Card
         /\ Saved(t).col = t.col /\ Saved(t).trigger = t.trigger /\ Saved(t).fallback = t.fallback
         /\ \A s \in Session : Saved(t).rec[s] = MergeStatus(card.rec[s], t.rec[s])
  <1>1. \A x, y \in Status : MergeStatus(x, y) \in Status
    BY DEF MergeStatus, Status
  <1>2. [s \in Session |-> MergeStatus(card.rec[s], t.rec[s])] \in [Session -> Status]
    BY <1>1 DEF Card
  <1> QED BY <1>2 DEF Saved, Card

\* Closing a record changes no more than the record.
LEMMA CloseType == ASSUME NEW t \in Card, NEW s \in Session, NEW status \in Status \ {"none"}
  PROVE  /\ Close(t, s, status) \in Card
         /\ Close(t, s, status).col = t.col /\ Close(t, s, status).trigger = t.trigger
         /\ Close(t, s, status).fallback = t.fallback
         /\ \A r \in Session : Close(t, s, status).rec[r] = "none" <=> t.rec[r] = "none"
  BY DEF Close, Card, Status

\* Settling a session changes no more than its record.
LEMMA SettledType == ASSUME card \in Card, NEW s \in Session, NEW ev
  PROVE  /\ Settled(s, ev) \in Card
         /\ Settled(s, ev).col = card.col /\ Settled(s, ev).trigger = card.trigger
         /\ Settled(s, ev).fallback = card.fallback
         /\ \A r \in Session : Settled(s, ev).rec[r] = "none" <=> card.rec[r] = "none"
  <1> DEFINE status == IF ev = "teardown" \/ run[s].lane # card.col
                 THEN IF s \in okay THEN "completed" ELSE "transitioned"
                 ELSE IF ev = "timeout" \/ (ev = "failed" /\ s \notin okay) THEN "failed" ELSE "completed"
  <1>1. status \in Status \ {"none"}
    BY DEF Status
  <1>2. Settled(s, ev) = Close(card, s, status)
    BY DEF Settled
  <1> HIDE DEF status
  <1> QED BY <1>1, <1>2, CloseType

\* The row of a started run: the new trigger, and no record is lost.
LEMMA WithRunType == ASSUME NEW t \in Card, NEW s \in Session
  PROVE  /\ WithRun(t, s) \in Card
         /\ WithRun(t, s).col = t.col /\ WithRun(t, s).trigger = s /\ WithRun(t, s).fallback = t.fallback
         /\ \A r \in Session : WithRun(t, s).rec[r] = "none" <=> r # s /\ t.rec[r] = "none"
  <1> DEFINE rec == [r \in Session |-> IF r = s THEN "running"
                       ELSE IF t.rec[r] = "running" /\ run[r].lane # t.col THEN "completed" ELSE t.rec[r]]
  <1>1. rec \in [Session -> Status] /\ \A r \in Session : rec[r] = "none" <=> r # s /\ t.rec[r] = "none"
    BY DEF Card, Status
  <1>2. WithRun(t, s) = [t EXCEPT !.trigger = s, !.rec = rec]
    BY DEF WithRun
  <1> HIDE DEF rec
  <1> QED BY <1>1, <1>2 DEF Card

\* The copy that a step was judged on.
LEMMA JudgedType == ASSUME Types, NEW c \in Calls, Handles(call[c])
  PROVE  /\ Judged(c) \in Card /\ Judged(c).col = call[c].copy.col
         /\ Judged(c).trigger = call[c].copy.trigger /\ Judged(c).fallback = call[c].copy.fallback
         /\ \A s \in Session : Judged(c).rec[s] = "none" <=> call[c].copy.rec[s] = "none"
  <1>1. call[c].copy \in Card /\ call[c].sid \in Session
    BY DEF Types, CallsOK, CallType, CallOK
  <1>2. {"completed", "failed"} \subseteq Status \ {"none"}
    BY DEF Status
  <1> QED BY <1>1, <1>2, CloseType DEF Judged

\* The copy without the trigger of the step that is over.
LEMMA ClearedType == ASSUME Types, NEW c \in Calls, Handles(call[c])
  PROVE  /\ Cleared(c) \in Card /\ Cleared(c).col = call[c].copy.col
         /\ Cleared(c).trigger = (IF call[c].copy.trigger = AutoOf(c).sid THEN None ELSE call[c].copy.trigger)
         /\ Cleared(c).fallback = call[c].copy.fallback
         /\ \A s \in Session : Cleared(c).rec[s] = "none" <=> call[c].copy.rec[s] = "none"
  <1>1. /\ Judged(c) \in Card /\ Judged(c).col = call[c].copy.col
        /\ Judged(c).trigger = call[c].copy.trigger /\ Judged(c).fallback = call[c].copy.fallback
        /\ \A s \in Session : Judged(c).rec[s] = "none" <=> call[c].copy.rec[s] = "none"
    BY JudgedType
  <1> QED BY <1>1 DEF Cleared, Card, None

\* The types of the automations.
LEMMA AutoUnfold == Types => /\ auto \in [Visit -> AutoType]
                             /\ \A a \in Visit : auto[a].step \in 0..Steps[auto[a].lane] /\ Steps[auto[a].lane] \in Nat
  BY StepsAssumption DEF Types, TypeOK, AutoType, Sid

\* What a queued automation takes from the card.
LEMMA AdoptedType == ASSUME Types
  PROVE  /\ Adopted \in [Visit -> AutoType]
         /\ \A a \in Visit : Adopted[a] = IF a = active /\ Live /\ auto[a].sid = None /\ card.trigger # None
                                          THEN [auto[a] EXCEPT !.sid = card.trigger, !.status = "running"] ELSE auto[a]
         /\ \A a \in Visit : /\ Adopted[a].lane = auto[a].lane /\ Adopted[a].step = auto[a].step
                             /\ Adopted[a].recoveries = auto[a].recoveries /\ Adopted[a].fallback = auto[a].fallback
  <1>1. auto \in [Visit -> AutoType] /\ card.trigger \in Sid /\ active \in Visit \cup {None}
    BY AutoUnfold DEF Types, TypeOK, Card, Sid
  <1>2. Live => active \in Visit
    BY <1>1 DEF Live
  <1> QED BY <1>1, <1>2 DEF Adopted, AutoType

-----------------------------------------------------------------------------
(* What the actions do to the calls *)

Others(c) == \A d \in Calls \ {c} : call'[d] = call[d]
SameEvent(c) == call'[c].ev = call[c].ev /\ call'[c].sid = call[c].sid
SameTask(c) == call'[c].auto = call[c].auto /\ call'[c].recover = call[c].recover
SamePlan(c) == call'[c].copy = call[c].copy /\ call'[c].job = call[c].job /\ call'[c].row = call[c].row
SameAnswer(c) == call'[c].res = call[c].res /\ call'[c].got = call[c].got
SameTodo(c) == call'[c].todo = call[c].todo /\ call'[c].clean = call[c].clean

\* One call changes.
LEMMA CallUpdate ==
  ASSUME CallsOK, NEW c \in Calls, NEW k \in CallType, CallOK(k), call' = [call EXCEPT ![c] = k]
  PROVE  CallsOK' /\ Others(c) /\ call'[c] = k
  BY DEF CallsOK, Others

\* What EndDeferred does to its call.
LEMMA EndDeferredCall == ASSUME Types, NEW c \in Calls, EndDeferred(c)
  PROVE  /\ CallsOK' /\ Others(c)
         /\ call'[c].pc = (IF call[c].sid \in ended THEN "swept" ELSE "killing")
         /\ call'[c].why = "swept" /\ SameEvent(c) /\ SameTask(c) /\ SamePlan(c) /\ SameAnswer(c)
         /\ SameTodo(c)
  <1> DEFINE pcNew == (IF call[c].sid \in ended THEN "swept" ELSE "killing")
             k == [call[c] EXCEPT !.pc = pcNew, !.why = "swept"]
  <1>1. call[c] \in CallType /\ CallOK(call[c]) /\ Receives(call[c]) /\ call[c].pc = "deliver"
    BY DEF Types, CallsOK, CallOK, Handles, Receives, Enters, EndDeferred, At
  <1>2. call' = [call EXCEPT ![c] = k]
    BY DEF EndDeferred, At, Types, CallsOK
  <1>3. pcNew \in {"swept", "killing"}
    OBVIOUS
  <1> HIDE DEF pcNew
  <1>4. k \in CallType
    BY <1>1, <1>3 DEF CallType, Whys, Pcs, Awaiting, Starts, Sid
  <1>5. CallOK(k)
    BY <1>1, <1>3 DEF CallOK, CallType, Handles, Enters, Receives, Starts, Events, None
  <1>6. /\ k.pc = pcNew /\ k.why = "swept"
        /\ k.ev = call[c].ev /\ k.sid = call[c].sid /\ k.auto = call[c].auto /\ k.recover = call[c].recover
        /\ k.copy = call[c].copy /\ k.job = call[c].job /\ k.row = call[c].row /\ k.res = call[c].res
        /\ k.got = call[c].got /\ k.todo = call[c].todo /\ k.clean = call[c].clean
    BY <1>1 DEF CallType
  <1>7. CallsOK' /\ Others(c) /\ call'[c] = k
    BY <1>2, <1>4, <1>5, CallUpdate DEF Types
  <1> HIDE DEF k
  <1> QED BY <1>6, <1>7 DEF SameEvent, SameTask, SamePlan, SameAnswer, SameTodo, pcNew

\* What Killed does to its call.
LEMMA KilledCall == ASSUME Types, NEW c \in Calls, Killed(c)
  PROVE  /\ CallsOK' /\ Others(c) /\ call'[c].pc = call[c].why /\ call'[c].why = "none"
         /\ SameEvent(c) /\ SameTask(c) /\ SamePlan(c) /\ SameAnswer(c) /\ SameTodo(c)
  <1> DEFINE pcNew == call[c].why
             k == [call[c] EXCEPT !.pc = pcNew, !.why = "none"]
  <1>1. /\ call[c] \in CallType /\ CallOK(call[c]) /\ call[c].pc = "killing"
        /\ call[c].why \in {"swept", "judge"}
    BY DEF Types, CallsOK, CallOK, Handles, Receives, Enters, Killed
  <1>2. call' = [call EXCEPT ![c] = k]
    BY DEF Killed, Types, CallsOK
  <1>3. pcNew = call[c].why
    OBVIOUS
  <1> HIDE DEF pcNew
  <1>4. k \in CallType
    BY <1>1, <1>3 DEF CallType, Whys, Pcs, Awaiting, Starts, Sid
  <1>5. CallOK(k)
    BY <1>1, <1>3 DEF CallOK, CallType, Handles, Enters, Receives, Starts, Events, None
  <1>6. /\ k.pc = pcNew /\ k.why = "none"
        /\ k.ev = call[c].ev /\ k.sid = call[c].sid /\ k.auto = call[c].auto /\ k.recover = call[c].recover
        /\ k.copy = call[c].copy /\ k.job = call[c].job /\ k.row = call[c].row /\ k.res = call[c].res
        /\ k.got = call[c].got /\ k.todo = call[c].todo /\ k.clean = call[c].clean
    BY <1>1 DEF CallType
  <1>7. CallsOK' /\ Others(c) /\ call'[c] = k
    BY <1>2, <1>4, <1>5, CallUpdate DEF Types
  <1> HIDE DEF k
  <1> QED BY <1>6, <1>7 DEF SameEvent, SameTask, SamePlan, SameAnswer, SameTodo, pcNew

\* What StartPending does to its call.
LEMMA StartPendingCall == ASSUME Types, NEW c \in Calls, StartPending(c)
  PROVE  /\ CallsOK' /\ Others(c) /\ call'[c].pc = "route" /\ call'[c].why = "none" /\ SameEvent(c)
         /\ SameTask(c) /\ SamePlan(c) /\ SameAnswer(c) /\ SameTodo(c)
  <1> DEFINE k == [call[c] EXCEPT !.pc = "route", !.why = "none"]
  <1>1. call[c] \in CallType /\ CallOK(call[c]) /\ call[c].pc = "swept"
    BY DEF Types, CallsOK, CallOK, Handles, Receives, Enters, StartPending, At
  <1>2. call' = [call EXCEPT ![c] = k]
    BY DEF StartPending, At, Types, CallsOK
  <1>3. k \in CallType
    BY <1>1 DEF CallType, Whys, Pcs, Awaiting, Starts, Sid
  <1>4. CallOK(k)
    BY <1>1 DEF CallOK, CallType, Handles, Enters, Receives, Starts, Events, None
  <1>5. /\ k.pc = "route" /\ k.why = "none"
        /\ k.ev = call[c].ev /\ k.sid = call[c].sid /\ k.auto = call[c].auto /\ k.recover = call[c].recover
        /\ k.copy = call[c].copy /\ k.job = call[c].job /\ k.row = call[c].row /\ k.res = call[c].res
        /\ k.got = call[c].got /\ k.todo = call[c].todo /\ k.clean = call[c].clean
    BY <1>1 DEF CallType
  <1>6. CallsOK' /\ Others(c) /\ call'[c] = k
    BY <1>2, <1>3, <1>4, CallUpdate DEF Types
  <1> HIDE DEF k
  <1> QED BY <1>5, <1>6 DEF SameEvent, SameTask, SamePlan, SameAnswer, SameTodo

\* What StepOver does to its call.
LEMMA StepOverCall == ASSUME Types, NEW c \in Calls, StepOver(c)
  PROVE  /\ CallsOK' /\ Others(c)
         /\ call'[c].pc = (IF Success(Reconciled(call[c].sid, call[c].ev)) \/ call[c].sid \in ended THEN "judge" ELSE "killing")
         /\ call'[c].why = (IF Success(Reconciled(call[c].sid, call[c].ev)) \/ call[c].sid \in ended THEN "none" ELSE "judge")
         /\ call'[c].ev = Reconciled(call[c].sid, call[c].ev) /\ call'[c].auto = active
         /\ call'[c].copy = card /\ call'[c].sid = call[c].sid /\ call'[c].recover = call[c].recover
         /\ call'[c].job = call[c].job /\ call'[c].row = call[c].row /\ SameAnswer(c) /\ SameTodo(c)
  <1> DEFINE pcNew == (IF Success(Reconciled(call[c].sid, call[c].ev)) \/ call[c].sid \in ended THEN "judge" ELSE "killing")
             whyNew == (IF Success(Reconciled(call[c].sid, call[c].ev)) \/ call[c].sid \in ended THEN "none" ELSE "judge")
             evNew == Reconciled(call[c].sid, call[c].ev)
             autoNew == active
             copyNew == card
             k == [call[c] EXCEPT !.pc = pcNew, !.why = whyNew, !.ev = evNew, !.auto = autoNew, !.copy = copyNew]
  <1>1. /\ call[c] \in CallType /\ CallOK(call[c]) /\ Receives(call[c]) /\ call[c].sid \in Session
        /\ call[c].ev \in Events /\ call[c].pc \in {"deliver", "route"}
    BY DEF Types, CallsOK, CallOK, Handles, Receives, Enters, StepOver, Own, Routing, At
  <1>2. call' = [call EXCEPT ![c] = k]
    BY DEF StepOver, Own, Routing, At, Types, CallsOK
  <1>3. /\ pcNew \in {"judge", "killing"} /\ (pcNew = "judge" => whyNew = "none")
        /\ (pcNew = "killing" => whyNew = "judge") /\ whyNew \in {"none", "judge"}
        /\ evNew \in Events /\ autoNew \in Visit /\ copyNew \in Card
    BY <1>1 DEF StepOver, Followed, Live, Types, TypeOK, Reconciled, Events
  <1> HIDE DEF pcNew, whyNew, evNew, autoNew, copyNew
  <1>4. k \in CallType
    BY <1>1, <1>3 DEF CallType, Whys, Pcs, Awaiting, Starts, Sid
  <1>5. CallOK(k)
    BY <1>1, <1>3 DEF CallOK, CallType, Handles, Enters, Receives, Starts, Events, None
  <1>6. /\ k.pc = pcNew /\ k.why = whyNew /\ k.ev = evNew /\ k.auto = autoNew /\ k.copy = copyNew
        /\ k.sid = call[c].sid /\ k.recover = call[c].recover /\ k.job = call[c].job /\ k.row = call[c].row
        /\ k.res = call[c].res /\ k.got = call[c].got /\ k.todo = call[c].todo /\ k.clean = call[c].clean
    BY <1>1 DEF CallType
  <1>7. CallsOK' /\ Others(c) /\ call'[c] = k
    BY <1>2, <1>4, <1>5, CallUpdate DEF Types
  <1> HIDE DEF k
  <1> QED BY <1>6, <1>7 DEF SameAnswer, SameTodo, pcNew, whyNew, evNew, autoNew, copyNew

\* What StartNext does to its call.
LEMMA StartNextCall == ASSUME Types, NEW c \in Calls, StartNext(c)
  PROVE  /\ CallsOK' /\ Others(c) /\ call'[c].pc = "create" /\ call'[c].copy = Cleared(c)
         /\ call'[c].recover = ShouldRecover(c) /\ call'[c].job = Job(c, AutoOf(c).step + 1)
         /\ call'[c].why = (IF Success(call[c].ev) THEN "next" ELSE "fallback") /\ SameEvent(c)
         /\ call'[c].auto = call[c].auto /\ call'[c].row = call[c].row /\ SameAnswer(c)
         /\ SameTodo(c)
  <1> DEFINE copyNew == Cleared(c)
             recoverNew == ShouldRecover(c)
             jobNew == Job(c, AutoOf(c).step + 1)
             whyNew == (IF Success(call[c].ev) THEN "next" ELSE "fallback")
             k == [call[c] EXCEPT !.pc = "create", !.copy = copyNew, !.recover = recoverNew, !.job = jobNew, !.why = whyNew]
  <1>1. /\ call[c] \in CallType /\ CallOK(call[c]) /\ Handles(call[c]) /\ call[c].auto \in Visit
        /\ call[c].pc = "judge"
    BY DEF Types, CallsOK, CallOK, Handles, Receives, Enters, StartNext, At
  <1>2. call' = [call EXCEPT ![c] = k]
    BY DEF StartNext, At, Types, CallsOK
  <1>3. /\ jobNew \in Jobs /\ jobNew.auto \in Visit /\ recoverNew \in BOOLEAN /\ copyNew \in Card
        /\ whyNew \in {"next", "fallback"} /\ (whyNew = "next" <=> Success(call[c].ev))
    BY <1>1, AutoUnfold, ClearedType DEF Job, Jobs, AutoOf, AutoType, ShouldRecover
  <1> HIDE DEF copyNew, recoverNew, jobNew, whyNew
  <1>4. k \in CallType
    BY <1>1, <1>3 DEF CallType, Whys, Pcs, Awaiting, Starts, Sid
  <1>5. CallOK(k)
    BY <1>1, <1>3 DEF CallOK, CallType, Handles, Enters, Receives, Starts, Events, None
  <1>6. /\ k.pc = "create" /\ k.copy = copyNew /\ k.recover = recoverNew /\ k.job = jobNew /\ k.why = whyNew
        /\ k.ev = call[c].ev /\ k.sid = call[c].sid /\ k.auto = call[c].auto /\ k.row = call[c].row
        /\ k.res = call[c].res /\ k.got = call[c].got /\ k.todo = call[c].todo /\ k.clean = call[c].clean
    BY <1>1 DEF CallType
  <1>7. CallsOK' /\ Others(c) /\ call'[c] = k
    BY <1>2, <1>4, <1>5, CallUpdate DEF Types
  <1> HIDE DEF k
  <1>8. call'[c].recover = ShouldRecover(c)
    BY <1>6, <1>7, Zenon DEF recoverNew
  <1>9. /\ CallsOK' /\ Others(c) /\ call'[c].pc = "create" /\ call'[c].copy = Cleared(c)
        /\ call'[c].job = Job(c, AutoOf(c).step + 1)
        /\ call'[c].why = (IF Success(call[c].ev) THEN "next" ELSE "fallback") /\ SameEvent(c)
        /\ call'[c].auto = call[c].auto /\ call'[c].row = call[c].row /\ SameAnswer(c)
        /\ SameTodo(c)
    BY <1>6, <1>7 DEF SameEvent, SameAnswer, SameTodo, copyNew, jobNew, whyNew
  <1> QED BY <1>8, <1>9

\* What Recover does to its call.
LEMMA RecoverCall == ASSUME Types, NEW c \in Calls, Recover(c)
  PROVE  /\ CallsOK' /\ Others(c) /\ call'[c].pc = "create" /\ call'[c].copy = Cleared(c)
         /\ call'[c].job = Job(c, AutoOf(c).step) /\ call'[c].why = "recover" /\ SameEvent(c)
         /\ SameTask(c) /\ call'[c].row = call[c].row /\ SameAnswer(c) /\ SameTodo(c)
  <1> DEFINE copyNew == Cleared(c)
             jobNew == Job(c, AutoOf(c).step)
             k == [call[c] EXCEPT !.pc = "create", !.copy = copyNew, !.job = jobNew, !.why = "recover"]
  <1>1. /\ call[c] \in CallType /\ CallOK(call[c]) /\ Handles(call[c]) /\ call[c].auto \in Visit
        /\ call[c].pc \in {"judge", "recover"} /\ (call[c].pc = "judge" => ShouldRecover(c))
    BY DEF Types, CallsOK, CallOK, Handles, Receives, Enters, Recover, At
  <1>2. call' = [call EXCEPT ![c] = k]
    BY DEF Recover, At, Types, CallsOK
  <1>3. jobNew \in Jobs /\ jobNew.auto \in Visit /\ copyNew \in Card /\ ~ Success(call[c].ev)
    BY <1>1, AutoUnfold, ClearedType DEF Job, Jobs, AutoOf, AutoType, ShouldRecover, CallOK
  <1> HIDE DEF copyNew, jobNew
  <1>4. k \in CallType
    BY <1>1, <1>3 DEF CallType, Whys, Pcs, Awaiting, Starts, Sid
  <1>5. CallOK(k)
    BY <1>1, <1>3 DEF CallOK, CallType, Handles, Enters, Receives, Starts, Events, None
  <1>6. /\ k.pc = "create" /\ k.copy = copyNew /\ k.job = jobNew /\ k.why = "recover"
        /\ k.ev = call[c].ev /\ k.sid = call[c].sid /\ k.auto = call[c].auto /\ k.recover = call[c].recover
        /\ k.row = call[c].row /\ k.res = call[c].res /\ k.got = call[c].got /\ k.todo = call[c].todo
        /\ k.clean = call[c].clean
    BY <1>1 DEF CallType
  <1>7. CallsOK' /\ Others(c) /\ call'[c] = k
    BY <1>2, <1>4, <1>5, CallUpdate DEF Types
  <1> HIDE DEF k
  <1> QED BY <1>6, <1>7 DEF SameEvent, SameTask, SameAnswer, SameTodo, copyNew, jobNew

\* What NothingFollows does to its call.
LEMMA NothingFollowsCall == ASSUME Types, NEW c \in Calls, NothingFollows(c)
  PROVE  /\ CallsOK' /\ Others(c) /\ call'[c].pc = "finish" /\ call'[c].copy = Judged(c)
         /\ SameEvent(c) /\ SameTask(c) /\ call'[c].job = call[c].job /\ call'[c].row = call[c].row
         /\ SameAnswer(c) /\ SameTodo(c) /\ call'[c].why = call[c].why
  <1> DEFINE copyNew == Judged(c)
             k == [call[c] EXCEPT !.pc = "finish", !.copy = copyNew]
  <1>1. call[c] \in CallType /\ CallOK(call[c]) /\ Handles(call[c]) /\ call[c].pc = "judge"
    BY DEF Types, CallsOK, CallOK, Handles, Receives, Enters, NothingFollows, At
  <1>2. call' = [call EXCEPT ![c] = k]
    BY DEF NothingFollows, At, Types, CallsOK
  <1>3. copyNew \in Card
    BY <1>1, JudgedType
  <1> HIDE DEF copyNew
  <1>4. k \in CallType
    BY <1>1, <1>3 DEF CallType, Whys, Pcs, Awaiting, Starts, Sid
  <1>5. CallOK(k)
    BY <1>1, <1>3 DEF CallOK, CallType, Handles, Enters, Receives, Starts, Events, None
  <1>6. /\ k.pc = "finish" /\ k.copy = copyNew
        /\ k.ev = call[c].ev /\ k.sid = call[c].sid /\ k.auto = call[c].auto /\ k.why = call[c].why
        /\ k.recover = call[c].recover /\ k.job = call[c].job /\ k.row = call[c].row /\ k.res = call[c].res
        /\ k.got = call[c].got /\ k.todo = call[c].todo /\ k.clean = call[c].clean
    BY <1>1 DEF CallType
  <1>7. CallsOK' /\ Others(c) /\ call'[c] = k
    BY <1>2, <1>4, <1>5, CallUpdate DEF Types
  <1> HIDE DEF k
  <1> QED BY <1>6, <1>7 DEF SameEvent, SameTask, SameAnswer, SameTodo, copyNew

\* What CreateTakesTrigger does to its call.
LEMMA CreateTakesTriggerCall == ASSUME Types, NEW c \in Calls, CreateTakesTrigger(c)
  PROVE  /\ CallsOK' /\ Others(c) /\ call'[c].pc = "created" /\ call'[c].res = "session"
         /\ call'[c].got = card.trigger /\ SameEvent(c) /\ SameTask(c) /\ SamePlan(c) /\ SameTodo(c)
         /\ call'[c].why = call[c].why
  <1> DEFINE gotNew == card.trigger
             k == [call[c] EXCEPT !.pc = "created", !.res = "session", !.got = gotNew]
  <1>1. call[c] \in CallType /\ CallOK(call[c]) /\ call[c].pc = "create"
    BY DEF Types, CallsOK, CallOK, Handles, Receives, Enters, CreateTakesTrigger, At, Answer
  <1>2. call' = [call EXCEPT ![c] = k]
    BY DEF CreateTakesTrigger, At, Answer, Types, CallsOK
  <1>3. gotNew \in Session
    BY DEF CreateTakesTrigger, Types, TypeOK, Card
  <1> HIDE DEF gotNew
  <1>4. k \in CallType
    BY <1>1, <1>3 DEF CallType, Whys, Pcs, Awaiting, Starts, Sid
  <1>5. CallOK(k)
    BY <1>1, <1>3 DEF CallOK, CallType, Handles, Enters, Receives, Starts, Events, None, Session
  <1>6. /\ k.pc = "created" /\ k.res = "session" /\ k.got = gotNew
        /\ k.ev = call[c].ev /\ k.sid = call[c].sid /\ k.auto = call[c].auto /\ k.why = call[c].why
        /\ k.recover = call[c].recover /\ k.copy = call[c].copy /\ k.job = call[c].job /\ k.row = call[c].row
        /\ k.todo = call[c].todo /\ k.clean = call[c].clean
    BY <1>1 DEF CallType
  <1>7. CallsOK' /\ Others(c) /\ call'[c] = k
    BY <1>2, <1>4, <1>5, CallUpdate DEF Types
  <1> HIDE DEF k
  <1> QED BY <1>6, <1>7 DEF SameEvent, SameTask, SamePlan, SameTodo, gotNew

\* What CreateQueues does to its call.
LEMMA CreateQueuesCall == ASSUME Types, NEW c \in Calls, CreateQueues(c)
  PROVE  /\ CallsOK' /\ Others(c) /\ call'[c].pc = "created" /\ call'[c].res = "queued"
         /\ call'[c].got = None /\ SameEvent(c) /\ SameTask(c) /\ SamePlan(c) /\ SameTodo(c)
         /\ call'[c].why = call[c].why
  <1> DEFINE k == [call[c] EXCEPT !.pc = "created", !.res = "queued", !.got = None]
  <1>1. call[c] \in CallType /\ CallOK(call[c]) /\ call[c].pc = "create"
    BY DEF Types, CallsOK, CallOK, Handles, Receives, Enters, CreateQueues, At, Answer
  <1>2. call' = [call EXCEPT ![c] = k]
    BY DEF CreateQueues, At, Answer, Types, CallsOK
  <1>3. k \in CallType
    BY <1>1 DEF CallType, Whys, Pcs, Awaiting, Starts, Sid
  <1>4. CallOK(k)
    BY <1>1 DEF CallOK, CallType, Handles, Enters, Receives, Starts, Events, None
  <1>5. /\ k.pc = "created" /\ k.res = "queued" /\ k.got = None
        /\ k.ev = call[c].ev /\ k.sid = call[c].sid /\ k.auto = call[c].auto /\ k.why = call[c].why
        /\ k.recover = call[c].recover /\ k.copy = call[c].copy /\ k.job = call[c].job /\ k.row = call[c].row
        /\ k.todo = call[c].todo /\ k.clean = call[c].clean
    BY <1>1 DEF CallType
  <1>6. CallsOK' /\ Others(c) /\ call'[c] = k
    BY <1>2, <1>3, <1>4, CallUpdate DEF Types
  <1> HIDE DEF k
  <1> QED BY <1>5, <1>6 DEF SameEvent, SameTask, SamePlan, SameTodo

\* What CreateStarts does to its call.
LEMMA CreateStartsCall == ASSUME Types, NEW c \in Calls, CreateStarts(c)
  PROVE  /\ CallsOK' /\ Others(c) /\ call'[c].pc = "spawning" /\ call'[c].row = card /\ SameEvent(c)
         /\ SameTask(c) /\ call'[c].copy = call[c].copy /\ call'[c].job = call[c].job
         /\ SameAnswer(c) /\ SameTodo(c) /\ call'[c].why = call[c].why
  <1> DEFINE rowNew == card
             k == [call[c] EXCEPT !.pc = "spawning", !.row = rowNew]
  <1>1. call[c] \in CallType /\ CallOK(call[c]) /\ call[c].pc = "create"
    BY DEF Types, CallsOK, CallOK, Handles, Receives, Enters, CreateStarts, At
  <1>2. call' = [call EXCEPT ![c] = k]
    BY DEF CreateStarts, At, Types, CallsOK
  <1>3. rowNew \in Card
    BY DEF Types, TypeOK
  <1> HIDE DEF rowNew
  <1>4. k \in CallType
    BY <1>1, <1>3 DEF CallType, Whys, Pcs, Awaiting, Starts, Sid
  <1>5. CallOK(k)
    BY <1>1, <1>3 DEF CallOK, CallType, Handles, Enters, Receives, Starts, Events, None
  <1>6. /\ k.pc = "spawning" /\ k.row = rowNew
        /\ k.ev = call[c].ev /\ k.sid = call[c].sid /\ k.auto = call[c].auto /\ k.why = call[c].why
        /\ k.recover = call[c].recover /\ k.copy = call[c].copy /\ k.job = call[c].job /\ k.res = call[c].res
        /\ k.got = call[c].got /\ k.todo = call[c].todo /\ k.clean = call[c].clean
    BY <1>1 DEF CallType
  <1>7. CallsOK' /\ Others(c) /\ call'[c] = k
    BY <1>2, <1>4, <1>5, CallUpdate DEF Types
  <1> HIDE DEF k
  <1> QED BY <1>6, <1>7 DEF SameEvent, SameTask, SameAnswer, SameTodo, rowNew

\* What NotContinued does to its call.
LEMMA NotContinuedCall == ASSUME Types, NEW c \in Calls, NotContinued(c)
  PROVE  /\ CallsOK' /\ Others(c)
         /\ call'[c].pc = (IF call[c].why = "fallback" /\ call[c].recover THEN "recover" ELSE "finish")
         /\ SameEvent(c) /\ SameTask(c) /\ SamePlan(c) /\ SameAnswer(c) /\ SameTodo(c)
         /\ call'[c].why = call[c].why
  <1> DEFINE pcNew == (IF call[c].why = "fallback" /\ call[c].recover THEN "recover" ELSE "finish")
             k == [call[c] EXCEPT !.pc = pcNew]
  <1>1. /\ call[c] \in CallType /\ CallOK(call[c]) /\ call[c].pc = "created"
        /\ call[c].why # "enter" /\ Handles(call[c])
    BY DEF Types, CallsOK, CallOK, Handles, Receives, Enters, NotContinued, At, Go, Starts
  <1>2. call' = [call EXCEPT ![c] = k]
    BY DEF NotContinued, At, Go, Types, CallsOK
  <1>3. /\ pcNew \in {"recover", "finish"}
        /\ (pcNew = "recover" => call[c].why = "fallback" /\ call[c].recover)
    OBVIOUS
  <1> HIDE DEF pcNew
  <1>4. k \in CallType
    BY <1>1, <1>3 DEF CallType, Whys, Pcs, Awaiting, Starts, Sid
  <1>5. CallOK(k)
    BY <1>1, <1>3 DEF CallOK, CallType, Handles, Enters, Receives, Starts, Events, None
  <1>6. /\ k.pc = pcNew
        /\ k.ev = call[c].ev /\ k.sid = call[c].sid /\ k.auto = call[c].auto /\ k.why = call[c].why
        /\ k.recover = call[c].recover /\ k.copy = call[c].copy /\ k.job = call[c].job /\ k.row = call[c].row
        /\ k.res = call[c].res /\ k.got = call[c].got /\ k.todo = call[c].todo /\ k.clean = call[c].clean
    BY <1>1 DEF CallType
  <1>7. CallsOK' /\ Others(c) /\ call'[c] = k
    BY <1>2, <1>4, <1>5, CallUpdate DEF Types
  <1> HIDE DEF k
  <1> QED BY <1>6, <1>7 DEF SameEvent, SameTask, SamePlan, SameAnswer, SameTodo, pcNew

\* What LaneTearsDown does to its call.
LEMMA LaneTearsDownCall == ASSUME Types, NEW c \in Calls, LaneTearsDown(c)
  PROVE  /\ CallsOK' /\ Others(c) /\ call'[c].pc = "ending"
         /\ call'[c].todo = SessionsOf(call[c].copy) \ (IF TearsDown(c) /\ call[c].ev = "report" THEN {call[c].sid} \cap SessionsOf(call[c].copy) ELSE {})
         /\ call'[c].clean = TearsDown(c) /\ SameEvent(c) /\ SameTask(c) /\ SamePlan(c)
         /\ SameAnswer(c) /\ call'[c].why = call[c].why
  <1> DEFINE todoNew == SessionsOf(call[c].copy) \ (IF TearsDown(c) /\ call[c].ev = "report" THEN {call[c].sid} \cap SessionsOf(call[c].copy) ELSE {})
             cleanNew == TearsDown(c)
             k == [call[c] EXCEPT !.pc = "ending", !.todo = todoNew, !.clean = cleanNew]
  <1>1. call[c] \in CallType /\ CallOK(call[c]) /\ call[c].pc = "finish"
    BY DEF Types, CallsOK, CallOK, Handles, Receives, Enters, LaneTearsDown, At
  <1>2. call' = [call EXCEPT ![c] = k]
    BY DEF LaneTearsDown, At, Types, CallsOK
  <1>3. todoNew \subseteq Session /\ cleanNew \in BOOLEAN
    BY <1>1 DEF SessionsOf, CallType, Card, TearsDown, Won
  <1> HIDE DEF todoNew, cleanNew
  <1>4. k \in CallType
    BY <1>1, <1>3 DEF CallType, Whys, Pcs, Awaiting, Starts, Sid
  <1>5. CallOK(k)
    BY <1>1, <1>3 DEF CallOK, CallType, Handles, Enters, Receives, Starts, Events, None
  <1>6. /\ k.pc = "ending" /\ k.todo = todoNew /\ k.clean = cleanNew
        /\ k.ev = call[c].ev /\ k.sid = call[c].sid /\ k.auto = call[c].auto /\ k.why = call[c].why
        /\ k.recover = call[c].recover /\ k.copy = call[c].copy /\ k.job = call[c].job /\ k.row = call[c].row
        /\ k.res = call[c].res /\ k.got = call[c].got
    BY <1>1 DEF CallType
  <1>7. CallsOK' /\ Others(c) /\ call'[c] = k
    BY <1>2, <1>4, <1>5, CallUpdate DEF Types
  <1> HIDE DEF k
  <1> QED BY <1>6, <1>7 DEF SameEvent, SameTask, SamePlan, SameAnswer, todoNew, cleanNew

\* What EndOne does to its call.
LEMMA EndOneCall == ASSUME Types, NEW c \in Calls, EndOne(c)
  PROVE  /\ CallsOK' /\ Others(c) /\ call'[c].todo = call[c].todo \ {Min(call[c].todo)}
         /\ SameEvent(c) /\ SameTask(c) /\ SamePlan(c) /\ SameAnswer(c)
         /\ call'[c].clean = call[c].clean /\ call'[c].pc = call[c].pc /\ call'[c].why = call[c].why
  <1> DEFINE todoNew == call[c].todo \ {Min(call[c].todo)}
             k == [call[c] EXCEPT !.todo = todoNew]
  <1>1. call[c] \in CallType /\ CallOK(call[c]) /\ call[c].pc = "ending"
    BY DEF Types, CallsOK, CallOK, Handles, Receives, Enters, EndOne, At
  <1>2. call' = [call EXCEPT ![c] = k]
    BY DEF EndOne, At, Types, CallsOK
  <1>3. todoNew \subseteq Session
    BY <1>1 DEF CallType
  <1> HIDE DEF todoNew
  <1>4. k \in CallType
    BY <1>1, <1>3 DEF CallType, Whys, Pcs, Awaiting, Starts, Sid
  <1>5. CallOK(k)
    BY <1>1, <1>3 DEF CallOK, CallType, Handles, Enters, Receives, Starts, Events, None
  <1>6. /\ k.todo = todoNew
        /\ k.pc = call[c].pc /\ k.ev = call[c].ev /\ k.sid = call[c].sid /\ k.auto = call[c].auto
        /\ k.why = call[c].why /\ k.recover = call[c].recover /\ k.copy = call[c].copy /\ k.job = call[c].job
        /\ k.row = call[c].row /\ k.res = call[c].res /\ k.got = call[c].got /\ k.clean = call[c].clean
    BY <1>1 DEF CallType
  <1>7. CallsOK' /\ Others(c) /\ call'[c] = k
    BY <1>2, <1>4, <1>5, CallUpdate DEF Types
  <1> HIDE DEF k
  <1> QED BY <1>6, <1>7 DEF SameEvent, SameTask, SamePlan, SameAnswer, todoNew

\* What Register does to its call.
LEMMA RegisterCall == ASSUME Types, NEW c \in Calls, Register(c)
  PROVE  /\ CallsOK' /\ Others(c) /\ call'[c].pc = "create" /\ call'[c].why = "enter" /\ call'[c].auto = active'
         /\ active' \in Visit /\ call'[c].job.auto = active' /\ call'[c].job.lane = call[c].job.lane
         /\ call'[c].job.step = 1
         /\ SameEvent(c) /\ call'[c].copy = call[c].copy /\ call'[c].row = call[c].row
         /\ call'[c].recover = call[c].recover /\ SameAnswer(c) /\ SameTodo(c)
  <1>1. call[c] \in CallType /\ CallOK(call[c]) /\ call[c].pc = "register"
    BY DEF Types, CallsOK, Register, At
  <1>2. PICK a \in Visit : /\ active' = a
                           /\ call' = [call EXCEPT ![c].pc = "create", ![c].why = "enter", ![c].auto = a,
                                                   ![c].job.auto = a, ![c].job.step = 1]
    BY DEF Register
  <1> DEFINE job == [call[c].job EXCEPT !.auto = a, !.step = 1]
             k == [call[c] EXCEPT !.pc = "create", !.why = "enter", !.auto = a, !.job = job]
  <1>3. job \in Jobs /\ job.auto = a /\ job.lane = call[c].job.lane /\ job.step = 1
    <2>1. call[c].job \in Jobs
      BY <1>1 DEF CallType
    <2> QED BY <2>1 DEF Jobs
  <1>4. call' = [call EXCEPT ![c] = k]
    BY <1>1, <1>2, ZenonT(60) DEF CallType, Types, CallsOK
  <1> HIDE DEF job
  <1>5. k \in CallType
    BY <1>1, <1>3 DEF CallType, Whys, Pcs, Awaiting, Starts
  <1>6. CallOK(k)
    BY <1>1, <1>3 DEF CallOK, CallType, Handles, Enters, Receives, Starts
  <1>7. /\ k.pc = "create" /\ k.why = "enter" /\ k.auto = a /\ k.job = job
        /\ k.ev = call[c].ev /\ k.sid = call[c].sid /\ k.recover = call[c].recover /\ k.copy = call[c].copy
        /\ k.row = call[c].row /\ k.res = call[c].res /\ k.got = call[c].got /\ k.todo = call[c].todo
        /\ k.clean = call[c].clean
    BY <1>1 DEF CallType
  <1>8. CallsOK' /\ Others(c) /\ call'[c] = k
    BY <1>4, <1>5, <1>6, CallUpdate DEF Types
  <1> HIDE DEF k
  <1> QED BY <1>2, <1>3, <1>7, <1>8 DEF SameEvent, SameAnswer, SameTodo

\* A call that returns is idle.
LEMMA ReturnCall == ASSUME Types, NEW c \in Calls, Return(c)
  PROVE  CallsOK' /\ Others(c) /\ call'[c] = Idle
  BY CardTypes, CallUpdate DEF Types, Return

\* What an idle call holds.
LEMMA IdleFields ==
  /\ Idle.pc = "idle" /\ Idle.ev = "none" /\ Idle.sid = None /\ Idle.auto = None /\ Idle.why = "none"
  /\ Idle.recover = FALSE /\ Idle.copy = NoCard /\ Idle.job = NoRun /\ Idle.row = NoCard /\ Idle.res = "none"
  /\ Idle.got = None /\ Idle.todo = {} /\ Idle.clean = FALSE
  /\ ~ Handles(Idle) /\ ~ Enters(Idle) /\ ~ Receives(Idle)
  BY DEF Idle, Handles, Enters, Receives

\* What an event brings: an idle call takes it.
Taken(c, s, ev) ==
  /\ call[c].pc = "idle" /\ Quiet /\ CallsOK' /\ Others(c)
  /\ call'[c].pc = "deliver" /\ call'[c].ev = ev /\ call'[c].sid = s
  /\ call'[c].auto = None /\ call'[c].why = "none" /\ call'[c].recover = FALSE
  /\ call'[c].copy = NoCard /\ call'[c].job = NoRun /\ call'[c].row = NoCard
  /\ call'[c].res = "none" /\ call'[c].got = None /\ call'[c].todo = {} /\ call'[c].clean = FALSE

\* What Emit does to the calls.
LEMMA EmitCall == ASSUME Types, NEW s \in Session, NEW ev \in Events, Emit(s, ev)
  PROVE  \E c \in Calls : Taken(c, s, ev)
  <1>1. PICK c \in Calls : /\ Free(c)
                           /\ call' = [call EXCEPT ![c] = [Idle EXCEPT !.pc = "deliver", !.ev = ev, !.sid = s]]
    BY DEF Emit
  <1> DEFINE k == [Idle EXCEPT !.pc = "deliver", !.ev = ev, !.sid = s]
  <1>2. k \in CallType
    BY CardTypes DEF CallType, Pcs, Sid
  <1>3. /\ k.pc = "deliver" /\ k.ev = ev /\ k.sid = s /\ k.auto = None /\ k.why = "none" /\ k.recover = FALSE
        /\ k.copy = NoCard /\ k.job = NoRun /\ k.row = NoCard /\ k.res = "none" /\ k.got = None
        /\ k.todo = {} /\ k.clean = FALSE
    BY DEF Idle
  <1>4. CallOK(k)
    <2> HIDE DEF k
    <2> QED BY <1>3 DEF CallOK, Handles, Enters, Receives
  <1>5. CallsOK' /\ Others(c) /\ call'[c] = k
    BY <1>1, <1>2, <1>4, CallUpdate DEF Types
  <1> HIDE DEF k
  <1>6. Taken(c, s, ev)
    BY <1>1, <1>3, <1>5 DEF Taken, Free, Emit
  <1> QED BY <1>6

\* What an answered start does to the call: the session, "queued" or nothing.
LEMMA AnswerCall ==
  ASSUME Types, NEW c \in Calls, NEW res \in {"none", "session", "queued"}, NEW s \in Sid,
         res = "session" <=> s # None, Answer(c, res, s),
         call[c].pc \in {"create", "spawning"}, call[c].why \in Starts
  PROVE  /\ CallsOK' /\ Others(c) /\ call'[c].pc = "created" /\ call'[c].res = res /\ call'[c].got = s
         /\ call'[c].why = call[c].why /\ SameEvent(c) /\ SameTask(c) /\ SamePlan(c) /\ SameTodo(c)
  <1> DEFINE k == [call[c] EXCEPT !.pc = "created", !.res = res, !.got = s]
  <1>1. call[c] \in CallType /\ CallOK(call[c])
    BY DEF Types, CallsOK
  <1>2. call' = [call EXCEPT ![c] = k]
    BY DEF Answer, Types, CallsOK
  <1>3. k \in CallType
    BY <1>1 DEF CallType, Pcs, Awaiting, Sid
  <1>4. /\ k.pc = "created" /\ k.res = res /\ k.got = s /\ k.why = call[c].why
        /\ k.ev = call[c].ev /\ k.sid = call[c].sid /\ k.auto = call[c].auto /\ k.recover = call[c].recover
        /\ k.copy = call[c].copy /\ k.job = call[c].job /\ k.row = call[c].row
        /\ k.todo = call[c].todo /\ k.clean = call[c].clean
    BY <1>1 DEF CallType
  <1>5. CallOK(k)
    <2> HIDE DEF k
    <2> QED BY <1>1, <1>4 DEF CallOK, Handles, Enters, Receives, Starts
  <1>6. CallsOK' /\ Others(c) /\ call'[c] = k
    BY <1>2, <1>3, <1>5, CallUpdate DEF Types
  <1> HIDE DEF k
  <1> QED BY <1>4, <1>6 DEF SameEvent, SameTask, SamePlan, SameTodo

\* A call that begins with a transition into a lane.
Arrives(c, lane) ==
  /\ CallsOK' /\ Others(c)
  /\ call'[c].pc = "enter" /\ call'[c].ev = "none" /\ call'[c].sid = None
  /\ call'[c].auto = None /\ call'[c].why = "none" /\ call'[c].recover = FALSE
  /\ call'[c].copy = NoCard /\ call'[c].job.lane = lane /\ call'[c].row = NoCard
  /\ call'[c].res = "none" /\ call'[c].got = None /\ call'[c].todo = {} /\ call'[c].clean = FALSE

\* A transition into a lane.
LEMMA ArriveCall ==
  ASSUME Types, NEW c \in Calls, NEW lane \in Lanes,
         call' = [call EXCEPT ![c] = [Idle EXCEPT !.pc = "enter", !.job.lane = lane]]
  PROVE  Arrives(c, lane)
  <1> DEFINE job == [NoRun EXCEPT !.lane = lane]
             k == [Idle EXCEPT !.pc = "enter", !.job = job]
  <1>1. job \in Jobs /\ job.lane = lane
    BY CardTypes DEF Jobs
  <1>2. call' = [call EXCEPT ![c] = k]
    BY DEF Idle
  <1> HIDE DEF job
  <1>3. k \in CallType
    BY <1>1, CardTypes DEF CallType, Pcs
  <1>4. /\ k.pc = "enter" /\ k.ev = "none" /\ k.sid = None /\ k.auto = None /\ k.why = "none" /\ k.recover = FALSE
        /\ k.copy = NoCard /\ k.job = job /\ k.row = NoCard /\ k.res = "none" /\ k.got = None
        /\ k.todo = {} /\ k.clean = FALSE
    BY DEF Idle
  <1>5. CallOK(k)
    <2> HIDE DEF k
    <2> QED BY <1>4 DEF CallOK, Handles, Enters, Receives
  <1>6. CallsOK' /\ Others(c) /\ call'[c] = k
    BY <1>2, <1>3, <1>5, CallUpdate DEF Types
  <1> HIDE DEF k
  <1> QED BY <1>1, <1>4, <1>6 DEF Arrives

\* EnterLane returns or goes on to register.
LEMMA EnterLaneCall == ASSUME Types, NEW c \in Calls, EnterLane(c)
  PROVE  /\ CallsOK' /\ Others(c)
         /\ \/ Live /\ auto[active].lane = call[c].job.lane /\ call'[c] = Idle
            \/ /\ ~ (Live /\ auto[active].lane = call[c].job.lane)
               /\ call'[c].pc = "register" /\ call'[c].why = call[c].why /\ call'[c].job = call[c].job /\ SameEvent(c)
               /\ SameTask(c) /\ SamePlan(c) /\ SameAnswer(c) /\ SameTodo(c)
  <1>1. CASE Live /\ auto[active].lane = call[c].job.lane
    BY <1>1, ReturnCall DEF EnterLane
  <1>2. CASE ~ (Live /\ auto[active].lane = call[c].job.lane)
    <2> DEFINE k == [call[c] EXCEPT !.pc = "register"]
    <2>1. call[c] \in CallType /\ CallOK(call[c]) /\ call[c].pc = "enter"
      BY DEF Types, CallsOK, EnterLane, At
    <2>2. call' = [call EXCEPT ![c] = k]
      BY <1>2 DEF EnterLane, Go, Types, CallsOK
    <2>3. k \in CallType
      BY <2>1 DEF CallType, Pcs
    <2>4. /\ k.pc = "register" /\ k.why = call[c].why /\ k.ev = call[c].ev /\ k.sid = call[c].sid
          /\ k.auto = call[c].auto /\ k.recover = call[c].recover /\ k.copy = call[c].copy /\ k.job = call[c].job
          /\ k.row = call[c].row /\ k.res = call[c].res /\ k.got = call[c].got
          /\ k.todo = call[c].todo /\ k.clean = call[c].clean
      BY <2>1 DEF CallType
    <2>5. CallOK(k)
      <3> HIDE DEF k
      <3> QED BY <2>1, <2>4 DEF CallOK, Handles, Enters, Receives
    <2>6. CallsOK' /\ Others(c) /\ call'[c] = k
      BY <2>2, <2>3, <2>5, CallUpdate DEF Types
    <2> HIDE DEF k
    <2> QED BY <1>2, <2>4, <2>6 DEF SameEvent, SameTask, SamePlan, SameAnswer, SameTodo
  <1> QED BY <1>1, <1>2

\* Spawned, SpawnFails: the board's own start returns, another one is answered.
LEMMA SpawnedCall == ASSUME Types, NEW c \in Calls, NEW s \in Session, call[c].pc = "spawning",
                            IF call[c].why = "queue" THEN Return(c) ELSE Answer(c, "session", s)
  PROVE  /\ CallsOK' /\ Others(c)
         /\ call[c].why = "queue" => call'[c] = Idle
         /\ call[c].why # "queue" =>
              /\ call'[c].pc = "created" /\ call'[c].res = "session" /\ call'[c].got = s
              /\ call'[c].why = call[c].why /\ SameEvent(c) /\ SameTask(c) /\ SamePlan(c) /\ SameTodo(c)
  <1>1. call[c].why \in Starts \cup {"queue"} /\ s \in Sid /\ s # None
    BY CardTypes DEF Types, CallsOK, CallOK, Sid
  <1> QED BY <1>1, ReturnCall, AnswerCall

\* A start that failed answers nothing, or ends the queue's call.
LEMMA SpawnFailsCall == ASSUME Types, NEW c \in Calls, SpawnFails(c)
  PROVE  /\ CallsOK' /\ Others(c)
         /\ call[c].why = "queue" => call'[c] = Idle
         /\ call[c].why # "queue" =>
              /\ call'[c].pc = "created" /\ call'[c].res = "none" /\ call'[c].got = None
              /\ call'[c].why = call[c].why /\ SameEvent(c) /\ SameTask(c) /\ SamePlan(c) /\ SameTodo(c)
  <1>1. call[c].why \in Starts \cup {"queue"} /\ None \in Sid /\ call[c].pc = "spawning"
    BY DEF Types, CallsOK, CallOK, Sid, SpawnFails, At
  <1>2. IF call[c].why = "queue" THEN Return(c) ELSE Answer(c, "none", None)
    BY DEF SpawnFails
  <1> QED BY <1>1, <1>2, ReturnCall, AnswerCall

\* The board queue starts the waiting step.
LEMMA QueueStartsCall == ASSUME Types, QueueStarts, Startable(waiting), waiting.auto \in Visit
  PROVE  \E c \in Calls :
           /\ call[c].pc = "idle" /\ CallsOK' /\ Others(c)
           /\ call'[c].pc = "spawning" /\ call'[c].why = "queue" /\ call'[c].job = waiting /\ call'[c].row = card
           /\ call'[c].ev = "none" /\ call'[c].sid = None /\ call'[c].auto = None /\ call'[c].recover = FALSE
           /\ call'[c].copy = NoCard /\ call'[c].res = "none" /\ call'[c].got = None
           /\ call'[c].todo = {} /\ call'[c].clean = FALSE
  <1>1. PICK c \in Calls : /\ Free(c)
                           /\ call' = [call EXCEPT ![c] = [Idle EXCEPT !.pc = "spawning", !.why = "queue",
                                                                       !.job = waiting, !.row = card]]
    BY DEF QueueStarts
  <1> DEFINE k == [Idle EXCEPT !.pc = "spawning", !.why = "queue", !.job = waiting, !.row = card]
  <1>2. waiting \in Jobs /\ card \in Card
    BY DEF Types, TypeOK
  <1>3. k \in CallType
    BY <1>2, CardTypes DEF CallType, Pcs, Awaiting, Whys
  <1>4. /\ k.pc = "spawning" /\ k.why = "queue" /\ k.job = waiting /\ k.row = card /\ k.ev = "none" /\ k.sid = None
        /\ k.auto = None /\ k.recover = FALSE /\ k.copy = NoCard /\ k.res = "none" /\ k.got = None
        /\ k.todo = {} /\ k.clean = FALSE
    BY DEF Idle
  <1>5. CallOK(k)
    <2> HIDE DEF k
    <2> QED BY <1>4 DEF CallOK, Handles, Enters, Receives, Starts
  <1>6. CallsOK' /\ Others(c) /\ call'[c] = k
    BY <1>1, <1>3, <1>5, CallUpdate DEF Types
  <1> HIDE DEF k
  <1> QED BY <1>1, <1>4, <1>6 DEF Free

\* The user ends the sessions of the card.
LEMMA UserBlocksCall == ASSUME Types, UserBlocks
  PROVE  \E c \in Calls :
           /\ call[c].pc = "idle" /\ CallsOK' /\ Others(c)
           /\ call'[c].pc = "ending" /\ call'[c].todo \subseteq Session
           /\ call'[c].todo = {s \in Session : card.rec[s] = "running" /\ run[s].lane = card.col}
                                \cup ({card.trigger} \ {None})
           /\ call'[c].ev = "none" /\ call'[c].sid = None /\ call'[c].auto = None /\ call'[c].why = "none"
           /\ call'[c].recover = FALSE /\ call'[c].copy = NoCard /\ call'[c].job = NoRun /\ call'[c].row = NoCard
           /\ call'[c].res = "none" /\ call'[c].got = None /\ call'[c].clean = FALSE
  <1> DEFINE stale == {s \in Session : card.rec[s] = "running" /\ run[s].lane = card.col}
                        \cup ({card.trigger} \ {None})
             k == [Idle EXCEPT !.pc = "ending", !.todo = stale]
  <1>1. PICK c \in Calls : Free(c) /\ call' = [call EXCEPT ![c] = k]
    BY DEF UserBlocks
  <1>2. stale \subseteq Session
    BY DEF Types, TypeOK, Card
  <1> HIDE DEF stale
  <1>3. k \in CallType
    BY <1>2, CardTypes DEF CallType, Pcs, Awaiting
  <1>4. /\ k.pc = "ending" /\ k.todo = stale /\ k.ev = "none" /\ k.sid = None /\ k.auto = None /\ k.why = "none"
        /\ k.recover = FALSE /\ k.copy = NoCard /\ k.job = NoRun /\ k.row = NoCard /\ k.res = "none"
        /\ k.got = None /\ k.clean = FALSE
    BY DEF Idle
  <1>5. CallOK(k)
    <2> HIDE DEF k
    <2> QED BY <1>4 DEF CallOK, Handles, Enters, Receives
  <1>6. CallsOK' /\ Others(c) /\ call'[c] = k
    BY <1>1, <1>3, <1>5, CallUpdate DEF Types
  <1> HIDE DEF k
  <1> QED BY <1>1, <1>2, <1>4, <1>6 DEF Free, stale

\* The call of a lane that advances goes on as the transition it emits.
LEMMA LaneAdvancesCall == ASSUME Types, NEW c \in Calls, LaneAdvances(c)
  PROVE  Arrives(c, "done")
  BY ArriveCall DEF LaneAdvances, Lanes

\* The watchdog's timeout is an event of the session the lane follows.
LEMMA TimesOutCall == ASSUME Types, ScanTimesOut
  PROVE  auto[active].sid \in Session /\ \E c \in Calls : Taken(c, auto[active].sid, "timeout")
  <1>1. auto[active].sid \in Session
    BY AutoUnfold DEF ScanTimesOut, AutoType, Sid, Types, TypeOK
  <1> QED BY <1>1, EmitCall DEF ScanTimesOut, Events

-----------------------------------------------------------------------------
(* What the actions do to the automations *)

SameAutos(S) == \A a \in Visit \ S : auto'[a] = auto[a]
SameLane(a) == auto'[a].lane = auto[a].lane /\ auto'[a].fallback = auto[a].fallback

\* StartNext goes on to the next step.
LEMMA StartNextAuto == ASSUME Types, NEW c \in Calls, StartNext(c)
  PROVE  LET a == call[c].auto IN
         /\ a \in Visit /\ auto' \in [Visit -> AutoType] /\ SameAutos({a}) /\ SameLane(a)
         /\ auto[a].step < Steps[auto[a].lane]
         /\ auto'[a].step = auto[a].step + 1 /\ auto'[a].recoveries = 0
         /\ auto'[a].status = "queued" /\ auto'[a].sid = None
  <1> DEFINE a == call[c].auto
             x == auto[a].step + 1
             n == [auto[a] EXCEPT !.step = x, !.recoveries = 0, !.status = "queued", !.sid = None, !.signaled = {}]
  <1>1. a \in Visit /\ auto \in [Visit -> AutoType]
    BY AutoUnfold DEF Types, CallsOK, CallOK, StartNext, At, Handles
  <1>2. auto' = [auto EXCEPT ![a] = n]
    BY <1>1 DEF StartNext, AutoType
  <1>3. /\ n \in AutoType /\ n.lane = auto[a].lane /\ n.fallback = auto[a].fallback
        /\ n.step = x /\ n.recoveries = 0 /\ n.status = "queued" /\ n.sid = None
    <2>1. auto[a] \in AutoType
      BY <1>1
    <2>2. x \in Nat
      BY <2>1 DEF AutoType
    <2> HIDE DEF x
    <2> QED BY <2>1, <2>2 DEF AutoType, Sid
  <1>4. auto[a].step < Steps[auto[a].lane]
    BY DEF StartNext, CanFallback, HasNext, AutoOf
  <1> HIDE DEF n
  <1> QED BY <1>1, <1>2, <1>3, <1>4 DEF SameAutos, SameLane

\* Recover asks for the same step again.
LEMMA RecoverAuto == ASSUME Types, NEW c \in Calls, Recover(c)
  PROVE  LET a == call[c].auto IN
         /\ a \in Visit /\ auto' \in [Visit -> AutoType] /\ SameAutos({a}) /\ SameLane(a)
         /\ auto'[a].step = auto[a].step /\ auto'[a].recoveries = auto[a].recoveries + 1
         /\ auto'[a].status = "queued" /\ auto'[a].sid = None
  <1> DEFINE a == call[c].auto
             x == auto[a].recoveries + 1
             n == [auto[a] EXCEPT !.recoveries = x, !.status = "queued", !.sid = None,
                             !.signaled = auto[a].signaled \ {AutoOf(c).sid}]
  <1>1. a \in Visit /\ auto \in [Visit -> AutoType]
    BY AutoUnfold DEF Types, CallsOK, CallOK, Recover, At, Handles
  <1>2. auto' = [auto EXCEPT ![a] = n]
    BY <1>1 DEF Recover, AutoType
  <1>3. /\ n \in AutoType /\ n.lane = auto[a].lane /\ n.fallback = auto[a].fallback
        /\ n.step = auto[a].step /\ n.recoveries = x /\ n.status = "queued" /\ n.sid = None
    <2>1. auto[a] \in AutoType
      BY <1>1
    <2>2. x \in Nat
      BY <2>1 DEF AutoType
    <2> HIDE DEF x
    <2> QED BY <2>1, <2>2 DEF AutoType, Sid
  <1> HIDE DEF n
  <1> QED BY <1>1, <1>2, <1>3 DEF SameAutos, SameLane

\* A start that returned may bring the automation its session.
LEMMA WithSessionType == ASSUME Types, NEW c \in Calls, call[c].auto \in Visit
  PROVE  LET a == call[c].auto
             w == WithSession(c) IN
         /\ w \in [Visit -> AutoType] /\ \A b \in Visit \ {a} : w[b] = auto[b]
         /\ w[a].lane = auto[a].lane /\ w[a].fallback = auto[a].fallback
         /\ w[a].step = auto[a].step /\ w[a].recoveries = auto[a].recoveries
         /\ w[a].status = IF call[c].res = "session" THEN "running" ELSE auto[a].status
         /\ w[a].sid = IF call[c].res = "session" THEN call[c].got ELSE auto[a].sid
  <1> DEFINE a == call[c].auto
             n == [auto[a] EXCEPT !.status = "running", !.sid = call[c].got]
  <1>1. a \in Visit /\ auto \in [Visit -> AutoType] /\ call[c].got \in Sid
    BY AutoUnfold DEF Types, CallsOK, CallType
  <1>2. WithSession(c) = [auto EXCEPT ![a] = IF call[c].res = "session" THEN n ELSE auto[a]]
    BY <1>1 DEF WithSession
  <1>3. /\ n \in AutoType /\ n.lane = auto[a].lane /\ n.fallback = auto[a].fallback
        /\ n.step = auto[a].step /\ n.recoveries = auto[a].recoveries /\ n.status = "running" /\ n.sid = call[c].got
    <2>1. auto[a] \in AutoType
      BY <1>1
    <2> QED BY <1>1, <2>1 DEF AutoType
  <1> HIDE DEF n
  <1> QED BY <1>1, <1>2, <1>3

\* Continued: the session, and the end that is dealt with.
LEMMA ContinuedAuto == ASSUME Types, NEW c \in Calls, Continued(c)
  PROVE  LET a == call[c].auto IN
         /\ a \in Visit /\ auto' \in [Visit -> AutoType] /\ SameAutos({a}) /\ SameLane(a)
         /\ auto'[a].step = auto[a].step /\ auto'[a].recoveries = auto[a].recoveries
         /\ auto'[a].status = (IF call[c].res = "session" THEN "running" ELSE auto[a].status)
         /\ auto'[a].sid = (IF call[c].res = "session" THEN call[c].got ELSE auto[a].sid)
  <1> DEFINE a == call[c].auto
             w == WithSession(c)
             set == IF call[c].why = "recover" THEN w[a].signaled ELSE w[a].signaled \cup {call[c].sid}
             n == [w[a] EXCEPT !.signaled = set]
  <1>1. a \in Visit /\ call[c].sid \in Session
    BY DEF Types, CallsOK, CallOK, Continued, At, Handles, Starts
  <1>2. /\ w \in [Visit -> AutoType] /\ \A b \in Visit \ {a} : w[b] = auto[b]
        /\ w[a].lane = auto[a].lane /\ w[a].fallback = auto[a].fallback
        /\ w[a].step = auto[a].step /\ w[a].recoveries = auto[a].recoveries
        /\ w[a].status = IF call[c].res = "session" THEN "running" ELSE auto[a].status
    BY <1>1, WithSessionType
  <1>3. w[a].sid = IF call[c].res = "session" THEN call[c].got ELSE auto[a].sid
    BY <1>1, WithSessionType
  <1>4. auto' = [w EXCEPT ![a] = n]
    BY <1>1, <1>2 DEF Continued
  <1> HIDE DEF w
  <1>5. w[a] \in AutoType /\ set \subseteq Session
    BY <1>1, <1>2 DEF AutoType
  <1> HIDE DEF set
  <1>6. /\ n \in AutoType /\ n.lane = w[a].lane /\ n.fallback = w[a].fallback /\ n.step = w[a].step
        /\ n.recoveries = w[a].recoveries /\ n.status = w[a].status /\ n.sid = w[a].sid
    BY <1>5 DEF AutoType
  <1> HIDE DEF n
  <1> QED BY <1>1, <1>2, <1>3, <1>4, <1>6 DEF SameAutos, SameLane

\* NotContinued: the automation has failed.
LEMMA NotContinuedAuto == ASSUME Types, NEW c \in Calls, NotContinued(c)
  PROVE  LET a == call[c].auto IN
         /\ a \in Visit /\ auto' \in [Visit -> AutoType] /\ SameAutos({a}) /\ SameLane(a)
         /\ auto'[a].step = auto[a].step /\ auto'[a].recoveries = auto[a].recoveries
         /\ auto'[a].status = "failed" /\ auto'[a].sid = auto[a].sid
  <1> DEFINE a == call[c].auto
             n == [auto[a] EXCEPT !.status = "failed"]
  <1>1. a \in Visit /\ auto \in [Visit -> AutoType]
    BY AutoUnfold DEF Types, CallsOK, CallOK, NotContinued, At, Handles, Starts
  <1>2. auto' = [auto EXCEPT ![a] = n]
    BY <1>1 DEF NotContinued, AutoType
  <1>3. /\ n \in AutoType /\ n.lane = auto[a].lane /\ n.fallback = auto[a].fallback
        /\ n.step = auto[a].step /\ n.recoveries = auto[a].recoveries /\ n.status = "failed" /\ n.sid = auto[a].sid
    <2>1. auto[a] \in AutoType
      BY <1>1
    <2> QED BY <2>1 DEF AutoType
  <1> HIDE DEF n
  <1> QED BY <1>1, <1>2, <1>3 DEF SameAutos, SameLane

\* The lane is over.
LEMMA OverType == ASSUME Types, NEW c \in Calls, call[c].pc = "finish"
  PROVE  LET a == call[c].auto
             w == Over(c) IN
         /\ a \in Visit /\ w \in [Visit -> AutoType] /\ \A b \in Visit \ {a} : w[b] = auto[b]
         /\ w[a].lane = auto[a].lane /\ w[a].fallback = auto[a].fallback
         /\ w[a].step = auto[a].step /\ w[a].recoveries = auto[a].recoveries
         /\ w[a].status \in {"completed", "failed"} /\ w[a].sid = auto[a].sid
  <1> DEFINE a == call[c].auto
             status == IF Won(c) THEN "completed" ELSE "failed"
             n == [auto[a] EXCEPT !.status = status, !.signaled = @ \cup {call[c].sid}]
  <1>1. a \in Visit /\ call[c].sid \in Session /\ auto \in [Visit -> AutoType]
    BY AutoUnfold DEF Types, CallsOK, CallOK, Handles
  <1>2. status \in {"completed", "failed"}
    OBVIOUS
  <1>3. Over(c) = [auto EXCEPT ![a] = n]
    BY <1>1 DEF Over, AutoType
  <1> HIDE DEF status
  <1>4. /\ n \in AutoType /\ n.lane = auto[a].lane /\ n.fallback = auto[a].fallback
        /\ n.step = auto[a].step /\ n.recoveries = auto[a].recoveries /\ n.status = status /\ n.sid = auto[a].sid
    <2>1. auto[a] \in AutoType
      BY <1>1
    <2> QED BY <1>1, <1>2, <2>1 DEF AutoType
  <1> HIDE DEF n
  <1> QED BY <1>1, <1>2, <1>3, <1>4

\* Register makes the next automation and makes it the active one.
LEMMA RegisterAuto == ASSUME Types, NEW c \in Calls, Register(c)
  PROVE  /\ active' \in Visit /\ auto[active'].status = "none"
         /\ auto' \in [Visit -> AutoType] /\ SameAutos({active'})
         /\ auto'[active'].lane = call[c].job.lane /\ auto'[active'].fallback = card.fallback
         /\ auto'[active'].step = 1 /\ auto'[active'].recoveries = 0
         /\ auto'[active'].status = "queued" /\ auto'[active'].sid = None
         /\ call[c].job.lane \in Lanes
  <1> DEFINE n == [NoAuto EXCEPT !.lane = call[c].job.lane, !.step = 1, !.status = "queued", !.fallback = card.fallback]
  <1>1. card.fallback \in BOOLEAN /\ call[c].job.lane \in Lanes /\ auto \in [Visit -> AutoType]
    BY AutoUnfold DEF Types, TypeOK, Card, CallsOK, CallType, Jobs
  <1>2. PICK a \in Visit : auto[a].status = "none" /\ auto' = [auto EXCEPT ![a] = n] /\ active' = a
    BY DEF Register
  <1>3. /\ n \in AutoType /\ n.lane = call[c].job.lane /\ n.fallback = card.fallback
        /\ n.step = 1 /\ n.recoveries = 0 /\ n.status = "queued" /\ n.sid = None
    BY <1>1, CardTypes DEF AutoType, NoAuto
  <1> HIDE DEF n
  <1> QED BY <1>1, <1>2, <1>3 DEF SameAutos

-----------------------------------------------------------------------------
(* The types are kept *)

StoreOK == card \in Card /\ run \in [Session -> Jobs] /\ waiting \in Jobs /\ WaitingOK

AutosOK ==
  /\ auto \in [Visit -> AutoType] /\ active \in Visit \cup {None}
  /\ \A a \in Visit : auto[a].step \in 0..Steps[auto[a].lane]

SetsOK ==
  /\ proc \in [Session -> {"none", "working", "idle", "dead"}]
  /\ reported \subseteq Session /\ okay \subseteq Session /\ echo \subseteq Session /\ ended \subseteq Session
  /\ deferred \subseteq Session /\ departed \subseteq Session /\ teardown \subseteq Session
  /\ cardEnded \subseteq Session /\ pending \subseteq Session
  /\ unstarted \subseteq Visit /\ interrupted \in BOOLEAN
  /\ worktree \in BOOLEAN /\ cleaning \in BOOLEAN /\ events \in Nat

\* The first session to be ended is one of them.
LEMMA TodoMin == ASSUME NEW S \in SUBSET Session, S # {}
  PROVE  Min(S) \in S
  <1>1. S \in SUBSET Nat
    BY Bounds DEF Session
  <1>2. PICK x \in S : \A y \in S : ~ (<<y, x>> \in OpToRel(<, Nat))
    BY <1>1, WFMin, NatLessThanWellFounded, Zenon
  <1>3. ASSUME NEW y \in S PROVE x <= y
    <2>1. x \in Nat /\ y \in Nat /\ ~ (y < x)
      BY <1>1, <1>2, <1>3 DEF OpToRel
    <2> QED BY <2>1
  <1> QED BY <1>3 DEF Min

\* The calls keep their types.
LEMMA StepCalls == ASSUME Types, [Next]_vars PROVE CallsOK'
  <1> USE DEF cardVars, agentVars, tellVars, autoVars, tearVars, ghostVars, treeVars
  <1> USE DEF Types
  <1>1. ASSUME NEW c \in Calls, CallStep(c) PROVE CallsOK'
    <2>1. CASE EndDeferred(c)
      BY <2>1, EndDeferredCall
    <2>2. CASE Killed(c)
      BY <2>2, KilledCall
    <2>3. CASE StartPending(c)
      BY <2>3, StartPendingCall
    <2>4. CASE SettleEnded(c)
      BY <2>4, ReturnCall DEF SettleEnded
    <2>5. CASE WindDown(c)
      BY <2>5, ReturnCall DEF WindDown
    <2>6. CASE SettleUnfollowed(c)
      BY <2>6, ReturnCall DEF SettleUnfollowed
    <2>7. CASE SettleTeardown(c)
      BY <2>7, ReturnCall DEF SettleTeardown
    <2>8. CASE StepOver(c)
      BY <2>8, StepOverCall
    <2>9. CASE StartNext(c)
      BY <2>9, StartNextCall
    <2>10. CASE Recover(c)
      BY <2>10, RecoverCall
    <2>11. CASE NothingFollows(c)
      BY <2>11, NothingFollowsCall
    <2>12. CASE CreateTakesTrigger(c)
      BY <2>12, CreateTakesTriggerCall
    <2>13. CASE CreateQueues(c)
      BY <2>13, CreateQueuesCall
    <2>14. CASE CreateStarts(c)
      BY <2>14, CreateStartsCall
    <2>15. CASE Spawned(c)
      BY <2>15, SpawnedCall DEF Spawned, At
    <2>16. CASE SpawnFails(c)
      BY <2>16, SpawnFailsCall
    <2>17. CASE Entered(c)
      BY <2>17, ReturnCall DEF Entered
    <2>18. CASE Continued(c)
      BY <2>18, ReturnCall DEF Continued
    <2>19. CASE NotContinued(c)
      BY <2>19, NotContinuedCall
    <2>20. CASE LaneEnds(c)
      BY <2>20, ReturnCall DEF LaneEnds
    <2>21. CASE LaneAdvances(c)
      BY <2>21, ArriveCall DEF LaneAdvances, Arrives, Lanes
    <2>22. CASE LaneTearsDown(c)
      BY <2>22, LaneTearsDownCall
    <2>23. CASE EndOne(c)
      BY <2>23, EndOneCall
    <2>24. CASE AllEnded(c)
      BY <2>24, ReturnCall DEF AllEnded
    <2>25. CASE EnterLane(c)
      BY <2>25, EnterLaneCall
    <2>26. CASE Register(c)
      BY <2>26, RegisterCall
    <2> QED BY <1>1, <2>1, <2>2, <2>3, <2>4, <2>5, <2>6, <2>7, <2>8, <2>9, <2>10, <2>11, <2>12, <2>13, <2>14,
               <2>15, <2>16, <2>17, <2>18, <2>19, <2>20, <2>21, <2>22, <2>23, <2>24, <2>25, <2>26 DEF CallStep
  <1>2. ASSUME NEW s \in Session, Report(s) \/ TurnEnds(s) \/ TurnFails(s) \/ PromptBroke(s) \/ Exits(s)
        PROVE  CallsOK'
    <2>1. CASE Report(s)
      BY <2>1, EmitCall DEF Report, Taken, Events
    <2>2. CASE TurnEnds(s)
      BY <2>2, EmitCall DEF TurnEnds, Taken, Events
    <2>3. CASE TurnFails(s)
      BY <2>3, EmitCall DEF TurnFails, Taken, Events
    <2>4. CASE PromptBroke(s)
      BY <2>4, EmitCall DEF PromptBroke, Taken, Events
    <2>5. CASE Exits(s)
      BY <2>5, EmitCall DEF Exits, Taken, Events
    <2> QED BY <1>2, <2>1, <2>2, <2>3, <2>4, <2>5
  <1>3. CASE QueueStarts
    <2>1. CASE Startable(waiting)
      BY <1>3, <2>1, QueueStartsCall DEF QueueStarts, WaitingOK
    <2>2. CASE ~ Startable(waiting)
      BY <1>3, <2>2 DEF QueueStarts, CallsOK
    <2> QED BY <2>1, <2>2
  <1>4. CASE RemoveWorktree
    BY <1>4 DEF RemoveWorktree, CallsOK
  <1>5. CASE KeepWorktree
    BY <1>5 DEF KeepWorktree, CallsOK
  <1>6. CASE ScanAdopts
    BY <1>6 DEF ScanAdopts, CallsOK
  <1>7. CASE ScanTimesOut
    <2>1. auto[active].sid \in Session
      BY <1>7, AutoUnfold DEF ScanTimesOut, AutoType, Sid, TypeOK
    <2> QED BY <1>7, <2>1, EmitCall DEF ScanTimesOut, Taken, Events
  <1>8. ASSUME NEW to \in Columns, MoveCard(to) PROVE CallsOK'
    <2>1. CASE to \in Lanes
      BY <1>8, <2>1, ArriveCall DEF MoveCard, Arrives
    <2>2. CASE to \notin Lanes
      BY <1>8, <2>2 DEF MoveCard, CallsOK
    <2> QED BY <2>1, <2>2
  <1>9. CASE UserBlocks
    BY <1>9, UserBlocksCall
  <1>10. CASE UNCHANGED vars
    BY <1>10 DEF vars, CallsOK
  <1> QED BY <1>1, <1>2, <1>3, <1>4, <1>5, <1>6, <1>7, <1>8, <1>9, <1>10 DEF Next

\* The card, the runs and the queue entry keep their types.
LEMMA StepStore == ASSUME Types, [Next]_vars PROVE StoreOK'
  <1> USE DEF cardVars, agentVars, tellVars, autoVars, tearVars, ghostVars, treeVars, WaitingOK
  <1> USE DEF Types
  <1> StoreOK
    BY DEF TypeOK, StoreOK
  <1>1. ASSUME NEW c \in Calls, CallStep(c) PROVE StoreOK'
    <2>1. CASE EndDeferred(c)
      BY <2>1 DEF EndDeferred, StoreOK
    <2>2. CASE Killed(c)
      BY <2>2 DEF Killed, StoreOK
    <2>3. CASE StartPending(c)
      BY <2>3 DEF StartPending, StoreOK
    <2>4. CASE SettleEnded(c)
      <3>1. call[c].sid \in Session
        BY <2>4 DEF SettleEnded, Routing, At, CallsOK, CallOK, Receives
      <3> QED BY <2>4, <3>1, SettledType DEF SettleEnded, StoreOK
    <2>5. CASE WindDown(c)
      <3>1. call[c].sid \in Session
        BY <2>5 DEF WindDown, Routing, At, CallsOK, CallOK, Receives
      <3>2. "completed" \in Status \ {"none"}
        BY DEF Status
      <3> QED BY <2>5, <3>1, <3>2, CloseType DEF WindDown, StoreOK
    <2>6. CASE SettleUnfollowed(c)
      <3>1. call[c].sid \in Session
        BY <2>6 DEF SettleUnfollowed, Own, Routing, At, CallsOK, CallOK, Receives
      <3> QED BY <2>6, <3>1, SettledType DEF SettleUnfollowed, StoreOK
    <2>7. CASE SettleTeardown(c)
      <3>1. call[c].sid \in Session
        BY <2>7 DEF SettleTeardown, Own, Routing, At, CallsOK, CallOK, Receives
      <3> QED BY <2>7, <3>1, SettledType DEF SettleTeardown, StoreOK
    <2>8. CASE StepOver(c)
      BY <2>8 DEF StepOver, StoreOK
    <2>9. CASE StartNext(c)
      <3>1. Handles(call[c])
        BY <2>9 DEF StartNext, At, Handles
      <3> QED BY <2>9, <3>1, ClearedType, SavedType DEF StartNext, Restart, StoreOK, NoRun, Jobs, Lanes
    <2>10. CASE Recover(c)
      <3>1. Handles(call[c])
        BY <2>10 DEF Recover, At, Handles
      <3> QED BY <2>10, <3>1, ClearedType, SavedType DEF Recover, Restart, StoreOK, NoRun, Jobs, Lanes
    <2>11. CASE NothingFollows(c)
      BY <2>11 DEF NothingFollows, StoreOK
    <2>12. CASE CreateTakesTrigger(c)
      BY <2>12 DEF CreateTakesTrigger, StoreOK
    <2>13. CASE CreateQueues(c)
      <3>1. call[c].job \in Jobs /\ call[c].job.auto \in Visit
        BY <2>13 DEF CreateQueues, At, CallsOK, CallOK, CallType
      <3> QED BY <2>13, <3>1 DEF CreateQueues, StoreOK
    <2>14. CASE CreateStarts(c)
      BY <2>14, CardTypes DEF CreateStarts, StoreOK
    <2>15. CASE Spawned(c)
      <3>1. call[c].job \in Jobs /\ call[c].row \in Card
        BY DEF CallsOK, CallType
      <3>2. PICK s \in Session : run' = [run EXCEPT ![s] = call[c].job] /\ card' = Saved(WithRun(call[c].row, s))
        BY <2>15 DEF Spawned
      <3>3. card' \in Card
        BY <3>1, <3>2, WithRunType, SavedType DEF StoreOK
      <3> QED BY <2>15, <3>1, <3>2, <3>3 DEF Spawned, StoreOK
    <2>16. CASE SpawnFails(c)
      <3>1. call[c].row \in Card
        BY DEF CallsOK, CallType
      <3> QED BY <2>16, <3>1, SavedType DEF SpawnFails, StoreOK
    <2>17. CASE Entered(c)
      BY <2>17 DEF Entered, StoreOK
    <2>18. CASE Continued(c)
      BY <2>18 DEF Continued, StoreOK
    <2>19. CASE NotContinued(c)
      BY <2>19 DEF NotContinued, StoreOK
    <2>20. CASE LaneEnds(c)
      <3>1. call[c].copy \in Card
        BY DEF CallsOK, CallType
      <3> QED BY <2>20, <3>1, SavedType DEF LaneEnds, StoreOK
    <2>21. CASE LaneAdvances(c)
      <3>1. call[c].copy \in Card
        BY DEF CallsOK, CallType
      <3>2. Saved(call[c].copy) \in Card
        BY <3>1, SavedType DEF StoreOK
      <3>3. card' \in Card
        BY <2>21, <3>2 DEF LaneAdvances, Card, Columns, Lanes, None
      <3> QED BY <2>21, <3>3, CardTypes DEF LaneAdvances, StoreOK
    <2>22. CASE LaneTearsDown(c)
      <3>1. call[c].copy \in Card
        BY DEF CallsOK, CallType
      <3> QED BY <2>22, <3>1, SavedType DEF LaneTearsDown, StoreOK
    <2>23. CASE EndOne(c)
      BY <2>23 DEF EndOne, StoreOK
    <2>24. CASE AllEnded(c)
      BY <2>24 DEF AllEnded, StoreOK
    <2>25. CASE EnterLane(c)
      BY <2>25 DEF EnterLane, StoreOK
    <2>26. CASE Register(c)
      BY <2>26 DEF Register, StoreOK
    <2> QED BY <1>1, <2>1, <2>2, <2>3, <2>4, <2>5, <2>6, <2>7, <2>8, <2>9, <2>10, <2>11, <2>12, <2>13, <2>14,
               <2>15, <2>16, <2>17, <2>18, <2>19, <2>20, <2>21, <2>22, <2>23, <2>24, <2>25, <2>26 DEF CallStep
  <1>2. ASSUME NEW s \in Session, Report(s) \/ TurnEnds(s) \/ TurnFails(s) \/ PromptBroke(s) \/ Exits(s)
        PROVE  StoreOK'
    <2>1. CASE Report(s)
      BY <2>1 DEF Report, StoreOK
    <2>2. CASE TurnEnds(s)
      BY <2>2 DEF TurnEnds, StoreOK
    <2>3. CASE TurnFails(s)
      BY <2>3 DEF TurnFails, StoreOK
    <2>4. CASE PromptBroke(s)
      BY <2>4 DEF PromptBroke, StoreOK
    <2>5. CASE Exits(s)
      BY <2>5 DEF Exits, StoreOK
    <2> QED BY <1>2, <2>1, <2>2, <2>3, <2>4, <2>5
  <1>3. CASE QueueStarts
    BY <1>3, CardTypes DEF QueueStarts, StoreOK
  <1>4. CASE RemoveWorktree
    BY <1>4 DEF RemoveWorktree, StoreOK
  <1>5. CASE KeepWorktree
    BY <1>5 DEF KeepWorktree, StoreOK
  <1>6. CASE ScanAdopts
    BY <1>6 DEF ScanAdopts, StoreOK
  <1>7. CASE ScanTimesOut
    BY <1>7 DEF ScanTimesOut, StoreOK
  <1>8. ASSUME NEW to \in Columns, MoveCard(to) PROVE StoreOK'
    <2> DEFINE rec == [s \in Session |-> IF s = card.trigger THEN "completed" ELSE card.rec[s]]
    <2>1. rec \in [Session -> Status]
      BY DEF StoreOK, Card, Status
    <2>2. card' = [card EXCEPT !.col = to, !.trigger = None, !.rec = rec]
      BY <1>8 DEF MoveCard, StoreOK, Card
    <2> HIDE DEF rec
    <2>3. card' \in Card
      BY <2>1, <2>2 DEF StoreOK, Card
    <2> QED BY <1>8, <2>3 DEF MoveCard, StoreOK
  <1>9. CASE UserBlocks
    <2> DEFINE stale == {s \in Session : card.rec[s] = "running" /\ run[s].lane = card.col} \cup ({card.trigger} \ {None})
               rec == [s \in Session |-> IF s \in stale THEN "completed" ELSE card.rec[s]]
    <2>1. rec \in [Session -> Status]
      BY DEF StoreOK, Card, Status
    <2>2. card' = [card EXCEPT !.col = "blocked", !.trigger = None, !.rec = rec]
      BY <1>9 DEF UserBlocks
    <2> HIDE DEF rec
    <2>3. card' \in Card
      BY <2>1, <2>2 DEF StoreOK, Card, Columns
    <2> QED BY <1>9, <2>3, CardTypes DEF UserBlocks, StoreOK
  <1>10. CASE UNCHANGED vars
    BY <1>10 DEF vars, StoreOK
  <1> QED BY <1>1, <1>2, <1>3, <1>4, <1>5, <1>6, <1>7, <1>8, <1>9, <1>10 DEF Next

\* The automations keep their types.
LEMMA StepAutos == ASSUME Types, [Next]_vars PROVE AutosOK'
  <1> USE DEF cardVars, agentVars, tellVars, autoVars, tearVars, ghostVars, treeVars
  <1> USE DEF Types
  <1> AutosOK
    BY AutoUnfold DEF TypeOK, AutosOK
  <1>1. ASSUME NEW c \in Calls, CallStep(c) PROVE AutosOK'
    <2>1. CASE EndDeferred(c)
      BY <2>1 DEF EndDeferred, AutosOK
    <2>2. CASE Killed(c)
      BY <2>2 DEF Killed, AutosOK
    <2>3. CASE StartPending(c)
      BY <2>3 DEF StartPending, AutosOK
    <2>4. CASE SettleEnded(c)
      BY <2>4 DEF SettleEnded, AutosOK
    <2>5. CASE WindDown(c)
      BY <2>5 DEF WindDown, AutosOK
    <2>6. CASE SettleUnfollowed(c)
      BY <2>6, AdoptedType DEF SettleUnfollowed, AutosOK
    <2>7. CASE SettleTeardown(c)
      <3>1. active \in Visit /\ call[c].sid \in Session
        BY <2>7 DEF SettleTeardown, Own, Routing, At, CallsOK, CallOK, Receives, Followed, Live, AutosOK
      <3> QED BY <2>7, <3>1 DEF SettleTeardown, AutosOK, AutoType
    <2>8. CASE StepOver(c)
      BY <2>8, AdoptedType DEF StepOver, AutosOK
    <2>9. CASE StartNext(c)
      <3>1. active' \in Visit \cup {None}
        BY <2>9, StartNextAuto DEF StartNext, AutosOK
      <3> QED BY <2>9, <3>1, StartNextAuto, StepsAssumption DEF AutosOK, SameAutos, SameLane, AutoType
    <2>10. CASE Recover(c)
      <3>1. active' \in Visit \cup {None}
        BY <2>10, RecoverAuto DEF Recover, AutosOK
      <3> QED BY <2>10, <3>1, RecoverAuto, StepsAssumption DEF AutosOK, SameAutos, SameLane, AutoType
    <2>11. CASE NothingFollows(c)
      BY <2>11 DEF NothingFollows, AutosOK
    <2>12. CASE CreateTakesTrigger(c)
      BY <2>12 DEF CreateTakesTrigger, AutosOK
    <2>13. CASE CreateQueues(c)
      BY <2>13 DEF CreateQueues, AutosOK
    <2>14. CASE CreateStarts(c)
      BY <2>14 DEF CreateStarts, AutosOK
    <2>15. CASE Spawned(c)
      BY <2>15 DEF Spawned, AutosOK
    <2>16. CASE SpawnFails(c)
      BY <2>16 DEF SpawnFails, AutosOK
    <2>17. CASE Entered(c)
      <3>1. call[c].auto \in Visit
        BY <2>17 DEF Entered, At, CallsOK, CallOK, Enters
      <3> QED BY <2>17, <3>1, WithSessionType DEF Entered, AutosOK
    <2>18. CASE Continued(c)
      <3>1. active' \in Visit \cup {None}
        BY <2>18, ContinuedAuto DEF Continued, AutosOK
      <3> QED BY <2>18, <3>1, ContinuedAuto, StepsAssumption DEF AutosOK, SameAutos, SameLane, AutoType
    <2>19. CASE NotContinued(c)
      <3>1. active' \in Visit \cup {None}
        BY <2>19, NotContinuedAuto DEF NotContinued, AutosOK
      <3> QED BY <2>19, <3>1, NotContinuedAuto, StepsAssumption DEF AutosOK, SameAutos, SameLane, AutoType
    <2>20. CASE LaneEnds(c)
      BY <2>20, OverType DEF LaneEnds, At, AutosOK
    <2>21. CASE LaneAdvances(c)
      BY <2>21, OverType DEF LaneAdvances, At, LeaveLane, AutosOK
    <2>22. CASE LaneTearsDown(c)
      BY <2>22, OverType DEF LaneTearsDown, At, AutosOK
    <2>23. CASE EndOne(c)
      BY <2>23 DEF EndOne, AutosOK
    <2>24. CASE AllEnded(c)
      BY <2>24 DEF AllEnded, AutosOK
    <2>25. CASE EnterLane(c)
      BY <2>25 DEF EnterLane, AutosOK
    <2>26. CASE Register(c)
      <3>1. active' \in Visit \cup {None}
        BY <2>26, RegisterAuto DEF Register, AutosOK
      <3> QED BY <2>26, <3>1, RegisterAuto, StepsAssumption DEF AutosOK, SameAutos, AutoType
    <2> QED BY <1>1, <2>1, <2>2, <2>3, <2>4, <2>5, <2>6, <2>7, <2>8, <2>9, <2>10, <2>11, <2>12, <2>13, <2>14,
               <2>15, <2>16, <2>17, <2>18, <2>19, <2>20, <2>21, <2>22, <2>23, <2>24, <2>25, <2>26 DEF CallStep
  <1>2. ASSUME NEW s \in Session, Report(s) \/ TurnEnds(s) \/ TurnFails(s) \/ PromptBroke(s) \/ Exits(s)
        PROVE  AutosOK'
    <2>1. CASE Report(s)
      BY <2>1 DEF Report, AutosOK
    <2>2. CASE TurnEnds(s)
      BY <2>2 DEF TurnEnds, AutosOK
    <2>3. CASE TurnFails(s)
      BY <2>3 DEF TurnFails, AutosOK
    <2>4. CASE PromptBroke(s)
      BY <2>4 DEF PromptBroke, AutosOK
    <2>5. CASE Exits(s)
      BY <2>5 DEF Exits, AutosOK
    <2> QED BY <1>2, <2>1, <2>2, <2>3, <2>4, <2>5
  <1>3. CASE QueueStarts
    BY <1>3 DEF QueueStarts, AutosOK
  <1>4. CASE RemoveWorktree
    BY <1>4 DEF RemoveWorktree, AutosOK
  <1>5. CASE KeepWorktree
    BY <1>5 DEF KeepWorktree, AutosOK
  <1>6. CASE ScanAdopts
    BY <1>6, AdoptedType DEF ScanAdopts, AutosOK
  <1>7. CASE ScanTimesOut
    BY <1>7 DEF ScanTimesOut, AutosOK, AutoType, Sid
  <1>8. ASSUME NEW to \in Columns, MoveCard(to) PROVE AutosOK'
    BY <1>8 DEF MoveCard, LeaveLane, AutosOK
  <1>9. CASE UserBlocks
    BY <1>9 DEF UserBlocks, AutosOK
  <1>10. CASE UNCHANGED vars
    BY <1>10 DEF vars, AutosOK
  <1> QED BY <1>1, <1>2, <1>3, <1>4, <1>5, <1>6, <1>7, <1>8, <1>9, <1>10 DEF Next

\* The sets of sessions, the worktree's flags and the counters keep their types.
LEMMA StepSets == ASSUME Types, [Next]_vars PROVE SetsOK'
  <1> USE DEF cardVars, agentVars, tellVars, autoVars, tearVars, ghostVars, treeVars
  <1> USE DEF Types
  <1> SetsOK
    BY DEF TypeOK, SetsOK
  <1>1. ASSUME NEW c \in Calls, CallStep(c) PROVE SetsOK'
    <2>1. CASE EndDeferred(c)
      <3>1. call[c].sid \in Session
        BY <2>1 DEF EndDeferred, At, CallsOK, CallOK, Receives, Handles, Starts
      <3> QED BY <2>1, <3>1 DEF EndDeferred, Kill, SetsOK
    <2>2. CASE Killed(c)
      BY <2>2 DEF Killed, SetsOK
    <2>3. CASE StartPending(c)
      BY <2>3 DEF StartPending, LaunchCleanup, SetsOK
    <2>4. CASE SettleEnded(c)
      BY <2>4 DEF SettleEnded, SetsOK
    <2>5. CASE WindDown(c)
      <3>1. call[c].sid \in Session
        BY <2>5 DEF WindDown, At, Routing, CallsOK, CallOK, Receives, Handles, Starts
      <3> QED BY <2>5, <3>1 DEF WindDown, Kill, EndFinished, SetsOK
    <2>6. CASE SettleUnfollowed(c)
      BY <2>6 DEF SettleUnfollowed, SetsOK
    <2>7. CASE SettleTeardown(c)
      BY <2>7 DEF SettleTeardown, SetsOK
    <2>8. CASE StepOver(c)
      <3>1. call[c].sid \in Session
        BY <2>8 DEF StepOver, At, Own, Routing, CallsOK, CallOK, Receives, Handles, Starts
      <3> QED BY <2>8, <3>1 DEF StepOver, Kill, SetsOK
    <2>9. CASE StartNext(c)
      BY <2>9 DEF StartNext, SetsOK
    <2>10. CASE Recover(c)
      BY <2>10 DEF Recover, SetsOK
    <2>11. CASE NothingFollows(c)
      BY <2>11 DEF NothingFollows, SetsOK
    <2>12. CASE CreateTakesTrigger(c)
      BY <2>12 DEF CreateTakesTrigger, SetsOK
    <2>13. CASE CreateQueues(c)
      BY <2>13 DEF CreateQueues, SetsOK
    <2>14. CASE CreateStarts(c)
      BY <2>14 DEF CreateStarts, SetsOK
    <2>15. CASE Spawned(c)
      BY <2>15 DEF Spawned, SetsOK
    <2>16. CASE SpawnFails(c)
      <3>1. call[c].job.auto \in Visit
        BY <2>16 DEF SpawnFails, At, CallsOK, CallOK
      <3> QED BY <2>16, <3>1 DEF SpawnFails, Happens, SetsOK
    <2>17. CASE Entered(c)
      BY <2>17 DEF Entered, SetsOK
    <2>18. CASE Continued(c)
      <3>1. call[c].sid \in Session
        BY <2>18 DEF Continued, At, CallsOK, CallOK, Receives, Handles, Starts
      <3> QED BY <2>18, <3>1 DEF Continued, Kill, EndFinished, SetsOK
    <2>19. CASE NotContinued(c)
      BY <2>19 DEF NotContinued, SetsOK
    <2>20. CASE LaneEnds(c)
      <3>1. call[c].sid \in Session
        BY <2>20 DEF LaneEnds, At, CallsOK, CallOK, Receives, Handles, Starts
      <3> QED BY <2>20, <3>1 DEF LaneEnds, Kill, EndFinished, SetsOK
    <2>21. CASE LaneAdvances(c)
      <3>1. call[c].sid \in Session
        BY <2>21 DEF LaneAdvances, At, CallsOK, CallOK, Receives, Handles, Starts
      <3>2. Over(c) \in [Visit -> AutoType]
        <4>1. call[c].auto \in Visit
          BY <2>21 DEF LaneAdvances, At, CallsOK, CallOK, Handles
        <4> QED BY <3>1, <4>1, AutoUnfold DEF Over, AutoType
      <3>3. departed' \subseteq Session
        BY <2>21, <3>2 DEF LaneAdvances, LeaveLane, SetsOK, AutoType, Sid, TypeOK
      <3> QED BY <2>21, <3>1, <3>3 DEF LaneAdvances, Kill, EndFinished, SetsOK
    <2>22. CASE LaneTearsDown(c)
      <3>1. SessionsOf(call[c].copy) \subseteq Session
        BY DEF SessionsOf, CallsOK, CallType, Card
      <3> QED BY <2>22, <3>1 DEF LaneTearsDown, SetsOK
    <2>23. CASE EndOne(c)
      <3>1. Min(call[c].todo) \in Session
        BY <2>23, TodoMin DEF EndOne, CallsOK, CallType
      <3> QED BY <2>23, <3>1 DEF EndOne, Kill, SetsOK
    <2>24. CASE AllEnded(c)
      <3>1. call[c].sid \in Sid
        BY DEF CallsOK, CallType
      <3>2. /\ proc' \in [Session -> {"none", "working", "idle", "dead"}]
            /\ ended' \subseteq Session /\ echo' \subseteq Session /\ deferred' \subseteq Session
        BY <2>24, <3>1 DEF AllEnded, Kill, EndFinished, SetsOK, Sid
      <3>3. pending' \subseteq Session /\ cleaning' \in BOOLEAN
        <4>1. CASE call[c].clean
          <5>1. call[c].sid \in Session
            BY <2>24, <4>1 DEF AllEnded, At, CallsOK, CallOK
          <5>2. CASE call[c].ev = "report"
            BY <2>24, <4>1, <5>1, <5>2 DEF AllEnded, CleanUp, SetsOK
          <5>3. CASE call[c].ev # "report"
            BY <2>24, <4>1, <5>3 DEF AllEnded, CleanUp, LaunchCleanup, SetsOK
          <5> QED BY <5>2, <5>3
        <4>2. CASE ~ call[c].clean
          BY <2>24, <4>2 DEF AllEnded, CleanUp, SetsOK
        <4> QED BY <4>1, <4>2
      <3> QED BY <2>24, <3>2, <3>3 DEF AllEnded, SetsOK
    <2>25. CASE EnterLane(c)
      BY <2>25 DEF EnterLane, SetsOK
    <2>26. CASE Register(c)
      BY <2>26 DEF Register, SetsOK
    <2> QED BY <1>1, <2>1, <2>2, <2>3, <2>4, <2>5, <2>6, <2>7, <2>8, <2>9, <2>10, <2>11, <2>12, <2>13, <2>14,
               <2>15, <2>16, <2>17, <2>18, <2>19, <2>20, <2>21, <2>22, <2>23, <2>24, <2>25, <2>26 DEF CallStep
  <1>2. ASSUME NEW s \in Session, Report(s) \/ TurnEnds(s) \/ TurnFails(s) \/ PromptBroke(s) \/ Exits(s)
        PROVE  SetsOK'
    <2>1. CASE Report(s)
      BY <2>1 DEF Report, SetsOK
    <2>2. CASE TurnEnds(s)
      BY <2>2 DEF TurnEnds, SetsOK
    <2>3. CASE TurnFails(s)
      BY <2>3 DEF TurnFails, Happens, SetsOK
    <2>4. CASE PromptBroke(s)
      BY <2>4 DEF PromptBroke, SetsOK
    <2>5. CASE Exits(s)
      BY <2>5 DEF Exits, Happens, SetsOK
    <2> QED BY <1>2, <2>1, <2>2, <2>3, <2>4, <2>5
  <1>3. CASE QueueStarts
    BY <1>3 DEF QueueStarts, SetsOK
  <1>4. CASE RemoveWorktree
    BY <1>4 DEF RemoveWorktree, SetsOK
  <1>5. CASE KeepWorktree
    BY <1>5 DEF KeepWorktree, SetsOK
  <1>6. CASE ScanAdopts
    BY <1>6 DEF ScanAdopts, SetsOK
  <1>7. CASE ScanTimesOut
    BY <1>7 DEF ScanTimesOut, SetsOK
  <1>8. ASSUME NEW to \in Columns, MoveCard(to) PROVE SetsOK'
    <2>1. departed' \subseteq Session
      BY <1>8, AutoUnfold DEF MoveCard, LeaveLane, SetsOK, AutoType, Sid, TypeOK
    <2> QED BY <1>8, <2>1 DEF MoveCard, Move, Happens, SetsOK
  <1>9. CASE UserBlocks
    <2> DEFINE stale == {s \in Session : card.rec[s] = "running" /\ run[s].lane = card.col} \cup ({card.trigger} \ {None})
               left == IF active # None /\ auto[active].lane = card.col /\ auto[active].status = "running"
                       THEN {auto[active].sid} \ {None} ELSE {}
    <2>1. stale \subseteq Session /\ left \subseteq Session
      BY AutoUnfold DEF TypeOK, Card, AutoType, Sid
    <2>2. /\ departed' = (departed \cup left) \ stale /\ teardown' = teardown \cup stale
          /\ cardEnded' = cardEnded \cup stale /\ deferred' = deferred \ stale
      BY <1>9 DEF UserBlocks
    <2> HIDE DEF stale, left
    <2> QED BY <1>9, <2>1, <2>2 DEF UserBlocks, Move, Happens, SetsOK
  <1>10. CASE UNCHANGED vars
    BY <1>10 DEF vars, SetsOK
  <1> QED BY <1>1, <1>2, <1>3, <1>4, <1>5, <1>6, <1>7, <1>8, <1>9, <1>10 DEF Next

\* The parts make up the types.
LEMMA StepTypes == ASSUME Types, [Next]_vars PROVE Types'
  <1>1. CallsOK' /\ StoreOK' /\ AutosOK' /\ SetsOK'
    BY StepCalls, StepStore, StepAutos, StepSets
  <1> QED BY <1>1 DEF Types, TypeOK, StoreOK, AutosOK, SetsOK, AutoType, Sid

\* At first everything has its type.
LEMMA InitTypes == Init => Types
  <1> SUFFICES ASSUME Init PROVE Types
    OBVIOUS
  <1>1. card \in Card
    BY CardTypes, FlagsAssumption DEF Init, NoCard, Card
  <1>2. /\ auto \in [Visit -> AutoType] /\ active \in Visit \cup {None}
        /\ \A a \in Visit : auto[a].step \in 0..Steps[auto[a].lane]
    <2>1. NoAuto.step = 0 /\ NoAuto.lane \in Lanes
      BY DEF NoAuto, Lanes
    <2> QED BY <2>1, CardTypes, StepsAssumption DEF Init
  <1>3. run \in [Session -> Jobs] /\ waiting \in Jobs /\ proc \in [Session -> {"none", "working", "idle", "dead"}]
    BY CardTypes DEF Init
  <1>4. TypeOK
    BY <1>1, <1>2, <1>3 DEF Init, TypeOK, AutoType, Sid
  <1> QED BY <1>4, CardTypes DEF Init, Types, CallsOK, WaitingOK

(* Every variable keeps its type, an automation never counts past its lane's  *)
(* last step: for all lanes, budgets, moves and bounds.                       *)
THEOREM Typing == Spec => []TypeOK
  <1>1. Types /\ [Next]_vars => Types'
    BY StepTypes
  <1>2. Types => TypeOK
    BY DEF Types
  <1> QED BY <1>1, <1>2, InitTypes, PTL DEF Spec

-----------------------------------------------------------------------------
(* One call at a time is between two waits *)

OneMoves == UNCHANGED call \/ \E c \in Calls : Loop(c) /\ Others(c)

Single == \A c, d \in Calls : call[c].pc \notin Awaiting /\ call[d].pc \notin Awaiting => c = d

\* A step moves one call, while all others wait.
LEMMA StepMoves == ASSUME Types, [Next]_vars PROVE OneMoves
  <1>1. ASSUME NEW c \in Calls, CallStep(c) PROVE OneMoves
    <2>1. CASE EndDeferred(c)
      BY <2>1, EndDeferredCall DEF EndDeferred, At, Loop, OneMoves
    <2>2. CASE Killed(c)
      BY <2>2, KilledCall DEF Killed, Loop, OneMoves
    <2>3. CASE StartPending(c)
      BY <2>3, StartPendingCall DEF StartPending, At, Loop, OneMoves
    <2>4. CASE SettleEnded(c)
      BY <2>4, ReturnCall, IdleFields DEF SettleEnded, At, Routing, Loop, OneMoves
    <2>5. CASE WindDown(c)
      BY <2>5, ReturnCall, IdleFields DEF WindDown, At, Routing, Loop, OneMoves
    <2>6. CASE SettleUnfollowed(c)
      BY <2>6, ReturnCall, IdleFields DEF SettleUnfollowed, At, Routing, Own, Loop, OneMoves
    <2>7. CASE SettleTeardown(c)
      BY <2>7, ReturnCall, IdleFields DEF SettleTeardown, At, Routing, Own, Loop, OneMoves
    <2>8. CASE StepOver(c)
      BY <2>8, StepOverCall DEF StepOver, At, Routing, Own, Loop, OneMoves
    <2>9. CASE StartNext(c)
      BY <2>9, StartNextCall DEF StartNext, At, Loop, OneMoves
    <2>10. CASE Recover(c)
      BY <2>10, RecoverCall DEF Recover, At, Loop, OneMoves
    <2>11. CASE NothingFollows(c)
      BY <2>11, NothingFollowsCall DEF NothingFollows, At, Loop, OneMoves
    <2>12. CASE CreateTakesTrigger(c)
      BY <2>12, CreateTakesTriggerCall DEF CreateTakesTrigger, At, Loop, OneMoves
    <2>13. CASE CreateQueues(c)
      BY <2>13, CreateQueuesCall DEF CreateQueues, At, Loop, OneMoves
    <2>14. CASE CreateStarts(c)
      BY <2>14, CreateStartsCall DEF CreateStarts, At, Loop, OneMoves
    <2>15. CASE Spawned(c)
      BY <2>15, SpawnedCall, IdleFields DEF Spawned, At, Loop, OneMoves
    <2>16. CASE SpawnFails(c)
      BY <2>16, SpawnFailsCall, IdleFields DEF SpawnFails, At, Loop, OneMoves
    <2>17. CASE Entered(c)
      BY <2>17, ReturnCall, IdleFields DEF Entered, At, Loop, OneMoves
    <2>18. CASE Continued(c)
      BY <2>18, ReturnCall, IdleFields DEF Continued, At, Loop, OneMoves
    <2>19. CASE NotContinued(c)
      BY <2>19, NotContinuedCall DEF NotContinued, At, Loop, OneMoves
    <2>20. CASE LaneEnds(c)
      BY <2>20, ReturnCall, IdleFields DEF LaneEnds, At, Loop, OneMoves
    <2>21. CASE LaneAdvances(c)
      BY <2>21, LaneAdvancesCall DEF LaneAdvances, At, Loop, OneMoves, Arrives
    <2>22. CASE LaneTearsDown(c)
      BY <2>22, LaneTearsDownCall DEF LaneTearsDown, At, Loop, OneMoves
    <2>23. CASE EndOne(c)
      BY <2>23, EndOneCall DEF EndOne, At, Loop, OneMoves
    <2>24. CASE AllEnded(c)
      BY <2>24, ReturnCall, IdleFields DEF AllEnded, At, Loop, OneMoves
    <2>25. CASE EnterLane(c)
      BY <2>25, EnterLaneCall, IdleFields DEF EnterLane, At, Loop, OneMoves
    <2>26. CASE Register(c)
      BY <2>26, RegisterCall DEF Register, At, Loop, OneMoves
    <2> QED BY <1>1, <2>1, <2>2, <2>3, <2>4, <2>5, <2>6, <2>7, <2>8, <2>9, <2>10, <2>11, <2>12, <2>13, <2>14,
               <2>15, <2>16, <2>17, <2>18, <2>19, <2>20, <2>21, <2>22, <2>23, <2>24, <2>25, <2>26 DEF CallStep
  <1>2. ASSUME NEW s \in Session, Report(s) \/ TurnEnds(s) \/ TurnFails(s) \/ PromptBroke(s) \/ Exits(s)
        PROVE  OneMoves
    <2>1. CASE Report(s)
      <3>1. PICK d \in Calls : Taken(d, s, "report")
        BY <2>1, EmitCall DEF Report, Events
      <3> QED BY <3>1 DEF Taken, Quiet, Loop, OneMoves
    <2>2. CASE TurnEnds(s)
      <3>1. PICK d \in Calls : Taken(d, s, "end")
        BY <2>2, EmitCall DEF TurnEnds, Events
      <3> QED BY <3>1 DEF Taken, Quiet, Loop, OneMoves
    <2>3. CASE TurnFails(s)
      <3>1. PICK d \in Calls : Taken(d, s, "failed")
        BY <2>3, EmitCall DEF TurnFails, Events
      <3> QED BY <3>1 DEF Taken, Quiet, Loop, OneMoves
    <2>4. CASE PromptBroke(s)
      <3>1. PICK d \in Calls : Taken(d, s, "failed")
        BY <2>4, EmitCall DEF PromptBroke, Events
      <3> QED BY <3>1 DEF Taken, Quiet, Loop, OneMoves
    <2>5. CASE Exits(s)
      <3>1. PICK d \in Calls : Taken(d, s, "failed")
        BY <2>5, EmitCall DEF Exits, Events
      <3> QED BY <3>1 DEF Taken, Quiet, Loop, OneMoves
    <2> QED BY <1>2, <2>1, <2>2, <2>3, <2>4, <2>5
  <1>3. CASE QueueStarts
    <2>1. CASE Startable(waiting)
      BY <1>3, <2>1, QueueStartsCall DEF QueueStarts, Types, WaitingOK, Quiet, Loop, OneMoves
    <2>2. CASE ~ Startable(waiting)
      BY <1>3, <2>2 DEF QueueStarts, OneMoves
    <2> QED BY <2>1, <2>2
  <1>4. CASE RemoveWorktree
    BY <1>4 DEF RemoveWorktree, OneMoves
  <1>5. CASE KeepWorktree
    BY <1>5 DEF KeepWorktree, OneMoves
  <1>6. CASE ScanAdopts
    BY <1>6 DEF ScanAdopts, OneMoves
  <1>7. CASE ScanTimesOut
    <2>1. PICK d \in Calls : Taken(d, auto[active].sid, "timeout")
      BY <1>7, TimesOutCall
    <2> QED BY <2>1 DEF Taken, Quiet, Loop, OneMoves
  <1>8. ASSUME NEW to \in Columns, MoveCard(to) PROVE OneMoves
    <2>1. CASE to \in Lanes
      BY <1>8, <2>1, ArriveCall DEF MoveCard, Move, Arrives, Quiet, Loop, OneMoves
    <2>2. CASE to \notin Lanes
      BY <1>8, <2>2 DEF MoveCard, OneMoves
    <2> QED BY <2>1, <2>2
  <1>9. CASE UserBlocks
    BY <1>9, UserBlocksCall DEF UserBlocks, Move, Quiet, Loop, OneMoves
  <1>10. CASE UNCHANGED vars
    BY <1>10 DEF vars, OneMoves
  <1> QED BY <1>1, <1>2, <1>3, <1>4, <1>5, <1>6, <1>7, <1>8, <1>9, <1>10 DEF Next

\* So no second call gets between two waits of another.
LEMMA StepSingle == ASSUME Types, Single, [Next]_vars PROVE Single'
  BY StepMoves DEF OneMoves, Single, Loop, Others

-----------------------------------------------------------------------------
(* Automations that are in use *)

Used(a) == a \in Visit /\ auto[a].status # "none"

\* What a step keeps of an automation in use.
Kept == \A a \in Visit : Used(a) => /\ Used(a)' /\ auto'[a].lane = auto[a].lane /\ auto'[a].fallback = auto[a].fallback
                                    /\ auto'[a].step >= auto[a].step

AutoOK ==
  \A a \in Visit : /\ auto[a].status = "none" => auto[a].sid = None /\ auto[a].step = 0
                   /\ auto[a].status = "queued" => auto[a].sid = None
                   /\ auto[a].status = "running" => auto[a].sid # None
                   /\ auto[a].status # "none" => auto[a].step > 0

\* The queue, the sessions and the calls refer to automations in use.
OfUse(job) == Used(job.auto) /\ job.step > 0 /\ job.lane = auto[job.auto].lane

RestRefers ==
  /\ active # None => Used(active)
  /\ waiting # NoRun => OfUse(waiting)
  /\ \A s \in Session : run[s].auto # None => OfUse(run[s])

Refers(k) == (k.auto # None => Used(k.auto)) /\ (k.pc \in {"create", "spawning"} => OfUse(k.job))

References == RestRefers /\ \A c \in Calls : Refers(call[c])

\* What a queued automation takes from the card.
LEMMA AdoptedFields == ASSUME Types, NEW a \in Visit
  PROVE  /\ a = active /\ Live /\ auto[a].sid = None /\ card.trigger # None
              => Adopted[a].sid = card.trigger /\ Adopted[a].status = "running"
         /\ ~ (a = active /\ Live /\ auto[a].sid = None /\ card.trigger # None) => Adopted[a] = auto[a]
  BY AdoptedType, AutoUnfold DEF AutoType

\* An automation in use stays in use and keeps its lane; its steps only go up.
LEMMA StepKept == ASSUME Types, [Next]_vars PROVE Kept
  <1> USE DEF autoVars, Used
  <1> auto \in [Visit -> AutoType] /\ \A a \in Visit : auto[a].step \in Nat
    BY AutoUnfold DEF AutoType
  <1>1. ASSUME NEW c \in Calls, CallStep(c) PROVE Kept
    <2>1. CASE EndDeferred(c)
      BY <2>1 DEF EndDeferred, Kept
    <2>2. CASE Killed(c)
      BY <2>2 DEF Killed, Kept
    <2>3. CASE StartPending(c)
      BY <2>3 DEF StartPending, Kept
    <2>4. CASE SettleEnded(c)
      BY <2>4 DEF SettleEnded, Kept
    <2>5. CASE WindDown(c)
      BY <2>5 DEF WindDown, Kept
    <2>6. CASE SettleUnfollowed(c)
      <3>1. auto' = Adopted
        BY <2>6 DEF SettleUnfollowed
      <3>2. ASSUME NEW a \in Visit, auto[a].status # "none" PROVE Adopted[a].status # "none"
        BY <3>2, AdoptedFields
      <3>3. \A a \in Visit : Adopted[a].step = auto[a].step /\ Adopted[a].lane = auto[a].lane /\ Adopted[a].fallback = auto[a].fallback
        BY AdoptedType
      <3> QED BY <3>1, <3>2, <3>3 DEF Kept
    <2>7. CASE SettleTeardown(c)
      BY <2>7 DEF SettleTeardown, AutoType, Kept
    <2>8. CASE StepOver(c)
      <3>1. auto' = Adopted
        BY <2>8 DEF StepOver
      <3>2. ASSUME NEW a \in Visit, auto[a].status # "none" PROVE Adopted[a].status # "none"
        BY <3>2, AdoptedFields
      <3>3. \A a \in Visit : Adopted[a].step = auto[a].step /\ Adopted[a].lane = auto[a].lane /\ Adopted[a].fallback = auto[a].fallback
        BY AdoptedType
      <3> QED BY <3>1, <3>2, <3>3 DEF Kept
    <2>9. CASE StartNext(c)
      BY <2>9, StartNextAuto DEF SameAutos, SameLane, Kept
    <2>10. CASE Recover(c)
      BY <2>10, RecoverAuto DEF SameAutos, SameLane, Kept
    <2>11. CASE NothingFollows(c)
      BY <2>11 DEF NothingFollows, Kept
    <2>12. CASE CreateTakesTrigger(c)
      BY <2>12 DEF CreateTakesTrigger, Kept
    <2>13. CASE CreateQueues(c)
      BY <2>13 DEF CreateQueues, Kept
    <2>14. CASE CreateStarts(c)
      BY <2>14 DEF CreateStarts, Kept
    <2>15. CASE Spawned(c)
      BY <2>15 DEF Spawned, Kept
    <2>16. CASE SpawnFails(c)
      BY <2>16 DEF SpawnFails, Kept
    <2>17. CASE Entered(c)
      <3>1. call[c].auto \in Visit /\ auto' = WithSession(c)
        BY <2>17 DEF Entered, At, Types, CallsOK, CallOK, Enters
      <3> QED BY <3>1, WithSessionType DEF Kept
    <2>18. CASE Continued(c)
      BY <2>18, ContinuedAuto DEF SameAutos, SameLane, Kept
    <2>19. CASE NotContinued(c)
      BY <2>19, NotContinuedAuto DEF SameAutos, SameLane, Kept
    <2>20. CASE LaneEnds(c)
      <3>1. call[c].pc = "finish" /\ auto' = Over(c)
        BY <2>20 DEF LaneEnds, At
      <3> QED BY <3>1, OverType DEF Kept
    <2>21. CASE LaneAdvances(c)
      <3>1. call[c].pc = "finish" /\ auto' = Over(c)
        BY <2>21 DEF LaneAdvances, At
      <3> QED BY <3>1, OverType DEF Kept
    <2>22. CASE LaneTearsDown(c)
      <3>1. call[c].pc = "finish" /\ auto' = Over(c)
        BY <2>22 DEF LaneTearsDown, At
      <3> QED BY <3>1, OverType DEF Kept
    <2>23. CASE EndOne(c)
      BY <2>23 DEF EndOne, Kept
    <2>24. CASE AllEnded(c)
      BY <2>24 DEF AllEnded, Kept
    <2>25. CASE EnterLane(c)
      BY <2>25 DEF EnterLane, Kept
    <2>26. CASE Register(c)
      BY <2>26, RegisterAuto DEF SameAutos, Kept
    <2> QED BY <1>1, <2>1, <2>2, <2>3, <2>4, <2>5, <2>6, <2>7, <2>8, <2>9, <2>10, <2>11, <2>12, <2>13, <2>14,
               <2>15, <2>16, <2>17, <2>18, <2>19, <2>20, <2>21, <2>22, <2>23, <2>24, <2>25, <2>26 DEF CallStep
  <1>2. ASSUME NEW s \in Session, Report(s) \/ TurnEnds(s) \/ TurnFails(s) \/ PromptBroke(s) \/ Exits(s)
        PROVE  Kept
    <2>1. CASE Report(s)
      BY <2>1 DEF Report, Kept
    <2>2. CASE TurnEnds(s)
      BY <2>2 DEF TurnEnds, Kept
    <2>3. CASE TurnFails(s)
      BY <2>3 DEF TurnFails, Kept
    <2>4. CASE PromptBroke(s)
      BY <2>4 DEF PromptBroke, Kept
    <2>5. CASE Exits(s)
      BY <2>5 DEF Exits, Kept
    <2> QED BY <1>2, <2>1, <2>2, <2>3, <2>4, <2>5
  <1>3. CASE QueueStarts
    BY <1>3 DEF QueueStarts, Kept
  <1>4. CASE RemoveWorktree
    BY <1>4 DEF RemoveWorktree, Kept
  <1>5. CASE KeepWorktree
    BY <1>5 DEF KeepWorktree, Kept
  <1>6. CASE ScanAdopts
    <2>1. auto' = Adopted
      BY <1>6 DEF ScanAdopts
    <2>2. ASSUME NEW a \in Visit, auto[a].status # "none" PROVE Adopted[a].status # "none"
      BY <2>2, AdoptedFields
    <2>3. \A a \in Visit : Adopted[a].step = auto[a].step /\ Adopted[a].lane = auto[a].lane /\ Adopted[a].fallback = auto[a].fallback
      BY AdoptedType
    <2> QED BY <2>1, <2>2, <2>3 DEF Kept
  <1>7. CASE ScanTimesOut
    BY <1>7 DEF ScanTimesOut, AutoType, Kept
  <1>8. ASSUME NEW to \in Columns, MoveCard(to) PROVE Kept
    BY <1>8 DEF MoveCard, Kept
  <1>9. CASE UserBlocks
    BY <1>9 DEF UserBlocks, Kept
  <1>10. CASE UNCHANGED vars
    BY <1>10 DEF vars, Kept
  <1> QED BY <1>1, <1>2, <1>3, <1>4, <1>5, <1>6, <1>7, <1>8, <1>9, <1>10 DEF Next

\* The status of an automation says what else it holds.
LEMMA StepAutoOK == ASSUME Types, AutoOK, References, [Next]_vars PROVE AutoOK'
  <1> USE DEF autoVars
  <1> auto \in [Visit -> AutoType] /\ \A a \in Visit : auto[a].step \in Nat
    BY AutoUnfold DEF AutoType
  <1>1. ASSUME NEW c \in Calls, CallStep(c) PROVE AutoOK'
    <2>1. CASE EndDeferred(c)
      BY <2>1 DEF EndDeferred, AutoOK
    <2>2. CASE Killed(c)
      BY <2>2 DEF Killed, AutoOK
    <2>3. CASE StartPending(c)
      BY <2>3 DEF StartPending, AutoOK
    <2>4. CASE SettleEnded(c)
      BY <2>4 DEF SettleEnded, AutoOK
    <2>5. CASE WindDown(c)
      BY <2>5 DEF WindDown, AutoOK
    <2>6. CASE SettleUnfollowed(c)
      <3>1. auto' = Adopted
        BY <2>6 DEF SettleUnfollowed
      <3> QED BY <3>1, AdoptedType, AdoptedFields DEF Live, AutoOK
    <2>7. CASE SettleTeardown(c)
      BY <2>7 DEF SettleTeardown, AutoType, AutoOK
    <2>8. CASE StepOver(c)
      <3>1. auto' = Adopted
        BY <2>8 DEF StepOver
      <3> QED BY <3>1, AdoptedType, AdoptedFields DEF Live, AutoOK
    <2>9. CASE StartNext(c)
      <3>1. auto[call[c].auto].status # "none"
        BY <2>9, CardTypes DEF StartNext, At, Types, CallsOK, CallOK, Handles, Enters, Starts, References,
               Refers, Used
      <3> QED BY <3>1, <2>9, StartNextAuto DEF SameAutos, SameLane, AutoOK
    <2>10. CASE Recover(c)
      <3>1. auto[call[c].auto].status # "none"
        BY <2>10, CardTypes DEF Recover, At, Types, CallsOK, CallOK, Handles, Enters, Starts, References,
               Refers, Used
      <3> QED BY <3>1, <2>10, RecoverAuto DEF SameAutos, SameLane, AutoOK
    <2>11. CASE NothingFollows(c)
      BY <2>11 DEF NothingFollows, AutoOK
    <2>12. CASE CreateTakesTrigger(c)
      BY <2>12 DEF CreateTakesTrigger, AutoOK
    <2>13. CASE CreateQueues(c)
      BY <2>13 DEF CreateQueues, AutoOK
    <2>14. CASE CreateStarts(c)
      BY <2>14 DEF CreateStarts, AutoOK
    <2>15. CASE Spawned(c)
      BY <2>15 DEF Spawned, AutoOK
    <2>16. CASE SpawnFails(c)
      BY <2>16 DEF SpawnFails, AutoOK
    <2>17. CASE Entered(c)
      <3>1. auto[call[c].auto].status # "none"
        BY <2>17, CardTypes DEF Entered, At, Types, CallsOK, CallOK, Handles, Enters, Starts, References,
               Refers, Used
      <3>2. call[c].res = "session" <=> call[c].got # None
        BY <2>17 DEF Entered, At, Types, CallsOK, CallOK
      <3>3. call[c].auto \in Visit /\ auto' = WithSession(c)
        BY <2>17 DEF Entered, At, Types, CallsOK, CallOK, Enters
      <3> QED BY <3>1, <3>2, <3>3, WithSessionType DEF AutoOK
    <2>18. CASE Continued(c)
      <3>1. auto[call[c].auto].status # "none"
        BY <2>18, CardTypes DEF Continued, At, Types, CallsOK, CallOK, Handles, Enters, Starts, References,
               Refers, Used
      <3>2. call[c].res = "session" <=> call[c].got # None
        BY <2>18 DEF Continued, At, Types, CallsOK, CallOK
      <3> QED BY <3>1, <3>2, <2>18, ContinuedAuto DEF SameAutos, SameLane, AutoOK
    <2>19. CASE NotContinued(c)
      <3>1. auto[call[c].auto].status # "none"
        BY <2>19, CardTypes DEF NotContinued, At, Types, CallsOK, CallOK, Handles, Enters, Starts, References,
               Refers, Used
      <3> QED BY <3>1, <2>19, NotContinuedAuto DEF SameAutos, SameLane, AutoOK
    <2>20. CASE LaneEnds(c)
      <3>1. auto[call[c].auto].status # "none"
        BY <2>20, CardTypes DEF LaneEnds, At, Types, CallsOK, CallOK, Handles, Enters, Starts, References,
               Refers, Used
      <3>2. call[c].pc = "finish" /\ auto' = Over(c)
        BY <2>20 DEF LaneEnds, At
      <3> QED BY <3>1, <3>2, OverType DEF AutoOK
    <2>21. CASE LaneAdvances(c)
      <3>1. auto[call[c].auto].status # "none"
        BY <2>21, CardTypes DEF LaneAdvances, At, Types, CallsOK, CallOK, Handles, Enters, Starts, References,
               Refers, Used
      <3>2. call[c].pc = "finish" /\ auto' = Over(c)
        BY <2>21 DEF LaneAdvances, At
      <3> QED BY <3>1, <3>2, OverType DEF AutoOK
    <2>22. CASE LaneTearsDown(c)
      <3>1. auto[call[c].auto].status # "none"
        BY <2>22, CardTypes DEF LaneTearsDown, At, Types, CallsOK, CallOK, Handles, Enters, Starts,
               References, Refers, Used
      <3>2. call[c].pc = "finish" /\ auto' = Over(c)
        BY <2>22 DEF LaneTearsDown, At
      <3> QED BY <3>1, <3>2, OverType DEF AutoOK
    <2>23. CASE EndOne(c)
      BY <2>23 DEF EndOne, AutoOK
    <2>24. CASE AllEnded(c)
      BY <2>24 DEF AllEnded, AutoOK
    <2>25. CASE EnterLane(c)
      BY <2>25 DEF EnterLane, AutoOK
    <2>26. CASE Register(c)
      BY <2>26, RegisterAuto DEF SameAutos, AutoOK
    <2> QED BY <1>1, <2>1, <2>2, <2>3, <2>4, <2>5, <2>6, <2>7, <2>8, <2>9, <2>10, <2>11, <2>12, <2>13, <2>14,
               <2>15, <2>16, <2>17, <2>18, <2>19, <2>20, <2>21, <2>22, <2>23, <2>24, <2>25, <2>26 DEF CallStep
  <1>2. ASSUME NEW s \in Session, Report(s) \/ TurnEnds(s) \/ TurnFails(s) \/ PromptBroke(s) \/ Exits(s)
        PROVE  AutoOK'
    <2>1. CASE Report(s)
      BY <2>1 DEF Report, AutoOK
    <2>2. CASE TurnEnds(s)
      BY <2>2 DEF TurnEnds, AutoOK
    <2>3. CASE TurnFails(s)
      BY <2>3 DEF TurnFails, AutoOK
    <2>4. CASE PromptBroke(s)
      BY <2>4 DEF PromptBroke, AutoOK
    <2>5. CASE Exits(s)
      BY <2>5 DEF Exits, AutoOK
    <2> QED BY <1>2, <2>1, <2>2, <2>3, <2>4, <2>5
  <1>3. CASE QueueStarts
    BY <1>3 DEF QueueStarts, AutoOK
  <1>4. CASE RemoveWorktree
    BY <1>4 DEF RemoveWorktree, AutoOK
  <1>5. CASE KeepWorktree
    BY <1>5 DEF KeepWorktree, AutoOK
  <1>6. CASE ScanAdopts
    <2>1. auto' = Adopted
      BY <1>6 DEF ScanAdopts
    <2> QED BY <2>1, AdoptedType, AdoptedFields DEF Live, AutoOK
  <1>7. CASE ScanTimesOut
    BY <1>7 DEF ScanTimesOut, AutoType, AutoOK
  <1>8. ASSUME NEW to \in Columns, MoveCard(to) PROVE AutoOK'
    BY <1>8 DEF MoveCard, AutoOK
  <1>9. CASE UserBlocks
    BY <1>9 DEF UserBlocks, AutoOK
  <1>10. CASE UNCHANGED vars
    BY <1>10 DEF vars, AutoOK
  <1> QED BY <1>1, <1>2, <1>3, <1>4, <1>5, <1>6, <1>7, <1>8, <1>9, <1>10 DEF Next

\* What refers to an automation in use goes on to do so.
LEMMA UsedKept ==
  ASSUME Kept
  PROVE  /\ \A a : Used(a) => a \in Visit /\ auto'[a].status # "none"
         /\ \A job : OfUse(job) => /\ job.auto \in Visit /\ auto'[job.auto].status # "none"
                                   /\ job.step > 0 /\ job.lane = auto'[job.auto].lane
  BY DEF Kept, OfUse, Used

\* References survive a step that keeps the automations in use.
LEMMA RestRefersKept ==
  ASSUME RestRefers, Kept, active' # None => active' = active \/ Used(active)',
         waiting' # NoRun => waiting' = waiting \/ OfUse(waiting'),
         \A s \in Session : run'[s] = run[s] \/ OfUse(run'[s])
  PROVE  RestRefers'
  <1>1. active' # None => Used(active)'
    BY DEF RestRefers, Used, Kept
  <1>2. waiting' # NoRun => OfUse(waiting)'
    BY UsedKept DEF RestRefers, OfUse, Used
  <1>3. \A s \in Session : run'[s].auto # None => OfUse(run[s])'
    BY UsedKept DEF RestRefers, OfUse, Used
  <1> QED BY <1>1, <1>2, <1>3 DEF RestRefers

\* The active automation, the queue's and the sessions' are in use.
LEMMA StepRestRefers == ASSUME Types, AutoOK, References, [Next]_vars PROVE RestRefers'
  <1> USE DEF autoVars, cardVars
  <1> Kept
    BY StepKept
  <1>1. ASSUME NEW c \in Calls, CallStep(c) PROVE RestRefers'
    <2>1. CASE EndDeferred(c)
      BY <2>1, UsedKept DEF EndDeferred, Used, OfUse, RestRefers, References
    <2>2. CASE Killed(c)
      BY <2>2, UsedKept DEF Killed, Used, OfUse, RestRefers, References
    <2>3. CASE StartPending(c)
      BY <2>3, UsedKept DEF StartPending, Used, OfUse, RestRefers, References
    <2>4. CASE SettleEnded(c)
      BY <2>4, UsedKept DEF SettleEnded, Used, OfUse, RestRefers, References
    <2>5. CASE WindDown(c)
      BY <2>5, UsedKept DEF WindDown, Used, OfUse, RestRefers, References
    <2>6. CASE SettleUnfollowed(c)
      BY <2>6, UsedKept DEF SettleUnfollowed, Used, OfUse, RestRefers, References
    <2>7. CASE SettleTeardown(c)
      BY <2>7, UsedKept DEF SettleTeardown, Used, OfUse, RestRefers, References
    <2>8. CASE StepOver(c)
      BY <2>8, UsedKept DEF StepOver, Used, OfUse, RestRefers, References
    <2>9. CASE StartNext(c)
      BY <2>9, UsedKept DEF StartNext, Restart, Used, OfUse, RestRefers, References
    <2>10. CASE Recover(c)
      BY <2>10, UsedKept DEF Recover, Restart, Used, OfUse, RestRefers, References
    <2>11. CASE NothingFollows(c)
      BY <2>11, UsedKept DEF NothingFollows, Used, OfUse, RestRefers, References
    <2>12. CASE CreateTakesTrigger(c)
      BY <2>12, UsedKept DEF CreateTakesTrigger, Used, OfUse, RestRefers, References
    <2>13. CASE CreateQueues(c)
      <3>1. OfUse(call[c].job)
        BY <2>13 DEF CreateQueues, At, References, Refers
      <3>2. waiting' = waiting \/ waiting' = call[c].job
        BY <2>13 DEF CreateQueues
      <3>3. UNCHANGED <<active, run>>
        BY <2>13 DEF CreateQueues
      <3> QED BY <3>1, <3>2, <3>3, RestRefersKept DEF References
    <2>14. CASE CreateStarts(c)
      <3>1. UNCHANGED <<active, run>> /\ waiting' = NoRun
        BY <2>14 DEF CreateStarts
      <3> QED BY <3>1, RestRefersKept DEF References
    <2>15. CASE Spawned(c)
      <3>1. PICK s \in Session : run' = [run EXCEPT ![s] = call[c].job]
        BY <2>15 DEF Spawned
      <3>2. OfUse(call[c].job)
        BY <2>15 DEF Spawned, At, References, Refers
      <3>3. \A r \in Session : run'[r] = run[r] \/ run'[r] = call[c].job
        BY <3>1 DEF Types, TypeOK
      <3>4. UNCHANGED <<active, waiting>>
        BY <2>15 DEF Spawned
      <3> QED BY <3>2, <3>3, <3>4, RestRefersKept DEF References
    <2>16. CASE SpawnFails(c)
      BY <2>16, UsedKept DEF SpawnFails, Used, OfUse, RestRefers, References
    <2>17. CASE Entered(c)
      BY <2>17, UsedKept DEF Entered, Used, OfUse, RestRefers, References
    <2>18. CASE Continued(c)
      BY <2>18, UsedKept DEF Continued, Used, OfUse, RestRefers, References
    <2>19. CASE NotContinued(c)
      BY <2>19, UsedKept DEF NotContinued, Used, OfUse, RestRefers, References
    <2>20. CASE LaneEnds(c)
      BY <2>20, UsedKept DEF LaneEnds, Used, OfUse, RestRefers, References
    <2>21. CASE LaneAdvances(c)
      BY <2>21, UsedKept DEF LaneAdvances, LeaveLane, Used, OfUse, RestRefers, References
    <2>22. CASE LaneTearsDown(c)
      BY <2>22, UsedKept DEF LaneTearsDown, Used, OfUse, RestRefers, References
    <2>23. CASE EndOne(c)
      BY <2>23, UsedKept DEF EndOne, Used, OfUse, RestRefers, References
    <2>24. CASE AllEnded(c)
      BY <2>24, UsedKept DEF AllEnded, Used, OfUse, RestRefers, References
    <2>25. CASE EnterLane(c)
      BY <2>25, UsedKept DEF EnterLane, Used, OfUse, RestRefers, References
    <2>26. CASE Register(c)
      <3>1. Used(active)'
        BY <2>26, RegisterAuto DEF Used
      <3>2. UNCHANGED <<waiting, run>>
        BY <2>26 DEF Register
      <3> QED BY <3>1, <3>2, RestRefersKept DEF References
    <2> QED BY <1>1, <2>1, <2>2, <2>3, <2>4, <2>5, <2>6, <2>7, <2>8, <2>9, <2>10, <2>11, <2>12, <2>13, <2>14,
               <2>15, <2>16, <2>17, <2>18, <2>19, <2>20, <2>21, <2>22, <2>23, <2>24, <2>25, <2>26 DEF CallStep
  <1>2. ASSUME NEW s \in Session, Report(s) \/ TurnEnds(s) \/ TurnFails(s) \/ PromptBroke(s) \/ Exits(s)
        PROVE  RestRefers'
    <2>1. CASE Report(s)
      BY <2>1, UsedKept DEF Report, Used, OfUse, RestRefers, References
    <2>2. CASE TurnEnds(s)
      BY <2>2, UsedKept DEF TurnEnds, Used, OfUse, RestRefers, References
    <2>3. CASE TurnFails(s)
      BY <2>3, UsedKept DEF TurnFails, Used, OfUse, RestRefers, References
    <2>4. CASE PromptBroke(s)
      BY <2>4, UsedKept DEF PromptBroke, Used, OfUse, RestRefers, References
    <2>5. CASE Exits(s)
      BY <2>5, UsedKept DEF Exits, Used, OfUse, RestRefers, References
    <2> QED BY <1>2, <2>1, <2>2, <2>3, <2>4, <2>5
  <1>3. CASE QueueStarts
    BY <1>3, UsedKept DEF QueueStarts, Used, OfUse, RestRefers, References
  <1>4. CASE RemoveWorktree
    BY <1>4, UsedKept DEF RemoveWorktree, Used, OfUse, RestRefers, References
  <1>5. CASE KeepWorktree
    BY <1>5, UsedKept DEF KeepWorktree, Used, OfUse, RestRefers, References
  <1>6. CASE ScanAdopts
    BY <1>6, UsedKept DEF ScanAdopts, Used, OfUse, RestRefers, References
  <1>7. CASE ScanTimesOut
    BY <1>7, UsedKept DEF ScanTimesOut, Used, OfUse, RestRefers, References
  <1>8. ASSUME NEW to \in Columns, MoveCard(to) PROVE RestRefers'
    BY <1>8, UsedKept DEF MoveCard, LeaveLane, Used, OfUse, RestRefers, References
  <1>9. CASE UserBlocks
    BY <1>9, UsedKept DEF UserBlocks, Used, OfUse, RestRefers, References
  <1>10. CASE UNCHANGED vars
    BY <1>10, UsedKept DEF vars, Used, OfUse, RestRefers, References
  <1> QED BY <1>1, <1>2, <1>3, <1>4, <1>5, <1>6, <1>7, <1>8, <1>9, <1>10 DEF Next

\* So do those of a call.
LEMMA RefersKept ==
  ASSUME Kept, NEW k, Refers(k)
  PROVE  /\ k.auto # None => k.auto \in Visit /\ auto'[k.auto].status # "none"
         /\ k.pc \in {"create", "spawning"} =>
              /\ k.job.auto \in Visit /\ auto'[k.job.auto].status # "none"
              /\ k.job.step > 0 /\ k.job.lane = auto'[k.job.auto].lane
  BY DEF Kept, Refers, OfUse, Used

\* The calls' automations are in use.
LEMMA StepRefers == ASSUME Types, AutoOK, References, [Next]_vars PROVE \A c \in Calls : Refers(call[c])'
  <1> USE DEF autoVars, cardVars
  <1> Kept
    BY StepKept
  <1>1. ASSUME NEW c \in Calls, CallStep(c) PROVE \A d \in Calls : Refers(call[d])'
    <2>1. CASE EndDeferred(c)
      <3>1. Others(c)
        BY <2>1, EndDeferredCall DEF EndDeferred, At
      <3>2. Refers(call[c]) /\ call[c].pc # "none"
        BY <2>1, CardTypes DEF EndDeferred, At, References
      <3>3. Refers(call[c])'
        BY <2>1, <3>2, EndDeferredCall, RefersKept, UsedKept DEF SameTask, SamePlan, Refers, OfUse, Used
      <3> QED BY <3>1, <3>3, RefersKept DEF Others, References, Refers, OfUse, Used
    <2>2. CASE Killed(c)
      <3>1. call'[c].pc \in {"swept", "judge"}
        BY <2>2, KilledCall DEF Killed, Types, CallsOK, CallOK
      <3> QED BY <2>2, <3>1, KilledCall, RefersKept DEF SameTask, Others, References, Refers, OfUse, Used
    <2>3. CASE StartPending(c)
      <3>1. Others(c)
        BY <2>3, StartPendingCall DEF StartPending, At
      <3>2. Refers(call[c]) /\ call[c].pc # "none"
        BY <2>3, CardTypes DEF StartPending, At, References
      <3>3. Refers(call[c])'
        BY <2>3, <3>2, StartPendingCall, RefersKept, UsedKept DEF SameTask, SamePlan, Refers, OfUse, Used
      <3> QED BY <3>1, <3>3, RefersKept DEF Others, References, Refers, OfUse, Used
    <2>4. CASE SettleEnded(c)
      BY <2>4, ReturnCall, IdleFields, RefersKept DEF SettleEnded, Others, References, Refers, OfUse, Used
    <2>5. CASE WindDown(c)
      BY <2>5, ReturnCall, IdleFields, RefersKept DEF WindDown, Others, References, Refers, OfUse, Used
    <2>6. CASE SettleUnfollowed(c)
      BY <2>6, ReturnCall, IdleFields, RefersKept DEF SettleUnfollowed, Others, References, Refers, OfUse, Used
    <2>7. CASE SettleTeardown(c)
      BY <2>7, ReturnCall, IdleFields, RefersKept DEF SettleTeardown, Others, References, Refers, OfUse, Used
    <2>8. CASE StepOver(c)
      <3>1. Others(c)
        BY <2>8, StepOverCall DEF StepOver
      <3>2. active # None /\ Used(active)
        BY <2>8 DEF StepOver, Followed, Live, References, RestRefers
      <3>3. Refers(call[c])'
        BY <2>8, <3>2, StepOverCall, RefersKept, UsedKept DEF Refers, OfUse, Used
      <3> QED BY <3>1, <3>3, RefersKept DEF Others, References, Refers, OfUse, Used
    <2>9. CASE StartNext(c)
      <3>1. Others(c)
        BY <2>9, StartNextCall DEF StartNext, At
      <3>2. /\ call[c].auto \in Visit /\ call[c].auto # None /\ Refers(call[c]) /\ auto[call[c].auto].step + 1 > 0
            /\ call'[c].job.auto = call[c].auto /\ call'[c].job.step = auto[call[c].auto].step + 1 /\ call'[c].job.lane = auto[call[c].auto].lane
        <4>1. call[c].auto \in Visit /\ call[c].auto # None /\ Refers(call[c])
          BY <2>9, StartNextAuto, CardTypes DEF References
        <4>2. auto[call[c].auto].step + 1 > 0
          BY <4>1, AutoUnfold DEF AutoOK, Refers, Used
        <4>3. call'[c].job = Job(c, auto[call[c].auto].step + 1)
          BY <2>9, StartNextCall DEF AutoOf
        <4> QED BY <4>1, <4>2, <4>3 DEF Job, AutoOf
      <3>3. Refers(call[c])'
        BY <2>9, <3>2, StartNextCall, RefersKept, UsedKept DEF Refers, OfUse, Used
      <3> QED BY <3>1, <3>3, RefersKept DEF Others, References, Refers, OfUse, Used
    <2>10. CASE Recover(c)
      <3>1. Others(c)
        BY <2>10, RecoverCall DEF Recover, At
      <3>2. /\ call[c].auto \in Visit /\ call[c].auto # None /\ Refers(call[c]) /\ auto[call[c].auto].step > 0
            /\ call'[c].job.auto = call[c].auto /\ call'[c].job.step = auto[call[c].auto].step /\ call'[c].job.lane = auto[call[c].auto].lane
        <4>1. call[c].auto \in Visit /\ call[c].auto # None /\ Refers(call[c])
          BY <2>10, RecoverAuto, CardTypes DEF References
        <4>2. auto[call[c].auto].step > 0
          BY <4>1, AutoUnfold DEF AutoOK, Refers, Used
        <4>3. call'[c].job = Job(c, auto[call[c].auto].step)
          BY <2>10, RecoverCall DEF AutoOf
        <4> QED BY <4>1, <4>2, <4>3 DEF Job, AutoOf
      <3>3. Refers(call[c])'
        BY <2>10, <3>2, RecoverCall, RefersKept, UsedKept DEF SameTask, Refers, OfUse, Used
      <3> QED BY <3>1, <3>3, RefersKept DEF Others, References, Refers, OfUse, Used
    <2>11. CASE NothingFollows(c)
      <3>1. Others(c)
        BY <2>11, NothingFollowsCall DEF NothingFollows, At
      <3>2. Refers(call[c]) /\ call[c].pc # "none"
        BY <2>11, CardTypes DEF NothingFollows, At, References
      <3>3. Refers(call[c])'
        BY <2>11, <3>2, NothingFollowsCall, RefersKept, UsedKept DEF SameTask, Refers, OfUse, Used
      <3> QED BY <3>1, <3>3, RefersKept DEF Others, References, Refers, OfUse, Used
    <2>12. CASE CreateTakesTrigger(c)
      <3>1. Others(c)
        BY <2>12, CreateTakesTriggerCall DEF CreateTakesTrigger, At
      <3>2. Refers(call[c]) /\ call[c].pc # "none"
        BY <2>12, CardTypes DEF CreateTakesTrigger, At, References
      <3>3. Refers(call[c])'
        BY <2>12, <3>2, CreateTakesTriggerCall, RefersKept, UsedKept DEF SameTask, SamePlan, Refers, OfUse, Used
      <3> QED BY <3>1, <3>3, RefersKept DEF Others, References, Refers, OfUse, Used
    <2>13. CASE CreateQueues(c)
      <3>1. Others(c)
        BY <2>13, CreateQueuesCall DEF CreateQueues, At
      <3>2. Refers(call[c]) /\ call[c].pc # "none"
        BY <2>13, CardTypes DEF CreateQueues, At, References
      <3>3. Refers(call[c])'
        BY <2>13, <3>2, CreateQueuesCall, RefersKept, UsedKept DEF SameTask, SamePlan, Refers, OfUse, Used
      <3> QED BY <3>1, <3>3, RefersKept DEF Others, References, Refers, OfUse, Used
    <2>14. CASE CreateStarts(c)
      <3>1. Others(c)
        BY <2>14, CreateStartsCall DEF CreateStarts, At
      <3>2. Refers(call[c]) /\ call[c].pc = "create"
        BY <2>14 DEF CreateStarts, At, References
      <3>3. Refers(call[c])'
        BY <2>14, <3>2, CreateStartsCall, RefersKept, UsedKept DEF SameTask, Refers, OfUse, Used
      <3> QED BY <3>1, <3>3, RefersKept DEF Others, References, Refers, OfUse, Used
    <2>15. CASE Spawned(c)
      <3>1. PICK s \in Session : IF call[c].why = "queue" THEN Return(c) ELSE Answer(c, "session", s)
        BY <2>15 DEF Spawned
      <3>2. Others(c) /\ (call'[c] = Idle \/ (call'[c].pc = "created" /\ call'[c].auto = call[c].auto))
        BY <2>15, <3>1, SpawnedCall DEF Spawned, At, SameTask
      <3> QED BY <3>2, IdleFields, RefersKept DEF Others, References, Refers, OfUse, Used
    <2>16. CASE SpawnFails(c)
      <3>1. Others(c)
        BY <2>16, SpawnFailsCall, IdleFields DEF SpawnFails, At
      <3>2. Refers(call[c]) /\ call[c].pc = "spawning"
        BY <2>16 DEF SpawnFails, At, References
      <3>3. Refers(call[c])'
        BY <2>16, <3>2, SpawnFailsCall, IdleFields, RefersKept, UsedKept DEF SameTask, SamePlan, Refers,
               OfUse, Used
      <3> QED BY <3>1, <3>3, RefersKept DEF Others, References, Refers, OfUse, Used
    <2>17. CASE Entered(c)
      BY <2>17, ReturnCall, IdleFields, RefersKept DEF Entered, Others, References, Refers, OfUse, Used
    <2>18. CASE Continued(c)
      BY <2>18, ReturnCall, IdleFields, RefersKept DEF Continued, Others, References, Refers, OfUse, Used
    <2>19. CASE NotContinued(c)
      <3>1. Others(c)
        BY <2>19, NotContinuedCall DEF NotContinued, At
      <3>2. Refers(call[c]) /\ call[c].pc # "none"
        BY <2>19, CardTypes DEF NotContinued, At, References
      <3>3. Refers(call[c])'
        BY <2>19, <3>2, NotContinuedCall, RefersKept, UsedKept DEF SameTask, SamePlan, Refers, OfUse, Used
      <3> QED BY <3>1, <3>3, RefersKept DEF Others, References, Refers, OfUse, Used
    <2>20. CASE LaneEnds(c)
      BY <2>20, ReturnCall, IdleFields, RefersKept DEF LaneEnds, Others, References, Refers, OfUse, Used
    <2>21. CASE LaneAdvances(c)
      <3>1. Others(c)
        BY <2>21, LaneAdvancesCall DEF LaneAdvances, At, Arrives
      <3>2. TRUE
        OBVIOUS
      <3>3. Refers(call[c])'
        BY <2>21, <3>2, LaneAdvancesCall, RefersKept, UsedKept DEF Arrives, Refers, OfUse, Used
      <3> QED BY <3>1, <3>3, RefersKept DEF Others, References, Refers, OfUse, Used
    <2>22. CASE LaneTearsDown(c)
      <3>1. Others(c)
        BY <2>22, LaneTearsDownCall DEF LaneTearsDown, At
      <3>2. Refers(call[c]) /\ call[c].pc # "none"
        BY <2>22, CardTypes DEF LaneTearsDown, At, References
      <3>3. Refers(call[c])'
        BY <2>22, <3>2, LaneTearsDownCall, RefersKept, UsedKept DEF SameTask, SamePlan, Refers, OfUse, Used
      <3> QED BY <3>1, <3>3, RefersKept DEF Others, References, Refers, OfUse, Used
    <2>23. CASE EndOne(c)
      <3>1. Others(c)
        BY <2>23, EndOneCall DEF EndOne, At
      <3>2. Refers(call[c]) /\ call[c].pc # "none"
        BY <2>23, CardTypes DEF EndOne, At, References
      <3>3. Refers(call[c])'
        BY <2>23, <3>2, EndOneCall, RefersKept, UsedKept DEF SameTask, SamePlan, Refers, OfUse, Used
      <3> QED BY <3>1, <3>3, RefersKept DEF Others, References, Refers, OfUse, Used
    <2>24. CASE AllEnded(c)
      BY <2>24, ReturnCall, IdleFields, RefersKept DEF AllEnded, Others, References, Refers, OfUse, Used
    <2>25. CASE EnterLane(c)
      BY <2>25, EnterLaneCall, IdleFields, RefersKept DEF SameTask, Others, References, Refers, OfUse, Used
    <2>26. CASE Register(c)
      <3>1. Others(c)
        BY <2>26, RegisterCall DEF Register, At
      <3>2. active' \in Visit /\ auto'[active'].status # "none" /\ auto'[active'].lane = call[c].job.lane
        BY <2>26, RegisterAuto
      <3>3. Refers(call[c])'
        BY <2>26, <3>2, RegisterCall, RefersKept, UsedKept DEF Refers, OfUse, Used
      <3> QED BY <3>1, <3>3, RefersKept DEF Others, References, Refers, OfUse, Used
    <2> QED BY <1>1, <2>1, <2>2, <2>3, <2>4, <2>5, <2>6, <2>7, <2>8, <2>9, <2>10, <2>11, <2>12, <2>13, <2>14,
               <2>15, <2>16, <2>17, <2>18, <2>19, <2>20, <2>21, <2>22, <2>23, <2>24, <2>25, <2>26 DEF CallStep
  <1>2. ASSUME NEW s \in Session, Report(s) \/ TurnEnds(s) \/ TurnFails(s) \/ PromptBroke(s) \/ Exits(s)
        PROVE  \A c \in Calls : Refers(call[c])'
    <2>1. CASE Report(s)
      <3>1. PICK d \in Calls : Taken(d, s, "report")
        BY <2>1, EmitCall DEF Report, Events
      <3> QED BY <3>1, RefersKept DEF Taken, Others, References, Refers, OfUse, Used
    <2>2. CASE TurnEnds(s)
      <3>1. PICK d \in Calls : Taken(d, s, "end")
        BY <2>2, EmitCall DEF TurnEnds, Events
      <3> QED BY <3>1, RefersKept DEF Taken, Others, References, Refers, OfUse, Used
    <2>3. CASE TurnFails(s)
      <3>1. PICK d \in Calls : Taken(d, s, "failed")
        BY <2>3, EmitCall DEF TurnFails, Events
      <3> QED BY <3>1, RefersKept DEF Taken, Others, References, Refers, OfUse, Used
    <2>4. CASE PromptBroke(s)
      <3>1. PICK d \in Calls : Taken(d, s, "failed")
        BY <2>4, EmitCall DEF PromptBroke, Events
      <3> QED BY <3>1, RefersKept DEF Taken, Others, References, Refers, OfUse, Used
    <2>5. CASE Exits(s)
      <3>1. PICK d \in Calls : Taken(d, s, "failed")
        BY <2>5, EmitCall DEF Exits, Events
      <3> QED BY <3>1, RefersKept DEF Taken, Others, References, Refers, OfUse, Used
    <2> QED BY <1>2, <2>1, <2>2, <2>3, <2>4, <2>5
  <1>3. CASE QueueStarts
    <2>1. CASE Startable(waiting)
      <3>1. OfUse(waiting)
        BY <1>3 DEF QueueStarts, References, RestRefers
      <3>2. PICK c \in Calls : /\ Others(c)
                               /\ call'[c].pc = "spawning" /\ call'[c].job = waiting /\ call'[c].auto = None
        BY <1>3, <2>1, QueueStartsCall DEF QueueStarts, Types, WaitingOK
      <3> QED BY <3>1, <3>2, UsedKept, RefersKept DEF Others, References, Refers, OfUse, Used
    <2>2. CASE ~ Startable(waiting)
      BY <1>3, <2>2, RefersKept DEF QueueStarts, References, Refers, OfUse, Used
    <2> QED BY <2>1, <2>2
  <1>4. CASE RemoveWorktree
    BY <1>4, RefersKept DEF RemoveWorktree, References, Refers, OfUse, Used
  <1>5. CASE KeepWorktree
    BY <1>5, RefersKept DEF KeepWorktree, References, Refers, OfUse, Used
  <1>6. CASE ScanAdopts
    BY <1>6, RefersKept DEF ScanAdopts, References, Refers, OfUse, Used
  <1>7. CASE ScanTimesOut
    <2>1. PICK d \in Calls : Taken(d, auto[active].sid, "timeout")
      BY <1>7, TimesOutCall
    <2> QED BY <2>1, RefersKept DEF Taken, Others, References, Refers, OfUse, Used
  <1>8. ASSUME NEW to \in Columns, MoveCard(to) PROVE \A c \in Calls : Refers(call[c])'
    <2>1. CASE to \in Lanes
      <3>1. PICK d \in Calls : Arrives(d, to)
        BY <1>8, <2>1, ArriveCall DEF MoveCard
      <3> QED BY <3>1, RefersKept DEF Arrives, Others, References, Refers, OfUse, Used
    <2>2. CASE to \notin Lanes
      BY <1>8, <2>2, RefersKept DEF MoveCard, References, Refers, OfUse, Used
    <2> QED BY <2>1, <2>2
  <1>9. CASE UserBlocks
    <2>1. PICK c \in Calls : Others(c) /\ call'[c].pc = "ending" /\ call'[c].auto = None
      BY <1>9, UserBlocksCall
    <2> QED BY <2>1, RefersKept DEF Others, References, Refers, OfUse, Used
  <1>10. CASE UNCHANGED vars
    BY <1>10, RefersKept DEF vars, References, Refers, OfUse, Used
  <1> QED BY <1>1, <1>2, <1>3, <1>4, <1>5, <1>6, <1>7, <1>8, <1>9, <1>10 DEF Next

-----------------------------------------------------------------------------
(* A session that was not started yet is unknown *)

Absent(t, r) == t.trigger # r /\ t.rec[r] = "none"

UnknownTo(k, r) == k.sid # r /\ k.got # r /\ r \notin k.todo /\ Absent(k.copy, r) /\ Absent(k.row, r)

Unnamed(r) ==
  /\ r \notin reported /\ r \notin okay /\ r \notin echo /\ r \notin ended /\ r \notin deferred
  /\ r \notin departed /\ r \notin teardown /\ r \notin cardEnded
  /\ \A a \in Visit : auto[a].sid # r

Unknown(r) == Unnamed(r) /\ run[r] = NoRun /\ Absent(card, r) /\ \A c \in Calls : UnknownTo(call[c], r)

FreshOK == \A r \in Session : proc[r] = "none" => Unknown(r)

\* A session that neither the card nor the copy knows is not known after a save.
LEMMA AbsentSaved == ASSUME Types, NEW t \in Card, NEW r \in Session, Absent(card, r), Absent(t, r)
  PROVE  Absent(Saved(t), r)
  BY SavedType DEF Absent, MergeStatus, Types, TypeOK

\* Nor after another session was settled.
LEMMA AbsentSettled == ASSUME Types, NEW r \in Session, Absent(card, r), NEW s \in Session, NEW ev
  PROVE  Absent(Settled(s, ev), r)
  BY SettledType DEF Absent, Types, TypeOK

\* Nor by a handler's copy.
LEMMA AbsentJudged ==
  ASSUME Types, NEW c \in Calls, NEW r \in Session, Handles(call[c]), Absent(call[c].copy, r)
  PROVE  Absent(Judged(c), r) /\ Absent(Cleared(c), r)
  BY JudgedType, ClearedType, CardTypes DEF Absent

\* The empty card knows no session.
LEMMA AbsentNoCard == ASSUME NEW r \in Session PROVE Absent(NoCard, r)
  BY CardTypes DEF Absent, NoCard

\* A session's agent is started once.
LEMMA StepStarted == ASSUME Types, NEW r \in Session, proc'[r] = "none", [Next]_vars PROVE proc[r] = "none"
  <1> USE DEF cardVars, agentVars, tellVars, autoVars, tearVars
  <1>1. ASSUME NEW c \in Calls, CallStep(c) PROVE proc[r] = "none"
    <2>1. CASE EndDeferred(c)
      BY <2>1 DEF EndDeferred, Kill, Types, TypeOK
    <2>2. CASE Killed(c)
      BY <2>2 DEF Killed, Types, TypeOK
    <2>3. CASE StartPending(c)
      BY <2>3 DEF StartPending, Types, TypeOK
    <2>4. CASE SettleEnded(c)
      BY <2>4 DEF SettleEnded, Types, TypeOK
    <2>5. CASE WindDown(c)
      BY <2>5 DEF WindDown, Kill, EndFinished, Types, TypeOK
    <2>6. CASE SettleUnfollowed(c)
      BY <2>6 DEF SettleUnfollowed, Types, TypeOK
    <2>7. CASE SettleTeardown(c)
      BY <2>7 DEF SettleTeardown, Types, TypeOK
    <2>8. CASE StepOver(c)
      BY <2>8 DEF StepOver, Kill, Types, TypeOK
    <2>9. CASE StartNext(c)
      BY <2>9 DEF StartNext, Types, TypeOK
    <2>10. CASE Recover(c)
      BY <2>10 DEF Recover, Types, TypeOK
    <2>11. CASE NothingFollows(c)
      BY <2>11 DEF NothingFollows, Types, TypeOK
    <2>12. CASE CreateTakesTrigger(c)
      BY <2>12 DEF CreateTakesTrigger, Types, TypeOK
    <2>13. CASE CreateQueues(c)
      BY <2>13 DEF CreateQueues, Types, TypeOK
    <2>14. CASE CreateStarts(c)
      BY <2>14 DEF CreateStarts, Types, TypeOK
    <2>15. CASE Spawned(c)
      BY <2>15 DEF Spawned, Types, TypeOK
    <2>16. CASE SpawnFails(c)
      BY <2>16 DEF SpawnFails, Types, TypeOK
    <2>17. CASE Entered(c)
      BY <2>17 DEF Entered, Types, TypeOK
    <2>18. CASE Continued(c)
      BY <2>18 DEF Continued, Kill, EndFinished, Types, TypeOK
    <2>19. CASE NotContinued(c)
      BY <2>19 DEF NotContinued, Types, TypeOK
    <2>20. CASE LaneEnds(c)
      BY <2>20 DEF LaneEnds, Kill, EndFinished, Types, TypeOK
    <2>21. CASE LaneAdvances(c)
      BY <2>21 DEF LaneAdvances, Kill, EndFinished, Types, TypeOK
    <2>22. CASE LaneTearsDown(c)
      BY <2>22 DEF LaneTearsDown, Types, TypeOK
    <2>23. CASE EndOne(c)
      BY <2>23 DEF EndOne, Kill, Types, TypeOK
    <2>24. CASE AllEnded(c)
      BY <2>24 DEF AllEnded, Kill, EndFinished, Types, TypeOK
    <2>25. CASE EnterLane(c)
      BY <2>25 DEF EnterLane, Types, TypeOK
    <2>26. CASE Register(c)
      BY <2>26 DEF Register, Types, TypeOK
    <2> QED BY <1>1, <2>1, <2>2, <2>3, <2>4, <2>5, <2>6, <2>7, <2>8, <2>9, <2>10, <2>11, <2>12, <2>13, <2>14,
               <2>15, <2>16, <2>17, <2>18, <2>19, <2>20, <2>21, <2>22, <2>23, <2>24, <2>25, <2>26 DEF CallStep
  <1>2. ASSUME NEW s \in Session, Report(s) \/ TurnEnds(s) \/ TurnFails(s) \/ PromptBroke(s) \/ Exits(s)
        PROVE  proc[r] = "none"
    <2>1. CASE Report(s)
      BY <2>1 DEF Report, Types, TypeOK
    <2>2. CASE TurnEnds(s)
      BY <2>2 DEF TurnEnds, Types, TypeOK
    <2>3. CASE TurnFails(s)
      BY <2>3 DEF TurnFails, Types, TypeOK
    <2>4. CASE PromptBroke(s)
      BY <2>4 DEF PromptBroke, Types, TypeOK
    <2>5. CASE Exits(s)
      BY <2>5 DEF Exits, Types, TypeOK
    <2> QED BY <1>2, <2>1, <2>2, <2>3, <2>4, <2>5
  <1>3. CASE QueueStarts
    BY <1>3 DEF QueueStarts, Types, TypeOK
  <1>4. CASE RemoveWorktree
    BY <1>4 DEF RemoveWorktree, Types, TypeOK
  <1>5. CASE KeepWorktree
    BY <1>5 DEF KeepWorktree, Types, TypeOK
  <1>6. CASE ScanAdopts
    BY <1>6 DEF ScanAdopts, Types, TypeOK
  <1>7. CASE ScanTimesOut
    BY <1>7 DEF ScanTimesOut, Types, TypeOK
  <1>8. ASSUME NEW to \in Columns, MoveCard(to) PROVE proc[r] = "none"
    BY <1>8 DEF MoveCard, Types, TypeOK
  <1>9. CASE UserBlocks
    BY <1>9 DEF UserBlocks, Types, TypeOK
  <1>10. CASE UNCHANGED vars
    BY <1>10 DEF vars
  <1> QED BY <1>1, <1>2, <1>3, <1>4, <1>5, <1>6, <1>7, <1>8, <1>9, <1>10 DEF Next

\* It is in no set of sessions and no automation's.
LEMMA StepUnnamed ==
  ASSUME Types, NEW r \in Session, proc'[r] = "none", proc[r] = "none", Unknown(r), [Next]_vars
  PROVE  Unnamed(r)'
  <1> USE DEF cardVars, agentVars, tellVars, autoVars, tearVars
  <1>1. ASSUME NEW c \in Calls, CallStep(c) PROVE Unnamed(r)'
    <2>1. CASE EndDeferred(c)
      <3>1. call[c].sid # r
        BY DEF Unknown, UnknownTo
      <3> QED BY <2>1, <3>1 DEF EndDeferred, Kill, Unknown, Unnamed
    <2>2. CASE Killed(c)
      BY <2>2 DEF Killed, Unknown, Unnamed
    <2>3. CASE StartPending(c)
      BY <2>3 DEF StartPending, Unknown, Unnamed
    <2>4. CASE SettleEnded(c)
      BY <2>4 DEF SettleEnded, Unknown, Unnamed
    <2>5. CASE WindDown(c)
      <3>1. call[c].sid # r
        BY DEF Unknown, UnknownTo
      <3> QED BY <2>5, <3>1 DEF WindDown, EndFinished, Kill, Unknown, Unnamed
    <2>6. CASE SettleUnfollowed(c)
      <3>1. call[c].sid # r /\ call[c].got # r /\ Unnamed(r)
        BY DEF Unknown, UnknownTo
      <3>2. \A a \in Visit : auto'[a].sid # r
        <4>1. auto' = Adopted
          BY <2>6 DEF SettleUnfollowed
        <4> QED BY <3>1, <4>1, AdoptedType, AdoptedFields DEF Unnamed, Unknown, Absent
      <3> QED BY <2>6, <3>1, <3>2 DEF SettleUnfollowed, Unnamed
    <2>7. CASE SettleTeardown(c)
      BY <2>7, AutoUnfold DEF SettleTeardown, AutoType, Unknown, Unnamed
    <2>8. CASE StepOver(c)
      <3>1. call[c].sid # r /\ call[c].got # r /\ Unnamed(r)
        BY DEF Unknown, UnknownTo
      <3>2. \A a \in Visit : auto'[a].sid # r
        <4>1. auto' = Adopted
          BY <2>8 DEF StepOver
        <4> QED BY <3>1, <4>1, AdoptedType, AdoptedFields DEF Unnamed, Unknown, Absent
      <3> QED BY <2>8, <3>1, <3>2 DEF StepOver, Kill, Unnamed
    <2>9. CASE StartNext(c)
      <3>1. call[c].sid # r /\ call[c].got # r /\ Unnamed(r)
        BY DEF Unknown, UnknownTo
      <3>2. \A a \in Visit : auto'[a].sid # r
        BY <2>9, <3>1, StartNextAuto, CardTypes DEF SameAutos, Unnamed
      <3> QED BY <2>9, <3>1, <3>2 DEF StartNext, Unnamed
    <2>10. CASE Recover(c)
      <3>1. call[c].sid # r /\ call[c].got # r /\ Unnamed(r)
        BY DEF Unknown, UnknownTo
      <3>2. \A a \in Visit : auto'[a].sid # r
        BY <2>10, <3>1, RecoverAuto, CardTypes DEF SameAutos, Unnamed
      <3> QED BY <2>10, <3>1, <3>2 DEF Recover, Unnamed
    <2>11. CASE NothingFollows(c)
      BY <2>11 DEF NothingFollows, Unknown, Unnamed
    <2>12. CASE CreateTakesTrigger(c)
      BY <2>12 DEF CreateTakesTrigger, Unknown, Unnamed
    <2>13. CASE CreateQueues(c)
      BY <2>13 DEF CreateQueues, Unknown, Unnamed
    <2>14. CASE CreateStarts(c)
      BY <2>14 DEF CreateStarts, Unknown, Unnamed
    <2>15. CASE Spawned(c)
      BY <2>15 DEF Spawned, Unknown, Unnamed
    <2>16. CASE SpawnFails(c)
      BY <2>16 DEF SpawnFails, Unknown, Unnamed
    <2>17. CASE Entered(c)
      <3>1. call[c].sid # r /\ call[c].got # r /\ Unnamed(r)
        BY DEF Unknown, UnknownTo
      <3>2. \A a \in Visit : auto'[a].sid # r
        <4>1. call[c].auto \in Visit /\ auto' = WithSession(c)
          BY <2>17 DEF Entered, At, Types, CallsOK, CallOK, Enters
        <4> QED BY <3>1, <4>1, WithSessionType DEF Unnamed
      <3> QED BY <2>17, <3>1, <3>2 DEF Entered, Unnamed
    <2>18. CASE Continued(c)
      <3>1. call[c].sid # r /\ call[c].got # r /\ Unnamed(r)
        BY DEF Unknown, UnknownTo
      <3>2. \A a \in Visit : auto'[a].sid # r
        BY <2>18, <3>1, ContinuedAuto, CardTypes DEF SameAutos, Unnamed
      <3> QED BY <2>18, <3>1, <3>2 DEF Continued, EndFinished, Kill, Unnamed
    <2>19. CASE NotContinued(c)
      <3>1. call[c].sid # r /\ call[c].got # r /\ Unnamed(r)
        BY DEF Unknown, UnknownTo
      <3>2. \A a \in Visit : auto'[a].sid # r
        BY <2>19, <3>1, NotContinuedAuto, CardTypes DEF SameAutos, Unnamed
      <3> QED BY <2>19, <3>1, <3>2 DEF NotContinued, Unnamed
    <2>20. CASE LaneEnds(c)
      <3>1. call[c].sid # r /\ call[c].got # r /\ Unnamed(r)
        BY DEF Unknown, UnknownTo
      <3>2. \A a \in Visit : auto'[a].sid # r
        <4>1. call[c].pc = "finish" /\ auto' = Over(c)
          BY <2>20 DEF LaneEnds, At
        <4> QED BY <3>1, <4>1, OverType DEF Unnamed
      <3> QED BY <2>20, <3>1, <3>2 DEF LaneEnds, EndFinished, Kill, Unnamed
    <2>21. CASE LaneAdvances(c)
      <3>1. r \notin departed'
        <4>1. call[c].pc = "finish" /\ Unnamed(r)
          BY <2>21 DEF LaneAdvances, At, Unknown
        <4>2. \A a \in Visit : Over(c)[a].sid # r
          BY <4>1, OverType DEF Unnamed
        <4> QED BY <2>21, <4>1, <4>2 DEF LaneAdvances, LeaveLane, Unnamed, Types, TypeOK
      <3>2. call[c].sid # r /\ call[c].got # r /\ Unnamed(r)
        BY DEF Unknown, UnknownTo
      <3>3. \A a \in Visit : auto'[a].sid # r
        <4>1. call[c].pc = "finish" /\ auto' = Over(c)
          BY <2>21 DEF LaneAdvances, At
        <4> QED BY <3>2, <4>1, OverType DEF Unnamed
      <3> QED BY <2>21, <3>2, <3>3, <3>1 DEF LaneAdvances, EndFinished, Kill, Unnamed
    <2>22. CASE LaneTearsDown(c)
      <3>1. r \notin SessionsOf(call[c].copy)
        BY DEF SessionsOf, Unknown, UnknownTo, Absent
      <3>2. call[c].sid # r /\ call[c].got # r /\ Unnamed(r)
        BY DEF Unknown, UnknownTo
      <3>3. \A a \in Visit : auto'[a].sid # r
        <4>1. call[c].pc = "finish" /\ auto' = Over(c)
          BY <2>22 DEF LaneTearsDown, At
        <4> QED BY <3>2, <4>1, OverType DEF Unnamed
      <3> QED BY <2>22, <3>2, <3>3, <3>1 DEF LaneTearsDown, Unnamed
    <2>23. CASE EndOne(c)
      <3>1. Min(call[c].todo) \in call[c].todo
        BY <2>23, TodoMin DEF EndOne, Types, CallsOK, CallType
      <3>2. Min(call[c].todo) # r
        BY <3>1 DEF Unknown, UnknownTo
      <3> QED BY <2>23, <3>2 DEF EndOne, Kill, Unknown, Unnamed
    <2>24. CASE AllEnded(c)
      <3>1. call[c].sid # r
        BY DEF Unknown, UnknownTo
      <3> QED BY <2>24, <3>1 DEF AllEnded, EndFinished, Kill, Unknown, Unnamed
    <2>25. CASE EnterLane(c)
      BY <2>25 DEF EnterLane, Unknown, Unnamed
    <2>26. CASE Register(c)
      <3>1. call[c].sid # r /\ call[c].got # r /\ Unnamed(r)
        BY DEF Unknown, UnknownTo
      <3>2. \A a \in Visit : auto'[a].sid # r
        BY <2>26, <3>1, RegisterAuto, CardTypes DEF SameAutos, Unnamed
      <3> QED BY <2>26, <3>1, <3>2 DEF Register, Unnamed
    <2> QED BY <1>1, <2>1, <2>2, <2>3, <2>4, <2>5, <2>6, <2>7, <2>8, <2>9, <2>10, <2>11, <2>12, <2>13, <2>14,
               <2>15, <2>16, <2>17, <2>18, <2>19, <2>20, <2>21, <2>22, <2>23, <2>24, <2>25, <2>26 DEF CallStep
  <1>2. ASSUME NEW s \in Session, Report(s) \/ TurnEnds(s) \/ TurnFails(s) \/ PromptBroke(s) \/ Exits(s)
        PROVE  Unnamed(r)'
    <2>1. CASE Report(s)
      BY <2>1 DEF Report, Unknown, Unnamed
    <2>2. CASE TurnEnds(s)
      BY <2>2 DEF TurnEnds, Unknown, Unnamed
    <2>3. CASE TurnFails(s)
      BY <2>3 DEF TurnFails, Unknown, Unnamed
    <2>4. CASE PromptBroke(s)
      BY <2>4 DEF PromptBroke, Unknown, Unnamed
    <2>5. CASE Exits(s)
      BY <2>5 DEF Exits, Unknown, Unnamed
    <2> QED BY <1>2, <2>1, <2>2, <2>3, <2>4, <2>5
  <1>3. CASE QueueStarts
    BY <1>3 DEF QueueStarts, Unknown, Unnamed
  <1>4. CASE RemoveWorktree
    BY <1>4 DEF RemoveWorktree, Unknown, Unnamed
  <1>5. CASE KeepWorktree
    BY <1>5 DEF KeepWorktree, Unknown, Unnamed
  <1>6. CASE ScanAdopts
    <2>1. \A a \in Visit : auto'[a].sid # r
      BY <1>6, AdoptedType, AdoptedFields DEF ScanAdopts, Unnamed, Unknown, Absent
    <2> QED BY <1>6, <2>1 DEF ScanAdopts, Unknown, Unnamed
  <1>7. CASE ScanTimesOut
    BY <1>7, AutoUnfold DEF ScanTimesOut, AutoType, Unknown, Unnamed
  <1>8. ASSUME NEW to \in Columns, MoveCard(to) PROVE Unnamed(r)'
    BY <1>8, AutoUnfold DEF MoveCard, LeaveLane, Unknown, Unnamed, Types, TypeOK
  <1>9. CASE UserBlocks
    <2> DEFINE stale == {s \in Session : card.rec[s] = "running" /\ run[s].lane = card.col} \cup ({card.trigger} \ {None})
               left == IF active # None /\ auto[active].lane = card.col /\ auto[active].status = "running"
                       THEN {auto[active].sid} \ {None} ELSE {}
    <2>1. r \notin stale /\ r \notin left
      BY DEF Types, TypeOK, Unknown, Unnamed, Absent
    <2>2. /\ departed' = (departed \cup left) \ stale /\ teardown' = teardown \cup stale
          /\ cardEnded' = cardEnded \cup stale /\ deferred' = deferred \ stale
      BY <1>9 DEF UserBlocks
    <2> HIDE DEF stale, left
    <2> QED BY <1>9, <2>1, <2>2 DEF UserBlocks, Unknown, Unnamed
  <1>10. CASE UNCHANGED vars
    BY <1>10 DEF vars, Unknown, Unnamed
  <1> QED BY <1>1, <1>2, <1>3, <1>4, <1>5, <1>6, <1>7, <1>8, <1>9, <1>10 DEF Next

\* It is absent from the card.
LEMMA StepAbsent ==
  ASSUME Types, NEW r \in Session, proc'[r] = "none", proc[r] = "none", Unknown(r), [Next]_vars
  PROVE  (run[r] = NoRun /\ Absent(card, r))'
  <1> USE DEF cardVars, agentVars, tellVars, autoVars, tearVars
  <1>1. ASSUME NEW c \in Calls, CallStep(c) PROVE (run[r] = NoRun /\ Absent(card, r))'
    <2>1. CASE EndDeferred(c)
      BY <2>1 DEF EndDeferred, Unknown, Absent
    <2>2. CASE Killed(c)
      BY <2>2 DEF Killed, Unknown, Absent
    <2>3. CASE StartPending(c)
      BY <2>3 DEF StartPending, Unknown, Absent
    <2>4. CASE SettleEnded(c)
      <3>1. call[c].sid \in Session
        BY <2>4 DEF SettleEnded, Routing, At, Types, CallsOK, CallOK, Receives
      <3> QED BY <2>4, <3>1, AbsentSettled DEF SettleEnded, Unknown
    <2>5. CASE WindDown(c)
      <3>1. card.rec[call[c].sid] = "running" => call[c].sid # r
        BY DEF Unknown, Absent
      <3>2. card' = Close(card, call[c].sid, "completed") /\ run' = run
        BY <2>5 DEF WindDown
      <3> QED BY <3>1, <3>2 DEF Close, Unknown, Absent, Types, TypeOK, Card
    <2>6. CASE SettleUnfollowed(c)
      <3>1. call[c].sid \in Session
        BY <2>6 DEF SettleUnfollowed, Own, Routing, At, Types, CallsOK, CallOK, Receives
      <3> QED BY <2>6, <3>1, AbsentSettled DEF SettleUnfollowed, Unknown
    <2>7. CASE SettleTeardown(c)
      <3>1. call[c].sid \in Session
        BY <2>7 DEF SettleTeardown, Own, Routing, At, Types, CallsOK, CallOK, Receives
      <3> QED BY <2>7, <3>1, AbsentSettled DEF SettleTeardown, Unknown
    <2>8. CASE StepOver(c)
      BY <2>8 DEF StepOver, Unknown, Absent
    <2>9. CASE StartNext(c)
      <3>1. call[c].copy \in Card /\ Absent(call[c].copy, r) /\ Absent(card, r)
        BY DEF Types, CallsOK, CallType, Unknown, UnknownTo
      <3>2. Handles(call[c])
        BY <2>9 DEF StartNext, At, Handles
      <3>3. Cleared(c) \in Card /\ Absent(Cleared(c), r)
        BY <3>1, <3>2, ClearedType, AbsentJudged
      <3> QED BY <2>9, <3>1, <3>3, AbsentSaved DEF StartNext, Restart, Unknown
    <2>10. CASE Recover(c)
      <3>1. call[c].copy \in Card /\ Absent(call[c].copy, r) /\ Absent(card, r)
        BY DEF Types, CallsOK, CallType, Unknown, UnknownTo
      <3>2. Handles(call[c])
        BY <2>10 DEF Recover, At, Handles
      <3>3. Cleared(c) \in Card /\ Absent(Cleared(c), r)
        BY <3>1, <3>2, ClearedType, AbsentJudged
      <3> QED BY <2>10, <3>1, <3>3, AbsentSaved DEF Recover, Restart, Unknown
    <2>11. CASE NothingFollows(c)
      BY <2>11 DEF NothingFollows, Unknown, Absent
    <2>12. CASE CreateTakesTrigger(c)
      BY <2>12 DEF CreateTakesTrigger, Unknown, Absent
    <2>13. CASE CreateQueues(c)
      BY <2>13 DEF CreateQueues, Unknown, Absent
    <2>14. CASE CreateStarts(c)
      BY <2>14 DEF CreateStarts, Unknown, Absent
    <2>15. CASE Spawned(c)
      <3>1. call[c].row \in Card /\ Absent(call[c].row, r) /\ Absent(card, r)
        BY DEF Types, CallsOK, CallType, Unknown, UnknownTo
      <3>2. PICK s \in Session : /\ proc' = [proc EXCEPT ![s] = "working"] /\ run' = [run EXCEPT ![s] = call[c].job]
                                   /\ card' = Saved(WithRun(call[c].row, s))
        BY <2>15 DEF Spawned
      <3>3. s # r
        BY <3>2 DEF Types, TypeOK
      <3>4. WithRun(call[c].row, s) \in Card /\ Absent(WithRun(call[c].row, s), r)
        BY <3>1, <3>3, WithRunType DEF Absent
      <3> QED BY <3>1, <3>2, <3>3, <3>4, AbsentSaved DEF Unknown, Types, TypeOK
    <2>16. CASE SpawnFails(c)
      <3>1. call[c].row \in Card /\ Absent(call[c].row, r) /\ Absent(card, r)
        BY DEF Types, CallsOK, CallType, Unknown, UnknownTo
      <3> QED BY <2>16, <3>1, AbsentSaved DEF SpawnFails, Unknown
    <2>17. CASE Entered(c)
      BY <2>17 DEF Entered, Unknown, Absent
    <2>18. CASE Continued(c)
      BY <2>18 DEF Continued, Unknown, Absent
    <2>19. CASE NotContinued(c)
      BY <2>19 DEF NotContinued, Unknown, Absent
    <2>20. CASE LaneEnds(c)
      <3>1. call[c].copy \in Card /\ Absent(call[c].copy, r) /\ Absent(card, r)
        BY DEF Types, CallsOK, CallType, Unknown, UnknownTo
      <3> QED BY <2>20, <3>1, AbsentSaved DEF LaneEnds, Unknown
    <2>21. CASE LaneAdvances(c)
      <3>1. call[c].copy \in Card /\ Absent(call[c].copy, r) /\ Absent(card, r)
        BY DEF Types, CallsOK, CallType, Unknown, UnknownTo
      <3>2. Saved(call[c].copy) \in Card /\ Absent(Saved(call[c].copy), r)
        BY <3>1, SavedType, AbsentSaved DEF Types, TypeOK
      <3> QED BY <2>21, <3>2, CardTypes DEF LaneAdvances, Absent, Unknown, Card
    <2>22. CASE LaneTearsDown(c)
      <3>1. call[c].copy \in Card /\ Absent(call[c].copy, r) /\ Absent(card, r)
        BY DEF Types, CallsOK, CallType, Unknown, UnknownTo
      <3> QED BY <2>22, <3>1, AbsentSaved DEF LaneTearsDown, Unknown
    <2>23. CASE EndOne(c)
      BY <2>23 DEF EndOne, Unknown, Absent
    <2>24. CASE AllEnded(c)
      BY <2>24 DEF AllEnded, Unknown, Absent
    <2>25. CASE EnterLane(c)
      BY <2>25 DEF EnterLane, Unknown, Absent
    <2>26. CASE Register(c)
      BY <2>26 DEF Register, Unknown, Absent
    <2> QED BY <1>1, <2>1, <2>2, <2>3, <2>4, <2>5, <2>6, <2>7, <2>8, <2>9, <2>10, <2>11, <2>12, <2>13, <2>14,
               <2>15, <2>16, <2>17, <2>18, <2>19, <2>20, <2>21, <2>22, <2>23, <2>24, <2>25, <2>26 DEF CallStep
  <1>2. ASSUME NEW s \in Session, Report(s) \/ TurnEnds(s) \/ TurnFails(s) \/ PromptBroke(s) \/ Exits(s)
        PROVE  (run[r] = NoRun /\ Absent(card, r))'
    <2>1. CASE Report(s)
      BY <2>1 DEF Report, Unknown, Absent
    <2>2. CASE TurnEnds(s)
      BY <2>2 DEF TurnEnds, Unknown, Absent
    <2>3. CASE TurnFails(s)
      BY <2>3 DEF TurnFails, Unknown, Absent
    <2>4. CASE PromptBroke(s)
      BY <2>4 DEF PromptBroke, Unknown, Absent
    <2>5. CASE Exits(s)
      BY <2>5 DEF Exits, Unknown, Absent
    <2> QED BY <1>2, <2>1, <2>2, <2>3, <2>4, <2>5
  <1>3. CASE QueueStarts
    BY <1>3 DEF QueueStarts, Unknown, Absent
  <1>4. CASE RemoveWorktree
    BY <1>4 DEF RemoveWorktree, Unknown, Absent
  <1>5. CASE KeepWorktree
    BY <1>5 DEF KeepWorktree, Unknown, Absent
  <1>6. CASE ScanAdopts
    BY <1>6 DEF ScanAdopts, Unknown, Absent
  <1>7. CASE ScanTimesOut
    BY <1>7 DEF ScanTimesOut, Unknown, Absent
  <1>8. ASSUME NEW to \in Columns, MoveCard(to) PROVE (run[r] = NoRun /\ Absent(card, r))'
    BY <1>8, CardTypes DEF MoveCard, Unknown, Absent, Types, TypeOK, Card
  <1>9. CASE UserBlocks
    <2>1. /\ card'.trigger = None /\ run' = run
          /\ card'.rec[r] = "none" \/ (card.rec[r] = "running" \/ card.trigger = r)
      BY <1>9 DEF UserBlocks, Unknown, Absent, Types, TypeOK, Card
    <2> QED BY <2>1, CardTypes DEF Unknown, Absent
  <1>10. CASE UNCHANGED vars
    BY <1>10 DEF vars, Unknown, Absent
  <1> QED BY <1>1, <1>2, <1>3, <1>4, <1>5, <1>6, <1>7, <1>8, <1>9, <1>10 DEF Next

\* It is unknown to the calls.
LEMMA StepUnknownTo ==
  ASSUME Types, NEW r \in Session, proc'[r] = "none", proc[r] = "none", Unknown(r), [Next]_vars
  PROVE  \A c \in Calls : UnknownTo(call[c], r)'
  <1> USE DEF cardVars, agentVars, tellVars, autoVars, tearVars
  <1>1. ASSUME NEW c \in Calls, CallStep(c) PROVE \A d \in Calls : UnknownTo(call[d], r)'
    <2>1. CASE EndDeferred(c)
      <3>1. UnknownTo(call[c], r)
        BY DEF Unknown
      <3>2. Others(c) /\ UnknownTo(call[c], r)'
        BY <2>1, <3>1, EndDeferredCall, IdleFields, AbsentNoCard, CardTypes DEF SameEvent, SamePlan,
               SameAnswer, SameTodo, UnknownTo, Absent
      <3> QED BY <3>2 DEF Others, Unknown, UnknownTo, Absent
    <2>2. CASE Killed(c)
      <3>1. UnknownTo(call[c], r)
        BY DEF Unknown
      <3>2. Others(c) /\ UnknownTo(call[c], r)'
        BY <2>2, <3>1, KilledCall, IdleFields, AbsentNoCard, CardTypes DEF SameEvent, SamePlan, SameAnswer,
               SameTodo, UnknownTo, Absent
      <3> QED BY <3>2 DEF Others, Unknown, UnknownTo, Absent
    <2>3. CASE StartPending(c)
      <3>1. UnknownTo(call[c], r)
        BY DEF Unknown
      <3>2. Others(c) /\ UnknownTo(call[c], r)'
        BY <2>3, <3>1, StartPendingCall, IdleFields, AbsentNoCard, CardTypes DEF SameEvent, SamePlan,
               SameAnswer, SameTodo, UnknownTo, Absent
      <3> QED BY <3>2 DEF Others, Unknown, UnknownTo, Absent
    <2>4. CASE SettleEnded(c)
      <3>1. Others(c) /\ call'[c] = Idle
        BY <2>4, ReturnCall DEF SettleEnded
      <3> QED BY <3>1, IdleFields, AbsentNoCard, CardTypes DEF Others, Unknown, UnknownTo, Absent
    <2>5. CASE WindDown(c)
      <3>1. Others(c) /\ call'[c] = Idle
        BY <2>5, ReturnCall DEF WindDown
      <3> QED BY <3>1, IdleFields, AbsentNoCard, CardTypes DEF Others, Unknown, UnknownTo, Absent
    <2>6. CASE SettleUnfollowed(c)
      <3>1. Others(c) /\ call'[c] = Idle
        BY <2>6, ReturnCall DEF SettleUnfollowed
      <3> QED BY <3>1, IdleFields, AbsentNoCard, CardTypes DEF Others, Unknown, UnknownTo, Absent
    <2>7. CASE SettleTeardown(c)
      <3>1. Others(c) /\ call'[c] = Idle
        BY <2>7, ReturnCall DEF SettleTeardown
      <3> QED BY <3>1, IdleFields, AbsentNoCard, CardTypes DEF Others, Unknown, UnknownTo, Absent
    <2>8. CASE StepOver(c)
      <3>1. Absent(card, r)
        BY DEF Unknown
      <3>2. UnknownTo(call[c], r)
        BY DEF Unknown
      <3>3. Others(c) /\ UnknownTo(call[c], r)'
        BY <2>8, <3>2, <3>1, StepOverCall, IdleFields, AbsentNoCard, CardTypes DEF SameAnswer, SameTodo,
               UnknownTo, Absent
      <3> QED BY <3>3 DEF Others, Unknown, UnknownTo, Absent
    <2>9. CASE StartNext(c)
      <3>1. Absent(Cleared(c), r) /\ Absent(Judged(c), r)
        <4>1. Handles(call[c])
          BY <2>9 DEF StartNext, At, Handles
        <4> QED BY <4>1, AbsentJudged DEF Unknown, UnknownTo
      <3>2. UnknownTo(call[c], r)
        BY DEF Unknown
      <3>3. Others(c) /\ UnknownTo(call[c], r)'
        BY <2>9, <3>2, <3>1, StartNextCall, IdleFields, AbsentNoCard, CardTypes DEF SameEvent, SameAnswer,
               SameTodo, UnknownTo, Absent
      <3> QED BY <3>3 DEF Others, Unknown, UnknownTo, Absent
    <2>10. CASE Recover(c)
      <3>1. Absent(Cleared(c), r) /\ Absent(Judged(c), r)
        <4>1. Handles(call[c])
          BY <2>10 DEF Recover, At, Handles
        <4> QED BY <4>1, AbsentJudged DEF Unknown, UnknownTo
      <3>2. UnknownTo(call[c], r)
        BY DEF Unknown
      <3>3. Others(c) /\ UnknownTo(call[c], r)'
        BY <2>10, <3>2, <3>1, RecoverCall, IdleFields, AbsentNoCard, CardTypes DEF SameEvent, SameAnswer,
               SameTodo, UnknownTo, Absent
      <3> QED BY <3>3 DEF Others, Unknown, UnknownTo, Absent
    <2>11. CASE NothingFollows(c)
      <3>1. Absent(Cleared(c), r) /\ Absent(Judged(c), r)
        <4>1. Handles(call[c])
          BY <2>11 DEF NothingFollows, At, Handles
        <4> QED BY <4>1, AbsentJudged DEF Unknown, UnknownTo
      <3>2. UnknownTo(call[c], r)
        BY DEF Unknown
      <3>3. Others(c) /\ UnknownTo(call[c], r)'
        BY <2>11, <3>2, <3>1, NothingFollowsCall, IdleFields, AbsentNoCard, CardTypes DEF SameEvent,
               SameAnswer, SameTodo, UnknownTo, Absent
      <3> QED BY <3>3 DEF Others, Unknown, UnknownTo, Absent
    <2>12. CASE CreateTakesTrigger(c)
      <3>1. card.trigger # r
        BY DEF Unknown, Absent
      <3>2. UnknownTo(call[c], r)
        BY DEF Unknown
      <3>3. Others(c) /\ UnknownTo(call[c], r)'
        BY <2>12, <3>2, <3>1, CreateTakesTriggerCall, IdleFields, AbsentNoCard, CardTypes DEF SameEvent,
               SamePlan, SameTodo, UnknownTo, Absent
      <3> QED BY <3>3 DEF Others, Unknown, UnknownTo, Absent
    <2>13. CASE CreateQueues(c)
      <3>1. UnknownTo(call[c], r)
        BY DEF Unknown
      <3>2. Others(c) /\ UnknownTo(call[c], r)'
        BY <2>13, <3>1, CreateQueuesCall, IdleFields, AbsentNoCard, CardTypes DEF SameEvent, SamePlan,
               SameTodo, UnknownTo, Absent
      <3> QED BY <3>2 DEF Others, Unknown, UnknownTo, Absent
    <2>14. CASE CreateStarts(c)
      <3>1. Absent(card, r)
        BY DEF Unknown
      <3>2. UnknownTo(call[c], r)
        BY DEF Unknown
      <3>3. Others(c) /\ UnknownTo(call[c], r)'
        BY <2>14, <3>2, <3>1, CreateStartsCall, IdleFields, AbsentNoCard, CardTypes DEF SameEvent, SameAnswer,
               SameTodo, UnknownTo, Absent
      <3> QED BY <3>3 DEF Others, Unknown, UnknownTo, Absent
    <2>15. CASE Spawned(c)
      <3>1. PICK s \in Session : /\ proc[s] = "none" /\ proc' = [proc EXCEPT ![s] = "working"]
                                   /\ IF call[c].why = "queue" THEN Return(c) ELSE Answer(c, "session", s)
        BY <2>15 DEF Spawned
      <3>2. s # r
        BY <3>1 DEF Types, TypeOK
      <3>3. UnknownTo(call[c], r)
        BY DEF Unknown
      <3>4. /\ Others(c)
            /\ \/ call'[c] = Idle
               \/ call'[c].got = s /\ SameEvent(c) /\ SamePlan(c) /\ SameTodo(c)
        BY <2>15, <3>1, SpawnedCall DEF Spawned, At
      <3>5. UnknownTo(call[c], r)'
        BY <3>2, <3>3, <3>4, IdleFields, AbsentNoCard, CardTypes DEF SameEvent, SamePlan, SameTodo, UnknownTo,
               Absent
      <3> QED BY <3>4, <3>5 DEF Others, Unknown, UnknownTo, Absent
    <2>16. CASE SpawnFails(c)
      <3>1. UnknownTo(call[c], r)
        BY DEF Unknown
      <3>2. Others(c) /\ UnknownTo(call[c], r)'
        BY <2>16, <3>1, SpawnFailsCall, IdleFields, AbsentNoCard, CardTypes DEF SameEvent, SamePlan, SameTodo,
               UnknownTo, Absent
      <3> QED BY <3>2 DEF Others, Unknown, UnknownTo, Absent
    <2>17. CASE Entered(c)
      <3>1. Others(c) /\ call'[c] = Idle
        BY <2>17, ReturnCall DEF Entered
      <3> QED BY <3>1, IdleFields, AbsentNoCard, CardTypes DEF Others, Unknown, UnknownTo, Absent
    <2>18. CASE Continued(c)
      <3>1. Others(c) /\ call'[c] = Idle
        BY <2>18, ReturnCall DEF Continued
      <3> QED BY <3>1, IdleFields, AbsentNoCard, CardTypes DEF Others, Unknown, UnknownTo, Absent
    <2>19. CASE NotContinued(c)
      <3>1. UnknownTo(call[c], r)
        BY DEF Unknown
      <3>2. Others(c) /\ UnknownTo(call[c], r)'
        BY <2>19, <3>1, NotContinuedCall, IdleFields, AbsentNoCard, CardTypes DEF SameEvent, SamePlan,
               SameAnswer, SameTodo, UnknownTo, Absent
      <3> QED BY <3>2 DEF Others, Unknown, UnknownTo, Absent
    <2>20. CASE LaneEnds(c)
      <3>1. Others(c) /\ call'[c] = Idle
        BY <2>20, ReturnCall DEF LaneEnds
      <3> QED BY <3>1, IdleFields, AbsentNoCard, CardTypes DEF Others, Unknown, UnknownTo, Absent
    <2>21. CASE LaneAdvances(c)
      <3>1. UnknownTo(call[c], r)
        BY DEF Unknown
      <3>2. Others(c) /\ UnknownTo(call[c], r)'
        BY <2>21, <3>1, LaneAdvancesCall, IdleFields, AbsentNoCard, CardTypes DEF Arrives, UnknownTo, Absent
      <3> QED BY <3>2 DEF Others, Unknown, UnknownTo, Absent
    <2>22. CASE LaneTearsDown(c)
      <3>1. r \notin SessionsOf(call[c].copy)
        BY DEF SessionsOf, Unknown, UnknownTo, Absent
      <3>2. UnknownTo(call[c], r)
        BY DEF Unknown
      <3>3. Others(c) /\ UnknownTo(call[c], r)'
        BY <2>22, <3>2, <3>1, LaneTearsDownCall, IdleFields, AbsentNoCard, CardTypes DEF SameEvent, SamePlan,
               SameAnswer, UnknownTo, Absent
      <3> QED BY <3>3 DEF Others, Unknown, UnknownTo, Absent
    <2>23. CASE EndOne(c)
      <3>1. UnknownTo(call[c], r)
        BY DEF Unknown
      <3>2. Others(c) /\ UnknownTo(call[c], r)'
        BY <2>23, <3>1, EndOneCall, IdleFields, AbsentNoCard, CardTypes DEF SameEvent, SamePlan, SameAnswer,
               UnknownTo, Absent
      <3> QED BY <3>2 DEF Others, Unknown, UnknownTo, Absent
    <2>24. CASE AllEnded(c)
      <3>1. Others(c) /\ call'[c] = Idle
        BY <2>24, ReturnCall DEF AllEnded
      <3> QED BY <3>1, IdleFields, AbsentNoCard, CardTypes DEF Others, Unknown, UnknownTo, Absent
    <2>25. CASE EnterLane(c)
      <3>1. UnknownTo(call[c], r)
        BY DEF Unknown
      <3>2. Others(c) /\ UnknownTo(call[c], r)'
        BY <2>25, <3>1, EnterLaneCall, IdleFields, AbsentNoCard, CardTypes DEF SameEvent, SamePlan,
               SameAnswer, SameTodo, UnknownTo, Absent
      <3> QED BY <3>2 DEF Others, Unknown, UnknownTo, Absent
    <2>26. CASE Register(c)
      <3>1. UnknownTo(call[c], r)
        BY DEF Unknown
      <3>2. Others(c) /\ UnknownTo(call[c], r)'
        BY <2>26, <3>1, RegisterCall, IdleFields, AbsentNoCard, CardTypes DEF SameEvent, SameAnswer, SameTodo,
               UnknownTo, Absent
      <3> QED BY <3>2 DEF Others, Unknown, UnknownTo, Absent
    <2> QED BY <1>1, <2>1, <2>2, <2>3, <2>4, <2>5, <2>6, <2>7, <2>8, <2>9, <2>10, <2>11, <2>12, <2>13, <2>14,
               <2>15, <2>16, <2>17, <2>18, <2>19, <2>20, <2>21, <2>22, <2>23, <2>24, <2>25, <2>26 DEF CallStep
  <1>2. ASSUME NEW s \in Session, Report(s) \/ TurnEnds(s) \/ TurnFails(s) \/ PromptBroke(s) \/ Exits(s)
        PROVE  \A c \in Calls : UnknownTo(call[c], r)'
    <2>1. CASE Report(s)
      <3>1. PICK d \in Calls : Taken(d, s, "report")
        BY <2>1, EmitCall DEF Report, Events
      <3>2. s # r
        BY <2>1 DEF Report, Unknown, Unnamed
      <3> QED BY <3>1, <3>2, AbsentNoCard, CardTypes DEF Taken, Others, Unknown, UnknownTo, Absent
    <2>2. CASE TurnEnds(s)
      <3>1. PICK d \in Calls : Taken(d, s, "end")
        BY <2>2, EmitCall DEF TurnEnds, Events
      <3>2. s # r
        BY <2>2 DEF TurnEnds, Unknown, Unnamed
      <3> QED BY <3>1, <3>2, AbsentNoCard, CardTypes DEF Taken, Others, Unknown, UnknownTo, Absent
    <2>3. CASE TurnFails(s)
      <3>1. PICK d \in Calls : Taken(d, s, "failed")
        BY <2>3, EmitCall DEF TurnFails, Events
      <3>2. s # r
        BY <2>3 DEF TurnFails, Unknown, Unnamed
      <3> QED BY <3>1, <3>2, AbsentNoCard, CardTypes DEF Taken, Others, Unknown, UnknownTo, Absent
    <2>4. CASE PromptBroke(s)
      <3>1. PICK d \in Calls : Taken(d, s, "failed")
        BY <2>4, EmitCall DEF PromptBroke, Events
      <3>2. s # r
        BY <2>4 DEF PromptBroke, Unknown, Unnamed
      <3> QED BY <3>1, <3>2, AbsentNoCard, CardTypes DEF Taken, Others, Unknown, UnknownTo, Absent
    <2>5. CASE Exits(s)
      <3>1. PICK d \in Calls : Taken(d, s, "failed")
        BY <2>5, EmitCall DEF Exits, Events
      <3>2. s # r
        BY <2>5 DEF Exits, Unknown, Unnamed
      <3> QED BY <3>1, <3>2, AbsentNoCard, CardTypes DEF Taken, Others, Unknown, UnknownTo, Absent
    <2> QED BY <1>2, <2>1, <2>2, <2>3, <2>4, <2>5
  <1>3. CASE QueueStarts
    <2>1. CASE Startable(waiting)
      <3>1. PICK c \in Calls : /\ Others(c) /\ call'[c].row = card /\ call'[c].sid = None /\ call'[c].copy = NoCard
                               /\ call'[c].got = None /\ call'[c].todo = {}
        BY <1>3, <2>1, QueueStartsCall DEF QueueStarts, Types, WaitingOK
      <3> QED BY <3>1, AbsentNoCard, CardTypes DEF Others, Unknown, UnknownTo, Absent
    <2>2. CASE ~ Startable(waiting)
      BY <1>3, <2>2 DEF QueueStarts, Unknown, UnknownTo, Absent
    <2> QED BY <2>1, <2>2
  <1>4. CASE RemoveWorktree
    BY <1>4 DEF RemoveWorktree, Unknown, UnknownTo, Absent
  <1>5. CASE KeepWorktree
    BY <1>5 DEF KeepWorktree, Unknown, UnknownTo, Absent
  <1>6. CASE ScanAdopts
    BY <1>6 DEF ScanAdopts, Unknown, UnknownTo, Absent
  <1>7. CASE ScanTimesOut
    <2>1. PICK d \in Calls : Taken(d, auto[active].sid, "timeout")
      BY <1>7, TimesOutCall
    <2>2. auto[active].sid # r
      BY <1>7 DEF ScanTimesOut, Unknown, Unnamed, Types, TypeOK
    <2> QED BY <2>1, <2>2, AbsentNoCard, CardTypes DEF Taken, Others, Unknown, UnknownTo, Absent
  <1>8. ASSUME NEW to \in Columns, MoveCard(to) PROVE \A c \in Calls : UnknownTo(call[c], r)'
    <2>1. CASE to \in Lanes
      <3>1. PICK d \in Calls : Arrives(d, to)
        BY <1>8, <2>1, ArriveCall DEF MoveCard
      <3> QED BY <3>1, AbsentNoCard, CardTypes DEF Arrives, Others, Unknown, UnknownTo, Absent
    <2>2. CASE to \notin Lanes
      BY <1>8, <2>2 DEF MoveCard, Unknown, UnknownTo, Absent
    <2> QED BY <2>1, <2>2
  <1>9. CASE UserBlocks
    <2>1. PICK c \in Calls :
            /\ Others(c)
            /\ call'[c].todo = {s \in Session : card.rec[s] = "running" /\ run[s].lane = card.col}
                                 \cup ({card.trigger} \ {None})
            /\ call'[c].sid = None /\ call'[c].copy = NoCard /\ call'[c].row = NoCard /\ call'[c].got = None
      BY <1>9, UserBlocksCall
    <2>2. r \notin call'[c].todo
      BY <2>1 DEF Unknown, Absent
    <2> QED BY <2>1, <2>2, AbsentNoCard, CardTypes DEF Others, Unknown, UnknownTo, Absent
  <1>10. CASE UNCHANGED vars
    BY <1>10 DEF vars, Unknown, UnknownTo, Absent
  <1> QED BY <1>1, <1>2, <1>3, <1>4, <1>5, <1>6, <1>7, <1>8, <1>9, <1>10 DEF Next

\* A session that is not started is unknown to everyone.
LEMMA StepFresh == ASSUME Types, FreshOK, [Next]_vars PROVE FreshOK'
  BY StepStarted, StepUnnamed, StepAbsent, StepUnknownTo DEF FreshOK, Unknown

-----------------------------------------------------------------------------
(* What an event says of its session *)

\* Sessions are ended, end their turns and report for good; no agent works again.
Grows ==
  /\ reported \subseteq reported' /\ okay \subseteq okay' /\ ended \subseteq ended' /\ teardown \subseteq teardown'
  /\ \A r \in Session : proc'[r] = "working" => proc[r] \in {"working", "none"}

Agents ==
  /\ \A r \in Session : r \in ended => proc[r] = "dead"
  /\ \A r \in Session : r \in okay \/ r \in echo => proc[r] # "working"
  /\ deferred \subseteq reported

\* A failed session is ended before its failure is dealt with.
Told(k) ==
  /\ k.ev = "report" => k.sid \in reported
  /\ k.ev = "end" => k.sid \in okay
  /\ k.ev = "failed" => k.sid \in Session /\ proc[k.sid] # "working"
  /\ Handles(k) /\ ~ Success(k.ev) => k.sid \in ended
  /\ k.pc = "ending" /\ k.sid # None /\ ~ Success(k.ev) => k.sid \in ended
  /\ k.pc = "killing" => k.sid \in ended
  /\ k.todo \subseteq teardown

Evidence == Agents /\ \A c \in Calls : Told(call[c])

\* A session that a call has an event of was started.
LEMMA KnownSid == ASSUME Types, FreshOK, NEW c \in Calls, call[c].sid \in Session
  PROVE  proc[call[c].sid] # "none"
  BY DEF FreshOK, Unknown, UnknownTo

\* What a step keeps of the sessions.
LEMMA StepGrows == ASSUME Types, [Next]_vars PROVE Grows
  <1> USE DEF cardVars, agentVars, tellVars, autoVars, tearVars
  <1>1. ASSUME NEW c \in Calls, CallStep(c) PROVE Grows
    <2>1. CASE EndDeferred(c)
      BY <2>1 DEF EndDeferred, Kill, Grows, Types, TypeOK
    <2>2. CASE Killed(c)
      BY <2>2 DEF Killed, Grows, Types, TypeOK
    <2>3. CASE StartPending(c)
      BY <2>3 DEF StartPending, Grows, Types, TypeOK
    <2>4. CASE SettleEnded(c)
      BY <2>4 DEF SettleEnded, Grows, Types, TypeOK
    <2>5. CASE WindDown(c)
      BY <2>5 DEF WindDown, Kill, EndFinished, Grows, Types, TypeOK
    <2>6. CASE SettleUnfollowed(c)
      BY <2>6 DEF SettleUnfollowed, Grows, Types, TypeOK
    <2>7. CASE SettleTeardown(c)
      BY <2>7 DEF SettleTeardown, Grows, Types, TypeOK
    <2>8. CASE StepOver(c)
      BY <2>8 DEF StepOver, Kill, Grows, Types, TypeOK
    <2>9. CASE StartNext(c)
      BY <2>9 DEF StartNext, Grows, Types, TypeOK
    <2>10. CASE Recover(c)
      BY <2>10 DEF Recover, Grows, Types, TypeOK
    <2>11. CASE NothingFollows(c)
      BY <2>11 DEF NothingFollows, Grows, Types, TypeOK
    <2>12. CASE CreateTakesTrigger(c)
      BY <2>12 DEF CreateTakesTrigger, Grows, Types, TypeOK
    <2>13. CASE CreateQueues(c)
      BY <2>13 DEF CreateQueues, Grows, Types, TypeOK
    <2>14. CASE CreateStarts(c)
      BY <2>14 DEF CreateStarts, Grows, Types, TypeOK
    <2>15. CASE Spawned(c)
      BY <2>15 DEF Spawned, Grows, Types, TypeOK
    <2>16. CASE SpawnFails(c)
      BY <2>16 DEF SpawnFails, Grows, Types, TypeOK
    <2>17. CASE Entered(c)
      BY <2>17 DEF Entered, Grows, Types, TypeOK
    <2>18. CASE Continued(c)
      BY <2>18 DEF Continued, Kill, EndFinished, Grows, Types, TypeOK
    <2>19. CASE NotContinued(c)
      BY <2>19 DEF NotContinued, Grows, Types, TypeOK
    <2>20. CASE LaneEnds(c)
      BY <2>20 DEF LaneEnds, Kill, EndFinished, Grows, Types, TypeOK
    <2>21. CASE LaneAdvances(c)
      BY <2>21 DEF LaneAdvances, Kill, EndFinished, Grows, Types, TypeOK
    <2>22. CASE LaneTearsDown(c)
      BY <2>22 DEF LaneTearsDown, Grows, Types, TypeOK
    <2>23. CASE EndOne(c)
      BY <2>23 DEF EndOne, Kill, Grows, Types, TypeOK
    <2>24. CASE AllEnded(c)
      BY <2>24 DEF AllEnded, Kill, EndFinished, Grows, Types, TypeOK
    <2>25. CASE EnterLane(c)
      BY <2>25 DEF EnterLane, Grows, Types, TypeOK
    <2>26. CASE Register(c)
      BY <2>26 DEF Register, Grows, Types, TypeOK
    <2> QED BY <1>1, <2>1, <2>2, <2>3, <2>4, <2>5, <2>6, <2>7, <2>8, <2>9, <2>10, <2>11, <2>12, <2>13, <2>14,
               <2>15, <2>16, <2>17, <2>18, <2>19, <2>20, <2>21, <2>22, <2>23, <2>24, <2>25, <2>26 DEF CallStep
  <1>2. ASSUME NEW s \in Session, Report(s) \/ TurnEnds(s) \/ TurnFails(s) \/ PromptBroke(s) \/ Exits(s)
        PROVE  Grows
    <2>1. CASE Report(s)
      BY <2>1 DEF Report, Grows, Types, TypeOK
    <2>2. CASE TurnEnds(s)
      BY <2>2 DEF TurnEnds, Grows, Types, TypeOK
    <2>3. CASE TurnFails(s)
      BY <2>3 DEF TurnFails, Grows, Types, TypeOK
    <2>4. CASE PromptBroke(s)
      BY <2>4 DEF PromptBroke, Grows, Types, TypeOK
    <2>5. CASE Exits(s)
      BY <2>5 DEF Exits, Grows, Types, TypeOK
    <2> QED BY <1>2, <2>1, <2>2, <2>3, <2>4, <2>5
  <1>3. CASE QueueStarts
    BY <1>3 DEF QueueStarts, Grows, Types, TypeOK
  <1>4. CASE RemoveWorktree
    BY <1>4 DEF RemoveWorktree, Grows, Types, TypeOK
  <1>5. CASE KeepWorktree
    BY <1>5 DEF KeepWorktree, Grows, Types, TypeOK
  <1>6. CASE ScanAdopts
    BY <1>6 DEF ScanAdopts, Grows, Types, TypeOK
  <1>7. CASE ScanTimesOut
    BY <1>7 DEF ScanTimesOut, Grows, Types, TypeOK
  <1>8. ASSUME NEW to \in Columns, MoveCard(to) PROVE Grows
    BY <1>8 DEF MoveCard, Grows, Types, TypeOK
  <1>9. CASE UserBlocks
    BY <1>9 DEF UserBlocks, Grows, Types, TypeOK
  <1>10. CASE UNCHANGED vars
    BY <1>10 DEF vars, Grows
  <1> QED BY <1>1, <1>2, <1>3, <1>4, <1>5, <1>6, <1>7, <1>8, <1>9, <1>10 DEF Next

\* Ended agents are dead, a turn that is over is not worked in.
LEMMA StepAgents == ASSUME Types, FreshOK, Evidence, [Next]_vars PROVE Agents'
  <1> USE DEF cardVars, agentVars, tellVars, autoVars, tearVars
  <1>1. ASSUME NEW c \in Calls, CallStep(c) PROVE Agents'
    <2>1. CASE EndDeferred(c)
      BY <2>1 DEF EndDeferred, Kill, Evidence, Agents, Types, TypeOK
    <2>2. CASE Killed(c)
      BY <2>2 DEF Killed, Evidence, Agents, Types, TypeOK
    <2>3. CASE StartPending(c)
      BY <2>3 DEF StartPending, Evidence, Agents, Types, TypeOK
    <2>4. CASE SettleEnded(c)
      BY <2>4 DEF SettleEnded, Evidence, Agents, Types, TypeOK
    <2>5. CASE WindDown(c)
      <3>1. call[c].ev = "report" => call[c].sid \in reported
        BY DEF Evidence, Told
      <3> QED BY <2>5, <3>1 DEF WindDown, Kill, EndFinished, Evidence, Agents, Types, TypeOK
    <2>6. CASE SettleUnfollowed(c)
      BY <2>6 DEF SettleUnfollowed, Evidence, Agents, Types, TypeOK
    <2>7. CASE SettleTeardown(c)
      BY <2>7 DEF SettleTeardown, Evidence, Agents, Types, TypeOK
    <2>8. CASE StepOver(c)
      BY <2>8 DEF StepOver, Kill, Evidence, Agents, Types, TypeOK
    <2>9. CASE StartNext(c)
      BY <2>9 DEF StartNext, Evidence, Agents, Types, TypeOK
    <2>10. CASE Recover(c)
      BY <2>10 DEF Recover, Evidence, Agents, Types, TypeOK
    <2>11. CASE NothingFollows(c)
      BY <2>11 DEF NothingFollows, Evidence, Agents, Types, TypeOK
    <2>12. CASE CreateTakesTrigger(c)
      BY <2>12 DEF CreateTakesTrigger, Evidence, Agents, Types, TypeOK
    <2>13. CASE CreateQueues(c)
      BY <2>13 DEF CreateQueues, Evidence, Agents, Types, TypeOK
    <2>14. CASE CreateStarts(c)
      BY <2>14 DEF CreateStarts, Evidence, Agents, Types, TypeOK
    <2>15. CASE Spawned(c)
      <3>1. PICK s \in Session : proc[s] = "none" /\ proc' = [proc EXCEPT ![s] = "working"]
        BY <2>15 DEF Spawned
      <3>2. Unnamed(s)
        BY <3>1 DEF FreshOK, Unknown
      <3>3. UNCHANGED <<ended, okay, echo, deferred, reported>>
        BY <2>15 DEF Spawned
      <3> QED BY <3>1, <3>2, <3>3 DEF Unnamed, Evidence, Agents, Types, TypeOK
    <2>16. CASE SpawnFails(c)
      BY <2>16 DEF SpawnFails, Evidence, Agents, Types, TypeOK
    <2>17. CASE Entered(c)
      BY <2>17 DEF Entered, Evidence, Agents, Types, TypeOK
    <2>18. CASE Continued(c)
      <3>1. call[c].ev = "report" => call[c].sid \in reported
        BY DEF Evidence, Told
      <3> QED BY <2>18, <3>1 DEF Continued, Kill, EndFinished, Evidence, Agents, Types, TypeOK
    <2>19. CASE NotContinued(c)
      BY <2>19 DEF NotContinued, Evidence, Agents, Types, TypeOK
    <2>20. CASE LaneEnds(c)
      <3>1. call[c].ev = "report" => call[c].sid \in reported
        BY DEF Evidence, Told
      <3> QED BY <2>20, <3>1 DEF LaneEnds, Kill, EndFinished, Evidence, Agents, Types, TypeOK
    <2>21. CASE LaneAdvances(c)
      <3>1. call[c].ev = "report" => call[c].sid \in reported
        BY DEF Evidence, Told
      <3> QED BY <2>21, <3>1 DEF LaneAdvances, Kill, EndFinished, Evidence, Agents, Types, TypeOK
    <2>22. CASE LaneTearsDown(c)
      <3>1. call[c].ev = "report" => call[c].sid \in reported
        BY DEF Evidence, Told
      <3>2. deferred' \subseteq reported'
        BY <2>22, <3>1 DEF LaneTearsDown, Evidence, Agents
      <3> QED BY <2>22, <3>2 DEF LaneTearsDown, Evidence, Agents
    <2>23. CASE EndOne(c)
      BY <2>23 DEF EndOne, Kill, Evidence, Agents, Types, TypeOK
    <2>24. CASE AllEnded(c)
      <3>1. call[c].ev = "report" => call[c].sid \in reported
        BY DEF Evidence, Told
      <3> QED BY <2>24, <3>1 DEF AllEnded, Kill, EndFinished, Evidence, Agents, Types, TypeOK
    <2>25. CASE EnterLane(c)
      BY <2>25 DEF EnterLane, Evidence, Agents, Types, TypeOK
    <2>26. CASE Register(c)
      BY <2>26 DEF Register, Evidence, Agents, Types, TypeOK
    <2> QED BY <1>1, <2>1, <2>2, <2>3, <2>4, <2>5, <2>6, <2>7, <2>8, <2>9, <2>10, <2>11, <2>12, <2>13, <2>14,
               <2>15, <2>16, <2>17, <2>18, <2>19, <2>20, <2>21, <2>22, <2>23, <2>24, <2>25, <2>26 DEF CallStep
  <1>2. ASSUME NEW s \in Session, Report(s) \/ TurnEnds(s) \/ TurnFails(s) \/ PromptBroke(s) \/ Exits(s)
        PROVE  Agents'
    <2>1. CASE Report(s)
      BY <2>1 DEF Report, Evidence, Agents, Types, TypeOK
    <2>2. CASE TurnEnds(s)
      BY <2>2 DEF TurnEnds, Evidence, Agents, Types, TypeOK
    <2>3. CASE TurnFails(s)
      BY <2>3 DEF TurnFails, Evidence, Agents, Types, TypeOK
    <2>4. CASE PromptBroke(s)
      BY <2>4 DEF PromptBroke, Evidence, Agents, Types, TypeOK
    <2>5. CASE Exits(s)
      BY <2>5 DEF Exits, Evidence, Agents, Types, TypeOK
    <2> QED BY <1>2, <2>1, <2>2, <2>3, <2>4, <2>5
  <1>3. CASE QueueStarts
    BY <1>3 DEF QueueStarts, Evidence, Agents, Types, TypeOK
  <1>4. CASE RemoveWorktree
    BY <1>4 DEF RemoveWorktree, Evidence, Agents, Types, TypeOK
  <1>5. CASE KeepWorktree
    BY <1>5 DEF KeepWorktree, Evidence, Agents, Types, TypeOK
  <1>6. CASE ScanAdopts
    BY <1>6 DEF ScanAdopts, Evidence, Agents, Types, TypeOK
  <1>7. CASE ScanTimesOut
    BY <1>7 DEF ScanTimesOut, Evidence, Agents, Types, TypeOK
  <1>8. ASSUME NEW to \in Columns, MoveCard(to) PROVE Agents'
    BY <1>8 DEF MoveCard, Evidence, Agents, Types, TypeOK
  <1>9. CASE UserBlocks
    BY <1>9 DEF UserBlocks, Evidence, Agents, Types, TypeOK
  <1>10. CASE UNCHANGED vars
    BY <1>10 DEF vars, Evidence, Agents
  <1> QED BY <1>1, <1>2, <1>3, <1>4, <1>5, <1>6, <1>7, <1>8, <1>9, <1>10 DEF Next

\* What is told of a session stays true.
LEMMA ToldKept ==
  ASSUME Types, FreshOK, Grows, NEW c \in Calls, Told(call[c])
  PROVE  /\ call[c].ev = "report" => call[c].sid \in reported'
         /\ call[c].ev = "end" => call[c].sid \in okay'
         /\ call[c].ev = "failed" => call[c].sid \in Session /\ proc'[call[c].sid] # "working"
         /\ Handles(call[c]) /\ ~ Success(call[c].ev) => call[c].sid \in ended'
         /\ call[c].pc = "ending" /\ call[c].sid # None /\ ~ Success(call[c].ev) => call[c].sid \in ended'
         /\ call[c].pc = "killing" => call[c].sid \in ended'
         /\ call[c].todo \subseteq teardown'
  BY KnownSid DEF Told, Grows

\* The part of Told that every kind of call has.
LEMMA ToldOthers ==
  ASSUME Types, FreshOK, Evidence, Grows, NEW c \in Calls, Others(c), Told(call[c])', CallsOK'
  PROVE  \A d \in Calls : Told(call[d])'
  <1> SUFFICES ASSUME NEW d \in Calls, d # c PROVE Told(call[d])'
    OBVIOUS
  <1>1. call'[d] = call[d] /\ Told(call[d])
    BY DEF Others, Evidence
  <1> QED BY <1>1, ToldKept DEF Told

\* The calls' evidence stays true.
LEMMA StepTold ==
  ASSUME Types, FreshOK, Evidence, Agents', CallsOK', [Next]_vars
  PROVE  \A c \in Calls : Told(call[c])'
  <1> USE DEF cardVars, agentVars, tellVars, autoVars, tearVars
  <1> Grows
    BY StepGrows
  <1>1. ASSUME NEW c \in Calls, CallStep(c) PROVE \A d \in Calls : Told(call[d])'
    <2>1. CASE EndDeferred(c)
      <3>1. call[c].sid \in ended' /\ (call[c].sid \in Session)
        BY <2>1 DEF EndDeferred, Kill, At, Types, CallsOK, CallOK, Receives
      <3>2. Told(call[c])
        BY DEF Evidence
      <3>3. Others(c) /\ CallsOK'
        BY <2>1, EndDeferredCall
      <3>4. Told(call[c])'
        BY <2>1, <3>2, <3>1, ToldKept, EndDeferredCall, IdleFields, CardTypes DEF SameEvent, SameTodo, Told,
               Handles, Success
      <3> QED BY <3>3, <3>4, ToldOthers
    <2>2. CASE Killed(c)
      <3>1. call[c].pc = "killing" /\ call[c].why \in {"swept", "judge"}
        BY <2>2 DEF Killed, Types, CallsOK, CallOK
      <3>2. Told(call[c])
        BY DEF Evidence
      <3>3. Others(c) /\ CallsOK'
        BY <2>2, KilledCall
      <3>4. Told(call[c])'
        BY <2>2, <3>2, <3>1, ToldKept, KilledCall, IdleFields, CardTypes DEF SameEvent, SameTodo, Told,
               Handles, Success
      <3> QED BY <3>3, <3>4, ToldOthers
    <2>3. CASE StartPending(c)
      <3>1. call[c].pc = "swept"
        BY <2>3 DEF StartPending, At
      <3>2. Told(call[c])
        BY DEF Evidence
      <3>3. Others(c) /\ CallsOK'
        BY <2>3, StartPendingCall
      <3>4. Told(call[c])'
        BY <2>3, <3>2, <3>1, ToldKept, StartPendingCall, IdleFields, CardTypes DEF SameEvent, SameTodo, Told,
               Handles, Success
      <3> QED BY <3>3, <3>4, ToldOthers
    <2>4. CASE SettleEnded(c)
      <3>1. Others(c) /\ call'[c] = Idle
        BY <2>4, ReturnCall DEF SettleEnded
      <3>2. Told(call[c])'
        BY <3>1, IdleFields, CardTypes DEF Told, Success
      <3> QED BY <3>1, <3>2, ToldOthers
    <2>5. CASE WindDown(c)
      <3>1. Others(c) /\ call'[c] = Idle
        BY <2>5, ReturnCall DEF WindDown
      <3>2. Told(call[c])'
        BY <3>1, IdleFields, CardTypes DEF Told, Success
      <3> QED BY <3>1, <3>2, ToldOthers
    <2>6. CASE SettleUnfollowed(c)
      <3>1. Others(c) /\ call'[c] = Idle
        BY <2>6, ReturnCall DEF SettleUnfollowed
      <3>2. Told(call[c])'
        BY <3>1, IdleFields, CardTypes DEF Told, Success
      <3> QED BY <3>1, <3>2, ToldOthers
    <2>7. CASE SettleTeardown(c)
      <3>1. Others(c) /\ call'[c] = Idle
        BY <2>7, ReturnCall DEF SettleTeardown
      <3>2. Told(call[c])'
        BY <3>1, IdleFields, CardTypes DEF Told, Success
      <3> QED BY <3>1, <3>2, ToldOthers
    <2>8. CASE StepOver(c)
      <3>1. Told(call[c]) /\ call[c].sid \in Session /\ call[c].todo = {}
        BY <2>8 DEF StepOver, Evidence, Own, Routing, At, Types, CallsOK, CallOK, Receives
      <3>2. Others(c)
        BY <2>8, StepOverCall
      <3>3. /\ call'[c].ev = Reconciled(call[c].sid, call[c].ev) /\ call'[c].sid = call[c].sid /\ call'[c].todo = {}
            /\ call'[c].pc = "killing" => ~ Success(call'[c].ev)
            /\ call'[c].pc # "ending"
        BY <2>8, <3>1, StepOverCall DEF SameTodo
      <3>4. ~ Success(call'[c].ev) => call[c].sid \in ended'
        BY <2>8, <3>3 DEF StepOver, Kill
      <3>5. Told(call[c])'
        BY <3>1, <3>3, <3>4, ToldKept DEF Reconciled, Told, Success, Grows
      <3> QED BY <3>2, <3>5, ToldOthers
    <2>9. CASE StartNext(c)
      <3>1. Handles(call[c])
        BY <2>9, CardTypes DEF StartNext, At, Types, CallsOK, CallOK, Handles, Starts
      <3>2. Told(call[c])
        BY DEF Evidence
      <3>3. Others(c) /\ CallsOK'
        BY <2>9, StartNextCall
      <3>4. Told(call[c])'
        BY <2>9, <3>2, <3>1, ToldKept, StartNextCall, IdleFields, CardTypes DEF SameEvent, SameTodo, Told,
               Handles, Success
      <3> QED BY <3>3, <3>4, ToldOthers
    <2>10. CASE Recover(c)
      <3>1. Handles(call[c])
        BY <2>10, CardTypes DEF Recover, At, Types, CallsOK, CallOK, Handles, Starts
      <3>2. Told(call[c])
        BY DEF Evidence
      <3>3. Others(c) /\ CallsOK'
        BY <2>10, RecoverCall
      <3>4. Told(call[c])'
        BY <2>10, <3>2, <3>1, ToldKept, RecoverCall, IdleFields, CardTypes DEF SameEvent, SameTodo, Told,
               Handles, Success
      <3> QED BY <3>3, <3>4, ToldOthers
    <2>11. CASE NothingFollows(c)
      <3>1. Handles(call[c])
        BY <2>11, CardTypes DEF NothingFollows, At, Types, CallsOK, CallOK, Handles, Starts
      <3>2. Told(call[c])
        BY DEF Evidence
      <3>3. Others(c) /\ CallsOK'
        BY <2>11, NothingFollowsCall
      <3>4. Told(call[c])'
        BY <2>11, <3>2, <3>1, ToldKept, NothingFollowsCall, IdleFields, CardTypes DEF SameEvent, SameTodo,
               Told, Handles, Success
      <3> QED BY <3>3, <3>4, ToldOthers
    <2>12. CASE CreateTakesTrigger(c)
      <3>1. call[c].pc = "create" /\ call[c].why \in Starts
        BY <2>12 DEF CreateTakesTrigger, At, Types, CallsOK, CallOK
      <3>2. Told(call[c])
        BY DEF Evidence
      <3>3. Others(c) /\ CallsOK'
        BY <2>12, CreateTakesTriggerCall
      <3>4. Told(call[c])'
        BY <2>12, <3>2, <3>1, ToldKept, CreateTakesTriggerCall, IdleFields, CardTypes DEF SameEvent, SameTodo,
               Told, Handles, Success, Starts
      <3> QED BY <3>3, <3>4, ToldOthers
    <2>13. CASE CreateQueues(c)
      <3>1. call[c].pc = "create" /\ call[c].why \in Starts
        BY <2>13 DEF CreateQueues, At, Types, CallsOK, CallOK
      <3>2. Told(call[c])
        BY DEF Evidence
      <3>3. Others(c) /\ CallsOK'
        BY <2>13, CreateQueuesCall
      <3>4. Told(call[c])'
        BY <2>13, <3>2, <3>1, ToldKept, CreateQueuesCall, IdleFields, CardTypes DEF SameEvent, SameTodo, Told,
               Handles, Success, Starts
      <3> QED BY <3>3, <3>4, ToldOthers
    <2>14. CASE CreateStarts(c)
      <3>1. call[c].pc = "create"
        BY <2>14 DEF CreateStarts, At
      <3>2. Told(call[c])
        BY DEF Evidence
      <3>3. Others(c) /\ CallsOK'
        BY <2>14, CreateStartsCall
      <3>4. Told(call[c])'
        BY <2>14, <3>2, <3>1, ToldKept, CreateStartsCall, IdleFields, CardTypes DEF SameEvent, SameTodo, Told,
               Handles, Success
      <3> QED BY <3>3, <3>4, ToldOthers
    <2>15. CASE Spawned(c)
      <3>1. PICK s \in Session : IF call[c].why = "queue" THEN Return(c) ELSE Answer(c, "session", s)
        BY <2>15 DEF Spawned
      <3>2. call[c].pc = "spawning" /\ call[c].why \in Starts \cup {"queue"}
        BY <2>15 DEF Spawned, At, Types, CallsOK, CallOK
      <3>3. Told(call[c])
        BY DEF Evidence
      <3>4. /\ Others(c)
            /\ \/ call'[c] = Idle
               \/ call[c].why # "queue" /\ call'[c].pc = "created" /\ call'[c].why = call[c].why /\ SameEvent(c) /\ SameTodo(c)
        BY <2>15, <3>1, <3>2, SpawnedCall
      <3>5. Told(call[c])'
        BY <3>2, <3>3, <3>4, ToldKept, IdleFields, CardTypes DEF SameEvent, SameTodo, Told, Handles, Success,
               Starts
      <3> QED BY <3>4, <3>5, ToldOthers
    <2>16. CASE SpawnFails(c)
      <3>1. call[c].pc = "spawning" /\ call[c].why \in Starts \cup {"queue"}
        BY <2>16 DEF SpawnFails, At, Types, CallsOK, CallOK
      <3>2. Told(call[c])
        BY DEF Evidence
      <3>3. Others(c) /\ CallsOK'
        BY <2>16, SpawnFailsCall, IdleFields
      <3>4. Told(call[c])'
        BY <2>16, <3>2, <3>1, ToldKept, SpawnFailsCall, IdleFields, CardTypes DEF SameEvent, SameTodo, Told,
               Handles, Success, Starts
      <3> QED BY <3>3, <3>4, ToldOthers
    <2>17. CASE Entered(c)
      <3>1. Others(c) /\ call'[c] = Idle
        BY <2>17, ReturnCall DEF Entered
      <3>2. Told(call[c])'
        BY <3>1, IdleFields, CardTypes DEF Told, Success
      <3> QED BY <3>1, <3>2, ToldOthers
    <2>18. CASE Continued(c)
      <3>1. Others(c) /\ call'[c] = Idle
        BY <2>18, ReturnCall DEF Continued
      <3>2. Told(call[c])'
        BY <3>1, IdleFields, CardTypes DEF Told, Success
      <3> QED BY <3>1, <3>2, ToldOthers
    <2>19. CASE NotContinued(c)
      <3>1. Handles(call[c])
        BY <2>19, CardTypes DEF NotContinued, At, Types, CallsOK, CallOK, Handles, Starts
      <3>2. Told(call[c])
        BY DEF Evidence
      <3>3. Others(c) /\ CallsOK'
        BY <2>19, NotContinuedCall
      <3>4. Told(call[c])'
        BY <2>19, <3>2, <3>1, ToldKept, NotContinuedCall, IdleFields, CardTypes DEF SameEvent, SameTodo, Told,
               Handles, Success
      <3> QED BY <3>3, <3>4, ToldOthers
    <2>20. CASE LaneEnds(c)
      <3>1. Others(c) /\ call'[c] = Idle
        BY <2>20, ReturnCall DEF LaneEnds
      <3>2. Told(call[c])'
        BY <3>1, IdleFields, CardTypes DEF Told, Success
      <3> QED BY <3>1, <3>2, ToldOthers
    <2>21. CASE LaneAdvances(c)
      <3>1. Told(call[c])
        BY DEF Evidence
      <3>2. Others(c) /\ CallsOK'
        BY <2>21, LaneAdvancesCall DEF Arrives
      <3>3. Told(call[c])'
        BY <2>21, <3>1, ToldKept, LaneAdvancesCall, IdleFields, CardTypes DEF Arrives, Told, Handles, Success
      <3> QED BY <3>2, <3>3, ToldOthers
    <2>22. CASE LaneTearsDown(c)
      <3>1. call'[c].todo \subseteq teardown'
        BY <2>22, LaneTearsDownCall DEF LaneTearsDown
      <3>2. Handles(call[c])
        BY <2>22 DEF LaneTearsDown, At, Handles
      <3>3. Told(call[c])
        BY DEF Evidence
      <3>4. Others(c) /\ CallsOK'
        BY <2>22, LaneTearsDownCall
      <3>5. Told(call[c])'
        BY <2>22, <3>3, <3>1, <3>2, ToldKept, LaneTearsDownCall, IdleFields, CardTypes DEF SameEvent, Told,
               Handles, Success
      <3> QED BY <3>4, <3>5, ToldOthers
    <2>23. CASE EndOne(c)
      <3>1. call[c].pc = "ending"
        BY <2>23 DEF EndOne, At
      <3>2. Told(call[c])
        BY DEF Evidence
      <3>3. Others(c) /\ CallsOK'
        BY <2>23, EndOneCall
      <3>4. Told(call[c])'
        BY <2>23, <3>2, <3>1, ToldKept, EndOneCall, IdleFields, CardTypes DEF SameEvent, Told, Handles, Success
      <3> QED BY <3>3, <3>4, ToldOthers
    <2>24. CASE AllEnded(c)
      <3>1. Others(c) /\ call'[c] = Idle
        BY <2>24, ReturnCall DEF AllEnded
      <3>2. Told(call[c])'
        BY <3>1, IdleFields, CardTypes DEF Told, Success
      <3> QED BY <3>1, <3>2, ToldOthers
    <2>25. CASE EnterLane(c)
      <3>1. call[c].pc = "enter"
        BY <2>25 DEF EnterLane, At
      <3>2. Told(call[c])
        BY DEF Evidence
      <3>3. Others(c) /\ CallsOK'
        BY <2>25, EnterLaneCall, IdleFields
      <3>4. Told(call[c])'
        BY <2>25, <3>2, <3>1, ToldKept, EnterLaneCall, IdleFields, CardTypes DEF SameEvent, SameTodo, Told,
               Handles, Success
      <3> QED BY <3>3, <3>4, ToldOthers
    <2>26. CASE Register(c)
      <3>1. call[c].pc = "register"
        BY <2>26 DEF Register, At
      <3>2. Told(call[c])
        BY DEF Evidence
      <3>3. Others(c) /\ CallsOK'
        BY <2>26, RegisterCall
      <3>4. Told(call[c])'
        BY <2>26, <3>2, <3>1, ToldKept, RegisterCall, IdleFields, CardTypes DEF SameEvent, SameTodo, Told,
               Handles, Success
      <3> QED BY <3>3, <3>4, ToldOthers
    <2> QED BY <1>1, <2>1, <2>2, <2>3, <2>4, <2>5, <2>6, <2>7, <2>8, <2>9, <2>10, <2>11, <2>12, <2>13, <2>14,
               <2>15, <2>16, <2>17, <2>18, <2>19, <2>20, <2>21, <2>22, <2>23, <2>24, <2>25, <2>26 DEF CallStep
  <1>2. ASSUME NEW s \in Session, Report(s) \/ TurnEnds(s) \/ TurnFails(s) \/ PromptBroke(s) \/ Exits(s)
        PROVE  \A c \in Calls : Told(call[c])'
    <2>1. CASE Report(s)
      <3>1. PICK d \in Calls : Taken(d, s, "report")
        BY <2>1, EmitCall DEF Report, Events
      <3>2. s \in reported'
        BY <2>1 DEF Report, Types, TypeOK, Evidence, Agents
      <3>3. Others(d) /\ Told(call[d])'
        BY <2>1, <3>1, <3>2 DEF Taken, Told, Handles, Success
      <3> QED BY <3>3, ToldOthers DEF Evidence
    <2>2. CASE TurnEnds(s)
      <3>1. PICK d \in Calls : Taken(d, s, "end")
        BY <2>2, EmitCall DEF TurnEnds, Events
      <3>2. s \in okay'
        BY <2>2 DEF TurnEnds, Types, TypeOK, Evidence, Agents
      <3>3. Others(d) /\ Told(call[d])'
        BY <2>2, <3>1, <3>2 DEF Taken, Told, Handles, Success
      <3> QED BY <3>3, ToldOthers DEF Evidence
    <2>3. CASE TurnFails(s)
      <3>1. PICK d \in Calls : Taken(d, s, "failed")
        BY <2>3, EmitCall DEF TurnFails, Events
      <3>2. proc'[s] # "working"
        BY <2>3 DEF TurnFails, Types, TypeOK, Evidence, Agents
      <3>3. Others(d) /\ Told(call[d])'
        BY <2>3, <3>1, <3>2 DEF Taken, Told, Handles, Success
      <3> QED BY <3>3, ToldOthers DEF Evidence
    <2>4. CASE PromptBroke(s)
      <3>1. PICK d \in Calls : Taken(d, s, "failed")
        BY <2>4, EmitCall DEF PromptBroke, Events
      <3>2. proc'[s] # "working"
        BY <2>4 DEF PromptBroke, Types, TypeOK, Evidence, Agents
      <3>3. Others(d) /\ Told(call[d])'
        BY <2>4, <3>1, <3>2 DEF Taken, Told, Handles, Success
      <3> QED BY <3>3, ToldOthers DEF Evidence
    <2>5. CASE Exits(s)
      <3>1. PICK d \in Calls : Taken(d, s, "failed")
        BY <2>5, EmitCall DEF Exits, Events
      <3>2. proc'[s] # "working"
        BY <2>5 DEF Exits, Types, TypeOK, Evidence, Agents
      <3>3. Others(d) /\ Told(call[d])'
        BY <2>5, <3>1, <3>2 DEF Taken, Told, Handles, Success
      <3> QED BY <3>3, ToldOthers DEF Evidence
    <2> QED BY <1>2, <2>1, <2>2, <2>3, <2>4, <2>5
  <1>3. CASE QueueStarts
    <2>1. CASE Startable(waiting)
      <3>1. PICK c \in Calls : /\ Others(c) /\ call'[c].pc = "spawning" /\ call'[c].sid = None /\ call'[c].why = "queue"
                               /\ call'[c].ev = "none" /\ call'[c].todo = {}
        BY <1>3, <2>1, QueueStartsCall DEF QueueStarts, Types, WaitingOK
      <3>2. Told(call[c])'
        BY <3>1 DEF Told, Handles
      <3> QED BY <3>1, <3>2, ToldOthers DEF Evidence
    <2>2. CASE ~ Startable(waiting)
      BY <1>3, <2>2, ToldKept DEF QueueStarts, Told, Evidence
    <2> QED BY <2>1, <2>2
  <1>4. CASE RemoveWorktree
    BY <1>4, ToldKept DEF RemoveWorktree, Evidence, Told
  <1>5. CASE KeepWorktree
    BY <1>5, ToldKept DEF KeepWorktree, Evidence, Told
  <1>6. CASE ScanAdopts
    BY <1>6, ToldKept DEF ScanAdopts, Evidence, Told
  <1>7. CASE ScanTimesOut
    <2>1. PICK d \in Calls : Taken(d, auto[active].sid, "timeout")
      BY <1>7, TimesOutCall
    <2>2. TRUE
      BY <1>7 DEF ScanTimesOut, Types, TypeOK, Evidence, Agents
    <2>3. Others(d) /\ Told(call[d])'
      BY <1>7, <2>1, <2>2 DEF Taken, Told, Handles, Success
    <2> QED BY <2>3, ToldOthers DEF Evidence
  <1>8. ASSUME NEW to \in Columns, MoveCard(to) PROVE \A c \in Calls : Told(call[c])'
    <2>1. CASE to \in Lanes
      <3>1. PICK d \in Calls : Arrives(d, to)
        BY <1>8, <2>1, ArriveCall DEF MoveCard
      <3>2. Told(call[d])'
        BY <3>1 DEF Arrives, Told, Handles
      <3> QED BY <3>1, <3>2, ToldOthers DEF Arrives, Evidence
    <2>2. CASE to \notin Lanes
      BY <1>8, <2>2, ToldKept DEF MoveCard, Evidence, Told
    <2> QED BY <2>1, <2>2
  <1>9. CASE UserBlocks
    <2>1. PICK c \in Calls :
            /\ Others(c) /\ call'[c].pc = "ending"
            /\ call'[c].todo = {s \in Session : card.rec[s] = "running" /\ run[s].lane = card.col}
                                 \cup ({card.trigger} \ {None})
            /\ call'[c].sid = None /\ call'[c].ev = "none"
      BY <1>9, UserBlocksCall
    <2>2. call'[c].todo \subseteq teardown'
      BY <1>9, <2>1 DEF UserBlocks
    <2>3. Told(call[c])'
      BY <2>1, <2>2 DEF Told, Handles
    <2> QED BY <2>1, <2>3, ToldOthers DEF Evidence
  <1>10. CASE UNCHANGED vars
    BY <1>10, ToldKept DEF vars, Evidence, Told
  <1> QED BY <1>1, <1>2, <1>3, <1>4, <1>5, <1>6, <1>7, <1>8, <1>9, <1>10 DEF Next

\* Every event has its cause in the session's state.
LEMMA StepEvidence == ASSUME Types, FreshOK, Evidence, [Next]_vars PROVE Evidence'
  BY StepTypes, StepAgents, StepTold DEF Types, Evidence
=============================================================================
