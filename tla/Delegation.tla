------------------------------ MODULE Delegation ------------------------------
(***************************************************************************)
(* RoutaOrchestrator (orchestration/orchestrator.ts): a parent agent       *)
(* delegates tasks to child agents, and the orchestrator wakes the parent  *)
(* when they end.  A child's end is signalled by any of its own            *)
(* report_to_parent call, a report file it writes, the end, failure or     *)
(* 5-minute timeout of its prompt, a session-end update and the events of  *)
(* its LifecycleNotifier; all signals meet in finalizeChildCompletion.     *)
(*                                                                         *)
(* One parent is modelled: every map the orchestrator keeps is keyed by    *)
(* the child or by the parent.  An action runs from one wait to the next,  *)
(* where a wait is a timer, a file or trace access, an agent process       *)
(* starting, the reads of a wake message, or a prompt that runs a whole    *)
(* turn; the other short reads and writes of the agent and task stores     *)
(* belong to the action that issues them.  A delegation group is named by  *)
(* the child that opened it.                                               *)
(***************************************************************************)
EXTENDS FiniteSets, Integers

CONSTANTS
  Child,        \* the children that are delegated to, one task each
  NoGroup,      \* no delegation group
  User,         \* the parent's turn that a user prompted, as a member of prompts
  Setups,       \* the kinds of the children, as functions from Child
  ParentKinds,  \* values of exclusive: which kinds of process the parent may have
  WakesFail     \* TRUE: a prompt to the parent may reject, and the parent may die

\* provider: "sdk" has a LifecycleNotifier (claude-code-sdk, workspace agent),
\* "claude" a watcher for report files, "acp" neither; reports: it calls
\* report_to_parent or writes a report file; unnamed, untasked: it leaves
\* agentId, taskId out of that file; endUpdate: it sends a session update "completed" or "ended";
\* unreliable: its turn may fail or outlast the prompt's timeout; afterAll: it
\* is delegated with waitMode "after_all", otherwise "immediate".
Kinds == [provider : {"acp", "claude", "sdk"}, reports : BOOLEAN, unnamed : BOOLEAN,
          untasked : BOOLEAN, endUpdate : BOOLEAN, unreliable : BOOLEAN, afterAll : BOOLEAN]

ASSUME ChildAssumption ==
  /\ IsFiniteSet(Child) /\ NoGroup \notin Child /\ User \notin Child
ASSUME SetupsAssumption ==
  /\ Setups \subseteq [Child -> Kinds]
  /\ ParentKinds \subseteq BOOLEAN /\ WakesFail \in BOOLEAN

VARIABLES
  kind,       \* kind[c]: what kind of child c is, fixed
  proc,       \* proc[c]: the child's process and its turn
  agent,      \* agent[c]: status in the agent store
  task,       \* task[c]: status of the delegated task
  timer,      \* timer[c]: the fallbacks of child c whose delay is running
  entering,   \* entering[c]: finalizeChildCompletion calls that write the memory file
  reading,    \* reading[c]: the processReportFile call of child c's watcher
  fin,        \* fin[c]: the handleChildCompletion run in childCompletionPromises
  handled,    \* children whose record has completionHandled
  members,    \* members[g]: childAgentIds of group g; empty when the group does not exist
  completed,  \* completed[g]: completedAgentIds of group g
  active,     \* activeGroupByAgent of the parent
  prompts,    \* the turns the parent is in: the user's, or the wake of a child
  alive,      \* the parent's process
  exclusive,  \* it rejects a prompt during a turn (Claude does, others queue it)
  file,       \* the report file on disk, if any: whose it is and what it says
  watching,   \* children with an open report file watcher
  own,        \* history: the outcome the child itself reported last
  runs,       \* history: handleChildCompletion runs of a child that did not reject
  told,       \* history: children a wake message has named after a sign of their end
  hasty,      \* history: children named at work that were in the group when the wake began
  latecomers, \* history: children named at work that joined while the message was written
  lost        \* history: children whose completion a rejected wake or a deleted group took along

historyVars == <<told, hasty, latecomers, lost>>
parentVars == <<prompts, alive, exclusive, historyVars>>
groupVars == <<members, completed, active>>
callVars == <<timer, entering, reading>>
fileVars == <<file, watching>>
vars == <<kind, proc, agent, task, timer, entering, reading, fin, handled, members, completed, active, prompts, alive,
          exclusive, file, watching, own, runs, historyVars>>

Procs == {"none", "spawning", "working", "detached", "quiet", "failed"}
AgentStatus == {"pending", "active", "completed", "error"}
Outcomes == {"completed", "needsFix"}
TaskStatus == {"pending", "inProgress", "completed", "needsFix", "blocked"}

\* The delays that end in a fallback: autoReportIfNeeded after the prompt and
\* after the idle event, and scheduleSessionEndCompletion.
AutoTimers == {"auto", "idle"}
Timers == AutoTimers \cup {"sessionEnd"}

\* A handleChildCompletion run: it saves the run's outcome, reads the stores for
\* the wake message (named: the children the group had when that began, joined:
\* those pushed to its array since), or has prompted the parent, on behalf of a
\* group or of the child alone.
Completions == [pc : {"idle", "outcome", "reading", "waking"}, group : Child \cup {NoGroup},
                named : SUBSET Child, joined : SUBSET Child]
Idle == [pc |-> "idle", group |-> NoGroup, named |-> {}, joined |-> {}]

Init ==
  /\ kind \in Setups
  /\ proc = [c \in Child |-> "none"]
  /\ agent = [c \in Child |-> "pending"]
  /\ task = [c \in Child |-> "pending"]
  /\ timer = [c \in Child |-> {}]
  /\ entering = [c \in Child |-> 0]
  /\ reading = [c \in Child |-> "idle"]
  /\ fin = [c \in Child |-> Idle]
  /\ handled = {}
  /\ members = [g \in Child |-> {}]
  /\ completed = [g \in Child |-> {}]
  /\ active = NoGroup
  /\ prompts = {User}
  /\ alive = TRUE
  /\ exclusive \in ParentKinds
  /\ file = {}
  /\ watching = {}
  /\ own = [c \in Child |-> "none"]
  /\ runs = [c \in Child |-> 0]
  /\ told = {} /\ hasty = {} /\ latecomers = {}
  /\ lost = {}

\* childAgents holds a record once the spawn has returned.
Known(c) == proc[c] \notin {"none", "spawning", "failed"}

-----------------------------------------------------------------------------
\* delegateTaskWithSpawn

\* Up to the wait for the child's process.  The parent calls it in a turn.
Delegate(c) ==
  /\ proc[c] = "none"
  /\ prompts # {}
  /\ proc' = [proc EXCEPT ![c] = "spawning"]
  /\ agent' = [agent EXCEPT ![c] = "active"]
  /\ task' = [task EXCEPT ![c] = "inProgress"]
  /\ UNCHANGED <<kind, callVars, fin, handled, groupVars, parentVars, fileVars, own, runs>>

SpawnFails(c) ==
  /\ proc[c] = "spawning"
  /\ proc' = [proc EXCEPT ![c] = "failed"]
  /\ agent' = [agent EXCEPT ![c] = "error"]
  /\ task' = [task EXCEPT ![c] = "blocked"]
  /\ UNCHANGED <<kind, callVars, fin, handled, groupVars, parentVars, fileVars, own, runs>>

\* The parent's active group, or a new one, takes the child in.  A wake that is
\* reading the group iterates the same array: its message names the child too.
JoinGroup(c) ==
  LET g == IF active = NoGroup THEN c ELSE active IN
  /\ members' = [members EXCEPT ![g] = @ \cup {c}]
  /\ active' = g
  /\ fin' = [d \in Child |-> IF fin[d].pc = "reading" /\ fin[d].group = g
                             THEN [fin[d] EXCEPT !.joined = @ \cup {c}]
                             ELSE fin[d]]
  /\ UNCHANGED completed

\* The prompt has been sent; the record and the group follow without a wait.
SpawnReturns(c) ==
  /\ proc[c] = "spawning"
  /\ proc' = [proc EXCEPT ![c] = "working"]
  /\ watching' = IF kind[c].provider = "claude" THEN watching \cup {c} ELSE watching
  /\ IF kind[c].afterAll THEN JoinGroup(c) ELSE UNCHANGED <<groupVars, fin>>
  /\ UNCHANGED <<kind, agent, task, callVars, handled, parentVars, file, own, runs>>

-----------------------------------------------------------------------------
\* How a child ends.

\* reportToParent about the task of child t, and handleReportSubmitted for its event.
Report(c, t, status, en) ==
  /\ task' = [task EXCEPT ![t] = status]
  /\ agent' = [agent EXCEPT ![c] = "completed"]
  /\ entering' = IF Known(c) THEN [en EXCEPT ![c] = @ + 1] ELSE en

\* The child calls report_to_parent, once.
ChildReports(c) ==
  /\ kind[c].reports
  /\ own[c] = "none"
  /\ proc[c] \in {"working", "detached"}
  /\ \E status \in Outcomes :
       /\ Report(c, c, status, entering)
       /\ own' = [own EXCEPT ![c] = status]
  /\ UNCHANGED <<kind, proc, timer, reading, fin, handled, groupVars, parentVars, fileVars, runs>>

\* The child writes a report file; every watcher of the directory sees it.
ChildWritesFile(c) ==
  /\ kind[c].provider = "claude" /\ kind[c].reports
  /\ own[c] = "none"
  /\ proc[c] \in {"working", "detached"}
  /\ file = {}
  /\ \A w \in watching : reading[w] = "idle"
  /\ \E status \in Outcomes : file' = {[child |-> c, status |-> status]}
  /\ reading' = [w \in Child |-> IF w \in watching THEN "delay" ELSE reading[w]]
  /\ UNCHANGED <<kind, proc, agent, task, timer, entering, fin, handled, groupVars, parentVars, watching, own, runs>>

\* processReportFile after its delay: whom the file speaks for, and whose task it is
\* about.  What the file leaves out is filled in with the watcher's own child (the
\* mutant does that for a named child too).
ReporterWatched(w, f) == w
Reporter(w, f) == IF kind[f.child].unnamed THEN w ELSE f.child
ReportedTask(w, f) == IF kind[f.child].untasked THEN w ELSE f.child

ReadReportFile(w) ==
  /\ reading[w] = "delay"
  /\ \/ \E f \in file :
          /\ Report(Reporter(w, f), ReportedTask(w, f), f.status, entering)
          /\ own' = IF Reporter(w, f) = f.child THEN [own EXCEPT ![f.child] = f.status] ELSE own
          /\ reading' = [reading EXCEPT ![w] = "unlink"]
     \/ /\ file = {}
        /\ reading' = [reading EXCEPT ![w] = "idle"]
        /\ UNCHANGED <<task, agent, own, entering>>
  /\ UNCHANGED <<kind, proc, timer, fin, handled, groupVars, parentVars, fileVars, runs>>

UnlinkReportFile(w) ==
  /\ reading[w] = "unlink"
  /\ file' = {}
  /\ watching' = watching \ {w}
  /\ reading' = [reading EXCEPT ![w] = "idle"]
  /\ UNCHANGED <<kind, proc, agent, task, timer, entering, fin, handled, groupVars, parentVars, own, runs>>

\* The child's turn ends.  A session-end update or notifyIdle comes before the
\* prompt resolves: checkForCompletion starts scheduleSessionEndCompletion,
\* and the idle event as well as the prompt start autoReportIfNeeded.
TurnEnds(c) ==
  /\ proc[c] = "working"
  /\ proc' = [proc EXCEPT ![c] = "quiet"]
  /\ agent' = [agent EXCEPT ![c] = IF kind[c].provider = "sdk" THEN "active" ELSE @]
  /\ timer' = [timer EXCEPT ![c] = {"auto"} \cup (IF kind[c].provider = "sdk" THEN {"idle"} ELSE {})
                                           \cup (IF kind[c].endUpdate THEN {"sessionEnd"} ELSE {})]
  /\ UNCHANGED <<kind, task, entering, reading, fin, handled, groupVars, parentVars, fileVars, own, runs>>

\* handleChildError, called n times, up to finalizeChildCompletion.
ChildError(c, n) ==
  /\ agent' = [agent EXCEPT ![c] = "error"]
  /\ task' = [task EXCEPT ![c] = "needsFix"]
  /\ entering' = [entering EXCEPT ![c] = @ + n]

\* The child's turn fails; notifyFailed comes before the prompt rejects.
TurnFails(c) ==
  /\ kind[c].unreliable
  /\ proc[c] = "working"
  /\ proc' = [proc EXCEPT ![c] = "quiet"]
  /\ ChildError(c, IF kind[c].provider = "sdk" THEN 2 ELSE 1)
  /\ UNCHANGED <<kind, timer, reading, fin, handled, groupVars, parentVars, fileVars, own, runs>>

\* The prompt rejects after 5 minutes although the child works on.
TurnTimesOut(c) ==
  /\ kind[c].unreliable /\ kind[c].provider # "sdk"
  /\ proc[c] = "working"
  /\ proc' = [proc EXCEPT ![c] = "detached"]
  /\ ChildError(c, 1)
  /\ UNCHANGED <<kind, timer, reading, fin, handled, groupVars, parentVars, fileVars, own, runs>>

\* The end of a turn nobody waits for any more.
DetachedTurnEnds(c) ==
  /\ proc[c] = "detached"
  /\ proc' = [proc EXCEPT ![c] = "quiet"]
  /\ UNCHANGED <<kind, agent, task, callVars, fin, handled, groupVars, parentVars, fileVars, own, runs>>

-----------------------------------------------------------------------------
\* The fallbacks after their delays.

\* autoReportIfNeeded after 2 seconds: nothing to do for a child that was
\* handled or whose agent reported; otherwise it reports a success.
AutoReportSkipsHandled(c) == c \in handled
AutoReportSkips(c) == c \in handled \/ agent[c] = "completed"

AutoReportIfNeeded(c, t) ==
  /\ t \in timer[c]
  /\ timer' = [timer EXCEPT ![c] = @ \ {t}]
  /\ \/ /\ AutoReportSkips(c)
        /\ UNCHANGED <<task, agent, entering>>
     \/ /\ ~AutoReportSkips(c)
        /\ Report(c, c, "completed", [entering EXCEPT ![c] = @ + 1])
  /\ UNCHANGED <<kind, proc, reading, fin, handled, groupVars, parentVars, fileVars, own, runs>>

\* scheduleSessionEndCompletion after 500 ms.
SessionEndDelayed(c) ==
  /\ "sessionEnd" \in timer[c]
  /\ timer' = [timer EXCEPT ![c] = @ \ {"sessionEnd"}]
  /\ entering' = IF c \in handled THEN entering ELSE [entering EXCEPT ![c] = @ + 1]
  /\ UNCHANGED <<kind, proc, agent, task, reading, fin, handled, groupVars, parentVars, fileVars, own, runs>>

-----------------------------------------------------------------------------
\* finalizeChildCompletion

\* After the memory write: the call runs handleChildCompletion, unless the
\* child is handled or another run is in flight, which is only awaited.
MustHandleAgain(c) == c \notin handled
MustHandle(c) == c \notin handled /\ fin[c] = Idle

Finalize(c) ==
  /\ entering[c] > 0
  /\ entering' = [entering EXCEPT ![c] = @ - 1]
  /\ IF MustHandle(c)
     THEN /\ fin' = [fin EXCEPT ![c].pc = "outcome"]
          /\ runs' = [runs EXCEPT ![c] = @ + 1]
     ELSE UNCHANGED <<fin, runs>>
  /\ UNCHANGED <<kind, proc, agent, task, timer, reading, handled, groupVars, parentVars, fileVars, own>>

\* The promise resolves: completionHandled is set.
Resolve(c) ==
  /\ fin' = [fin EXCEPT ![c] = Idle]
  /\ handled' = handled \cup {c}
  /\ UNCHANGED runs

\* The promise rejects: the completion stays unhandled.
Reject(c) ==
  /\ fin' = [fin EXCEPT ![c] = Idle]
  /\ runs' = [runs EXCEPT ![c] = @ - 1]
  /\ UNCHANGED handled

\* The last child of group g has woken the parent: the group is deleted, and
\* the parent's active group whichever it is.
DeleteGroupOnly(g) ==
  /\ members' = [members EXCEPT ![g] = {}]
  /\ completed' = [completed EXCEPT ![g] = {}]
  /\ UNCHANGED active
DeleteGroup(g) ==
  /\ members' = [members EXCEPT ![g] = {}]
  /\ completed' = [completed EXCEPT ![g] = {}]
  /\ active' = NoGroup

\* The children a wake message names.
NamedGroup(c, g) == IF g = NoGroup THEN {g} ELSE members[g]
Named(c, g) == IF g = NoGroup THEN {c} ELSE members[g]

\* wakeParent for child c, on behalf of group g or of the child alone: it begins
\* to read the agents and tasks of its message.
WakeParent(c, g) ==
  /\ fin' = [fin EXCEPT ![c] = [pc |-> "reading", group |-> g, named |-> Named(c, g), joined |-> {}]]
  /\ UNCHANGED <<handled, runs>>

\* All members known so far are completed.
GroupDoneEarly(g, cp) == Cardinality(cp[g]) + 1 >= Cardinality(members[g])
GroupDoneNever(g, cp) == Cardinality(cp[g]) > Cardinality(members[g])
GroupDone(g, cp) == Cardinality(cp[g]) >= Cardinality(members[g])

\* handleChildCompletion after the trace outcome: count the child in its
\* group, and wake the parent for a complete group or a child of no group.
HandleChildCompletion(c) ==
  /\ fin[c].pc = "outcome"
  /\ watching' = watching \ {c}
  /\ \/ \E g \in Child :
          /\ c \in members[g]
          /\ completed' = [completed EXCEPT ![g] = @ \cup {c}]
          /\ IF GroupDone(g, completed') THEN WakeParent(c, g) ELSE Resolve(c)
     \/ /\ \A g \in Child : c \notin members[g]
        /\ WakeParent(c, NoGroup)
        /\ UNCHANGED completed
  /\ UNCHANGED <<kind, proc, agent, task, callVars, members, active, parentVars, file, own>>

\* A child has given a sign of its end: its own report, or the end or timeout
\* of its prompt.
GaveSign(c) == own[c] # "none" \/ proc[c] \in {"quiet", "detached"}

\* The children the message of c's wake names.
InMessage(c) == fin[c].named \cup fin[c].joined

\* The reads are done.  A dead parent is only logged; a parent in a turn may
\* reject the prompt; otherwise the wake lasts for a whole turn.
SendWake(c) ==
  /\ fin[c].pc = "reading"
  /\ \/ /\ ~alive
        /\ Resolve(c)
        /\ IF fin[c].group = NoGroup THEN UNCHANGED groupVars ELSE DeleteGroup(fin[c].group)
        /\ UNCHANGED parentVars
     \/ /\ alive
        /\ exclusive /\ prompts # {}
        /\ Reject(c)
        /\ lost' = lost \cup InMessage(c)
        /\ UNCHANGED <<groupVars, prompts, alive, exclusive, told, hasty, latecomers>>
     \/ /\ alive
        /\ ~(exclusive /\ prompts # {})
        /\ fin' = [fin EXCEPT ![c] = [Idle EXCEPT !.pc = "waking", !.group = fin[c].group]]
        /\ prompts' = prompts \cup {c}
        /\ told' = told \cup {d \in InMessage(c) : GaveSign(d)}
        /\ hasty' = hasty \cup {d \in fin[c].named : ~GaveSign(d)}
        /\ latecomers' = latecomers \cup {d \in fin[c].joined : ~GaveSign(d)}
        /\ UNCHANGED <<handled, runs, groupVars, alive, exclusive, lost>>
  /\ UNCHANGED <<kind, proc, agent, task, callVars, fileVars, own>>

\* The parent's turn ends and sendPromptToSession returns.  Who was counted in the
\* group but is named in no message, sent or being written, goes with it.
WakeReturns(c) ==
  /\ fin[c].pc = "waking"
  /\ prompts' = prompts \ {c}
  /\ IF fin[c].group = NoGroup
     THEN UNCHANGED <<groupVars, lost>>
     ELSE /\ DeleteGroup(fin[c].group)
          /\ lost' = lost \cup (completed[fin[c].group] \ (told \cup UNION {InMessage(d) : d \in Child}))
  /\ Resolve(c)
  /\ UNCHANGED <<kind, proc, agent, task, callVars, alive, exclusive, fileVars, own, told, hasty, latecomers>>

\* The parent's turn fails or times out: the prompt rejects.
WakeRejects(c) ==
  /\ WakesFail
  /\ fin[c].pc = "waking"
  /\ prompts' = prompts \ {c}
  /\ Reject(c)
  /\ UNCHANGED <<kind, proc, agent, task, callVars, groupVars, alive, exclusive, fileVars, own, historyVars>>

-----------------------------------------------------------------------------
\* The parent: the user's turns, and its death between turns.

UserPrompts ==
  /\ alive
  /\ prompts = {}
  /\ \E c \in Child : proc[c] = "none"
  /\ prompts' = {User}
  /\ UNCHANGED <<kind, proc, agent, task, callVars, fin, handled, groupVars, alive, exclusive, fileVars, own, runs, historyVars>>

\* The turn lasts until the delegations it made have returned.
UserTurnEnds ==
  /\ User \in prompts
  /\ \A c \in Child : proc[c] # "spawning"
  /\ prompts' = prompts \ {User}
  /\ UNCHANGED <<kind, proc, agent, task, callVars, fin, handled, groupVars, alive, exclusive, fileVars, own, runs, historyVars>>

ParentDies ==
  /\ WakesFail
  /\ alive
  /\ prompts = {}
  /\ alive' = FALSE
  /\ UNCHANGED <<kind, proc, agent, task, callVars, fin, handled, groupVars, prompts, exclusive, fileVars, own, runs, historyVars>>

\* Every child has ended and every handler returned: nothing more happens.
Finished ==
  /\ \A c \in Child : proc[c] \in {"none", "quiet", "failed"}
  /\ \A c \in Child : timer[c] = {} /\ entering[c] = 0 /\ reading[c] = "idle" /\ fin[c] = Idle
  /\ prompts = {}
  /\ UNCHANGED vars

ChildStep(c) ==
  \/ Delegate(c) \/ SpawnFails(c) \/ SpawnReturns(c)
  \/ ChildReports(c) \/ ChildWritesFile(c) \/ ReadReportFile(c) \/ UnlinkReportFile(c)
  \/ TurnEnds(c) \/ TurnFails(c) \/ TurnTimesOut(c) \/ DetachedTurnEnds(c)
  \/ SessionEndDelayed(c) \/ Finalize(c)
  \/ HandleChildCompletion(c) \/ SendWake(c) \/ WakeReturns(c) \/ WakeRejects(c)
  \/ \E t \in AutoTimers : AutoReportIfNeeded(c, t)

Next ==
  \/ \E c \in Child : ChildStep(c)
  \/ UserPrompts \/ UserTurnEnds \/ ParentDies \/ Finished

\* Timers fire, file accesses and spawns return, and a prompt ends: when its
\* turn does, or by its timeout.  A child need not report or send updates.
Fairness ==
  /\ \A c \in Child :
       /\ WF_vars(SpawnReturns(c) \/ SpawnFails(c))
       /\ WF_vars(TurnEnds(c) \/ TurnFails(c) \/ TurnTimesOut(c))
       /\ WF_vars(SessionEndDelayed(c))
       /\ WF_vars(Finalize(c))
       /\ WF_vars(HandleChildCompletion(c)) /\ WF_vars(SendWake(c))
       /\ WF_vars(WakeReturns(c) \/ WakeRejects(c))
       /\ \A t \in AutoTimers : WF_vars(AutoReportIfNeeded(c, t))

Spec == Init /\ [][Next]_vars
FairSpec == Spec /\ Fairness

-----------------------------------------------------------------------------
TypeOK ==
  /\ kind \in [Child -> Kinds]
  /\ proc \in [Child -> Procs]
  /\ agent \in [Child -> AgentStatus]
  /\ task \in [Child -> TaskStatus]
  /\ timer \in [Child -> SUBSET Timers] /\ entering \in [Child -> Nat]
  /\ reading \in [Child -> {"idle", "delay", "unlink"}]
  /\ fin \in [Child -> Completions]
  /\ members \in [Child -> SUBSET Child] /\ completed \in [Child -> SUBSET Child]
  /\ active \in Child \cup {NoGroup}
  /\ prompts \subseteq Child \cup {User}
  /\ alive \in BOOLEAN /\ exclusive \in BOOLEAN
  /\ file \subseteq [child : Child, status : Outcomes] /\ watching \subseteq Child /\ handled \subseteq Child
  /\ own \in [Child -> {"none"} \cup Outcomes]
  /\ runs \in [Child -> Int]
  /\ told \subseteq Child /\ hasty \subseteq Child /\ latecomers \subseteq Child /\ lost \subseteq Child

\* finalizeChildCompletion is entered by up to six signals of the same child,
\* each after a file write: handleChildCompletion runs once for all of them,
\* unless a run rejected.
HandledOnce == \A c \in Child : runs[c] <= 1

\* Every report file names its agent; and its task.  One that does not speaks for every
\* watcher's child, or is about every watcher's task.
NamedFiles == \A c \in Child : ~kind[c].unnamed
TaskedFiles == \A c \in Child : ~kind[c].untasked

\* A wake is begun only for a group whose members have all given a sign of their end,
\* also when it grew during an earlier wake or was kept after a rejected one.  wakeParent
\* names a child that still works only when the child joined while it wrote the message.
WokenForEnded == NamedFiles => hasty = {}

\* "All N delegated agents have completed": wakeParent never names a child that works.
\* False of the code: the array it iterates between reads of the stores is the group's own.
AnnouncedHaveEnded == NamedFiles => hasty = {} /\ latecomers = {}

\* What the stores say of the task of a child whose prompt ends in time and whose
\* adapter does not reset the agent's status is what the child reported.
Stands(c) ==
  (own[c] # "none" /\ ~kind[c].unreliable /\ kind[c].provider # "sdk") => task[c] = own[c]

\* Neither the fallbacks nor another child's report overwrite what a child reported:
\* autoReportIfNeeded comes after the report, and a file that names its agent and task
\* has one meaning for every watcher.
ReportStands == NamedFiles /\ TaskedFiles => \A c \in Child : Stands(c)

\* The same for a child that names its task beside one whose file does not.  False of the
\* code (orchestrator.ts:1192): its watcher writes the other's outcome to its own child's task.
ReportStandsBesideUntasked == NamedFiles => \A c \in Child : ~kind[c].untasked => Stands(c)

\* The group a delegation joins exists: wakes that end in any order delete
\* each other's active group but leave none that points to a deleted group
\* (orchestrator.ts:752 reads it without a check).
ActiveGroupExists == active # NoGroup => members[active] # {}

Ended(c) == Known(c) /\ proc[c] # "working"

\* A child that has ended is named in a wake message after its end, unless the parent is
\* dead, rejected the wake, or the child was counted in a group that the end
\* of an earlier wake deleted.
EndedIsTold == \A c \in Child : Ended(c) ~> (c \in told \/ c \in lost \/ ~alive)

\* What delegateTaskWithSpawn answers for "after_all" (orchestrator.ts:771):
\* the parent is notified when all delegated agents have completed, so a child
\* that has ended is named in some wake message.
NotifiedOfAll == \A c \in Child : Ended(c) ~> c \in told
=============================================================================
