--------------------------- MODULE DelegationProofs ---------------------------
(***************************************************************************)
(* Proofs about Delegation, for every set of children, every mix of their  *)
(* kinds, and wakes that reject, overlap or find the parent dead.          *)
(*                                                                         *)
(* Two groups may be woken for at the same time and the end of one wake    *)
(* deletes the active group of the other, so nothing is claimed of which   *)
(* group is active; the argument is that a group counts only members that  *)
(* gave a sign of their end, that by cardinality a complete group has only *)
(* such members, and that a completion run is in flight or the child is    *)
(* handled, never both.                                                    *)
(***************************************************************************)
EXTENDS Delegation, FiniteSetTheorems, TLAPS

\* A child has a completion run in flight, or is handled, or neither; runs
\* counts exactly these.
CountInv ==
  \A c \in Child :
    /\ fin[c].pc # "idle" => c \notin handled
    /\ runs[c] = IF c \in handled \/ fin[c].pc # "idle" THEN 1 ELSE 0

\* A group counts only its members, and the active group exists.
GroupInv == (\A g \in Child : completed[g] \subseteq members[g]) /\ ActiveGroupExists

\* Whatever has started for a child, was counted, told or is named by a message that
\* was begun with it, the child gave a sign.
SignInv ==
  NamedFiles => hasty = {} /\ \A c \in Child :
    (\/ entering[c] > 0 \/ timer[c] # {} \/ fin[c].pc # "idle" \/ c \in told
     \/ \E g \in Child : c \in completed[g] \cup fin[g].named) => GaveSign(c)

\* Only a child that was spawned reports, and the report of a child whose turn
\* ends in time is what the stores say.
OwnInv ==
  /\ \A c \in Child : own[c] # "none" => Known(c)
  /\ \A f \in file : Known(f.child)
  /\ NamedFiles /\ TaskedFiles => \A c \in Child :
       own[c] # "none" /\ ~kind[c].unreliable /\ kind[c].provider # "sdk"
         => task[c] = own[c] /\ agent[c] = "completed"

\* A finished completion run has its type.
LEMMA IdleOK == Idle \in Completions /\ Idle.pc = "idle"
  BY DEF Idle, Completions

\* reportToParent keeps the types of the stores and of the calls it starts.
LEMMA ReportOK ==
  ASSUME TypeOK, NEW c \in Child, NEW t \in Child, NEW status \in Outcomes, NEW en \in [Child -> Nat],
         Report(c, t, status, en)
  PROVE  /\ task' \in [Child -> TaskStatus] /\ agent' \in [Child -> AgentStatus]
         /\ entering' \in [Child -> Nat]
  BY DEF TypeOK, Report, TaskStatus, AgentStatus, Outcomes

\* A group that a child joins or opens stays a set of children.
LEMMA JoinGroupOK ==
  ASSUME TypeOK, NEW c \in Child, JoinGroup(c)
  PROVE  members' \in [Child -> SUBSET Child] /\ active' \in Child /\ completed' = completed
  <1> DEFINE g == IF active = NoGroup THEN c ELSE active
  <1>1. g \in Child
    BY DEF TypeOK
  <1>2. members' = [members EXCEPT ![g] = @ \cup {c}] /\ active' = g /\ completed' = completed
    BY DEF JoinGroup
  <1> QED BY <1>1, <1>2 DEF TypeOK

\* It is added to the messages that are being read, and changes no run otherwise.
LEMMA JoinGroupRuns ==
  ASSUME TypeOK, NEW c \in Child, JoinGroup(c)
  PROVE  /\ fin' \in [Child -> Completions]
         /\ \A d \in Child : fin'[d].pc = fin[d].pc /\ fin'[d].named = fin[d].named /\ fin'[d].group = fin[d].group
  <1> DEFINE g == IF active = NoGroup THEN c ELSE active
             f(d) == IF fin[d].pc = "reading" /\ fin[d].group = g THEN [fin[d] EXCEPT !.joined = @ \cup {c}] ELSE fin[d]
  <1>1. fin' = [d \in Child |-> f(d)]
    BY DEF JoinGroup
  <1>2. ASSUME NEW d \in Child
        PROVE  /\ f(d) \in Completions
               /\ f(d).pc = fin[d].pc /\ f(d).named = fin[d].named /\ f(d).group = fin[d].group
    <2> DEFINE r == fin[d]
               j == r.joined \cup {c}
    <2>1. r \in Completions /\ j \subseteq Child
      BY DEF TypeOK, Completions
    <2> HIDE DEF r, j
    <2>2. LET s == [r EXCEPT !.joined = j] IN s \in Completions /\ s.pc = r.pc /\ s.named = r.named /\ s.group = r.group
      BY <2>1 DEF Completions
    <2>3. f(d) = [r EXCEPT !.joined = j] \/ f(d) = r
      BY DEF r, j
    <2> QED BY <2>1, <2>2, <2>3 DEF r
  <1> HIDE DEF f
  <1> QED BY <1>1, <1>2

\* A completion run that turns to the parent is one that reads.
LEMMA WakeParentOK ==
  ASSUME TypeOK, NEW c \in Child, NEW g \in Child \cup {NoGroup}, WakeParent(c, g)
  PROVE  fin' \in [Child -> Completions] /\ UNCHANGED <<handled, runs>>
  <1>1. Named(c, g) \subseteq Child
    BY DEF Named, TypeOK
  <1>2. [pc |-> "reading", group |-> g, named |-> Named(c, g), joined |-> {}] \in Completions
    BY <1>1 DEF Completions
  <1> QED BY <1>2 DEF WakeParent, TypeOK

\* Whatever comes of a wake, the run is settled or keeps its group.
LEMMA SendWakeRuns ==
  ASSUME TypeOK, NEW c \in Child, SendWake(c)
  PROVE  /\ fin[c].pc = "reading"
         /\ \/ Resolve(c) \/ Reject(c)
            \/ \E r \in Completions : /\ r.pc = "waking" /\ r.named = {}
                                      /\ fin' = [fin EXCEPT ![c] = r] /\ UNCHANGED <<handled, runs>>
         /\ \/ UNCHANGED <<members, completed, active>>
            \/ \E g \in Child : DeleteGroup(g)
  <1>1. fin[c] \in Completions
    BY DEF TypeOK
  <1>2. fin[c].group \in Child \cup {NoGroup}
    BY <1>1 DEF Completions
  <1> DEFINE g == fin[c].group
             r == [Idle EXCEPT !.pc = "waking", !.group = g]
  <1>3. r \in Completions /\ r.pc = "waking" /\ r.named = {}
    BY <1>2 DEF Completions, Idle
  <1> HIDE DEF r
  <1>4. Resolve(c) \/ Reject(c) \/ (fin' = [fin EXCEPT ![c] = r] /\ UNCHANGED <<handled, runs>>)
    BY DEF SendWake, r
  <1>5. UNCHANGED <<members, completed, active>> \/ (g \in Child /\ DeleteGroup(g))
    BY <1>2 DEF SendWake, groupVars
  <1>6. fin[c].pc = "reading"
    BY DEF SendWake
  <1> QED BY <1>3, <1>4, <1>5, <1>6

\* What a completion run does once its outcome is saved: it counts the child in
\* its group, and then resolves or turns to the parent.
LEMMA CompletionCases ==
  ASSUME NEW c \in Child, HandleChildCompletion(c)
  PROVE  /\ fin[c].pc = "outcome" /\ UNCHANGED <<kind, proc, agent, task, callVars, members, active, parentVars, file, own>>
         /\ \/ \E g \in Child :
                 /\ c \in members[g] /\ completed' = [completed EXCEPT ![g] = @ \cup {c}]
                 /\ (GroupDone(g, completed') /\ WakeParent(c, g)) \/ Resolve(c)
            \/ WakeParent(c, NoGroup) /\ completed' = completed
  BY DEF HandleChildCompletion

\* Every step keeps the types.
LEMMA TypeStep == ASSUME TypeOK, [Next]_vars PROVE TypeOK'
  <1> USE DEF callVars, groupVars, parentVars, historyVars, fileVars
  <1>1. ASSUME NEW c \in Child, ChildStep(c) PROVE TypeOK'
    <2>1. CASE Delegate(c)
      BY <2>1 DEF Delegate, TypeOK, Procs, AgentStatus, TaskStatus, Outcomes
    <2>2. CASE SpawnFails(c)
      BY <2>2 DEF SpawnFails, TypeOK, Procs, AgentStatus, TaskStatus, Outcomes
    <2>3. CASE SpawnReturns(c)
      <3>1. CASE JoinGroup(c)
        BY <2>3, <3>1, JoinGroupOK, JoinGroupRuns DEF SpawnReturns, TypeOK, Procs
      <3>2. CASE UNCHANGED <<groupVars, fin>>
        BY <2>3, <3>2 DEF SpawnReturns, TypeOK, Procs
      <3> QED BY <2>3, <3>1, <3>2 DEF SpawnReturns
    <2>4. CASE ChildReports(c)
      BY <2>4 DEF ChildReports, Report, Known, TypeOK, Procs, AgentStatus, TaskStatus, Outcomes
    <2>5. CASE ChildWritesFile(c)
      BY <2>5 DEF ChildWritesFile, TypeOK, Procs, AgentStatus, TaskStatus, Outcomes
    <2>6. CASE ReadReportFile(c)
      <3>1. ASSUME NEW f \in file, Report(Reporter(c, f), ReportedTask(c, f), f.status, entering),
                   own' = IF Reporter(c, f) = f.child THEN [own EXCEPT ![f.child] = f.status] ELSE own,
                   reading' = [reading EXCEPT ![c] = "unlink"]
            PROVE  TypeOK'
        <4>1. f.child \in Child /\ Reporter(c, f) \in Child /\ ReportedTask(c, f) \in Child /\ f.status \in Outcomes
          BY <1>1, <3>1 DEF Reporter, ReportedTask, TypeOK
        <4>2. /\ task' \in [Child -> TaskStatus] /\ agent' \in [Child -> AgentStatus]
              /\ entering' \in [Child -> Nat]
          BY <3>1, <4>1, ReportOK DEF TypeOK
        <4> QED BY <2>6, <3>1, <4>1, <4>2 DEF ReadReportFile, TypeOK
      <3>2. CASE file = {} /\ reading' = [reading EXCEPT ![c] = "idle"] /\ UNCHANGED <<task, agent, own, entering>>
        BY <2>6, <3>2 DEF ReadReportFile, TypeOK
      <3> QED BY <2>6, <3>1, <3>2 DEF ReadReportFile
    <2>7. CASE UnlinkReportFile(c)
      BY <2>7 DEF UnlinkReportFile, TypeOK, Procs, AgentStatus, TaskStatus, Outcomes
    <2>8. CASE TurnEnds(c)
      BY <2>8 DEF TurnEnds, Timers, AutoTimers, TypeOK, Procs, AgentStatus, TaskStatus, Outcomes
    <2>9. CASE TurnFails(c)
      BY <2>9 DEF TurnFails, ChildError, TypeOK, Procs, AgentStatus, TaskStatus, Outcomes
    <2>10. CASE TurnTimesOut(c)
      BY <2>10 DEF TurnTimesOut, ChildError, TypeOK, Procs, AgentStatus, TaskStatus, Outcomes
    <2>11. CASE DetachedTurnEnds(c)
      BY <2>11 DEF DetachedTurnEnds, TypeOK, Procs, AgentStatus, TaskStatus, Outcomes
    <2>12. CASE SessionEndDelayed(c)
      BY <2>12 DEF SessionEndDelayed, TypeOK, Procs, AgentStatus, TaskStatus, Outcomes
    <2>13. CASE Finalize(c)
      <3>1. entering' \in [Child -> Nat]
        BY <2>13 DEF Finalize, TypeOK
      <3>2. runs' \in [Child -> Int]
        BY <2>13 DEF Finalize, TypeOK
      <3>3. fin[c] \in Completions
        BY DEF TypeOK
      <3>4. [fin[c] EXCEPT !.pc = "outcome"] \in Completions
        BY <3>3 DEF Completions
      <3>5. fin' \in [Child -> Completions]
        BY <2>13, <3>4 DEF Finalize, TypeOK
      <3> QED BY <2>13, <3>1, <3>2, <3>5 DEF Finalize, TypeOK
    <2>14. CASE HandleChildCompletion(c)
      <3>1. fin' \in [Child -> Completions] /\ handled' \subseteq Child /\ runs' = runs
        <4>1. ASSUME NEW g \in Child \cup {NoGroup}, WakeParent(c, g)
              PROVE  fin' \in [Child -> Completions] /\ handled' \subseteq Child /\ runs' = runs
          BY <1>1, <4>1, WakeParentOK DEF TypeOK
        <4>2. ASSUME Resolve(c) PROVE fin' \in [Child -> Completions] /\ handled' \subseteq Child /\ runs' = runs
          BY <1>1, <4>2, IdleOK DEF Resolve, TypeOK
        <4> QED BY <1>1, <2>14, <4>1, <4>2, CompletionCases
      <3>2. completed' \in [Child -> SUBSET Child]
        <4>1. completed' = completed \/ \E g \in Child : completed' = [completed EXCEPT ![g] = @ \cup {c}]
          BY <1>1, <2>14, CompletionCases
        <4> QED BY <1>1, <4>1 DEF TypeOK
      <3> QED BY <2>14, <3>1, <3>2 DEF HandleChildCompletion, TypeOK
    <2>18. CASE SendWake(c)
      <3>1. fin' \in [Child -> Completions] /\ handled' \subseteq Child /\ runs' \in [Child -> Int]
        BY <1>1, <2>18, SendWakeRuns, IdleOK DEF Resolve, Reject, TypeOK
      <3>2. members' \in [Child -> SUBSET Child] /\ completed' \in [Child -> SUBSET Child] /\ active' \in Child \cup {NoGroup}
        BY <1>1, <2>18, SendWakeRuns DEF DeleteGroup, TypeOK
      <3>3. InMessage(c) \subseteq Child
        <4>1. fin[c] \in Completions
          BY <1>1 DEF TypeOK
        <4> QED BY <4>1 DEF Completions, InMessage
      <3>4. fin[c].named \subseteq Child /\ fin[c].joined \subseteq Child
        BY <3>3 DEF InMessage
      <3>5. /\ prompts' \subseteq Child \cup {User} /\ alive' = alive /\ exclusive' = exclusive
            /\ told' \subseteq Child /\ hasty' \subseteq Child /\ latecomers' \subseteq Child /\ lost' \subseteq Child
        BY <1>1, <2>18, <3>3, <3>4 DEF SendWake, TypeOK
      <3> QED BY <2>18, <3>1, <3>2, <3>5 DEF SendWake, TypeOK
    <2>15. CASE WakeReturns(c)
      <3>1. fin[c] \in Completions
        BY <1>1 DEF TypeOK
      <3>2. fin[c].group \in Child \cup {NoGroup}
        BY <3>1 DEF Completions
      <3>3. CASE fin[c].group = NoGroup
        BY <2>15, <3>3, IdleOK DEF WakeReturns, Resolve, TypeOK
      <3>4. CASE fin[c].group # NoGroup
        BY <2>15, <3>2, <3>4, IdleOK DEF WakeReturns, DeleteGroup, Resolve, TypeOK
      <3> QED BY <3>3, <3>4
    <2>16. CASE WakeRejects(c)
      BY <2>16, IdleOK DEF WakeRejects, Reject, TypeOK
    <2>17. ASSUME NEW t \in AutoTimers, AutoReportIfNeeded(c, t) PROVE TypeOK'
      <3>1. timer' \in [Child -> SUBSET Timers]
        BY <2>17 DEF AutoReportIfNeeded, TypeOK
      <3>2. [entering EXCEPT ![c] = @ + 1] \in [Child -> Nat]
        BY <1>1 DEF TypeOK
      <3>3. /\ task' \in [Child -> TaskStatus] /\ agent' \in [Child -> AgentStatus]
            /\ entering' \in [Child -> Nat]
        BY <1>1, <2>17, <3>2, ReportOK DEF AutoReportIfNeeded, TypeOK, Outcomes
      <3> QED BY <2>17, <3>1, <3>3 DEF AutoReportIfNeeded, TypeOK
    <2> QED BY <1>1, <2>1, <2>2, <2>3, <2>4, <2>5, <2>6, <2>7, <2>8, <2>9, <2>10, <2>11, <2>12, <2>13, <2>14, <2>15, <2>16, <2>17, <2>18 DEF ChildStep
  <1>2. CASE UserPrompts
    BY <1>2 DEF UserPrompts, TypeOK, Procs, AgentStatus, TaskStatus, Outcomes
  <1>3. CASE UserTurnEnds
    BY <1>3 DEF UserTurnEnds, TypeOK, Procs, AgentStatus, TaskStatus, Outcomes
  <1>4. CASE ParentDies
    BY <1>4 DEF ParentDies, TypeOK, Procs, AgentStatus, TaskStatus, Outcomes
  <1>5. CASE UNCHANGED vars
    BY <1>5 DEF vars, TypeOK, Procs, AgentStatus, TaskStatus, Outcomes
  <1> QED BY <1>1, <1>2, <1>3, <1>4, <1>5 DEF Next, Finished

\* A group whose counted members are as many as its members is all counted.
LEMMA GroupDoneAll ==
  ASSUME TypeOK, NEW g \in Child, NEW cp, cp[g] \subseteq members[g], GroupDone(g, cp)
  PROVE  members[g] = cp[g]
  <1>1. IsFiniteSet(members[g])
    BY ChildAssumption, FS_Subset DEF TypeOK
  <1>2. IsFiniteSet(cp[g]) /\ Cardinality(cp[g]) <= Cardinality(members[g])
    BY <1>1, FS_Subset
  <1>3. Cardinality(cp[g]) = Cardinality(members[g])
    BY <1>1, <1>2, FS_CardinalityType DEF GroupDone
  <1> QED BY <1>1, <1>3, FS_Subset

\* Every step keeps the count of completion runs.
LEMMA CountStep == ASSUME TypeOK, CountInv, [Next]_vars PROVE CountInv'
  <1> USE DEF callVars, groupVars, parentVars, historyVars, fileVars
  <1>1. ASSUME NEW c \in Child, ChildStep(c) PROVE CountInv'
    <2>1. CASE Delegate(c)
      BY <2>1 DEF Delegate, TypeOK, CountInv, Completions
    <2>2. CASE SpawnFails(c)
      BY <2>2 DEF SpawnFails, TypeOK, CountInv, Completions
    <2>3. CASE SpawnReturns(c)
      <3>1. UNCHANGED <<handled, runs>> /\ \A d \in Child : fin'[d].pc = fin[d].pc
        BY <1>1, <2>3, JoinGroupRuns DEF SpawnReturns
      <3> QED BY <3>1 DEF CountInv
    <2>4. CASE ChildReports(c)
      BY <2>4 DEF ChildReports, Report, Known, TypeOK, CountInv, Completions
    <2>5. CASE ChildWritesFile(c)
      BY <2>5 DEF ChildWritesFile, TypeOK, CountInv, Completions
    <2>6. CASE ReadReportFile(c)
      BY <2>6 DEF ReadReportFile, Report, Reporter, ReportedTask, Known, TypeOK, CountInv, Completions
    <2>7. CASE UnlinkReportFile(c)
      BY <2>7 DEF UnlinkReportFile, TypeOK, CountInv, Completions
    <2>8. CASE TurnEnds(c)
      BY <2>8 DEF TurnEnds, Timers, AutoTimers, TypeOK, CountInv, Completions
    <2>9. CASE TurnFails(c)
      BY <2>9 DEF TurnFails, ChildError, TypeOK, CountInv, Completions
    <2>10. CASE TurnTimesOut(c)
      BY <2>10 DEF TurnTimesOut, ChildError, TypeOK, CountInv, Completions
    <2>11. CASE DetachedTurnEnds(c)
      BY <2>11 DEF DetachedTurnEnds, TypeOK, CountInv, Completions
    <2>12. CASE SessionEndDelayed(c)
      BY <2>12 DEF SessionEndDelayed, TypeOK, CountInv, Completions
    <2>13. CASE Finalize(c)
      BY <2>13 DEF Finalize, MustHandle, Idle, TypeOK, CountInv, Completions
    <2>14. CASE HandleChildCompletion(c)
      <3>1. fin[c].pc = "outcome" /\ c \notin handled /\ runs[c] = 1
        BY <1>1, <2>14, CompletionCases DEF CountInv
      <3>2. CASE Resolve(c)
        BY <1>1, <3>1, <3>2 DEF Resolve, Idle, CountInv, TypeOK
      <3>3. ASSUME NEW g, WakeParent(c, g) PROVE CountInv'
        BY <1>1, <3>1, <3>3 DEF WakeParent, CountInv, TypeOK
      <3> QED BY <1>1, <2>14, <3>2, <3>3, CompletionCases
    <2>18. CASE SendWake(c)
      <3>1. fin[c].pc = "reading" /\ c \notin handled /\ runs[c] = 1
        BY <1>1, <2>18, SendWakeRuns DEF CountInv
      <3> QED BY <1>1, <2>18, <3>1, SendWakeRuns DEF Resolve, Reject, Idle, CountInv, TypeOK
    <2>15. CASE WakeReturns(c)
      BY <2>15 DEF WakeReturns, DeleteGroup, Resolve, Idle, TypeOK, CountInv, Completions
    <2>16. CASE WakeRejects(c)
      BY <2>16 DEF WakeRejects, Reject, Idle, TypeOK, CountInv, Completions
    <2>17. ASSUME NEW t \in AutoTimers, AutoReportIfNeeded(c, t) PROVE CountInv'
      BY <2>17 DEF AutoReportIfNeeded, Report, Known, AutoReportSkips, TypeOK, CountInv, Completions
    <2> QED BY <1>1, <2>1, <2>2, <2>3, <2>4, <2>5, <2>6, <2>7, <2>8, <2>9, <2>10, <2>11, <2>12, <2>13, <2>14, <2>15, <2>16, <2>17, <2>18 DEF ChildStep
  <1>2. CASE UserPrompts
    BY <1>2 DEF UserPrompts, TypeOK, CountInv, Completions
  <1>3. CASE UserTurnEnds
    BY <1>3 DEF UserTurnEnds, TypeOK, CountInv, Completions
  <1>4. CASE ParentDies
    BY <1>4 DEF ParentDies, TypeOK, CountInv, Completions
  <1>5. CASE UNCHANGED vars
    BY <1>5 DEF vars, TypeOK, CountInv, Completions
  <1> QED BY <1>1, <1>2, <1>3, <1>4, <1>5 DEF Next, Finished

\* Every step keeps the groups.
LEMMA GroupStep == ASSUME TypeOK, CountInv, GroupInv, [Next]_vars PROVE GroupInv'
  <1> USE DEF callVars, groupVars, parentVars, historyVars, fileVars
  <1>1. ASSUME NEW c \in Child, ChildStep(c) PROVE GroupInv'
    <2>1. CASE Delegate(c)
      BY <2>1 DEF Delegate, TypeOK, GroupInv, ActiveGroupExists
    <2>2. CASE SpawnFails(c)
      BY <2>2 DEF SpawnFails, TypeOK, GroupInv, ActiveGroupExists
    <2>3. CASE SpawnReturns(c)
      <3>1. CASE JoinGroup(c)
        <4> DEFINE g == IF active = NoGroup THEN c ELSE active
        <4>1. g \in Child
          BY <1>1 DEF TypeOK
        <4>2. members' = [members EXCEPT ![g] = @ \cup {c}] /\ active' = g /\ completed' = completed
          BY <3>1 DEF JoinGroup
        <4> HIDE DEF g
        <4>3. c \in members'[g] /\ \A h \in Child : members[h] \subseteq members'[h]
          BY <4>1, <4>2 DEF TypeOK
        <4> QED BY <4>2, <4>3 DEF GroupInv, ActiveGroupExists
      <3>2. CASE UNCHANGED <<groupVars, fin>>
        BY <3>2 DEF GroupInv, ActiveGroupExists
      <3> QED BY <2>3, <3>1, <3>2 DEF SpawnReturns
    <2>4. CASE ChildReports(c)
      BY <2>4 DEF ChildReports, Report, Known, TypeOK, GroupInv, ActiveGroupExists
    <2>5. CASE ChildWritesFile(c)
      BY <2>5 DEF ChildWritesFile, TypeOK, GroupInv, ActiveGroupExists
    <2>6. CASE ReadReportFile(c)
      BY <2>6 DEF ReadReportFile, Report, Reporter, ReportedTask, Known, TypeOK, GroupInv, ActiveGroupExists
    <2>7. CASE UnlinkReportFile(c)
      BY <2>7 DEF UnlinkReportFile, TypeOK, GroupInv, ActiveGroupExists
    <2>8. CASE TurnEnds(c)
      BY <2>8 DEF TurnEnds, Timers, AutoTimers, TypeOK, GroupInv, ActiveGroupExists
    <2>9. CASE TurnFails(c)
      BY <2>9 DEF TurnFails, ChildError, TypeOK, GroupInv, ActiveGroupExists
    <2>10. CASE TurnTimesOut(c)
      BY <2>10 DEF TurnTimesOut, ChildError, TypeOK, GroupInv, ActiveGroupExists
    <2>11. CASE DetachedTurnEnds(c)
      BY <2>11 DEF DetachedTurnEnds, TypeOK, GroupInv, ActiveGroupExists
    <2>12. CASE SessionEndDelayed(c)
      BY <2>12 DEF SessionEndDelayed, TypeOK, GroupInv, ActiveGroupExists
    <2>13. CASE Finalize(c)
      BY <2>13 DEF Finalize, MustHandle, Idle, TypeOK, GroupInv, ActiveGroupExists
    <2>14. CASE HandleChildCompletion(c)
      <3>1. UNCHANGED <<members, active>>
        BY <1>1, <2>14, CompletionCases
      <3>2. \/ completed' = completed
            \/ \E g \in Child : c \in members[g] /\ completed' = [completed EXCEPT ![g] = @ \cup {c}]
        BY <1>1, <2>14, CompletionCases
      <3>3. \A g \in Child : completed'[g] \subseteq members[g]
        BY <1>1, <3>2 DEF GroupInv, TypeOK
      <3> QED BY <3>1, <3>3 DEF GroupInv, ActiveGroupExists
    <2>18. CASE SendWake(c)
      BY <1>1, <2>18, SendWakeRuns DEF DeleteGroup, GroupInv, ActiveGroupExists, TypeOK
    <2>15. CASE WakeReturns(c)
      BY <2>15 DEF WakeReturns, DeleteGroup, Resolve, Idle, TypeOK, GroupInv, ActiveGroupExists
    <2>16. CASE WakeRejects(c)
      BY <2>16 DEF WakeRejects, Reject, Idle, TypeOK, GroupInv, ActiveGroupExists
    <2>17. ASSUME NEW t \in AutoTimers, AutoReportIfNeeded(c, t) PROVE GroupInv'
      BY <2>17 DEF AutoReportIfNeeded, Report, Known, AutoReportSkips, TypeOK, GroupInv, ActiveGroupExists
    <2> QED BY <1>1, <2>1, <2>2, <2>3, <2>4, <2>5, <2>6, <2>7, <2>8, <2>9, <2>10, <2>11, <2>12, <2>13, <2>14, <2>15, <2>16, <2>17, <2>18 DEF ChildStep
  <1>2. CASE UserPrompts
    BY <1>2 DEF UserPrompts, TypeOK, GroupInv, ActiveGroupExists
  <1>3. CASE UserTurnEnds
    BY <1>3 DEF UserTurnEnds, TypeOK, GroupInv, ActiveGroupExists
  <1>4. CASE ParentDies
    BY <1>4 DEF ParentDies, TypeOK, GroupInv, ActiveGroupExists
  <1>5. CASE UNCHANGED vars
    BY <1>5 DEF vars, TypeOK, GroupInv, ActiveGroupExists
  <1> QED BY <1>1, <1>2, <1>3, <1>4, <1>5 DEF Next, Finished

\* Every step keeps the reports.
LEMMA OwnStep == ASSUME TypeOK, OwnInv, [Next]_vars PROVE OwnInv'
  <1> USE DEF callVars, groupVars, parentVars, historyVars, fileVars
  <1>1. ASSUME NEW c \in Child, ChildStep(c) PROVE OwnInv'
    <2>1. CASE Delegate(c)
      BY <2>1 DEF Delegate, TypeOK, OwnInv, NamedFiles, TaskedFiles, Known
    <2>2. CASE SpawnFails(c)
      BY <2>2 DEF SpawnFails, TypeOK, OwnInv, NamedFiles, TaskedFiles, Known
    <2>3. CASE SpawnReturns(c)
      BY <2>3 DEF SpawnReturns, JoinGroup, TypeOK, OwnInv, NamedFiles, TaskedFiles, Known
    <2>4. CASE ChildReports(c)
      BY <2>4 DEF ChildReports, Report, Known, TypeOK, OwnInv, NamedFiles, TaskedFiles, Known
    <2>5. CASE ChildWritesFile(c)
      BY <2>5 DEF ChildWritesFile, TypeOK, OwnInv, NamedFiles, TaskedFiles, Known
    <2>6. CASE ReadReportFile(c)
      BY <2>6 DEF ReadReportFile, Report, Reporter, ReportedTask, Known, TypeOK, OwnInv, NamedFiles, TaskedFiles, Known
    <2>7. CASE UnlinkReportFile(c)
      BY <2>7 DEF UnlinkReportFile, TypeOK, OwnInv, NamedFiles, TaskedFiles, Known
    <2>8. CASE TurnEnds(c)
      BY <2>8 DEF TurnEnds, Timers, AutoTimers, TypeOK, OwnInv, NamedFiles, TaskedFiles, Known
    <2>9. CASE TurnFails(c)
      BY <2>9 DEF TurnFails, ChildError, TypeOK, OwnInv, NamedFiles, TaskedFiles, Known
    <2>10. CASE TurnTimesOut(c)
      BY <2>10 DEF TurnTimesOut, ChildError, TypeOK, OwnInv, NamedFiles, TaskedFiles, Known
    <2>11. CASE DetachedTurnEnds(c)
      BY <2>11 DEF DetachedTurnEnds, TypeOK, OwnInv, NamedFiles, TaskedFiles, Known
    <2>12. CASE SessionEndDelayed(c)
      BY <2>12 DEF SessionEndDelayed, TypeOK, OwnInv, NamedFiles, TaskedFiles, Known
    <2>13. CASE Finalize(c)
      BY <2>13 DEF Finalize, MustHandle, Idle, TypeOK, OwnInv, NamedFiles, TaskedFiles, Known
    <2>14. CASE HandleChildCompletion(c)
      BY <2>14 DEF HandleChildCompletion, TypeOK, OwnInv, NamedFiles, TaskedFiles, Known
    <2>18. CASE SendWake(c)
      BY <2>18 DEF SendWake, TypeOK, OwnInv, NamedFiles, TaskedFiles, Known
    <2>15. CASE WakeReturns(c)
      BY <2>15 DEF WakeReturns, DeleteGroup, Resolve, Idle, TypeOK, OwnInv, NamedFiles, TaskedFiles, Known
    <2>16. CASE WakeRejects(c)
      BY <2>16 DEF WakeRejects, Reject, Idle, TypeOK, OwnInv, NamedFiles, TaskedFiles, Known
    <2>17. ASSUME NEW t \in AutoTimers, AutoReportIfNeeded(c, t) PROVE OwnInv'
      BY <2>17 DEF AutoReportIfNeeded, Report, Known, AutoReportSkips, TypeOK, OwnInv, NamedFiles, TaskedFiles, Known
    <2> QED BY <1>1, <2>1, <2>2, <2>3, <2>4, <2>5, <2>6, <2>7, <2>8, <2>9, <2>10, <2>11, <2>12, <2>13, <2>14, <2>15, <2>16, <2>17, <2>18 DEF ChildStep
  <1>2. CASE UserPrompts
    BY <1>2 DEF UserPrompts, TypeOK, OwnInv, NamedFiles, TaskedFiles, Known
  <1>3. CASE UserTurnEnds
    BY <1>3 DEF UserTurnEnds, TypeOK, OwnInv, NamedFiles, TaskedFiles, Known
  <1>4. CASE ParentDies
    BY <1>4 DEF ParentDies, TypeOK, OwnInv, NamedFiles, TaskedFiles, Known
  <1>5. CASE UNCHANGED vars
    BY <1>5 DEF vars, TypeOK, OwnInv, NamedFiles, TaskedFiles, Known
  <1> QED BY <1>1, <1>2, <1>3, <1>4, <1>5 DEF Next, Finished

\* Every step keeps the signs.
LEMMA SignStep == ASSUME TypeOK, GroupInv, SignInv, [Next]_vars PROVE SignInv'
  <1> USE DEF callVars, groupVars, parentVars, historyVars, fileVars
  <1>1. ASSUME NEW c \in Child, ChildStep(c) PROVE SignInv'
    <2>1. CASE Delegate(c)
      BY <2>1 DEF Delegate, TypeOK, Outcomes, SignInv, NamedFiles, GaveSign
    <2>2. CASE SpawnFails(c)
      BY <2>2 DEF SpawnFails, TypeOK, Outcomes, SignInv, NamedFiles, GaveSign
    <2>3. CASE SpawnReturns(c)
      <3>1. \A d \in Child : fin'[d].pc = fin[d].pc /\ fin'[d].named = fin[d].named
        BY <1>1, <2>3, JoinGroupRuns DEF SpawnReturns
      <3>2. \A d \in Child : GaveSign(d) => GaveSign(d)'
        BY <1>1, <2>3 DEF SpawnReturns, GaveSign, TypeOK
      <3>3. UNCHANGED <<kind, entering, timer, told, hasty, completed>>
        BY <2>3, <3>1 DEF SpawnReturns, JoinGroup
      <3> QED BY <3>1, <3>2, <3>3 DEF SignInv, NamedFiles
    <2>4. CASE ChildReports(c)
      BY <2>4 DEF ChildReports, Report, Known, TypeOK, Outcomes, SignInv, NamedFiles, GaveSign
    <2>5. CASE ChildWritesFile(c)
      BY <2>5 DEF ChildWritesFile, TypeOK, Outcomes, SignInv, NamedFiles, GaveSign
    <2>6. CASE ReadReportFile(c)
      BY <2>6 DEF ReadReportFile, Report, Reporter, ReportedTask, Known, TypeOK, Outcomes, SignInv, NamedFiles, GaveSign
    <2>7. CASE UnlinkReportFile(c)
      BY <2>7 DEF UnlinkReportFile, TypeOK, Outcomes, SignInv, NamedFiles, GaveSign
    <2>8. CASE TurnEnds(c)
      BY <2>8 DEF TurnEnds, Timers, AutoTimers, TypeOK, Outcomes, SignInv, NamedFiles, GaveSign
    <2>9. CASE TurnFails(c)
      BY <2>9 DEF TurnFails, ChildError, TypeOK, Outcomes, SignInv, NamedFiles, GaveSign
    <2>10. CASE TurnTimesOut(c)
      BY <2>10 DEF TurnTimesOut, ChildError, TypeOK, Outcomes, SignInv, NamedFiles, GaveSign
    <2>11. CASE DetachedTurnEnds(c)
      BY <2>11 DEF DetachedTurnEnds, TypeOK, Outcomes, SignInv, NamedFiles, GaveSign
    <2>12. CASE SessionEndDelayed(c)
      BY <2>12 DEF SessionEndDelayed, TypeOK, Outcomes, SignInv, NamedFiles, GaveSign
    <2>13. CASE Finalize(c)
      BY <2>13 DEF Finalize, MustHandle, Idle, TypeOK, Outcomes, SignInv, NamedFiles, GaveSign
    <2>14. CASE HandleChildCompletion(c)
      <3> SUFFICES ASSUME NamedFiles' PROVE SignInv'
        BY DEF SignInv
      <3>1. NamedFiles /\ UNCHANGED <<proc, own, timer, entering>> /\ fin[c].pc = "outcome"
        BY <1>1, <2>14, CompletionCases DEF NamedFiles
      <3>2. \A d \in Child : GaveSign(d)' <=> GaveSign(d)
        BY <3>1 DEF GaveSign
      <3>3. GaveSign(c)
        BY <1>1, <3>1 DEF SignInv
      <3>4. /\ \A d \in Child : d # c => fin'[d] = fin[d]
            /\ \A d \in fin'[c].named : d \in Child /\ GaveSign(d)
        <4>1. ASSUME NEW g \in Child, c \in members[g], completed' = [completed EXCEPT ![g] = @ \cup {c}],
                     GroupDone(g, completed')
              PROVE  \A d \in Named(c, g) : d \in Child /\ GaveSign(d)
          <5>1. completed'[g] = completed[g] \cup {c}
            BY <4>1 DEF TypeOK
          <5>2. completed'[g] \subseteq members[g]
            BY <4>1, <5>1 DEF GroupInv
          <5>3. members[g] = completed[g] \cup {c}
            BY <4>1, <5>1, <5>2, GroupDoneAll
          <5>4. g # NoGroup
            BY ChildAssumption
          <5> QED BY <1>1, <3>1, <3>3, <5>3, <5>4 DEF Named, SignInv, TypeOK
        <4>2. \A d \in Named(c, NoGroup) : d \in Child /\ GaveSign(d)
          BY <1>1, <3>3 DEF Named
        <4>3. ASSUME NEW g, WakeParent(c, g), \A d \in Named(c, g) : d \in Child /\ GaveSign(d)
              PROVE  /\ \A d \in Child : d # c => fin'[d] = fin[d]
                     /\ \A d \in fin'[c].named : d \in Child /\ GaveSign(d)
          BY <1>1, <4>3 DEF WakeParent, TypeOK
        <4>4. ASSUME Resolve(c)
              PROVE  /\ \A d \in Child : d # c => fin'[d] = fin[d]
                     /\ \A d \in fin'[c].named : d \in Child /\ GaveSign(d)
          BY <1>1, <4>4 DEF Resolve, Idle, TypeOK
        <4> QED BY <1>1, <2>14, <4>1, <4>2, <4>3, <4>4, CompletionCases
      <3>5. \A g, d \in Child : d \in completed'[g] => d = c \/ d \in completed[g]
        <4>1. completed' = completed \/ \E g \in Child : completed' = [completed EXCEPT ![g] = @ \cup {c}]
          BY <1>1, <2>14, CompletionCases
        <4> QED BY <1>1, <4>1 DEF TypeOK
      <3>6. UNCHANGED <<told, hasty>>
        BY <1>1, <2>14, CompletionCases
      <3> QED BY <1>1, <3>1, <3>2, <3>3, <3>4, <3>5, <3>6 DEF SignInv
    <2>18. CASE SendWake(c)
      <3> SUFFICES ASSUME NamedFiles' PROVE SignInv'
        BY DEF SignInv
      <3>1. NamedFiles /\ UNCHANGED <<proc, own, timer, entering>> /\ fin[c].pc = "reading"
        BY <2>18 DEF SendWake, NamedFiles
      <3>2. \A d \in Child : GaveSign(d)' <=> GaveSign(d)
        BY <3>1 DEF GaveSign
      <3>3. GaveSign(c) /\ \A d \in fin[c].named : GaveSign(d)
        <4>1. fin[c] \in Completions
          BY <1>1 DEF TypeOK
        <4>2. fin[c].named \subseteq Child
          BY <4>1 DEF Completions
        <4> QED BY <1>1, <3>1, <4>2 DEF SignInv
      <3>4. (\A d \in Child : d # c => fin'[d] = fin[d]) /\ fin'[c].named = {}
        BY <1>1, <2>18, SendWakeRuns DEF Resolve, Reject, Idle, TypeOK
      <3>5. \A g, d \in Child : d \in completed'[g] => d \in completed[g]
        BY <1>1, <2>18, SendWakeRuns DEF DeleteGroup, TypeOK
      <3>6. hasty' = {} /\ \A d \in told' : d \in told \/ GaveSign(d)
        BY <2>18, <3>1, <3>3 DEF SendWake, SignInv
      <3> QED BY <1>1, <3>1, <3>2, <3>3, <3>4, <3>5, <3>6 DEF SignInv
    <2>15. CASE WakeReturns(c)
      BY <2>15 DEF WakeReturns, DeleteGroup, Resolve, Idle, TypeOK, Outcomes, SignInv, NamedFiles, GaveSign
    <2>16. CASE WakeRejects(c)
      BY <2>16 DEF WakeRejects, Reject, Idle, TypeOK, Outcomes, SignInv, NamedFiles, GaveSign
    <2>17. ASSUME NEW t \in AutoTimers, AutoReportIfNeeded(c, t) PROVE SignInv'
      BY <2>17 DEF AutoReportIfNeeded, Report, Known, AutoReportSkips, TypeOK, Outcomes, SignInv, NamedFiles, GaveSign
    <2> QED BY <1>1, <2>1, <2>2, <2>3, <2>4, <2>5, <2>6, <2>7, <2>8, <2>9, <2>10, <2>11, <2>12, <2>13, <2>14, <2>15, <2>16, <2>17, <2>18 DEF ChildStep
  <1>2. CASE UserPrompts
    BY <1>2 DEF UserPrompts, TypeOK, Outcomes, SignInv, NamedFiles, GaveSign
  <1>3. CASE UserTurnEnds
    BY <1>3 DEF UserTurnEnds, TypeOK, Outcomes, SignInv, NamedFiles, GaveSign
  <1>4. CASE ParentDies
    BY <1>4 DEF ParentDies, TypeOK, Outcomes, SignInv, NamedFiles, GaveSign
  <1>5. CASE UNCHANGED vars
    BY <1>5 DEF vars, TypeOK, Outcomes, SignInv, NamedFiles, GaveSign
  <1> QED BY <1>1, <1>2, <1>3, <1>4, <1>5 DEF Next, Finished

-----------------------------------------------------------------------------
(* The theorems                                                            *)

\* Every behaviour is well typed, for any set of children and any mix of their
\* kinds and of failing wakes.
THEOREM Typing == Spec => []TypeOK
  <1>1. Init => TypeOK
    BY ChildAssumption, SetupsAssumption, IdleOK DEF Init, TypeOK, Procs, AgentStatus, TaskStatus
  <1> QED BY <1>1, TypeStep, PTL DEF Spec

\* handleChildCompletion runs once for all the signals of a child, unless a run
\* rejected.
THEOREM CompletionHandledOnce == Spec => []HandledOnce
  <1>1. Init => CountInv
    BY DEF Init, CountInv, Idle
  <1>2. CountInv => HandledOnce
    BY DEF CountInv, HandledOnce
  <1> QED BY <1>1, <1>2, Typing, CountStep, PTL DEF Spec

\* The group that a delegation joins exists, however the wakes of earlier groups
\* end.
THEOREM GroupJoined == Spec => []ActiveGroupExists
  <1>1. Init => CountInv /\ GroupInv
    BY DEF Init, CountInv, Idle, GroupInv, ActiveGroupExists
  <1>2. GroupInv => ActiveGroupExists
    BY DEF GroupInv
  <1> QED BY <1>1, <1>2, Typing, CountStep, GroupStep, PTL DEF Spec

\* When a wake begins, every member of its group has given a sign of its end, whatever
\* wakes overlap; a child named at work has joined while the message was written.
THEOREM OnlyEndedWokenFor == Spec => []WokenForEnded
  <1>1. Init => CountInv /\ GroupInv /\ SignInv
    BY DEF Init, CountInv, Idle, GroupInv, ActiveGroupExists, SignInv
  <1>2. SignInv => WokenForEnded
    BY DEF SignInv, WokenForEnded
  <1> QED BY <1>1, <1>2, Typing, CountStep, GroupStep, SignStep, PTL DEF Spec

\* When report files name their agent and task, neither a fallback nor the watcher of
\* another child overwrites the report of a child whose prompt ends in time and whose
\* adapter leaves the agent's status alone.
THEOREM ReportKept == Spec => []ReportStands
  <1>1. Init => OwnInv
    BY DEF Init, OwnInv
  <1>2. OwnInv => ReportStands
    BY DEF OwnInv, ReportStands, Stands
  <1> QED BY <1>1, <1>2, Typing, OwnStep, PTL DEF Spec
=============================================================================
