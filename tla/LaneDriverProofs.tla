------------------------- MODULE LaneDriverProofs -------------------------
(***************************************************************************)
(* One handler at a time drives the lane of a card that is not moved while *)
(* an agent is being started or ended, and the lane follows the session it *)
(* asked for (LaneInv).  From that: agents are started in the card's lane, *)
(* a turn that has reported is spared, one agent of a visit works.         *)
(***************************************************************************)
EXTENDS LaneAutomationProofs

-----------------------------------------------------------------------------
(* One handler at a time drives the lane *)

\* A call that serves an automation, or is about to start one.
Driver(k) == Handles(k) \/ Enters(k) \/ k.pc \in {"enter", "register"} \/ (k.pc = "spawning" /\ k.why = "queue")

\* The active automation has asked for a session.
Begun == Live /\ auto[active].sid = None

Asking == {"create", "spawning", "created"}

DriverOK(k) ==
  /\ k.pc \in {"enter", "register"} => active = None /\ card.trigger = None /\ k.job.lane = card.col
  /\ Handles(k) \/ Enters(k) => active # None /\ k.auto = active
  /\ Handles(k) => k.copy.col = card.col /\ k.copy.trigger = IF k.pc \in Asking THEN None ELSE card.trigger
  /\ k.pc \in {"judge", "killing"} => auto[active].status = "running" /\ auto[active].sid = k.sid
  /\ k.pc \in {"create", "spawning"} => Begun /\ card.trigger = None /\ k.job.lane = card.col
  /\ k.pc \in {"create", "spawning"} /\ k.why # "queue" => k.job.auto = active /\ k.job.step = auto[active].step
  /\ k.pc = "spawning" => /\ waiting = NoRun /\ k.row.col = card.col /\ k.row.trigger = None
                          /\ k.job.step >= auto[active].step
  /\ k.pc = "created" => /\ Begun /\ (k.got = None \/ k.got = card.trigger)
                         /\ k.res = "none" => waiting = NoRun
                         /\ k.res # "session" => card.trigger = None
                         /\ Handles(k) => k.got # k.sid
  /\ k.pc = "recover" => auto[active].status = "failed" /\ auto[active].sid = None /\ card.trigger = None
  /\ k.pc = "finish" => auto[active].status = "failed" \/ (auto[active].status = "running" /\ auto[active].sid = k.sid)

OneDriver == \A c, d \in Calls : Driver(call[c]) /\ Driver(call[d]) => c = d
Drivers == \A c \in Calls : Driver(call[c]) => DriverOK(call[c])
InLane == active # None => auto[active].lane = card.col
Trigger == Live /\ auto[active].sid # None => card.trigger = auto[active].sid

\* What waits in the board queue is what the automation has asked for, or what
\* was left by an earlier visit of the lane.
Waiting == Waits =>
  /\ card.trigger = None
  /\ (Begun /\ waiting.step >= auto[active].step) \/ \E c \in Calls : call[c].pc \in {"enter", "register"}
  /\ \A c \in Calls : Driver(call[c]) => call[c].pc \in {"enter", "register", "create", "created"}

Drive == OneDriver /\ Drivers /\ InLane /\ Trigger /\ Waiting

\* No other call receives an event of a session that is ended for its failure.
Alone ==
  \A c, d \in Calls : c # d /\ call[d].pc = "killing" /\ call[d].why = "judge" /\ call[c].sid = call[d].sid
                        => ~ Receives(call[c])

\* A step of calls that do not drive the lane.
LEMMA FrameDrive ==
  ASSUME Drive, active' = active, card'.col = card.col, card'.trigger = card.trigger,
         waiting' = waiting \/ waiting' = NoRun, Types, Types',
         \A a \in Visit : /\ auto'[a].lane = auto[a].lane /\ auto'[a].step = auto[a].step
                          /\ auto'[a].sid = auto[a].sid /\ auto'[a].status = auto[a].status,
         \A d \in Calls : call'[d] = call[d] \/ (~ Driver(call[d]) /\ ~ Driver(call'[d]))
  PROVE  Drive'
  <1>1. active \in Visit \cup {None}
    BY DEF Types, TypeOK
  <1>2. Live' <=> Live
    BY <1>1 DEF Live
  <1>3. Begun' <=> Begun
    BY <1>1, <1>2 DEF Begun, Live
  <1>4. OneDriver' /\ InLane' /\ Trigger'
    BY <1>1, <1>2 DEF Drive, OneDriver, InLane, Trigger, Live
  <1>5. ASSUME NEW d \in Calls, Driver(call'[d]) PROVE DriverOK(call[d])'
    <2>1. call'[d] = call[d] /\ DriverOK(call[d])
      BY <1>5 DEF Drive, Drivers
    <2>2. call[d].pc \in {"judge", "killing", "recover", "finish"} => Handles(call[d])
      BY <2>1, <1>5 DEF Driver, Handles, Enters
    <2>3. active # None => /\ auto'[active].lane = auto[active].lane /\ auto'[active].step = auto[active].step
                           /\ auto'[active].sid = auto[active].sid /\ auto'[active].status = auto[active].status
      BY <1>1
    <2>4. Begun => active # None
      BY DEF Begun, Live
    <2> QED BY <2>1, <2>2, <2>3, <2>4, <1>3 DEF DriverOK
  <1>6. Waiting'
    <2> SUFFICES ASSUME Waits' PROVE /\ card'.trigger = None
                                     /\ \/ Begun' /\ waiting'.step >= auto'[active'].step
                                        \/ \E c \in Calls : call'[c].pc \in {"enter", "register"}
                                     /\ \A c \in Calls : Driver(call'[c]) => call'[c].pc \in {"enter", "register", "create", "created"}
      BY DEF Waiting
    <2>1. Waits /\ waiting' = waiting
      BY DEF Waits
    <2>2. \A c \in Calls : call[c].pc \in {"enter", "register"} => call'[c].pc = call[c].pc
      BY DEF Driver
    <2> QED BY <2>1, <2>2, <1>1, <1>3 DEF Drive, Waiting, Begun, Live
  <1> QED BY <1>4, <1>5, <1>6 DEF Drive, Drivers

\* A step of the one call that drives the lane, or comes to.
LEMMA SoloDrive ==
  ASSUME NEW c \in Calls, Others(c), \A d \in Calls \ {c} : ~ Driver(call[d]),
         Driver(call[c])' => DriverOK(call[c])', InLane', Trigger',
         Waits' => /\ card'.trigger = None
                   /\ (Begun' /\ waiting'.step >= auto'[active'].step) \/ call'[c].pc \in {"enter", "register"}
                   /\ Driver(call[c])' => call'[c].pc \in {"enter", "register", "create", "created"}
  PROVE  Drive'
  <1>1. \A d \in Calls \ {c} : ~ Driver(call[d])'
    BY DEF Others
  <1> QED BY <1>1 DEF Drive, OneDriver, Drivers, Waiting

\* A step after which nobody drives the lane.
LEMMA NobodyDrives ==
  ASSUME \A d \in Calls : ~ Driver(call[d])', InLane', Trigger',
         Waits' => card'.trigger = None /\ Begun' /\ waiting'.step >= auto'[active'].step
  PROVE  Drive'
  BY DEF Drive, OneDriver, Drivers, Waiting

\* Whoever drives the lane while another call moves waits for an agent.
LEMMA DriversWait ==
  ASSUME NEW c \in Calls, Types, Loop(c)
  PROVE  \A d \in Calls \ {c} : Driver(call[d]) =>
           (call[d].pc = "killing" /\ call[d].why = "judge") \/ call[d].pc = "spawning"
  BY DEF Types, CallsOK, CallOK, Driver, Handles, Enters, Loop, Awaiting

\* The driver is alone.
LEMMA TheDriver == ASSUME Drive, NEW c \in Calls, Driver(call[c])
  PROVE  DriverOK(call[c]) /\ \A d \in Calls \ {c} : ~ Driver(call[d])
  BY DEF Drive, OneDriver, Drivers

\* The failure of a session is dealt with by one call.
LEMMA StepAlone == ASSUME Types, Types', Alone, FreshOK, Evidence, ~ EchoOverlaps, [Next]_vars PROVE Alone'
  <1> USE DEF cardVars, agentVars, tellVars, autoVars, tearVars
  <1>1. ASSUME NEW c \in Calls, CallStep(c) PROVE Alone'
    <2>1. CASE EndDeferred(c)
      <3>1. Others(c) /\ Receives(call[c])
        BY <2>1, EndDeferredCall DEF EndDeferred, At, Types, CallsOK, CallOK, Receives, Handles
      <3>2. /\ call'[c].sid = call[c].sid
            /\ Receives(call[c])' => Receives(call[c])
            /\ ~ (call'[c].pc = "killing" /\ call'[c].why = "judge")
        BY <2>1, <3>1, EndDeferredCall DEF EndDeferred, At, SameEvent, Receives, Types, CallsOK, CallOK
      <3> QED BY <3>1, <3>2 DEF Others, Alone
    <2>2. CASE Killed(c)
      <3>1. Others(c) /\ (Receives(call[c]) \/ Handles(call[c]))
        BY <2>2, KilledCall DEF Killed, Types, CallsOK, CallOK, Receives, Handles
      <3>2. /\ call'[c].sid = call[c].sid
            /\ Receives(call[c])' => Receives(call[c])
            /\ ~ (call'[c].pc = "killing" /\ call'[c].why = "judge")
        BY <2>2, <3>1, KilledCall DEF Killed, SameEvent, Receives, Types, CallsOK, CallOK
      <3> QED BY <3>1, <3>2 DEF Others, Alone
    <2>3. CASE StartPending(c)
      <3>1. Others(c) /\ Receives(call[c])
        BY <2>3, StartPendingCall DEF StartPending, At, Types, CallsOK, CallOK, Receives, Handles
      <3>2. /\ call'[c].sid = call[c].sid
            /\ Receives(call[c])' => Receives(call[c])
            /\ ~ (call'[c].pc = "killing" /\ call'[c].why = "judge")
        BY <2>3, <3>1, StartPendingCall DEF StartPending, At, SameEvent, Receives, Types, CallsOK, CallOK
      <3> QED BY <3>1, <3>2 DEF Others, Alone
    <2>4. CASE SettleEnded(c)
      <3>1. Others(c) /\ call'[c] = Idle
        BY <2>4, ReturnCall DEF SettleEnded
      <3> QED BY <3>1, IdleFields DEF Others, Alone
    <2>5. CASE WindDown(c)
      <3>1. Others(c) /\ call'[c] = Idle
        BY <2>5, ReturnCall DEF WindDown
      <3> QED BY <3>1, IdleFields DEF Others, Alone
    <2>6. CASE SettleUnfollowed(c)
      <3>1. Others(c) /\ call'[c] = Idle
        BY <2>6, ReturnCall DEF SettleUnfollowed
      <3> QED BY <3>1, IdleFields DEF Others, Alone
    <2>7. CASE SettleTeardown(c)
      <3>1. Others(c) /\ call'[c] = Idle
        BY <2>7, ReturnCall DEF SettleTeardown
      <3> QED BY <3>1, IdleFields DEF Others, Alone
    <2>8. CASE StepOver(c)
      <3>1. Loop(c) /\ Others(c) /\ call'[c].sid = call[c].sid
        BY <2>8, StepOverCall DEF StepOver, At, Own, Routing
      <3>2. ~ Receives(call'[c])
        BY <2>8, StepOverCall DEF Receives
      <3>3. call'[c].pc = "killing" => call[c].sid \notin ended
        BY <2>8, StepOverCall
      <3>4. \A d \in Calls \ {c} : Receives(call[d]) => call[d].sid \in ended
        BY <3>1 DEF Loop, Receives, Awaiting, Evidence, Told
      <3> QED BY <3>1, <3>3, <3>4, <3>2 DEF Others, Alone
    <2>9. CASE StartNext(c)
      <3>1. Others(c) /\ ~ Receives(call[c])' /\ call'[c].pc # "killing"
        BY <2>9, StartNextCall DEF StartNext, At, Receives, Types, CallsOK, CallOK
      <3> QED BY <3>1 DEF Others, Alone
    <2>10. CASE Recover(c)
      <3>1. Others(c) /\ ~ Receives(call[c])' /\ call'[c].pc # "killing"
        BY <2>10, RecoverCall DEF Recover, At, Receives, Types, CallsOK, CallOK
      <3> QED BY <3>1 DEF Others, Alone
    <2>11. CASE NothingFollows(c)
      <3>1. Others(c) /\ ~ Receives(call[c])' /\ call'[c].pc # "killing"
        BY <2>11, NothingFollowsCall DEF NothingFollows, At, Receives, Types, CallsOK, CallOK
      <3> QED BY <3>1 DEF Others, Alone
    <2>12. CASE CreateTakesTrigger(c)
      <3>1. Others(c) /\ ~ Receives(call[c])' /\ call'[c].pc # "killing"
        BY <2>12, CreateTakesTriggerCall DEF CreateTakesTrigger, At, Receives, Types, CallsOK, CallOK
      <3> QED BY <3>1 DEF Others, Alone
    <2>13. CASE CreateQueues(c)
      <3>1. Others(c) /\ ~ Receives(call[c])' /\ call'[c].pc # "killing"
        BY <2>13, CreateQueuesCall DEF CreateQueues, At, Receives, Types, CallsOK, CallOK
      <3> QED BY <3>1 DEF Others, Alone
    <2>14. CASE CreateStarts(c)
      <3>1. Others(c) /\ ~ Receives(call[c])' /\ call'[c].pc # "killing"
        BY <2>14, CreateStartsCall DEF CreateStarts, At, Receives, Types, CallsOK, CallOK
      <3> QED BY <3>1 DEF Others, Alone
    <2>15. CASE Spawned(c)
      <3>1. PICK s \in Session : IF call[c].why = "queue" THEN Return(c) ELSE Answer(c, "session", s)
        BY <2>15 DEF Spawned
      <3>2. Others(c) /\ (call'[c] = Idle \/ call'[c].pc = "created")
        BY <2>15, <3>1, SpawnedCall DEF Spawned, At
      <3> QED BY <3>2, IdleFields DEF Receives, Others, Alone
    <2>16. CASE SpawnFails(c)
      <3>1. Others(c) /\ ~ Receives(call[c])' /\ call'[c].pc # "killing"
        BY <2>16, SpawnFailsCall, IdleFields DEF SpawnFails, At, Receives, Types, CallsOK, CallOK
      <3> QED BY <3>1 DEF Others, Alone
    <2>17. CASE Entered(c)
      <3>1. Others(c) /\ call'[c] = Idle
        BY <2>17, ReturnCall DEF Entered
      <3> QED BY <3>1, IdleFields DEF Others, Alone
    <2>18. CASE Continued(c)
      <3>1. Others(c) /\ call'[c] = Idle
        BY <2>18, ReturnCall DEF Continued
      <3> QED BY <3>1, IdleFields DEF Others, Alone
    <2>19. CASE NotContinued(c)
      <3>1. Others(c) /\ ~ Receives(call[c])' /\ call'[c].pc # "killing"
        BY <2>19, NotContinuedCall DEF NotContinued, At, Receives, Types, CallsOK, CallOK
      <3> QED BY <3>1 DEF Others, Alone
    <2>20. CASE LaneEnds(c)
      <3>1. Others(c) /\ call'[c] = Idle
        BY <2>20, ReturnCall DEF LaneEnds
      <3> QED BY <3>1, IdleFields DEF Others, Alone
    <2>21. CASE LaneAdvances(c)
      <3>1. Others(c) /\ ~ Receives(call[c])' /\ call'[c].pc # "killing"
        BY <2>21, LaneAdvancesCall DEF LaneAdvances, At, Arrives, Receives, Types, CallsOK, CallOK
      <3> QED BY <3>1 DEF Others, Alone
    <2>22. CASE LaneTearsDown(c)
      <3>1. Others(c) /\ ~ Receives(call[c])' /\ call'[c].pc # "killing"
        BY <2>22, LaneTearsDownCall DEF LaneTearsDown, At, Receives, Types, CallsOK, CallOK
      <3> QED BY <3>1 DEF Others, Alone
    <2>23. CASE EndOne(c)
      <3>1. Others(c) /\ ~ Receives(call[c])' /\ call'[c].pc # "killing"
        BY <2>23, EndOneCall DEF EndOne, At, Receives, Types, CallsOK, CallOK
      <3> QED BY <3>1 DEF Others, Alone
    <2>24. CASE AllEnded(c)
      <3>1. Others(c) /\ call'[c] = Idle
        BY <2>24, ReturnCall DEF AllEnded
      <3> QED BY <3>1, IdleFields DEF Others, Alone
    <2>25. CASE EnterLane(c)
      <3>1. Others(c) /\ ~ Receives(call[c])' /\ call'[c].pc # "killing"
        BY <2>25, EnterLaneCall, IdleFields DEF EnterLane, At, Receives, Types, CallsOK, CallOK
      <3> QED BY <3>1 DEF Others, Alone
    <2>26. CASE Register(c)
      <3>1. Others(c) /\ ~ Receives(call[c])' /\ call'[c].pc # "killing"
        BY <2>26, RegisterCall DEF Register, At, Receives, Types, CallsOK, CallOK
      <3> QED BY <3>1 DEF Others, Alone
    <2> QED BY <1>1, <2>1, <2>2, <2>3, <2>4, <2>5, <2>6, <2>7, <2>8, <2>9, <2>10, <2>11, <2>12, <2>13, <2>14,
               <2>15, <2>16, <2>17, <2>18, <2>19, <2>20, <2>21, <2>22, <2>23, <2>24, <2>25, <2>26 DEF CallStep
  <1>2. ASSUME NEW s \in Session, Report(s) \/ TurnEnds(s) \/ TurnFails(s) \/ PromptBroke(s) \/ Exits(s)
        PROVE  Alone'
    <2>1. CASE Report(s)
      <3>1. PICK d \in Calls : Taken(d, s, "report")
        BY <2>1, EmitCall DEF Report, Events
      <3>2. \A c \in Calls : call[c].pc = "killing" => call[c].sid # s
        BY <2>1 DEF Report, Types, TypeOK, Evidence, Agents, Told
      <3> QED BY <3>1, <3>2 DEF Taken, Others, Alone, Receives
    <2>2. CASE TurnEnds(s)
      <3>1. PICK d \in Calls : Taken(d, s, "end")
        BY <2>2, EmitCall DEF TurnEnds, Events
      <3>2. \A c \in Calls : call[c].pc = "killing" => call[c].sid # s
        BY <2>2 DEF TurnEnds, Types, TypeOK, Evidence, Agents, Told
      <3> QED BY <3>1, <3>2 DEF Taken, Others, Alone, Receives
    <2>3. CASE TurnFails(s)
      <3>1. PICK d \in Calls : Taken(d, s, "failed")
        BY <2>3, EmitCall DEF TurnFails, Events
      <3>2. \A c \in Calls : call[c].pc = "killing" => call[c].sid # s
        BY <2>3 DEF TurnFails, Types, TypeOK, Evidence, Agents, Told
      <3> QED BY <3>1, <3>2 DEF Taken, Others, Alone, Receives
    <2>4. CASE PromptBroke(s)
      <3>1. PICK d \in Calls : Taken(d, s, "failed")
        BY <2>4, EmitCall DEF PromptBroke, Events
      <3>2. \A c \in Calls : call[c].pc = "killing" => call[c].sid # s
        BY <2>4 DEF PromptBroke, Types, TypeOK, Evidence, Agents, Told
      <3> QED BY <3>1, <3>2 DEF Taken, Others, Alone, Receives
    <2>5. CASE Exits(s)
      <3>1. PICK d \in Calls : Taken(d, s, "failed")
        BY <2>5, EmitCall DEF Exits, Events
      <3>2. \A c \in Calls : call[c].pc = "killing" => call[c].sid # s
        BY <2>5 DEF Exits, Types, TypeOK, Evidence, Agents, Told
      <3> QED BY <3>1, <3>2 DEF Taken, Others, Alone, Receives
    <2> QED BY <1>2, <2>1, <2>2, <2>3, <2>4, <2>5
  <1>3. CASE QueueStarts
    <2>1. CASE Startable(waiting)
      <3>1. PICK c \in Calls : Others(c) /\ call'[c].pc = "spawning"
        BY <1>3, <2>1, QueueStartsCall DEF QueueStarts, Types, WaitingOK
      <3> QED BY <3>1 DEF Receives, Others, Alone
    <2>2. CASE ~ Startable(waiting)
      BY <1>3, <2>2 DEF QueueStarts, Alone
    <2> QED BY <2>1, <2>2
  <1>4. CASE RemoveWorktree
    BY <1>4 DEF RemoveWorktree, Alone
  <1>5. CASE KeepWorktree
    BY <1>5 DEF KeepWorktree, Alone
  <1>6. CASE ScanAdopts
    BY <1>6 DEF ScanAdopts, Alone
  <1>7. CASE ScanTimesOut
    <2>1. PICK d \in Calls : Taken(d, auto[active].sid, "timeout")
      BY <1>7, TimesOutCall
    <2>2. \A c \in Calls : call[c].pc = "killing" => call[c].sid # auto[active].sid
      BY <1>7 DEF ScanTimesOut, Types, TypeOK, Evidence, Agents, Told
    <2> QED BY <2>1, <2>2 DEF Taken, Others, Alone, Receives
  <1>8. ASSUME NEW to \in Columns, MoveCard(to) PROVE Alone'
    <2>1. CASE to \in Lanes
      <3>1. PICK d \in Calls : Arrives(d, to)
        BY <1>8, <2>1, ArriveCall DEF MoveCard
      <3> QED BY <3>1 DEF Arrives, Receives, Others, Alone
    <2>2. CASE to \notin Lanes
      BY <1>8, <2>2 DEF MoveCard, Alone
    <2> QED BY <2>1, <2>2
  <1>9. CASE UserBlocks
    <2>1. PICK c \in Calls : Others(c) /\ call'[c].pc = "ending"
      BY <1>9, UserBlocksCall
    <2> QED BY <2>1 DEF Receives, Others, Alone
  <1>10. CASE UNCHANGED vars
    BY <1>10 DEF vars, Alone
  <1> QED BY <1>1, <1>2, <1>3, <1>4, <1>5, <1>6, <1>7, <1>8, <1>9, <1>10 DEF Next

\* The active automation takes the card's trigger session.
LEMMA AdoptDrive ==
  ASSUME Types, Types', AutoOK', Drive, auto' = Adopted, active' = active, waiting' = waiting, card'.col = card.col,
         card'.trigger = card.trigger, Live, auto[active].sid = None, card.trigger # None,
         NEW c \in Calls, Others(c), \A d \in Calls \ {c} : ~ Driver(call[d]),
         call[c].pc \notin {"enter", "register"}, Driver(call[c])' => DriverOK(call[c])'
  PROVE  Drive'
  <1>1. active \in Visit /\ auto'[active].lane = auto[active].lane /\ auto'[active].sid = card.trigger
    BY AdoptedType, AdoptedFields DEF Live, Types, TypeOK
  <1>2. InLane' /\ Trigger'
    BY <1>1 DEF Drive, InLane, Trigger
  <1>3. ~ Waits
    BY DEF Drive, Waiting
  <1>4. ~ Waits'
    BY <1>3 DEF Waits
  <1> QED BY <1>2, <1>4, SoloDrive

\* As long as no move interrupts a call, one handler at a time drives the lane.
LEMMA StepDrive ==
  ASSUME Types, Types', Single, AutoOK, AutoOK', References, FreshOK, Evidence, Alone, Drive,
         ~ interrupted', [Next]_vars
  PROVE  Drive'
  <1> USE DEF cardVars, autoVars
  <1>1. ASSUME NEW c \in Calls, CallStep(c) PROVE Drive'
    <2>1. CASE EndDeferred(c)
      <3>1. \A d \in Calls : call'[d] = call[d] \/ (~ Driver(call[d]) /\ ~ Driver(call'[d]))
        <4>1. Others(c) /\ call[c].pc = "deliver" /\ call'[c].pc \in {"swept", "killing"} /\ call'[c].why = "swept"
          BY <2>1, EndDeferredCall DEF EndDeferred, At
        <4> QED BY <4>1 DEF Others, Driver, Handles, Enters
      <3>2. active' = active /\ waiting' \in {waiting, NoRun} /\ card'.col = card.col /\ card'.trigger = card.trigger
        BY <2>1 DEF EndDeferred
      <3>3. \A a \in Visit : /\ auto'[a].lane = auto[a].lane /\ auto'[a].step = auto[a].step
                                /\ auto'[a].sid = auto[a].sid /\ auto'[a].status = auto[a].status
        BY <2>1 DEF EndDeferred
      <3> QED BY <3>1, <3>2, <3>3, FrameDrive
    <2>2. CASE Killed(c)
      <3>1. UNCHANGED <<card, auto, active, waiting>>
        BY <2>2 DEF Killed
      <3>2. /\ Others(c) /\ call'[c].pc = call[c].why /\ call'[c].why = "none" /\ SameEvent(c) /\ SameTask(c) /\ SamePlan(c)
            /\ call[c].pc = "killing" /\ call[c].why \in {"swept", "judge"}
        BY <2>2, KilledCall DEF Killed, Types, CallsOK, CallOK
      <3>3. CASE call[c].why = "swept"
        <4>1. ~ Driver(call[c]) /\ ~ Driver(call'[c])
          BY <3>2, <3>3 DEF Driver, Handles, Enters
        <4> QED BY <3>1, <3>2, <4>1, FrameDrive DEF Others
      <3>4. CASE call[c].why = "judge"
        <4>1. Driver(call[c]) /\ Handles(call[c])
          BY <3>2, <3>4 DEF Driver, Handles
        <4>2. DriverOK(call[c]) /\ \A d \in Calls \ {c} : ~ Driver(call[d])
          BY <4>1, TheDriver
        <4>3. Driver(call[c])' => DriverOK(call[c])'
          BY <3>1, <3>2, <3>4, <4>1, <4>2 DEF DriverOK, SameEvent, SameTask, SamePlan, Handles, Enters, Asking
        <4>4. ~ Waits /\ ~ Waits'
          BY <3>1, <3>2, <4>1 DEF Drive, Waiting, Waits
        <4>5. InLane' /\ Trigger'
          BY <3>1 DEF Drive, InLane, Trigger, Live
        <4> QED BY <3>2, <4>2, <4>3, <4>4, <4>5, SoloDrive
      <3> QED BY <3>2, <3>3, <3>4
    <2>3. CASE StartPending(c)
      <3>1. \A d \in Calls : call'[d] = call[d] \/ (~ Driver(call[d]) /\ ~ Driver(call'[d]))
        <4>1. Others(c) /\ ~ Driver(call[c]) /\ ~ Driver(call'[c])
          BY <2>3, StartPendingCall DEF StartPending, At, Driver, Handles, Enters
        <4> QED BY <4>1 DEF Others
      <3>2. active' = active /\ waiting' \in {waiting, NoRun} /\ card'.col = card.col /\ card'.trigger = card.trigger
        BY <2>3 DEF StartPending
      <3>3. \A a \in Visit : /\ auto'[a].lane = auto[a].lane /\ auto'[a].step = auto[a].step
                                /\ auto'[a].sid = auto[a].sid /\ auto'[a].status = auto[a].status
        BY <2>3 DEF StartPending
      <3> QED BY <3>1, <3>2, <3>3, FrameDrive
    <2>4. CASE SettleEnded(c)
      <3>1. \A d \in Calls : call'[d] = call[d] \/ (~ Driver(call[d]) /\ ~ Driver(call'[d]))
        <4>1. Others(c) /\ ~ Driver(call[c]) /\ ~ Driver(call'[c])
          BY <2>4, ReturnCall, IdleFields DEF SettleEnded, At, Routing, Driver, Handles, Enters
        <4> QED BY <4>1 DEF Others
      <3>2. active' = active /\ waiting' \in {waiting, NoRun} /\ card'.col = card.col /\ card'.trigger = card.trigger
        <4>1. call[c].sid \in Session
          BY <2>4 DEF SettleEnded, Routing, At, Types, CallsOK, CallOK, Receives
        <4> QED BY <2>4, <4>1, SettledType DEF SettleEnded, Types, TypeOK
      <3>3. \A a \in Visit : /\ auto'[a].lane = auto[a].lane /\ auto'[a].step = auto[a].step
                                /\ auto'[a].sid = auto[a].sid /\ auto'[a].status = auto[a].status
        BY <2>4 DEF SettleEnded
      <3> QED BY <3>1, <3>2, <3>3, FrameDrive
    <2>5. CASE WindDown(c)
      <3>1. \A d \in Calls : call'[d] = call[d] \/ (~ Driver(call[d]) /\ ~ Driver(call'[d]))
        <4>1. Others(c) /\ ~ Driver(call[c]) /\ ~ Driver(call'[c])
          BY <2>5, ReturnCall, IdleFields DEF WindDown, At, Routing, Driver, Handles, Enters
        <4> QED BY <4>1 DEF Others
      <3>2. active' = active /\ waiting' \in {waiting, NoRun} /\ card'.col = card.col /\ card'.trigger = card.trigger
        BY <2>5 DEF WindDown, Close, Types, TypeOK, Card
      <3>3. \A a \in Visit : /\ auto'[a].lane = auto[a].lane /\ auto'[a].step = auto[a].step
                                /\ auto'[a].sid = auto[a].sid /\ auto'[a].status = auto[a].status
        BY <2>5 DEF WindDown
      <3> QED BY <3>1, <3>2, <3>3, FrameDrive
    <2>6. CASE SettleUnfollowed(c)
      <3>1. call[c].sid \in Session /\ Loop(c) /\ Others(c) /\ call[c].pc \in {"deliver", "route"} /\ call'[c] = Idle
        BY <2>6, ReturnCall DEF SettleUnfollowed, Own, Routing, At, Types, CallsOK, CallOK, Receives
      <3>2. active' = active /\ waiting' = waiting /\ card'.col = card.col /\ card'.trigger = card.trigger /\ auto' = Adopted
        BY <2>6, <3>1, SettledType DEF SettleUnfollowed, Types, TypeOK
      <3>3. ~ Driver(call[c]) /\ ~ Driver(call'[c])
        BY <3>1, IdleFields DEF Driver, Handles, Enters
      <3>4. CASE Live /\ auto[active].sid = None /\ card.trigger # None
        <4>1. ASSUME NEW d \in Calls, d # c, Driver(call[d]) PROVE FALSE
          <5>1. DriverOK(call[d]) /\ (call[d].pc = "killing" \/ call[d].pc = "spawning")
            BY <3>1, <4>1, DriversWait, TheDriver
          <5> QED BY <3>4, <5>1 DEF DriverOK, AutoOK, Live, Types, TypeOK
        <4> QED BY <3>1, <3>2, <3>3, <3>4, <4>1, AdoptDrive
      <3>5. CASE ~ (Live /\ auto[active].sid = None /\ card.trigger # None)
        <4>1. auto' = auto
          BY <3>2, <3>5 DEF Adopted
        <4> QED BY <3>1, <3>2, <3>3, <4>1, FrameDrive DEF Others
      <3> QED BY <3>4, <3>5
    <2>7. CASE SettleTeardown(c)
      <3>1. \A d \in Calls : call'[d] = call[d] \/ (~ Driver(call[d]) /\ ~ Driver(call'[d]))
        <4>1. Others(c) /\ ~ Driver(call[c]) /\ ~ Driver(call'[c])
          BY <2>7, ReturnCall, IdleFields DEF SettleTeardown, At, Own, Routing, Driver, Handles, Enters
        <4> QED BY <4>1 DEF Others
      <3>2. active' = active /\ waiting' \in {waiting, NoRun} /\ card'.col = card.col /\ card'.trigger = card.trigger
        <4>1. call[c].sid \in Session
          BY <2>7 DEF SettleTeardown, Own, Routing, At, Types, CallsOK, CallOK, Receives
        <4> QED BY <2>7, <4>1, SettledType DEF SettleTeardown, Types, TypeOK
      <3>3. \A a \in Visit : /\ auto'[a].lane = auto[a].lane /\ auto'[a].step = auto[a].step
                                /\ auto'[a].sid = auto[a].sid /\ auto'[a].status = auto[a].status
        BY <2>7, AutoUnfold DEF SettleTeardown, AutoType
      <3> QED BY <3>1, <3>2, <3>3, FrameDrive
    <2>8. CASE StepOver(c)
      <3>1. /\ call[c].sid \in Session /\ Loop(c) /\ call[c].pc \in {"deliver", "route"} /\ Live
            /\ Adopted[active].sid = call[c].sid
        BY <2>8 DEF StepOver, Own, Routing, At, Types, CallsOK, CallOK, Receives, Followed
      <3>2. active' = active /\ waiting' = waiting /\ card' = card /\ auto' = Adopted
        BY <2>8 DEF StepOver
      <3>3. /\ Others(c) /\ call'[c].auto = active /\ call'[c].copy = card /\ call'[c].sid = call[c].sid
            /\ call'[c].pc = "judge" \/ (call'[c].pc = "killing" /\ call'[c].why = "judge")
        BY <2>8, StepOverCall
      <3>4. active \in Visit /\ active # None /\ ~ Driver(call[c]) /\ Receives(call[c])
        BY <3>1, CardTypes DEF Live, Types, TypeOK, Driver, Handles, Enters, Receives
      <3>5. ASSUME NEW d \in Calls, d # c, Driver(call[d]) PROVE FALSE
        <4>1. DriverOK(call[d]) /\ ((call[d].pc = "killing" /\ call[d].why = "judge") \/ call[d].pc = "spawning")
          BY <3>1, <3>5, DriversWait, TheDriver
        <4>2. CASE call[d].pc = "spawning"
          <5>1. auto[active].sid = None /\ Adopted = auto
            BY <4>1, <4>2 DEF DriverOK, Begun, Adopted
          <5> QED BY <3>1, <5>1, CardTypes
        <4>3. CASE call[d].pc = "killing" /\ call[d].why = "judge"
          <5>1. auto[active].sid = call[d].sid /\ auto[active].sid # None
            BY <3>4, <4>1, <4>3 DEF DriverOK, AutoOK
          <5>2. call[d].sid = call[c].sid
            BY <3>1, <3>4, <5>1, AdoptedFields
          <5> QED BY <3>4, <3>5, <4>3, <5>2 DEF Alone
        <4> QED BY <4>1, <4>2, <4>3
      <3>6. auto'[active].status = "running" /\ auto'[active].sid = call[c].sid /\ auto'[active].lane = auto[active].lane
        <4>1. CASE auto[active].sid = None
          BY <3>1, <3>2, <3>4, <4>1, AdoptedFields, AdoptedType, CardTypes
        <4>2. CASE auto[active].sid # None
          BY <3>1, <3>2, <3>4, <4>2, AdoptedFields, AdoptedType DEF AutoOK, Live
        <4> QED BY <4>1, <4>2
      <3>7. card.trigger = call[c].sid
        <4>1. CASE auto[active].sid = None
          BY <3>1, <3>4, <4>1, AdoptedFields, CardTypes
        <4>2. CASE auto[active].sid # None
          BY <3>1, <3>4, <4>2, AdoptedFields DEF Drive, Trigger
        <4> QED BY <4>1, <4>2
      <3>8. Driver(call[c])' => DriverOK(call[c])'
        BY <3>2, <3>3, <3>4, <3>6 DEF DriverOK, Handles, Enters, Asking
      <3>9. InLane' /\ Trigger'
        BY <3>2, <3>6, <3>7 DEF Drive, InLane, Trigger
      <3>10. ~ Waits /\ ~ Waits'
        BY <3>1, <3>2, <3>7, CardTypes DEF Drive, Waiting, Waits
      <3> QED BY <3>3, <3>5, <3>8, <3>9, <3>10, SoloDrive
    <2>9. CASE StartNext(c)
      <3>1. Driver(call[c]) /\ call[c].pc = "judge" /\ (Handles(call[c]))
        BY <2>9 DEF StartNext, At, Types, CallsOK, CallOK, Driver, Handles, Enters, Starts
      <3>2. DriverOK(call[c]) /\ \A d \in Calls \ {c} : ~ Driver(call[d])
        BY <3>1, TheDriver
      <3>3. active \in Visit /\ active # None /\ call[c].auto = active /\ auto[active].lane = card.col
        BY <3>1, <3>2, CardTypes DEF DriverOK, Types, TypeOK, Drive, InLane
      <3>4. Cleared(c).trigger = None /\ Cleared(c).col = card.col /\ Cleared(c) \in Card
        <4>1. card.trigger = auto[active].sid
          BY <3>1, <3>2, <3>3 DEF DriverOK, AutoOK, Drive, Trigger, Live
        <4> QED BY <3>1, <3>2, <3>3, <4>1, ClearedType DEF DriverOK, Asking, AutoOf
      <3>5. card'.col = card.col /\ card'.trigger = None /\ waiting' = NoRun /\ active' = active
        BY <2>9, <3>4, SavedType DEF StartNext, Restart, Types, TypeOK
      <3>6. /\ Others(c) /\ call'[c].pc = "create" /\ call'[c].copy = Cleared(c) /\ call'[c].auto = active
            /\ call'[c].why \in {"next", "fallback", "recover"}
            /\ call'[c].job.auto = active /\ call'[c].job.lane = card.col
        <4>1. call'[c].job = Job(c, auto[active].step + 1)
          BY <2>9, <3>3, StartNextCall DEF AutoOf
        <4>2. Job(c, auto[active].step + 1).auto = active /\ Job(c, auto[active].step + 1).lane = card.col
          BY <3>3 DEF Job, AutoOf
        <4>3. call'[c].why \in {"next", "fallback", "recover"} /\ call'[c].auto = call[c].auto
          BY <2>9, StartNextCall
        <4> QED BY <2>9, <3>3, <4>1, <4>2, <4>3, StartNextCall
      <3>7. /\ auto'[active].lane = auto[active].lane /\ auto'[active].status = "queued" /\ auto'[active].sid = None
            /\ auto'[active].step = call'[c].job.step
        <4>1. call'[c].job = Job(c, auto[active].step + 1)
          BY <2>9, <3>3, StartNextCall DEF AutoOf
        <4>2. Job(c, auto[active].step + 1).step = auto[active].step + 1
          BY DEF Job
        <4> QED BY <2>9, <3>3, <4>1, <4>2, StartNextAuto DEF SameLane
      <3>8. Begun'
        BY <3>3, <3>5, <3>7 DEF Begun, Live
      <3>9. Driver(call[c])' => DriverOK(call[c])'
        BY <3>3, <3>4, <3>5, <3>6, <3>7, <3>8 DEF DriverOK, Handles, Enters, Asking
      <3>10. InLane' /\ Trigger' /\ ~ Waits'
        BY <3>3, <3>5, <3>7 DEF InLane, Trigger, Waits
      <3> QED BY <3>2, <3>6, <3>9, <3>10, SoloDrive
    <2>10. CASE Recover(c)
      <3>1. Driver(call[c]) /\ call[c].pc \in {"judge", "recover"} /\ (Handles(call[c]))
        BY <2>10 DEF Recover, At, Types, CallsOK, CallOK, Driver, Handles, Enters, Starts
      <3>2. DriverOK(call[c]) /\ \A d \in Calls \ {c} : ~ Driver(call[d])
        BY <3>1, TheDriver
      <3>3. active \in Visit /\ active # None /\ call[c].auto = active /\ auto[active].lane = card.col
        BY <3>1, <3>2, CardTypes DEF DriverOK, Types, TypeOK, Drive, InLane
      <3>4. Cleared(c).trigger = None /\ Cleared(c).col = card.col /\ Cleared(c) \in Card
        <4>1. card.trigger = auto[active].sid
          BY <3>1, <3>2, <3>3 DEF DriverOK, AutoOK, Drive, Trigger, Live
        <4> QED BY <3>1, <3>2, <3>3, <4>1, ClearedType DEF DriverOK, Asking, AutoOf
      <3>5. card'.col = card.col /\ card'.trigger = None /\ waiting' = NoRun /\ active' = active
        BY <2>10, <3>4, SavedType DEF Recover, Restart, Types, TypeOK
      <3>6. /\ Others(c) /\ call'[c].pc = "create" /\ call'[c].copy = Cleared(c) /\ call'[c].auto = active
            /\ call'[c].why \in {"next", "fallback", "recover"}
            /\ call'[c].job.auto = active /\ call'[c].job.lane = card.col
        <4>1. call'[c].job = Job(c, auto[active].step)
          BY <2>10, <3>3, RecoverCall DEF AutoOf
        <4>2. Job(c, auto[active].step).auto = active /\ Job(c, auto[active].step).lane = card.col
          BY <3>3 DEF Job, AutoOf
        <4>3. call'[c].why \in {"next", "fallback", "recover"} /\ call'[c].auto = call[c].auto
          BY <2>10, RecoverCall DEF SameTask
        <4> QED BY <2>10, <3>3, <4>1, <4>2, <4>3, RecoverCall
      <3>7. /\ auto'[active].lane = auto[active].lane /\ auto'[active].status = "queued" /\ auto'[active].sid = None
            /\ auto'[active].step = call'[c].job.step
        <4>1. call'[c].job = Job(c, auto[active].step)
          BY <2>10, <3>3, RecoverCall DEF AutoOf
        <4>2. Job(c, auto[active].step).step = auto[active].step
          BY DEF Job
        <4> QED BY <2>10, <3>3, <4>1, <4>2, RecoverAuto DEF SameLane
      <3>8. Begun'
        BY <3>3, <3>5, <3>7 DEF Begun, Live
      <3>9. Driver(call[c])' => DriverOK(call[c])'
        BY <3>3, <3>4, <3>5, <3>6, <3>7, <3>8 DEF DriverOK, Handles, Enters, Asking
      <3>10. InLane' /\ Trigger' /\ ~ Waits'
        BY <3>3, <3>5, <3>7 DEF InLane, Trigger, Waits
      <3> QED BY <3>2, <3>6, <3>9, <3>10, SoloDrive
    <2>11. CASE NothingFollows(c)
      <3>1. Driver(call[c]) /\ call[c].pc = "judge" /\ (Handles(call[c]))
        BY <2>11 DEF NothingFollows, At, Types, CallsOK, CallOK, Driver, Handles, Enters, Starts
      <3>2. DriverOK(call[c]) /\ \A d \in Calls \ {c} : ~ Driver(call[d])
        BY <3>1, TheDriver
      <3>3. UNCHANGED <<card, auto, active, waiting>>
        BY <2>11 DEF NothingFollows
      <3>4. /\ Others(c) /\ call'[c].pc = "finish" /\ call'[c].copy = Judged(c) /\ SameEvent(c) /\ SameTask(c)
            /\ Judged(c).col = call[c].copy.col /\ Judged(c).trigger = call[c].copy.trigger
        BY <2>11, <3>1, NothingFollowsCall, JudgedType
      <3>5. Driver(call[c])' => DriverOK(call[c])'
        BY <3>1, <3>2, <3>3, <3>4 DEF DriverOK, Handles, Enters, Asking, SameEvent, SameTask
      <3>6. InLane' /\ Trigger' /\ ~ Waits'
        BY <3>1, <3>3 DEF Drive, InLane, Trigger, Live, Waiting, Waits
      <3> QED BY <3>2, <3>4, <3>5, <3>6, SoloDrive
    <2>12. CASE CreateTakesTrigger(c)
      <3>1. Driver(call[c]) /\ call[c].pc = "create" /\ (TRUE)
        BY <2>12 DEF CreateTakesTrigger, At, Types, CallsOK, CallOK, Driver, Handles, Enters, Starts
      <3>2. DriverOK(call[c]) /\ \A d \in Calls \ {c} : ~ Driver(call[d])
        BY <3>1, TheDriver
      <3> QED BY <2>12, <3>1, <3>2 DEF CreateTakesTrigger, DriverOK
    <2>13. CASE CreateQueues(c)
      <3>1. Driver(call[c]) /\ call[c].pc = "create" /\ (call[c].why # "queue")
        BY <2>13 DEF CreateQueues, At, Types, CallsOK, CallOK, Driver, Handles, Enters, Starts
      <3>2. DriverOK(call[c]) /\ \A d \in Calls \ {c} : ~ Driver(call[d])
        BY <3>1, TheDriver
      <3>3. UNCHANGED <<card, auto, active>> /\ waiting' \in {waiting, call[c].job} /\ (Waits => waiting' = waiting)
        BY <2>13 DEF CreateQueues
      <3>4. /\ Others(c) /\ call'[c].pc = "created" /\ call'[c].res = "queued" /\ call'[c].got = None /\ SameEvent(c)
            /\ SameTask(c) /\ SamePlan(c) /\ call'[c].why = call[c].why
        BY <2>13, CreateQueuesCall
      <3>5. Handles(call[c]) => call[c].sid # None
        BY CardTypes DEF Types, CallsOK, CallOK
      <3>6. Begun /\ card.trigger = None
        BY <3>1, <3>2 DEF DriverOK
      <3>7. Driver(call[c])' => DriverOK(call[c])'
        BY <3>1, <3>2, <3>3, <3>4, <3>5, <3>6 DEF DriverOK, Handles, Enters, Asking, SameEvent, SameTask,
               SamePlan, Begun, Live
      <3>8. Waits' => waiting'.step >= auto[active].step
        <4>1. CASE Waits
          <5>1. \A d \in Calls : call[d].pc \notin {"enter", "register"}
            BY <3>1, <3>2 DEF Driver
          <5> QED BY <3>3, <4>1, <5>1 DEF Drive, Waiting
        <4>2. CASE ~ Waits
          <5>1. call[c].job.step = auto[active].step /\ auto[active].step \in Nat
            BY <3>1, <3>2, <3>6, AutoUnfold DEF DriverOK, Begun, Live, Types, TypeOK, AutoType
          <5> QED BY <3>3, <4>2, <5>1 DEF Waits
        <4> QED BY <4>1, <4>2
      <3>9. InLane' /\ Trigger' /\ Begun'
        BY <3>3, <3>6 DEF Drive, InLane, Trigger, Live, Begun
      <3> QED BY <3>2, <3>3, <3>4, <3>6, <3>7, <3>8, <3>9, SoloDrive
    <2>14. CASE CreateStarts(c)
      <3>1. Driver(call[c]) /\ call[c].pc = "create" /\ (TRUE)
        BY <2>14 DEF CreateStarts, At, Types, CallsOK, CallOK, Driver, Handles, Enters, Starts
      <3>2. DriverOK(call[c]) /\ \A d \in Calls \ {c} : ~ Driver(call[d])
        BY <3>1, TheDriver
      <3>3. UNCHANGED <<card, auto, active>> /\ waiting' = NoRun
        BY <2>14 DEF CreateStarts
      <3>4. /\ Others(c) /\ call'[c].pc = "spawning" /\ call'[c].row = card /\ SameEvent(c) /\ SameTask(c)
            /\ call'[c].copy = call[c].copy /\ call'[c].job = call[c].job /\ call'[c].why = call[c].why
        BY <2>14, CreateStartsCall
      <3>5. call[c].why \in Starts /\ Begun /\ card.trigger = None /\ auto[active].step \in Nat
        BY <3>1, <3>2, AutoUnfold DEF DriverOK, Begun, Live, Types, TypeOK, AutoType, CallsOK, CallOK
      <3>6. Driver(call[c])' => DriverOK(call[c])'
        BY <3>1, <3>2, <3>3, <3>4, <3>5 DEF DriverOK, Handles, Enters, Asking, SameEvent, SameTask, Begun,
               Live, Starts
      <3>7. InLane' /\ Trigger' /\ ~ Waits'
        BY <3>3 DEF Drive, InLane, Trigger, Live, Waits
      <3> QED BY <3>2, <3>4, <3>6, <3>7, SoloDrive
    <2>15. CASE Spawned(c)
      <3>1. Driver(call[c]) /\ call[c].pc = "spawning" /\ (TRUE)
        BY <2>15 DEF Spawned, At, Types, CallsOK, CallOK, Driver, Handles, Enters, Starts
      <3>2. DriverOK(call[c]) /\ \A d \in Calls \ {c} : ~ Driver(call[d])
        BY <3>1, TheDriver
      <3>3. PICK s \in Session : /\ proc[s] = "none" /\ card' = Saved(WithRun(call[c].row, s))
                                   /\ IF call[c].why = "queue" THEN Return(c) ELSE Answer(c, "session", s)
        BY <2>15 DEF Spawned
      <3>4. /\ UNCHANGED <<auto, active, waiting>> /\ waiting = NoRun /\ Begun
        BY <2>15, <3>1, <3>2 DEF Spawned, DriverOK
      <3>5. card'.col = card.col /\ card'.trigger = s
        <4>1. call[c].row \in Card /\ card \in Card /\ call[c].row.col = card.col
          BY <3>1, <3>2 DEF DriverOK, Types, TypeOK, CallsOK, CallType
        <4>2. /\ WithRun(call[c].row, s) \in Card /\ WithRun(call[c].row, s).col = card.col
              /\ WithRun(call[c].row, s).trigger = s
          BY <4>1, WithRunType
        <4> QED BY <3>3, <4>1, <4>2, SavedType
      <3>6. \/ call'[c] = Idle
            \/ /\ call[c].why \in Starts /\ call'[c].pc = "created" /\ call'[c].why = call[c].why /\ SameEvent(c) /\ SameTask(c)
               /\ SamePlan(c) /\ call'[c].got = s /\ call'[c].res = "session" /\ call[c].sid # s
        BY <2>15, <3>1, <3>3, SpawnedCall DEF Types, FreshOK, Unknown, UnknownTo, CallsOK, CallOK
      <3>7. Others(c)
        BY <2>15, <3>1, <3>3, SpawnedCall
      <3>8. Begun' /\ InLane' /\ Trigger' /\ ~ Waits'
        BY <3>4, <3>5 DEF Drive, InLane, Trigger, Live, Begun, Waits
      <3>9. Driver(call[c])' => DriverOK(call[c])'
        <4>1. CASE call'[c] = Idle
          BY <4>1, IdleFields DEF Driver
        <4>2. CASE call'[c] # Idle
          <5>1. Handles(call[c])' => Handles(call[c])
            BY <3>1, <3>6, <4>2 DEF Handles, Starts
          <5>2. Enters(call[c])' => Enters(call[c])
            BY <3>1, <3>6, <4>2 DEF Enters
          <5> QED BY <3>1, <3>2, <3>4, <3>5, <3>6, <3>8, <4>2, <5>1, <5>2 DEF DriverOK, Asking, SameEvent,
                     SameTask, SamePlan
        <4> QED BY <4>1, <4>2
      <3> QED BY <3>2, <3>7, <3>8, <3>9, SoloDrive
    <2>16. CASE SpawnFails(c)
      <3>1. Driver(call[c]) /\ call[c].pc = "spawning" /\ (TRUE)
        BY <2>16 DEF SpawnFails, At, Types, CallsOK, CallOK, Driver, Handles, Enters, Starts
      <3>2. DriverOK(call[c]) /\ \A d \in Calls \ {c} : ~ Driver(call[d])
        BY <3>1, TheDriver
      <3>3. card' = Saved(call[c].row)
        BY <2>16 DEF SpawnFails
      <3>4. /\ UNCHANGED <<auto, active, waiting>> /\ waiting = NoRun /\ Begun
        BY <2>16, <3>1, <3>2 DEF SpawnFails, DriverOK
      <3>5. card'.col = card.col /\ card'.trigger = None
        BY <3>1, <3>2, <3>3, SavedType DEF DriverOK, Types, TypeOK, CallsOK, CallType
      <3>6. \/ call'[c] = Idle
            \/ /\ call[c].why \in Starts /\ call'[c].pc = "created" /\ call'[c].why = call[c].why /\ SameEvent(c) /\ SameTask(c)
               /\ SamePlan(c) /\ call'[c].got = None /\ call'[c].res = "none" /\ (Handles(call[c]) => call[c].sid # None)
        BY <2>16, <3>1, <3>3, SpawnFailsCall, CardTypes DEF Types, CallsOK, CallOK
      <3>7. Others(c)
        BY <2>16, <3>1, <3>3, SpawnFailsCall
      <3>8. Begun' /\ InLane' /\ Trigger' /\ ~ Waits'
        BY <3>4, <3>5 DEF Drive, InLane, Trigger, Live, Begun, Waits
      <3>9. Driver(call[c])' => DriverOK(call[c])'
        <4>1. CASE call'[c] = Idle
          BY <4>1, IdleFields DEF Driver
        <4>2. CASE call'[c] # Idle
          <5>1. Handles(call[c])' => Handles(call[c])
            BY <3>1, <3>6, <4>2 DEF Handles, Starts
          <5>2. Enters(call[c])' => Enters(call[c])
            BY <3>1, <3>6, <4>2 DEF Enters
          <5> QED BY <3>1, <3>2, <3>4, <3>5, <3>6, <3>8, <4>2, <5>1, <5>2 DEF DriverOK, Asking, SameEvent,
                     SameTask, SamePlan
        <4> QED BY <4>1, <4>2
      <3> QED BY <3>2, <3>7, <3>8, <3>9, SoloDrive
    <2>17. CASE Entered(c)
      <3>1. Driver(call[c]) /\ call[c].pc = "created" /\ (Enters(call[c]))
        BY <2>17 DEF Entered, At, Types, CallsOK, CallOK, Driver, Handles, Enters, Starts
      <3>2. DriverOK(call[c]) /\ \A d \in Calls \ {c} : ~ Driver(call[d])
        BY <3>1, TheDriver
      <3>3. active \in Visit /\ active # None /\ call[c].auto = active /\ auto[active].lane = card.col /\ Begun
        BY <3>1, <3>2, CardTypes DEF DriverOK, Types, TypeOK, Drive, InLane
      <3>4. /\ auto'[active].lane = auto[active].lane /\ auto'[active].step = auto[active].step
            /\ auto'[active].status = (IF call[c].res = "session" THEN "running" ELSE auto[active].status)
            /\ auto'[active].sid = (IF call[c].res = "session" THEN call[c].got ELSE auto[active].sid)
        <4>1. auto' = WithSession(c)
          BY <2>17 DEF Entered
        <4> QED BY <3>3, <4>1, WithSessionType
      <3>5. UNCHANGED <<card, active, waiting>>
        BY <2>17 DEF Entered
      <3>6. Others(c) /\ ~ Driver(call'[c])
        BY <2>17, ReturnCall, IdleFields DEF Entered, Driver
      <3>7. InLane' /\ Trigger'
        <4>1. call[c].res = "session" => call[c].got = card.trigger
          BY <3>1, <3>2 DEF DriverOK, Types, CallsOK, CallOK
        <4>2. call[c].res # "session" => auto[active].sid = None
          BY <3>3 DEF Begun
        <4> QED BY <3>3, <3>4, <3>5, <4>1, <4>2 DEF InLane, Trigger
      <3>8. Waits' => card'.trigger = None /\ Begun' /\ waiting'.step >= auto'[active'].step
        <4> SUFFICES ASSUME Waits' PROVE card'.trigger = None /\ Begun' /\ waiting'.step >= auto'[active'].step
          OBVIOUS
        <4>1. Waits /\ card.trigger = None
          BY <3>5 DEF Waits, Drive, Waiting
        <4>2. call[c].res # "session"
          BY <3>1, <3>2, <4>1 DEF DriverOK, Types, CallsOK, CallOK
        <4>3. \A d \in Calls : call[d].pc \notin {"enter", "register"}
          BY <3>1, <3>2 DEF Driver
        <4>4. waiting.step >= auto[active].step
          BY <4>1, <4>3 DEF Drive, Waiting
        <4> QED BY <3>3, <3>4, <3>5, <4>1, <4>2, <4>4 DEF Begun, Live
      <3> QED BY <3>2, <3>6, <3>7, <3>8, SoloDrive
    <2>18. CASE Continued(c)
      <3>1. Driver(call[c]) /\ call[c].pc = "created" /\ (Handles(call[c]))
        BY <2>18 DEF Continued, At, Types, CallsOK, CallOK, Driver, Handles, Enters, Starts
      <3>2. DriverOK(call[c]) /\ \A d \in Calls \ {c} : ~ Driver(call[d])
        BY <3>1, TheDriver
      <3>3. active \in Visit /\ active # None /\ call[c].auto = active /\ auto[active].lane = card.col /\ Begun
        BY <3>1, <3>2, CardTypes DEF DriverOK, Types, TypeOK, Drive, InLane
      <3>4. /\ auto'[active].lane = auto[active].lane /\ auto'[active].step = auto[active].step
            /\ auto'[active].status = (IF call[c].res = "session" THEN "running" ELSE auto[active].status)
            /\ auto'[active].sid = (IF call[c].res = "session" THEN call[c].got ELSE auto[active].sid)
        BY <2>18, <3>3, ContinuedAuto DEF SameLane
      <3>5. UNCHANGED <<card, active, waiting>>
        BY <2>18 DEF Continued
      <3>6. Others(c) /\ ~ Driver(call'[c])
        BY <2>18, ReturnCall, IdleFields DEF Continued, Driver
      <3>7. InLane' /\ Trigger'
        <4>1. call[c].res = "session" => call[c].got = card.trigger
          BY <3>1, <3>2 DEF DriverOK, Types, CallsOK, CallOK
        <4>2. call[c].res # "session" => auto[active].sid = None
          BY <3>3 DEF Begun
        <4> QED BY <3>3, <3>4, <3>5, <4>1, <4>2 DEF InLane, Trigger
      <3>8. Waits' => card'.trigger = None /\ Begun' /\ waiting'.step >= auto'[active'].step
        <4> SUFFICES ASSUME Waits' PROVE card'.trigger = None /\ Begun' /\ waiting'.step >= auto'[active'].step
          OBVIOUS
        <4>1. Waits /\ card.trigger = None
          BY <3>5 DEF Waits, Drive, Waiting
        <4>2. call[c].res # "session"
          BY <3>1, <3>2, <4>1 DEF DriverOK, Types, CallsOK, CallOK
        <4>3. \A d \in Calls : call[d].pc \notin {"enter", "register"}
          BY <3>1, <3>2 DEF Driver
        <4>4. waiting.step >= auto[active].step
          BY <4>1, <4>3 DEF Drive, Waiting
        <4> QED BY <3>3, <3>4, <3>5, <4>1, <4>2, <4>4 DEF Begun, Live
      <3> QED BY <3>2, <3>6, <3>7, <3>8, SoloDrive
    <2>19. CASE NotContinued(c)
      <3>1. Driver(call[c]) /\ call[c].pc = "created" /\ (Handles(call[c]))
        BY <2>19 DEF NotContinued, At, Types, CallsOK, CallOK, Driver, Handles, Enters, Starts
      <3>2. DriverOK(call[c]) /\ \A d \in Calls \ {c} : ~ Driver(call[d])
        BY <3>1, TheDriver
      <3>3. active \in Visit /\ active # None /\ call[c].auto = active /\ auto[active].lane = card.col
        BY <3>1, <3>2, CardTypes DEF DriverOK, Types, TypeOK, Drive, InLane
      <3>4. auto'[active].lane = auto[active].lane /\ auto'[active].status = "failed" /\ auto'[active].sid = None
        BY <2>19, <3>1, <3>2, <3>3, NotContinuedAuto DEF SameLane, DriverOK, Begun
      <3>5. UNCHANGED <<card, active, waiting>> /\ call[c].res = "none" /\ waiting = NoRun /\ card.trigger = None
        BY <2>19, <3>1, <3>2 DEF NotContinued, DriverOK
      <3>6. Others(c) /\ call'[c].pc \in {"recover", "finish"} /\ SameTask(c) /\ SamePlan(c)
        BY <2>19, NotContinuedCall
      <3>7. Driver(call[c])' => DriverOK(call[c])'
        BY <3>1, <3>2, <3>3, <3>4, <3>5, <3>6 DEF DriverOK, Asking, Handles, Enters, SameTask, SamePlan
      <3>8. InLane' /\ Trigger' /\ ~ Waits'
        BY <3>3, <3>4, <3>5 DEF InLane, Trigger, Live, Waits
      <3> QED BY <3>2, <3>6, <3>7, <3>8, SoloDrive
    <2>20. CASE LaneEnds(c)
      <3>1. Driver(call[c]) /\ call[c].pc = "finish" /\ (Handles(call[c]))
        BY <2>20 DEF LaneEnds, At, Types, CallsOK, CallOK, Driver, Handles, Enters, Starts
      <3>2. DriverOK(call[c]) /\ \A d \in Calls \ {c} : ~ Driver(call[d])
        BY <3>1, TheDriver
      <3>3. active \in Visit /\ active # None /\ call[c].auto = active /\ auto[active].lane = card.col /\ ~ Waits
        BY <3>1, <3>2, CardTypes DEF DriverOK, Types, TypeOK, Drive, InLane, Waiting
      <3>4. Over(c)[active].lane = auto[active].lane /\ Over(c)[active].status \in {"completed", "failed"} /\ auto' = Over(c)
        BY <2>20, <3>1, <3>3, OverType DEF LaneEnds
      <3>5. Saved(call[c].copy).col = card.col /\ Saved(call[c].copy).trigger = card.trigger /\ Saved(call[c].copy) \in Card
        BY <3>1, <3>2, SavedType DEF DriverOK, Asking, Types, TypeOK, CallsOK, CallType
      <3>6. active' = active /\ waiting' = waiting /\ card' = Saved(call[c].copy)
        BY <2>20 DEF LaneEnds
      <3>7. Others(c) /\ ~ Driver(call'[c])
        BY <2>20, ReturnCall, IdleFields DEF LaneEnds, Driver
      <3>8. InLane' /\ Trigger' /\ ~ Waits'
        BY <3>3, <3>4, <3>5, <3>6 DEF InLane, Trigger, Live, Waits
      <3> QED BY <3>2, <3>7, <3>8, SoloDrive
    <2>21. CASE LaneAdvances(c)
      <3>1. Driver(call[c]) /\ call[c].pc = "finish" /\ (Handles(call[c]))
        BY <2>21 DEF LaneAdvances, At, Types, CallsOK, CallOK, Driver, Handles, Enters, Starts
      <3>2. DriverOK(call[c]) /\ \A d \in Calls \ {c} : ~ Driver(call[d])
        BY <3>1, TheDriver
      <3>3. active \in Visit /\ active # None /\ call[c].auto = active /\ auto[active].lane = card.col /\ ~ Waits
        BY <3>1, <3>2, CardTypes DEF DriverOK, Types, TypeOK, Drive, InLane, Waiting
      <3>4. Over(c)[active].lane = auto[active].lane /\ Over(c)[active].status \in {"completed", "failed"} /\ auto' = Over(c)
        BY <2>21, <3>1, <3>3, OverType DEF LaneAdvances
      <3>5. Saved(call[c].copy).col = card.col /\ Saved(call[c].copy).trigger = card.trigger /\ Saved(call[c].copy) \in Card
        BY <3>1, <3>2, SavedType DEF DriverOK, Asking, Types, TypeOK, CallsOK, CallType
      <3>6. AutoOf(c).lane = "dev" /\ card' = [Saved(call[c].copy) EXCEPT !.col = "done", !.trigger = None] /\ waiting' = NoRun
        BY <2>21 DEF LaneAdvances, Advances
      <3>7. active' = None
        BY <2>21, <3>3, <3>4, <3>6 DEF LaneAdvances, LeaveLane, AutoOf
      <3>8. card'.col = "done" /\ card'.trigger = None
        BY <3>5, <3>6 DEF Card
      <3>9. Arrives(c, "done")
        BY <2>21, LaneAdvancesCall
      <3>10. Driver(call[c])' => DriverOK(call[c])'
        BY <3>7, <3>8, <3>9 DEF Arrives, DriverOK, Handles, Enters
      <3>11. InLane' /\ Trigger' /\ ~ Waits'
        BY <3>6, <3>7 DEF InLane, Trigger, Live, Waits
      <3> QED BY <3>2, <3>9, <3>10, <3>11, SoloDrive DEF Arrives
    <2>22. CASE LaneTearsDown(c)
      <3>1. Driver(call[c]) /\ call[c].pc = "finish" /\ (Handles(call[c]))
        BY <2>22 DEF LaneTearsDown, At, Types, CallsOK, CallOK, Driver, Handles, Enters, Starts
      <3>2. DriverOK(call[c]) /\ \A d \in Calls \ {c} : ~ Driver(call[d])
        BY <3>1, TheDriver
      <3>3. active \in Visit /\ active # None /\ call[c].auto = active /\ auto[active].lane = card.col /\ ~ Waits
        BY <3>1, <3>2, CardTypes DEF DriverOK, Types, TypeOK, Drive, InLane, Waiting
      <3>4. Over(c)[active].lane = auto[active].lane /\ Over(c)[active].status \in {"completed", "failed"} /\ auto' = Over(c)
        BY <2>22, <3>1, <3>3, OverType DEF LaneTearsDown
      <3>5. Saved(call[c].copy).col = card.col /\ Saved(call[c].copy).trigger = card.trigger /\ Saved(call[c].copy) \in Card
        BY <3>1, <3>2, SavedType DEF DriverOK, Asking, Types, TypeOK, CallsOK, CallType
      <3>6. active' = active /\ waiting' = waiting /\ card' = Saved(call[c].copy)
        BY <2>22 DEF LaneTearsDown
      <3>7. Others(c) /\ ~ Driver(call'[c])
        BY <2>22, LaneTearsDownCall DEF Driver, Handles, Enters
      <3>8. InLane' /\ Trigger' /\ ~ Waits'
        BY <3>3, <3>4, <3>5, <3>6 DEF InLane, Trigger, Live, Waits
      <3> QED BY <3>2, <3>7, <3>8, SoloDrive
    <2>23. CASE EndOne(c)
      <3>1. \A d \in Calls : call'[d] = call[d] \/ (~ Driver(call[d]) /\ ~ Driver(call'[d]))
        <4>1. Others(c) /\ ~ Driver(call[c]) /\ ~ Driver(call'[c])
          BY <2>23, EndOneCall DEF EndOne, At, Driver, Handles, Enters
        <4> QED BY <4>1 DEF Others
      <3>2. active' = active /\ waiting' \in {waiting, NoRun} /\ card'.col = card.col /\ card'.trigger = card.trigger
        BY <2>23 DEF EndOne
      <3>3. \A a \in Visit : /\ auto'[a].lane = auto[a].lane /\ auto'[a].step = auto[a].step
                                /\ auto'[a].sid = auto[a].sid /\ auto'[a].status = auto[a].status
        BY <2>23 DEF EndOne
      <3> QED BY <3>1, <3>2, <3>3, FrameDrive
    <2>24. CASE AllEnded(c)
      <3>1. \A d \in Calls : call'[d] = call[d] \/ (~ Driver(call[d]) /\ ~ Driver(call'[d]))
        <4>1. Others(c) /\ ~ Driver(call[c]) /\ ~ Driver(call'[c])
          BY <2>24, ReturnCall, IdleFields DEF AllEnded, At, Driver, Handles, Enters
        <4> QED BY <4>1 DEF Others
      <3>2. active' = active /\ waiting' \in {waiting, NoRun} /\ card'.col = card.col /\ card'.trigger = card.trigger
        BY <2>24 DEF AllEnded
      <3>3. \A a \in Visit : /\ auto'[a].lane = auto[a].lane /\ auto'[a].step = auto[a].step
                                /\ auto'[a].sid = auto[a].sid /\ auto'[a].status = auto[a].status
        BY <2>24 DEF AllEnded
      <3> QED BY <3>1, <3>2, <3>3, FrameDrive
    <2>25. CASE EnterLane(c)
      <3>1. Driver(call[c]) /\ call[c].pc = "enter" /\ (TRUE)
        BY <2>25 DEF EnterLane, At, Types, CallsOK, CallOK, Driver, Handles, Enters, Starts
      <3>2. DriverOK(call[c]) /\ \A d \in Calls \ {c} : ~ Driver(call[d])
        BY <3>1, TheDriver
      <3>3. UNCHANGED <<card, auto, active, waiting>>
        BY <2>25 DEF EnterLane
      <3>4. /\ Others(c) /\ call'[c].pc = "register" /\ call'[c].job = call[c].job
        BY <2>25, <3>1, <3>2, EnterLaneCall DEF DriverOK, Live
      <3>5. Driver(call[c])' => DriverOK(call[c])'
        BY <3>1, <3>2, <3>3, <3>4 DEF DriverOK, Handles, Enters
      <3>6. InLane' /\ Trigger' /\ card'.trigger = None
        BY <3>1, <3>2, <3>3 DEF DriverOK, Drive, InLane, Trigger, Live
      <3> QED BY <3>2, <3>4, <3>5, <3>6, SoloDrive
    <2>26. CASE Register(c)
      <3>1. Driver(call[c]) /\ call[c].pc = "register" /\ (TRUE)
        BY <2>26 DEF Register, At, Types, CallsOK, CallOK, Driver, Handles, Enters, Starts
      <3>2. DriverOK(call[c]) /\ \A d \in Calls \ {c} : ~ Driver(call[d])
        BY <3>1, TheDriver
      <3>3. UNCHANGED <<card, waiting>> /\ card.trigger = None
        BY <2>26, <3>1, <3>2 DEF Register, DriverOK
      <3>4. /\ Others(c) /\ call'[c].pc = "create" /\ call'[c].why = "enter" /\ call'[c].auto = active'
            /\ call'[c].job.auto = active' /\ call'[c].job.lane = call[c].job.lane /\ call'[c].job.step = 1
        BY <2>26, RegisterCall
      <3>5. /\ active' \in Visit /\ active' # None /\ auto'[active'].lane = card.col /\ auto'[active'].status = "queued"
            /\ auto'[active'].sid = None /\ auto'[active'].step = 1
        BY <2>26, <3>1, <3>2, RegisterAuto, CardTypes DEF DriverOK
      <3>6. Begun' /\ InLane' /\ Trigger'
        BY <3>3, <3>5 DEF Begun, Live, InLane, Trigger
      <3>7. Driver(call[c])' => DriverOK(call[c])'
        BY <3>1, <3>2, <3>3, <3>4, <3>5, <3>6 DEF DriverOK, Handles, Enters
      <3>8. Waits' => waiting'.step >= 1
        BY <3>3 DEF Waits, References, RestRefers, OfUse, Types, TypeOK, Jobs
      <3> QED BY <3>2, <3>3, <3>4, <3>5, <3>6, <3>7, <3>8, SoloDrive
    <2> QED BY <1>1, <2>1, <2>2, <2>3, <2>4, <2>5, <2>6, <2>7, <2>8, <2>9, <2>10, <2>11, <2>12, <2>13, <2>14,
               <2>15, <2>16, <2>17, <2>18, <2>19, <2>20, <2>21, <2>22, <2>23, <2>24, <2>25, <2>26 DEF CallStep
  <1>2. ASSUME NEW s \in Session, Report(s) \/ TurnEnds(s) \/ TurnFails(s) \/ PromptBroke(s) \/ Exits(s)
        PROVE  Drive'
    <2>1. CASE Report(s)
      <3>1. \A d \in Calls : call'[d] = call[d] \/ (~ Driver(call[d]) /\ ~ Driver(call'[d]))
        <4>1. PICK d \in Calls : Taken(d, s, "report")
          BY <2>1, EmitCall DEF Report, Events
        <4> QED BY <4>1 DEF Taken, Others, Driver, Handles, Enters
      <3>2. active' = active /\ waiting' \in {waiting, NoRun} /\ card'.col = card.col /\ card'.trigger = card.trigger
        BY <2>1 DEF Report
      <3>3. \A a \in Visit : /\ auto'[a].lane = auto[a].lane /\ auto'[a].step = auto[a].step
                                /\ auto'[a].sid = auto[a].sid /\ auto'[a].status = auto[a].status
        BY <2>1 DEF Report
      <3> QED BY <3>1, <3>2, <3>3, FrameDrive
    <2>2. CASE TurnEnds(s)
      <3>1. \A d \in Calls : call'[d] = call[d] \/ (~ Driver(call[d]) /\ ~ Driver(call'[d]))
        <4>1. PICK d \in Calls : Taken(d, s, "end")
          BY <2>2, EmitCall DEF TurnEnds, Events
        <4> QED BY <4>1 DEF Taken, Others, Driver, Handles, Enters
      <3>2. active' = active /\ waiting' \in {waiting, NoRun} /\ card'.col = card.col /\ card'.trigger = card.trigger
        BY <2>2 DEF TurnEnds
      <3>3. \A a \in Visit : /\ auto'[a].lane = auto[a].lane /\ auto'[a].step = auto[a].step
                                /\ auto'[a].sid = auto[a].sid /\ auto'[a].status = auto[a].status
        BY <2>2 DEF TurnEnds
      <3> QED BY <3>1, <3>2, <3>3, FrameDrive
    <2>3. CASE TurnFails(s)
      <3>1. \A d \in Calls : call'[d] = call[d] \/ (~ Driver(call[d]) /\ ~ Driver(call'[d]))
        <4>1. PICK d \in Calls : Taken(d, s, "failed")
          BY <2>3, EmitCall DEF TurnFails, Events
        <4> QED BY <4>1 DEF Taken, Others, Driver, Handles, Enters
      <3>2. active' = active /\ waiting' \in {waiting, NoRun} /\ card'.col = card.col /\ card'.trigger = card.trigger
        BY <2>3 DEF TurnFails
      <3>3. \A a \in Visit : /\ auto'[a].lane = auto[a].lane /\ auto'[a].step = auto[a].step
                                /\ auto'[a].sid = auto[a].sid /\ auto'[a].status = auto[a].status
        BY <2>3 DEF TurnFails
      <3> QED BY <3>1, <3>2, <3>3, FrameDrive
    <2>4. CASE PromptBroke(s)
      <3>1. \A d \in Calls : call'[d] = call[d] \/ (~ Driver(call[d]) /\ ~ Driver(call'[d]))
        <4>1. PICK d \in Calls : Taken(d, s, "failed")
          BY <2>4, EmitCall DEF PromptBroke, Events
        <4> QED BY <4>1 DEF Taken, Others, Driver, Handles, Enters
      <3>2. active' = active /\ waiting' \in {waiting, NoRun} /\ card'.col = card.col /\ card'.trigger = card.trigger
        BY <2>4 DEF PromptBroke
      <3>3. \A a \in Visit : /\ auto'[a].lane = auto[a].lane /\ auto'[a].step = auto[a].step
                                /\ auto'[a].sid = auto[a].sid /\ auto'[a].status = auto[a].status
        BY <2>4 DEF PromptBroke
      <3> QED BY <3>1, <3>2, <3>3, FrameDrive
    <2>5. CASE Exits(s)
      <3>1. \A d \in Calls : call'[d] = call[d] \/ (~ Driver(call[d]) /\ ~ Driver(call'[d]))
        <4>1. PICK d \in Calls : Taken(d, s, "failed")
          BY <2>5, EmitCall DEF Exits, Events
        <4> QED BY <4>1 DEF Taken, Others, Driver, Handles, Enters
      <3>2. active' = active /\ waiting' \in {waiting, NoRun} /\ card'.col = card.col /\ card'.trigger = card.trigger
        BY <2>5 DEF Exits
      <3>3. \A a \in Visit : /\ auto'[a].lane = auto[a].lane /\ auto'[a].step = auto[a].step
                                /\ auto'[a].sid = auto[a].sid /\ auto'[a].status = auto[a].status
        BY <2>5 DEF Exits
      <3> QED BY <3>1, <3>2, <3>3, FrameDrive
    <2> QED BY <1>2, <2>1, <2>2, <2>3, <2>4, <2>5
  <1>3. CASE QueueStarts
    <2>1. CASE Startable(waiting)
      <3>1. PICK c \in Calls : /\ Others(c) /\ call'[c].pc = "spawning" /\ call'[c].why = "queue" /\ call[c].pc = "idle"
                               /\ call'[c].job = waiting /\ call'[c].row = card
        BY <1>3, <2>1, QueueStartsCall DEF QueueStarts, Types, WaitingOK
      <3>2. UNCHANGED <<card, auto, active>> /\ waiting' = NoRun /\ waiting # NoRun /\ Waits /\ Quiet
        BY <1>3, <2>1 DEF QueueStarts, Startable, Waits
      <3>3. \A d \in Calls : ~ Driver(call[d])
        BY <3>2 DEF Drive, Waiting, Quiet, Awaiting
      <3>4. card.trigger = None /\ Begun /\ waiting.step >= auto[active].step /\ waiting.lane = card.col
        BY <3>2, <3>3 DEF Drive, Waiting, Waits, Driver
      <3>5. Begun' /\ InLane' /\ Trigger' /\ ~ Waits'
        BY <3>2, <3>4 DEF Drive, InLane, Trigger, Live, Begun, Waits
      <3>6. Driver(call[c])' => DriverOK(call[c])'
        BY <3>1, <3>2, <3>4, <3>5 DEF DriverOK, Handles, Enters
      <3> QED BY <3>1, <3>3, <3>5, <3>6, SoloDrive
    <2>2. CASE ~ Startable(waiting)
      <3>1. UNCHANGED <<card, auto, active, call>> /\ waiting' = NoRun
        BY <1>3, <2>2 DEF QueueStarts
      <3> QED BY <3>1, FrameDrive
    <2> QED BY <2>1, <2>2
  <1>4. CASE RemoveWorktree
    <2>1. \A d \in Calls : call'[d] = call[d] \/ (~ Driver(call[d]) /\ ~ Driver(call'[d]))
      BY <1>4 DEF RemoveWorktree
    <2>2. active' = active /\ waiting' \in {waiting, NoRun} /\ card'.col = card.col /\ card'.trigger = card.trigger
      BY <1>4 DEF RemoveWorktree
    <2>3. \A a \in Visit : /\ auto'[a].lane = auto[a].lane /\ auto'[a].step = auto[a].step
                              /\ auto'[a].sid = auto[a].sid /\ auto'[a].status = auto[a].status
      BY <1>4 DEF RemoveWorktree
    <2> QED BY <2>1, <2>2, <2>3, FrameDrive
  <1>5. CASE KeepWorktree
    <2>1. \A d \in Calls : call'[d] = call[d] \/ (~ Driver(call[d]) /\ ~ Driver(call'[d]))
      BY <1>5 DEF KeepWorktree
    <2>2. active' = active /\ waiting' \in {waiting, NoRun} /\ card'.col = card.col /\ card'.trigger = card.trigger
      BY <1>5 DEF KeepWorktree
    <2>3. \A a \in Visit : /\ auto'[a].lane = auto[a].lane /\ auto'[a].step = auto[a].step
                              /\ auto'[a].sid = auto[a].sid /\ auto'[a].status = auto[a].status
      BY <1>5 DEF KeepWorktree
    <2> QED BY <2>1, <2>2, <2>3, FrameDrive
  <1>6. CASE ScanAdopts
    <2>1. /\ auto' = Adopted /\ active' = active /\ waiting' = waiting /\ card' = card /\ call' = call /\ Quiet
          /\ Live /\ auto[active].sid = None /\ card.trigger # None
      BY <1>6 DEF ScanAdopts, Adoptable
    <2>2. ASSUME NEW d \in Calls, Driver(call[d]) PROVE FALSE
      <3>1. call[d].pc = "killing" \/ call[d].pc = "spawning"
        BY <2>1, <2>2 DEF Quiet, Types, CallsOK, CallOK, Driver, Handles, Enters, Awaiting
      <3>2. DriverOK(call[d])
        BY <2>2, TheDriver
      <3> QED BY <2>1, <3>1, <3>2 DEF DriverOK, AutoOK, Live, Types, TypeOK
    <2>3. ~ Waits /\ ~ Waits'
      BY <2>1 DEF Drive, Waiting, Waits
    <2>4. InLane' /\ Trigger'
      <3>1. active \in Visit /\ auto'[active].lane = auto[active].lane /\ auto'[active].sid = card.trigger
        BY <2>1, AdoptedType, AdoptedFields DEF Live, Types, TypeOK
      <3> QED BY <2>1, <3>1 DEF Drive, InLane, Trigger
    <2>5. \A d \in Calls : ~ Driver(call[d])'
      BY <2>1, <2>2
    <2> QED BY <2>3, <2>4, <2>5, NobodyDrives
  <1>7. CASE ScanTimesOut
    <2>1. \A d \in Calls : call'[d] = call[d] \/ (~ Driver(call[d]) /\ ~ Driver(call'[d]))
      <4>1. PICK d \in Calls : Taken(d, auto[active].sid, "timeout")
        BY <1>7, TimesOutCall
      <4> QED BY <4>1 DEF Taken, Others, Driver, Handles, Enters
    <2>2. active' = active /\ waiting' \in {waiting, NoRun} /\ card'.col = card.col /\ card'.trigger = card.trigger
      BY <1>7 DEF ScanTimesOut
    <2>3. \A a \in Visit : /\ auto'[a].lane = auto[a].lane /\ auto'[a].step = auto[a].step
                              /\ auto'[a].sid = auto[a].sid /\ auto'[a].status = auto[a].status
      BY <1>7, AutoUnfold DEF ScanTimesOut, AutoType
    <2> QED BY <2>1, <2>2, <2>3, FrameDrive
  <1>8. ASSUME NEW to \in Columns, MoveCard(to) PROVE Drive'
    <2>1. \A d \in Calls : ~ Driver(call[d])
      BY <1>8 DEF MoveCard, Move, Quiet, Awaiting, Driver, Handles, Enters
    <2>2. card'.col = to /\ card'.trigger = None /\ waiting' = waiting /\ auto' = auto
      BY <1>8 DEF MoveCard, Types, TypeOK, Card
    <2>3. active' = None
      BY <1>8 DEF MoveCard, LeaveLane, Drive, InLane
    <2>4. InLane' /\ Trigger'
      BY <2>3 DEF InLane, Trigger, Live
    <2>5. CASE to \in Lanes
      <3>1. PICK c \in Calls : Arrives(c, to)
        BY <1>8, <2>5, ArriveCall DEF MoveCard
      <3>2. Driver(call[c])' => DriverOK(call[c])'
        BY <2>2, <2>3, <3>1 DEF Arrives, DriverOK, Handles, Enters
      <3> QED BY <2>1, <2>2, <2>4, <3>1, <3>2, SoloDrive DEF Arrives
    <2>6. CASE to \notin Lanes
      <3>1. call' = call
        BY <1>8, <2>6 DEF MoveCard
      <3>2. ~ Waits'
        BY <2>2, <2>6 DEF Waits, Types, TypeOK, Jobs
      <3> QED BY <2>1, <2>4, <3>1, <3>2, NobodyDrives
    <2> QED BY <2>5, <2>6
  <1>9. CASE UserBlocks
    <2>1. \A d \in Calls : ~ Driver(call[d])
      BY <1>9 DEF UserBlocks, Move, Quiet, Awaiting, Driver, Handles, Enters
    <2>2. active' = None /\ waiting' = NoRun
      BY <1>9 DEF UserBlocks, Drive, InLane
    <2>3. InLane' /\ Trigger' /\ ~ Waits'
      BY <2>2 DEF InLane, Trigger, Live, Waits
    <2>4. PICK c \in Calls : Others(c) /\ call'[c].pc = "ending"
      BY <1>9, UserBlocksCall
    <2>5. \A d \in Calls : ~ Driver(call[d])'
      BY <2>1, <2>4 DEF Others, Driver, Handles, Enters
    <2> QED BY <2>3, <2>5, NobodyDrives
  <1>10. CASE UNCHANGED vars
    <2>1. \A d \in Calls : call'[d] = call[d] \/ (~ Driver(call[d]) /\ ~ Driver(call'[d]))
      BY <1>10 DEF vars
    <2>2. active' = active /\ waiting' \in {waiting, NoRun} /\ card'.col = card.col /\ card'.trigger = card.trigger
      BY <1>10 DEF vars
    <2>3. \A a \in Visit : /\ auto'[a].lane = auto[a].lane /\ auto'[a].step = auto[a].step
                              /\ auto'[a].sid = auto[a].sid /\ auto'[a].status = auto[a].status
      BY <1>10 DEF vars
    <2> QED BY <2>1, <2>2, <2>3, FrameDrive
  <1> QED BY <1>1, <1>2, <1>3, <1>4, <1>5, <1>6, <1>7, <1>8, <1>9, <1>10 DEF Next

-----------------------------------------------------------------------------
(* The session that the lane follows *)

\* A call that deals, or will deal, with the end of session s.
Serves(k, s) == k.sid = s /\ Handles(k)
Serving(k, s) == k.sid = s /\ Receives(k) /\ k.ev \in {"report", "end"}

FollowedOK(s) ==
  /\ s \notin departed /\ s \notin cardEnded /\ s \notin teardown /\ s \notin deferred
  /\ \A c \in Calls : call[c].pc = "ending" => call[c].sid # s
  /\ run[s].lane = card.col /\ run[s].step >= auto[active].step
  /\ s \in ended => \E c \in Calls : Serves(call[c], s)
  /\ s \in reported \/ s \in okay => \E c \in Calls : Serves(call[c], s) \/ Serving(call[c], s)

FollowedNow == FollowedOK(card.trigger)
Followings == Live /\ card.trigger # None => FollowedNow

\* The timeout of a session that is inside its turn and has reported is not waited for.
Silent == \A c \in Calls : Receives(call[c]) /\ call[c].ev = "timeout"
                             => call[c].sid \notin reported \/ proc[call[c].sid] # "working"

\* A step after which the lane follows the same session.
LEMMA KeepFollow ==
  ASSUME Types, Followings, Live, NEW s \in Session, card.trigger = s, s # None,
         card'.trigger = s, card'.col = card.col, active' = active, auto'[active].step = auto[active].step,
         run' = run,
         s \notin departed' /\ s \notin cardEnded' /\ s \notin teardown' /\ s \notin deferred',
         \A c \in Calls : call'[c].pc = "ending" => call'[c].sid # s,
         s \in ended' => s \in ended \/ \E c \in Calls : Serves(call'[c], s),
         s \in reported' \/ s \in okay' => \/ s \in reported \/ s \in okay
                                           \/ \E c \in Calls : Serves(call'[c], s) \/ Serving(call'[c], s),
         \A c \in Calls : Serves(call[c], s) => Serves(call'[c], s),
         \A c \in Calls : Serving(call[c], s) => Serves(call'[c], s) \/ Serving(call'[c], s)
  PROVE  FollowedNow'
  <1>1. FollowedOK(s)
    BY DEF Followings, FollowedNow
  <1>2. \A c \in Calls : Serves(call[c], card.trigger)' <=> Serves(call'[c], s)
    BY DEF Serves, Handles
  <1>3. \A c \in Calls : Serving(call[c], card.trigger)' <=> Serving(call'[c], s)
    BY DEF Serving, Receives
  <1> QED BY <1>1, <1>2, <1>3 DEF FollowedOK, FollowedNow

\* In particular, a step of a call that does not change the sessions' sets.
LEMMA Followed1 == ASSUME Drive, Followings, Live, card.trigger # None, Types, AutoOK
  PROVE  /\ FollowedOK(card.trigger) /\ Adopted[active].sid = card.trigger
         /\ card.trigger \in Session /\ active \in Visit /\ active # None
  <1>1. card.trigger \in Session /\ active \in Visit /\ active # None
    BY CardTypes DEF Types, TypeOK, Card, Live
  <1>2. Adopted[active].sid = card.trigger
    BY <1>1, AdoptedFields DEF Drive, Trigger
  <1> QED BY <1>1, <1>2 DEF Followings, FollowedNow

\* The session that the lane follows keeps what is said of it.
LEMMA StepFollowed ==
  ASSUME Types, Types', Single, AutoOK, AutoOK', References, FreshOK, Evidence, Evidence', Alone, Drive,
         Drive', Followings, ~ interrupted', Live', card'.trigger # None, [Next]_vars
  PROVE  FollowedNow'
  <1> USE DEF cardVars, agentVars, tellVars, autoVars, tearVars
  <1>1. Live /\ card.trigger # None => /\ FollowedOK(card.trigger) /\ Adopted[active].sid = card.trigger
                                      /\ card.trigger \in Session /\ active \in Visit /\ active # None
    BY Followed1
  <1>2. ASSUME NEW c \in Calls, CallStep(c) PROVE FollowedNow'
    <2>1. CASE EndDeferred(c)
      <3>1. Live /\ card.trigger # None
        BY <2>1 DEF EndDeferred, Live
      <3>2. call[c].sid # card.trigger
        BY <2>1, <3>1, <1>1 DEF EndDeferred, Deferred, FollowedOK
      <3>3. Live /\ card.trigger # None
        BY <3>1
      <3>4. PICK s0 \in Session : /\ s0 = card.trigger /\ s0 # None /\ FollowedOK(s0)
                                /\ Adopted[active].sid = s0 /\ active \in Visit /\ active # None
        BY <3>3, <1>1
      <3>5. /\ card'.trigger = s0 /\ card'.col = card.col /\ active' = active /\ auto'[active].step = auto[active].step
            /\ run' = run
        BY <2>1, <3>4 DEF EndDeferred
      <3>6. /\ s0 \notin departed' /\ s0 \notin cardEnded' /\ s0 \notin teardown' /\ s0 \notin deferred'
            /\ s0 \in ended' => s0 \in ended \/ \E d \in Calls : Serves(call'[d], s0)
            /\ s0 \in reported' \/ s0 \in okay' => \/ s0 \in reported \/ s0 \in okay
                                                 \/ \E d \in Calls : Serves(call'[d], s0) \/ Serving(call'[d], s0)
        BY <2>1, <3>4, <3>2 DEF EndDeferred, Kill, FollowedOK
      <3>7. /\ \A d \in Calls : call'[d].pc = "ending" => call'[d].sid # s0
            /\ \A d \in Calls : Serves(call[d], s0) => Serves(call'[d], s0)
            /\ \A d \in Calls : Serving(call[d], s0) => Serves(call'[d], s0) \/ Serving(call'[d], s0)
        <4>1. Others(c) /\ call'[c].pc # "ending"
          BY <2>1, EndDeferredCall
        <4> QED BY <3>4, <3>2, <4>1 DEF Others, FollowedOK, Serves, Serving
      <3> QED BY <3>3, <3>4, <3>5, <3>6, <3>7, KeepFollow
    <2>2. CASE Killed(c)
      <3>1. Live /\ card.trigger # None
        BY <2>2 DEF Killed, Live
      <3>2. PICK s0 \in Session : /\ s0 = card.trigger /\ s0 # None /\ FollowedOK(s0)
                                /\ Adopted[active].sid = s0 /\ active \in Visit /\ active # None
        BY <3>1, <1>1
      <3>3. /\ card'.trigger = s0 /\ card'.col = card.col /\ active' = active /\ auto'[active].step = auto[active].step
            /\ run' = run
        BY <2>2, <3>2 DEF Killed
      <3>4. /\ s0 \notin departed' /\ s0 \notin cardEnded' /\ s0 \notin teardown' /\ s0 \notin deferred'
            /\ s0 \in ended' => s0 \in ended \/ \E d \in Calls : Serves(call'[d], s0)
            /\ s0 \in reported' \/ s0 \in okay' => \/ s0 \in reported \/ s0 \in okay
                                                 \/ \E d \in Calls : Serves(call'[d], s0) \/ Serving(call'[d], s0)
        BY <2>2, <3>2 DEF Killed, FollowedOK
      <3>5. /\ \A d \in Calls : call'[d].pc = "ending" => call'[d].sid # s0
            /\ \A d \in Calls : Serves(call[d], s0) => Serves(call'[d], s0)
            /\ \A d \in Calls : Serving(call[d], s0) => Serves(call'[d], s0) \/ Serving(call'[d], s0)
        <4>1. /\ Others(c) /\ call'[c].sid = call[c].sid /\ call'[c].ev = call[c].ev /\ call'[c].pc # "ending"
              /\ (Handles(call[c]) => Handles(call'[c])) /\ (Receives(call[c]) => Receives(call'[c]))
          BY <2>2, KilledCall DEF Killed, Types, CallsOK, CallOK, SameEvent, Handles, Receives
        <4> QED BY <3>2, <4>1 DEF Others, FollowedOK, Serves, Serving
      <3> QED BY <3>1, <3>2, <3>3, <3>4, <3>5, KeepFollow
    <2>3. CASE StartPending(c)
      <3>1. Live /\ card.trigger # None
        BY <2>3 DEF StartPending, Live
      <3>2. PICK s0 \in Session : /\ s0 = card.trigger /\ s0 # None /\ FollowedOK(s0)
                                /\ Adopted[active].sid = s0 /\ active \in Visit /\ active # None
        BY <3>1, <1>1
      <3>3. /\ card'.trigger = s0 /\ card'.col = card.col /\ active' = active /\ auto'[active].step = auto[active].step
            /\ run' = run
        BY <2>3, <3>2 DEF StartPending
      <3>4. /\ s0 \notin departed' /\ s0 \notin cardEnded' /\ s0 \notin teardown' /\ s0 \notin deferred'
            /\ s0 \in ended' => s0 \in ended \/ \E d \in Calls : Serves(call'[d], s0)
            /\ s0 \in reported' \/ s0 \in okay' => \/ s0 \in reported \/ s0 \in okay
                                                 \/ \E d \in Calls : Serves(call'[d], s0) \/ Serving(call'[d], s0)
        BY <2>3, <3>2 DEF StartPending, FollowedOK
      <3>5. /\ \A d \in Calls : call'[d].pc = "ending" => call'[d].sid # s0
            /\ \A d \in Calls : Serves(call[d], s0) => Serves(call'[d], s0)
            /\ \A d \in Calls : Serving(call[d], s0) => Serves(call'[d], s0) \/ Serving(call'[d], s0)
        <4>1. /\ Others(c) /\ call'[c].sid = call[c].sid /\ call'[c].ev = call[c].ev /\ call'[c].pc # "ending"
              /\ (Handles(call[c]) => Handles(call'[c])) /\ (Receives(call[c]) => Receives(call'[c]))
          BY <2>3, StartPendingCall DEF StartPending, At, Types, CallsOK, CallOK, SameEvent, Handles, Receives
        <4> QED BY <3>2, <4>1 DEF Others, FollowedOK, Serves, Serving
      <3> QED BY <3>1, <3>2, <3>3, <3>4, <3>5, KeepFollow
    <2>4. CASE SettleEnded(c)
      <3>1. Live /\ card.trigger # None
        <4>1. call[c].sid \in Session
          BY <2>4 DEF SettleEnded, Routing, At, Types, CallsOK, CallOK, Receives
        <4> QED BY <2>4, <4>1, SettledType DEF SettleEnded, Live, Types, TypeOK
      <3>2. call[c].sid # card.trigger
        BY <2>4, <3>1, <1>1 DEF SettleEnded, FollowedOK
      <3>3. Live /\ card.trigger # None
        BY <3>1
      <3>4. PICK s0 \in Session : /\ s0 = card.trigger /\ s0 # None /\ FollowedOK(s0)
                                /\ Adopted[active].sid = s0 /\ active \in Visit /\ active # None
        BY <3>3, <1>1
      <3>5. /\ card'.trigger = s0 /\ card'.col = card.col /\ active' = active /\ auto'[active].step = auto[active].step
            /\ run' = run
        <4>1. call[c].sid \in Session
          BY <2>4 DEF SettleEnded, Routing, At, Types, CallsOK, CallOK, Receives
        <4> QED BY <2>4, <4>1, <3>4, SettledType DEF SettleEnded, Types, TypeOK
      <3>6. /\ s0 \notin departed' /\ s0 \notin cardEnded' /\ s0 \notin teardown' /\ s0 \notin deferred'
            /\ s0 \in ended' => s0 \in ended \/ \E d \in Calls : Serves(call'[d], s0)
            /\ s0 \in reported' \/ s0 \in okay' => \/ s0 \in reported \/ s0 \in okay
                                                 \/ \E d \in Calls : Serves(call'[d], s0) \/ Serving(call'[d], s0)
        BY <2>4, <3>4, <3>2 DEF SettleEnded, FollowedOK
      <3>7. /\ \A d \in Calls : call'[d].pc = "ending" => call'[d].sid # s0
            /\ \A d \in Calls : Serves(call[d], s0) => Serves(call'[d], s0)
            /\ \A d \in Calls : Serving(call[d], s0) => Serves(call'[d], s0) \/ Serving(call'[d], s0)
        <4>1. Others(c) /\ call'[c] = Idle
          BY <2>4, ReturnCall DEF SettleEnded
        <4>2. ~ Serves(call[c], s0) /\ ~ Serving(call[c], s0)
          BY <3>4, <3>2 DEF Serves, Serving
        <4> QED BY <3>4, <4>1, <4>2, IdleFields DEF Others, FollowedOK
      <3> QED BY <3>3, <3>4, <3>5, <3>6, <3>7, KeepFollow
    <2>5. CASE WindDown(c)
      <3>1. Live /\ card.trigger # None
        BY <2>5 DEF WindDown, Live, Close, Types, TypeOK, Card
      <3>2. call[c].sid # card.trigger
        BY <2>5, <3>1, <1>1 DEF WindDown, FollowedOK
      <3>3. Live /\ card.trigger # None
        BY <3>1
      <3>4. PICK s0 \in Session : /\ s0 = card.trigger /\ s0 # None /\ FollowedOK(s0)
                                /\ Adopted[active].sid = s0 /\ active \in Visit /\ active # None
        BY <3>3, <1>1
      <3>5. /\ card'.trigger = s0 /\ card'.col = card.col /\ active' = active /\ auto'[active].step = auto[active].step
            /\ run' = run
        BY <2>5, <3>4 DEF WindDown, Close, Types, TypeOK, Card
      <3>6. /\ s0 \notin departed' /\ s0 \notin cardEnded' /\ s0 \notin teardown' /\ s0 \notin deferred'
            /\ s0 \in ended' => s0 \in ended \/ \E d \in Calls : Serves(call'[d], s0)
            /\ s0 \in reported' \/ s0 \in okay' => \/ s0 \in reported \/ s0 \in okay
                                                 \/ \E d \in Calls : Serves(call'[d], s0) \/ Serving(call'[d], s0)
        BY <2>5, <3>4, <3>2 DEF WindDown, Kill, EndFinished, FollowedOK
      <3>7. /\ \A d \in Calls : call'[d].pc = "ending" => call'[d].sid # s0
            /\ \A d \in Calls : Serves(call[d], s0) => Serves(call'[d], s0)
            /\ \A d \in Calls : Serving(call[d], s0) => Serves(call'[d], s0) \/ Serving(call'[d], s0)
        <4>1. Others(c) /\ call'[c] = Idle
          BY <2>5, ReturnCall DEF WindDown
        <4>2. ~ Serves(call[c], s0) /\ ~ Serving(call[c], s0)
          BY <3>4, <3>2 DEF Serves, Serving
        <4> QED BY <3>4, <4>1, <4>2, IdleFields DEF Others, FollowedOK
      <3> QED BY <3>3, <3>4, <3>5, <3>6, <3>7, KeepFollow
    <2>6. CASE SettleUnfollowed(c)
      <3>1. Live /\ card.trigger # None
        <4>1. call[c].sid \in Session
          BY <2>6 DEF SettleUnfollowed, Own, Routing, At, Types, CallsOK, CallOK, Receives
        <4>2. card'.trigger = card.trigger
          BY <2>6, <4>1, SettledType DEF SettleUnfollowed, Types, TypeOK
        <4>3. Live
        <5>1. auto' = Adopted /\ active' = active
            BY <2>6 DEF SettleUnfollowed
          <5>2. active \in Visit
            BY <5>1, CardTypes DEF Live, Types, TypeOK
          <5>3. Live
            <6>1. CASE auto[active].sid = None /\ card.trigger # None /\ Live
              BY <6>1
            <6>2. CASE ~ (auto[active].sid = None /\ card.trigger # None /\ Live)
              BY <5>1, <5>2, <6>2, AdoptedFields DEF Live
            <6> QED BY <6>1, <6>2
          <5> QED BY <5>3
        <4> QED BY <4>2, <4>3
      <3>2. call[c].sid # card.trigger
        BY <2>6, <3>1, <1>1 DEF SettleUnfollowed, Followed
      <3>3. Live /\ card.trigger # None
        BY <3>1
      <3>4. PICK s0 \in Session : /\ s0 = card.trigger /\ s0 # None /\ FollowedOK(s0)
                                /\ Adopted[active].sid = s0 /\ active \in Visit /\ active # None
        BY <3>3, <1>1
      <3>5. /\ card'.trigger = s0 /\ card'.col = card.col /\ active' = active /\ auto'[active].step = auto[active].step
            /\ run' = run
        <4>1. call[c].sid \in Session
          BY <2>6 DEF SettleUnfollowed, Own, Routing, At, Types, CallsOK, CallOK, Receives
        <4>2. card'.trigger = card.trigger /\ card'.col = card.col /\ run' = run /\ active' = active /\ auto' = Adopted
          BY <2>6, <4>1, SettledType DEF SettleUnfollowed, Types, TypeOK
        <4> QED BY <3>4, <4>2, AdoptedType
      <3>6. /\ s0 \notin departed' /\ s0 \notin cardEnded' /\ s0 \notin teardown' /\ s0 \notin deferred'
            /\ s0 \in ended' => s0 \in ended \/ \E d \in Calls : Serves(call'[d], s0)
            /\ s0 \in reported' \/ s0 \in okay' => \/ s0 \in reported \/ s0 \in okay
                                                 \/ \E d \in Calls : Serves(call'[d], s0) \/ Serving(call'[d], s0)
        BY <2>6, <3>4, <3>2 DEF SettleUnfollowed, FollowedOK
      <3>7. /\ \A d \in Calls : call'[d].pc = "ending" => call'[d].sid # s0
            /\ \A d \in Calls : Serves(call[d], s0) => Serves(call'[d], s0)
            /\ \A d \in Calls : Serving(call[d], s0) => Serves(call'[d], s0) \/ Serving(call'[d], s0)
        <4>1. Others(c) /\ call'[c] = Idle
          BY <2>6, ReturnCall DEF SettleUnfollowed
        <4>2. ~ Serves(call[c], s0) /\ ~ Serving(call[c], s0)
          BY <3>4, <3>2 DEF Serves, Serving
        <4> QED BY <3>4, <4>1, <4>2, IdleFields DEF Others, FollowedOK
      <3> QED BY <3>3, <3>4, <3>5, <3>6, <3>7, KeepFollow
    <2>7. CASE SettleTeardown(c)
      <3>1. Live /\ card.trigger # None
        <4>1. call[c].sid \in Session /\ Live
          BY <2>7 DEF SettleTeardown, Own, Routing, At, Types, CallsOK, CallOK, Receives, Followed
        <4> QED BY <2>7, <4>1, SettledType DEF SettleTeardown, Types, TypeOK
      <3>2. PICK s0 \in Session : /\ s0 = card.trigger /\ s0 # None /\ FollowedOK(s0)
                                /\ Adopted[active].sid = s0 /\ active \in Visit /\ active # None
        BY <3>1, <1>1
      <3>3. /\ card'.trigger = s0 /\ card'.col = card.col /\ active' = active /\ auto'[active].step = auto[active].step
            /\ run' = run
        <4>1. call[c].sid \in Session
          BY <2>7 DEF SettleTeardown, Own, Routing, At, Types, CallsOK, CallOK, Receives
        <4>2. card'.trigger = card.trigger /\ card'.col = card.col /\ run' = run /\ active' = active
          BY <2>7, <4>1, SettledType DEF SettleTeardown, Types, TypeOK
        <4>3. auto'[active].step = auto[active].step
          BY <2>7, <3>2, AutoUnfold DEF SettleTeardown, AutoType
        <4> QED BY <3>2, <4>2, <4>3
      <3>4. /\ s0 \notin departed' /\ s0 \notin cardEnded' /\ s0 \notin teardown' /\ s0 \notin deferred'
            /\ s0 \in ended' => s0 \in ended \/ \E d \in Calls : Serves(call'[d], s0)
            /\ s0 \in reported' \/ s0 \in okay' => \/ s0 \in reported \/ s0 \in okay
                                                 \/ \E d \in Calls : Serves(call'[d], s0) \/ Serving(call'[d], s0)
        BY <2>7, <3>2 DEF SettleTeardown, FollowedOK
      <3>5. /\ \A d \in Calls : call'[d].pc = "ending" => call'[d].sid # s0
            /\ \A d \in Calls : Serves(call[d], s0) => Serves(call'[d], s0)
            /\ \A d \in Calls : Serving(call[d], s0) => Serves(call'[d], s0) \/ Serving(call'[d], s0)
        <4>1. Others(c) /\ call'[c] = Idle
          BY <2>7, ReturnCall DEF SettleTeardown
        <4>2. ~ Serves(call[c], s0) /\ ~ Serving(call[c], s0)
          BY <2>7 DEF SettleTeardown, Own, Routing, At, PostCompletion, Success, Serves, Serving, Handles
        <4> QED BY <3>2, <4>1, <4>2, IdleFields DEF Others, FollowedOK
      <3> QED BY <3>1, <3>2, <3>3, <3>4, <3>5, KeepFollow
    <2>8. CASE StepOver(c)
      <3>1. /\ Others(c) /\ call'[c].sid = call[c].sid /\ Handles(call'[c]) /\ call'[c].pc # "ending"
            /\ Receives(call[c]) /\ ~ Handles(call[c])
        <4>1. /\ Others(c) /\ call'[c].sid = call[c].sid /\ call[c].pc \in {"deliver", "route"}
              /\ call'[c].pc = "judge" \/ (call'[c].pc = "killing" /\ call'[c].why = "judge")
          BY <2>8, StepOverCall DEF StepOver, Own, Routing, At
        <4> QED BY <4>1 DEF Handles, Receives
      <3>2. call[c].sid = Adopted[active].sid
        BY <2>8 DEF StepOver, Followed
      <3>3. Live /\ card.trigger # None
        <4>1. Live /\ card' = card
          BY <2>8 DEF StepOver, Followed
        <4> QED BY <4>1
      <3>4. PICK s0 \in Session : /\ s0 = card.trigger /\ s0 # None /\ FollowedOK(s0)
                                /\ Adopted[active].sid = s0 /\ active \in Visit /\ active # None
        BY <3>3, <1>1
      <3>5. /\ card'.trigger = s0 /\ card'.col = card.col /\ active' = active /\ auto'[active].step = auto[active].step
            /\ run' = run
        <4>1. card' = card /\ run' = run /\ active' = active /\ auto' = Adopted
          BY <2>8 DEF StepOver
        <4> QED BY <3>4, <4>1, AdoptedType
      <3>6. /\ s0 \notin departed' /\ s0 \notin cardEnded' /\ s0 \notin teardown' /\ s0 \notin deferred'
            /\ s0 \in ended' => s0 \in ended \/ \E d \in Calls : Serves(call'[d], s0)
            /\ s0 \in reported' \/ s0 \in okay' => \/ s0 \in reported \/ s0 \in okay
                                                 \/ \E d \in Calls : Serves(call'[d], s0) \/ Serving(call'[d], s0)
        <4>1. Serves(call'[c], s0)
          BY <3>1, <3>2, <3>4 DEF Serves
        <4>2. UNCHANGED <<departed, cardEnded, teardown>> /\ deferred' \subseteq deferred
          BY <2>8 DEF StepOver
        <4> QED BY <3>4, <4>1, <4>2 DEF FollowedOK
      <3>7. /\ \A d \in Calls : call'[d].pc = "ending" => call'[d].sid # s0
            /\ \A d \in Calls : Serves(call[d], s0) => Serves(call'[d], s0)
            /\ \A d \in Calls : Serving(call[d], s0) => Serves(call'[d], s0) \/ Serving(call'[d], s0)
        <4>1. Serves(call'[c], s0)
          BY <3>1, <3>2, <3>4 DEF Serves
        <4> QED BY <3>1, <3>4, <4>1 DEF Others, FollowedOK
      <3> QED BY <3>3, <3>4, <3>5, <3>6, <3>7, KeepFollow
    <2>9. CASE StartNext(c)
      <3>1. call'[c].pc = "create"
        BY <2>9, StartNextCall
      <3> QED BY <3>1 DEF Drive, Drivers, Driver, DriverOK, Handles, Enters, Types, CallsOK, CallOK, Starts
    <2>10. CASE Recover(c)
      <3>1. call'[c].pc = "create"
        BY <2>10, RecoverCall
      <3> QED BY <3>1 DEF Drive, Drivers, Driver, DriverOK, Handles, Enters, Types, CallsOK, CallOK, Starts
    <2>11. CASE NothingFollows(c)
      <3>1. Live /\ card.trigger # None
        BY <2>11 DEF NothingFollows, Live
      <3>2. PICK s0 \in Session : /\ s0 = card.trigger /\ s0 # None /\ FollowedOK(s0)
                                /\ Adopted[active].sid = s0 /\ active \in Visit /\ active # None
        BY <3>1, <1>1
      <3>3. /\ card'.trigger = s0 /\ card'.col = card.col /\ active' = active /\ auto'[active].step = auto[active].step
            /\ run' = run
        BY <2>11, <3>2 DEF NothingFollows
      <3>4. /\ s0 \notin departed' /\ s0 \notin cardEnded' /\ s0 \notin teardown' /\ s0 \notin deferred'
            /\ s0 \in ended' => s0 \in ended \/ \E d \in Calls : Serves(call'[d], s0)
            /\ s0 \in reported' \/ s0 \in okay' => \/ s0 \in reported \/ s0 \in okay
                                                 \/ \E d \in Calls : Serves(call'[d], s0) \/ Serving(call'[d], s0)
        BY <2>11, <3>2 DEF NothingFollows, FollowedOK
      <3>5. /\ \A d \in Calls : call'[d].pc = "ending" => call'[d].sid # s0
            /\ \A d \in Calls : Serves(call[d], s0) => Serves(call'[d], s0)
            /\ \A d \in Calls : Serving(call[d], s0) => Serves(call'[d], s0) \/ Serving(call'[d], s0)
        <4>1. /\ Others(c) /\ call'[c].sid = call[c].sid /\ call'[c].ev = call[c].ev /\ call'[c].pc # "ending"
              /\ (Handles(call[c]) => Handles(call'[c])) /\ (Receives(call[c]) => Receives(call'[c]))
          BY <2>11, NothingFollowsCall DEF NothingFollows, At, Types, CallsOK, CallOK, SameEvent, Handles,
                 Receives
        <4> QED BY <3>2, <4>1 DEF Others, FollowedOK, Serves, Serving
      <3> QED BY <3>1, <3>2, <3>3, <3>4, <3>5, KeepFollow
    <2>12. CASE CreateTakesTrigger(c)
      <3>1. Driver(call[c]) /\ call[c].pc = "create"
        BY <2>12 DEF CreateTakesTrigger, At, Driver, Handles, Enters, Types, CallsOK, CallOK, Starts
      <3>2. DriverOK(call[c])
        BY <3>1, TheDriver
      <3> QED BY <2>12, <3>1, <3>2 DEF CreateTakesTrigger, DriverOK
    <2>13. CASE CreateQueues(c)
      <3>1. Driver(call[c]) /\ call[c].pc = "create"
        BY <2>13 DEF CreateQueues, At, Driver, Handles, Enters, Types, CallsOK, CallOK, Starts
      <3>2. DriverOK(call[c])
        BY <3>1, TheDriver
      <3> QED BY <2>13, <3>1, <3>2 DEF CreateQueues, DriverOK
    <2>14. CASE CreateStarts(c)
      <3>1. Driver(call[c]) /\ call[c].pc = "create"
        BY <2>14 DEF CreateStarts, At, Driver, Handles, Enters, Types, CallsOK, CallOK, Starts
      <3>2. DriverOK(call[c])
        BY <3>1, TheDriver
      <3> QED BY <2>14, <3>1, <3>2 DEF CreateStarts, DriverOK
    <2>15. CASE Spawned(c)
      <3>1. Driver(call[c]) /\ call[c].pc = "spawning" /\ call[c].row \in Card /\ card \in Card
        BY <2>15 DEF Spawned, At, Driver, Handles, Enters, Types, TypeOK, CallsOK, CallType, CallOK, Starts
      <3>2. DriverOK(call[c])
        BY <3>1, TheDriver
      <3>3. PICK s \in Session : /\ proc[s] = "none" /\ card' = Saved(WithRun(call[c].row, s))
                                /\ run' = [run EXCEPT ![s] = call[c].job]
                                /\ IF call[c].why = "queue" THEN Return(c) ELSE Answer(c, "session", s)
        BY <2>15 DEF Spawned
      <3>4. Unknown(s)
        BY <3>3 DEF FreshOK
      <3>5. card'.trigger = s /\ card'.col = card.col
        <4>1. /\ WithRun(call[c].row, s) \in Card /\ WithRun(call[c].row, s).col = card.col
              /\ WithRun(call[c].row, s).trigger = s
          BY <3>1, <3>2, WithRunType DEF DriverOK
        <4> QED BY <3>1, <3>3, <4>1, SavedType
      <3>6. UNCHANGED <<ended, reported, okay, deferred, departed, teardown, cardEnded, auto, active>>
        BY <2>15 DEF Spawned
      <3>7. run'[s] = call[c].job
        BY <3>3 DEF Types, TypeOK
      <3>8. Others(c) /\ call'[c].pc # "ending"
        BY <2>15, <3>1, <3>3, SpawnedCall, IdleFields
      <3>9. \A d \in Calls : call'[d].pc = "ending" => call'[d].sid # s
        BY <3>4, <3>8 DEF Others, Unknown, UnknownTo
      <3> QED BY <3>1, <3>2, <3>4, <3>5, <3>6, <3>7, <3>9 DEF FollowedNow, FollowedOK, Unknown, Unnamed,
                 DriverOK
    <2>16. CASE SpawnFails(c)
      <3>1. Driver(call[c]) /\ call[c].pc = "spawning"
        BY <2>16 DEF SpawnFails, At, Driver, Handles, Enters, Types, CallsOK, CallOK, Starts
      <3>2. DriverOK(call[c])
        BY <3>1, TheDriver
      <3>3. call[c].row \in Card /\ card \in Card /\ card' = Saved(call[c].row) /\ call[c].row.trigger = None
        BY <2>16, <3>1, <3>2 DEF SpawnFails, DriverOK, Types, TypeOK, CallsOK, CallType
      <3> QED BY <3>3, SavedType
    <2>17. CASE Entered(c)
      <3>1. Driver(call[c]) /\ call[c].pc = "created" /\ Enters(call[c])
        BY <2>17 DEF Entered, At, Types, CallsOK, CallOK, Driver, Handles, Enters, Starts
      <3>2. DriverOK(call[c]) /\ call[c].auto = active /\ Begun /\ active \in Visit
        BY <3>1, TheDriver, CardTypes DEF DriverOK, Begun, Live, Types, TypeOK
      <3>3. Live /\ card.trigger # None
        BY <2>17, <3>2 DEF Entered, Begun
      <3>4. PICK s0 \in Session : /\ s0 = card.trigger /\ s0 # None /\ FollowedOK(s0)
                                /\ Adopted[active].sid = s0 /\ active \in Visit /\ active # None
        BY <3>3, <1>1
      <3>5. /\ card'.trigger = s0 /\ card'.col = card.col /\ active' = active /\ auto'[active].step = auto[active].step
            /\ run' = run
        <4>1. auto' = WithSession(c) /\ UNCHANGED <<card, run, active>>
          BY <2>17 DEF Entered
        <4> QED BY <3>2, <3>4, <4>1, WithSessionType
      <3>6. /\ s0 \notin departed' /\ s0 \notin cardEnded' /\ s0 \notin teardown' /\ s0 \notin deferred'
            /\ s0 \in ended' => s0 \in ended \/ \E d \in Calls : Serves(call'[d], s0)
            /\ s0 \in reported' \/ s0 \in okay' => \/ s0 \in reported \/ s0 \in okay
                                                 \/ \E d \in Calls : Serves(call'[d], s0) \/ Serving(call'[d], s0)
        BY <2>17, <3>4 DEF Entered, FollowedOK
      <3>7. /\ \A d \in Calls : call'[d].pc = "ending" => call'[d].sid # s0
            /\ \A d \in Calls : Serves(call[d], s0) => Serves(call'[d], s0)
            /\ \A d \in Calls : Serving(call[d], s0) => Serves(call'[d], s0) \/ Serving(call'[d], s0)
        <4>1. Others(c) /\ call'[c] = Idle
          BY <2>17, ReturnCall DEF Entered
        <4>2. ~ Serves(call[c], s0) /\ ~ Serving(call[c], s0)
          BY <3>1 DEF Serves, Serving, Enters, Handles, Receives
        <4> QED BY <3>4, <4>1, <4>2, IdleFields DEF Others, FollowedOK
      <3> QED BY <3>3, <3>4, <3>5, <3>6, <3>7, KeepFollow
    <2>18. CASE Continued(c)
      <3>1. Driver(call[c]) /\ call[c].pc = "created" /\ Handles(call[c])
        BY <2>18 DEF Continued, At, Types, CallsOK, CallOK, Driver, Handles, Enters, Starts
      <3>2. DriverOK(call[c]) /\ call[c].auto = active /\ Begun /\ active \in Visit
        BY <3>1, TheDriver, CardTypes DEF DriverOK, Begun, Live, Types, TypeOK
      <3>3. card.trigger # None => call[c].sid # card.trigger
        BY <3>1, <3>2 DEF DriverOK, Types, CallsOK, CallOK
      <3>4. Live /\ card.trigger # None
        BY <2>18, <3>2 DEF Continued, Begun
      <3>5. PICK s0 \in Session : /\ s0 = card.trigger /\ s0 # None /\ FollowedOK(s0)
                                /\ Adopted[active].sid = s0 /\ active \in Visit /\ active # None
        BY <3>4, <1>1
      <3>6. /\ card'.trigger = s0 /\ card'.col = card.col /\ active' = active /\ auto'[active].step = auto[active].step
            /\ run' = run
        <4>1. UNCHANGED <<card, run, active>>
          BY <2>18 DEF Continued
        <4> QED BY <2>18, <3>2, <3>5, <4>1, ContinuedAuto
      <3>7. /\ s0 \notin departed' /\ s0 \notin cardEnded' /\ s0 \notin teardown' /\ s0 \notin deferred'
            /\ s0 \in ended' => s0 \in ended \/ \E d \in Calls : Serves(call'[d], s0)
            /\ s0 \in reported' \/ s0 \in okay' => \/ s0 \in reported \/ s0 \in okay
                                                 \/ \E d \in Calls : Serves(call'[d], s0) \/ Serving(call'[d], s0)
        BY <2>18, <3>3, <3>4, <3>5 DEF Continued, Kill, EndFinished, FollowedOK
      <3>8. /\ \A d \in Calls : call'[d].pc = "ending" => call'[d].sid # s0
            /\ \A d \in Calls : Serves(call[d], s0) => Serves(call'[d], s0)
            /\ \A d \in Calls : Serving(call[d], s0) => Serves(call'[d], s0) \/ Serving(call'[d], s0)
        <4>1. Others(c) /\ call'[c] = Idle
          BY <2>18, ReturnCall DEF Continued
        <4>2. ~ Serves(call[c], s0) /\ ~ Serving(call[c], s0)
          BY <3>3, <3>4, <3>5 DEF Serves, Serving
        <4> QED BY <3>5, <4>1, <4>2, IdleFields DEF Others, FollowedOK
      <3> QED BY <3>4, <3>5, <3>6, <3>7, <3>8, KeepFollow
    <2>19. CASE NotContinued(c)
      <3>1. Driver(call[c]) /\ Handles(call[c])
        BY <2>19 DEF NotContinued, At, Types, CallsOK, CallOK, Driver, Handles, Starts
      <3>2. call[c].auto = active
        BY <3>1, TheDriver DEF DriverOK
      <3> QED BY <2>19, <3>2, NotContinuedAuto DEF NotContinued, Live
    <2>20. CASE LaneEnds(c)
      <3>1. Driver(call[c]) /\ Handles(call[c])
        BY <2>20 DEF LaneEnds, At, Types, CallsOK, CallOK, Driver, Handles, Starts
      <3>2. call[c].auto = active
        BY <3>1, TheDriver DEF DriverOK
      <3>3. auto' = Over(c) /\ active' = active /\ call[c].pc = "finish"
        BY <2>20 DEF LaneEnds, At
      <3> QED BY <3>2, <3>3, OverType DEF Live
    <2>21. CASE LaneAdvances(c)
      <3>1. card'.trigger = None
        BY <2>21, LaneAdvancesCall DEF Arrives, Drive, Drivers, Driver, DriverOK
      <3> QED BY <3>1
    <2>22. CASE LaneTearsDown(c)
      <3>1. Driver(call[c]) /\ Handles(call[c])
        BY <2>22 DEF LaneTearsDown, At, Types, CallsOK, CallOK, Driver, Handles, Starts
      <3>2. call[c].auto = active
        BY <3>1, TheDriver DEF DriverOK
      <3>3. auto' = Over(c) /\ active' = active /\ call[c].pc = "finish"
        BY <2>22 DEF LaneTearsDown, At
      <3> QED BY <3>2, <3>3, OverType DEF Live
    <2>23. CASE EndOne(c)
      <3>1. Min(call[c].todo) \in teardown
        <4>1. Min(call[c].todo) \in call[c].todo
          BY <2>23, TodoMin DEF EndOne, Types, CallsOK, CallType
        <4> QED BY <4>1 DEF Evidence, Told
      <3>2. Live /\ card.trigger # None
        BY <2>23 DEF EndOne, Live
      <3>3. PICK s0 \in Session : /\ s0 = card.trigger /\ s0 # None /\ FollowedOK(s0)
                                /\ Adopted[active].sid = s0 /\ active \in Visit /\ active # None
        BY <3>2, <1>1
      <3>4. /\ card'.trigger = s0 /\ card'.col = card.col /\ active' = active /\ auto'[active].step = auto[active].step
            /\ run' = run
        BY <2>23, <3>3 DEF EndOne
      <3>5. /\ s0 \notin departed' /\ s0 \notin cardEnded' /\ s0 \notin teardown' /\ s0 \notin deferred'
            /\ s0 \in ended' => s0 \in ended \/ \E d \in Calls : Serves(call'[d], s0)
            /\ s0 \in reported' \/ s0 \in okay' => \/ s0 \in reported \/ s0 \in okay
                                                 \/ \E d \in Calls : Serves(call'[d], s0) \/ Serving(call'[d], s0)
        BY <2>23, <3>1, <3>3 DEF EndOne, Kill, FollowedOK
      <3>6. /\ \A d \in Calls : call'[d].pc = "ending" => call'[d].sid # s0
            /\ \A d \in Calls : Serves(call[d], s0) => Serves(call'[d], s0)
            /\ \A d \in Calls : Serving(call[d], s0) => Serves(call'[d], s0) \/ Serving(call'[d], s0)
        <4>1. Others(c) /\ call[c].pc = "ending" /\ call'[c].pc = "ending" /\ call'[c].sid = call[c].sid
          BY <2>23, EndOneCall DEF EndOne, At, SameEvent
        <4> QED BY <3>3, <4>1 DEF Others, FollowedOK, Serves, Serving, Handles, Receives
      <3> QED BY <3>2, <3>3, <3>4, <3>5, <3>6, KeepFollow
    <2>24. CASE AllEnded(c)
      <3>1. Live /\ card.trigger # None
        BY <2>24 DEF AllEnded, Live
      <3>2. call[c].sid # card.trigger
        BY <2>24, <3>1, <1>1 DEF AllEnded, At, FollowedOK
      <3>3. Live /\ card.trigger # None
        BY <3>1
      <3>4. PICK s0 \in Session : /\ s0 = card.trigger /\ s0 # None /\ FollowedOK(s0)
                                /\ Adopted[active].sid = s0 /\ active \in Visit /\ active # None
        BY <3>3, <1>1
      <3>5. /\ card'.trigger = s0 /\ card'.col = card.col /\ active' = active /\ auto'[active].step = auto[active].step
            /\ run' = run
        BY <2>24, <3>4 DEF AllEnded
      <3>6. /\ s0 \notin departed' /\ s0 \notin cardEnded' /\ s0 \notin teardown' /\ s0 \notin deferred'
            /\ s0 \in ended' => s0 \in ended \/ \E d \in Calls : Serves(call'[d], s0)
            /\ s0 \in reported' \/ s0 \in okay' => \/ s0 \in reported \/ s0 \in okay
                                                 \/ \E d \in Calls : Serves(call'[d], s0) \/ Serving(call'[d], s0)
        BY <2>24, <3>4, <3>2 DEF AllEnded, Kill, EndFinished, FollowedOK
      <3>7. /\ \A d \in Calls : call'[d].pc = "ending" => call'[d].sid # s0
            /\ \A d \in Calls : Serves(call[d], s0) => Serves(call'[d], s0)
            /\ \A d \in Calls : Serving(call[d], s0) => Serves(call'[d], s0) \/ Serving(call'[d], s0)
        <4>1. Others(c) /\ call'[c] = Idle
          BY <2>24, ReturnCall DEF AllEnded
        <4>2. ~ Serves(call[c], s0) /\ ~ Serving(call[c], s0)
          BY <3>4, <3>2 DEF Serves, Serving
        <4> QED BY <3>4, <4>1, <4>2, IdleFields DEF Others, FollowedOK
      <3> QED BY <3>3, <3>4, <3>5, <3>6, <3>7, KeepFollow
    <2>25. CASE EnterLane(c)
      <3>1. Driver(call[c]) /\ call[c].pc = "enter"
        BY <2>25 DEF EnterLane, At, Driver, Handles, Enters, Types, CallsOK, CallOK, Starts
      <3>2. DriverOK(call[c])
        BY <3>1, TheDriver
      <3> QED BY <2>25, <3>1, <3>2 DEF EnterLane, DriverOK, Live
    <2>26. CASE Register(c)
      <3>1. Driver(call[c]) /\ call[c].pc = "register"
        BY <2>26 DEF Register, At, Driver, Handles, Enters, Types, CallsOK, CallOK, Starts
      <3>2. DriverOK(call[c])
        BY <3>1, TheDriver
      <3> QED BY <2>26, <3>1, <3>2 DEF Register, DriverOK
    <2> QED BY <1>2, <2>1, <2>2, <2>3, <2>4, <2>5, <2>6, <2>7, <2>8, <2>9, <2>10, <2>11, <2>12, <2>13, <2>14,
               <2>15, <2>16, <2>17, <2>18, <2>19, <2>20, <2>21, <2>22, <2>23, <2>24, <2>25, <2>26 DEF CallStep
  <1>3. ASSUME NEW s \in Session, Report(s) \/ TurnEnds(s) \/ TurnFails(s) \/ PromptBroke(s) \/ Exits(s)
        PROVE  FollowedNow'
    <2>1. CASE Report(s)
      <3>1. PICK e \in Calls : Taken(e, s, "report")
        BY <2>1, EmitCall DEF Report, Events
      <3>2. Live /\ card.trigger # None
        BY <2>1 DEF Report, Live
      <3>3. PICK s0 \in Session : /\ s0 = card.trigger /\ s0 # None /\ FollowedOK(s0)
                                /\ Adopted[active].sid = s0 /\ active \in Visit /\ active # None
        BY <3>2, <1>1
      <3>4. /\ card'.trigger = s0 /\ card'.col = card.col /\ active' = active /\ auto'[active].step = auto[active].step
            /\ run' = run
        BY <2>1, <3>3 DEF Report
      <3>5. /\ s0 \notin departed' /\ s0 \notin cardEnded' /\ s0 \notin teardown' /\ s0 \notin deferred'
            /\ s0 \in ended' => s0 \in ended \/ \E d \in Calls : Serves(call'[d], s0)
            /\ s0 \in reported' \/ s0 \in okay' => \/ s0 \in reported \/ s0 \in okay
                                                 \/ \E d \in Calls : Serves(call'[d], s0) \/ Serving(call'[d], s0)
        BY <2>1, <3>3, <3>1 DEF Report, FollowedOK, Taken, Serving, Receives
      <3>6. /\ \A d \in Calls : call'[d].pc = "ending" => call'[d].sid # s0
            /\ \A d \in Calls : Serves(call[d], s0) => Serves(call'[d], s0)
            /\ \A d \in Calls : Serving(call[d], s0) => Serves(call'[d], s0) \/ Serving(call'[d], s0)
        BY <3>1, <3>3 DEF Taken, Others, FollowedOK, Serves, Serving, Handles, Receives
      <3> QED BY <3>2, <3>3, <3>4, <3>5, <3>6, KeepFollow
    <2>2. CASE TurnEnds(s)
      <3>1. PICK e \in Calls : Taken(e, s, "end")
        BY <2>2, EmitCall DEF TurnEnds, Events
      <3>2. Live /\ card.trigger # None
        BY <2>2 DEF TurnEnds, Live
      <3>3. PICK s0 \in Session : /\ s0 = card.trigger /\ s0 # None /\ FollowedOK(s0)
                                /\ Adopted[active].sid = s0 /\ active \in Visit /\ active # None
        BY <3>2, <1>1
      <3>4. /\ card'.trigger = s0 /\ card'.col = card.col /\ active' = active /\ auto'[active].step = auto[active].step
            /\ run' = run
        BY <2>2, <3>3 DEF TurnEnds
      <3>5. /\ s0 \notin departed' /\ s0 \notin cardEnded' /\ s0 \notin teardown' /\ s0 \notin deferred'
            /\ s0 \in ended' => s0 \in ended \/ \E d \in Calls : Serves(call'[d], s0)
            /\ s0 \in reported' \/ s0 \in okay' => \/ s0 \in reported \/ s0 \in okay
                                                 \/ \E d \in Calls : Serves(call'[d], s0) \/ Serving(call'[d], s0)
        BY <2>2, <3>3, <3>1 DEF TurnEnds, FollowedOK, Taken, Serving, Receives
      <3>6. /\ \A d \in Calls : call'[d].pc = "ending" => call'[d].sid # s0
            /\ \A d \in Calls : Serves(call[d], s0) => Serves(call'[d], s0)
            /\ \A d \in Calls : Serving(call[d], s0) => Serves(call'[d], s0) \/ Serving(call'[d], s0)
        BY <3>1, <3>3 DEF Taken, Others, FollowedOK, Serves, Serving, Handles, Receives
      <3> QED BY <3>2, <3>3, <3>4, <3>5, <3>6, KeepFollow
    <2>3. CASE TurnFails(s)
      <3>1. PICK e \in Calls : Taken(e, s, "failed")
        BY <2>3, EmitCall DEF TurnFails, Events
      <3>2. Live /\ card.trigger # None
        BY <2>3 DEF TurnFails, Live
      <3>3. PICK s0 \in Session : /\ s0 = card.trigger /\ s0 # None /\ FollowedOK(s0)
                                /\ Adopted[active].sid = s0 /\ active \in Visit /\ active # None
        BY <3>2, <1>1
      <3>4. /\ card'.trigger = s0 /\ card'.col = card.col /\ active' = active /\ auto'[active].step = auto[active].step
            /\ run' = run
        BY <2>3, <3>3 DEF TurnFails
      <3>5. /\ s0 \notin departed' /\ s0 \notin cardEnded' /\ s0 \notin teardown' /\ s0 \notin deferred'
            /\ s0 \in ended' => s0 \in ended \/ \E d \in Calls : Serves(call'[d], s0)
            /\ s0 \in reported' \/ s0 \in okay' => \/ s0 \in reported \/ s0 \in okay
                                                 \/ \E d \in Calls : Serves(call'[d], s0) \/ Serving(call'[d], s0)
        BY <2>3, <3>3, <3>1 DEF TurnFails, FollowedOK, Taken, Serving, Receives
      <3>6. /\ \A d \in Calls : call'[d].pc = "ending" => call'[d].sid # s0
            /\ \A d \in Calls : Serves(call[d], s0) => Serves(call'[d], s0)
            /\ \A d \in Calls : Serving(call[d], s0) => Serves(call'[d], s0) \/ Serving(call'[d], s0)
        BY <3>1, <3>3 DEF Taken, Others, FollowedOK, Serves, Serving, Handles, Receives
      <3> QED BY <3>2, <3>3, <3>4, <3>5, <3>6, KeepFollow
    <2>4. CASE PromptBroke(s)
      <3>1. PICK e \in Calls : Taken(e, s, "failed")
        BY <2>4, EmitCall DEF PromptBroke, Events
      <3>2. Live /\ card.trigger # None
        BY <2>4 DEF PromptBroke, Live
      <3>3. PICK s0 \in Session : /\ s0 = card.trigger /\ s0 # None /\ FollowedOK(s0)
                                /\ Adopted[active].sid = s0 /\ active \in Visit /\ active # None
        BY <3>2, <1>1
      <3>4. /\ card'.trigger = s0 /\ card'.col = card.col /\ active' = active /\ auto'[active].step = auto[active].step
            /\ run' = run
        BY <2>4, <3>3 DEF PromptBroke
      <3>5. /\ s0 \notin departed' /\ s0 \notin cardEnded' /\ s0 \notin teardown' /\ s0 \notin deferred'
            /\ s0 \in ended' => s0 \in ended \/ \E d \in Calls : Serves(call'[d], s0)
            /\ s0 \in reported' \/ s0 \in okay' => \/ s0 \in reported \/ s0 \in okay
                                                 \/ \E d \in Calls : Serves(call'[d], s0) \/ Serving(call'[d], s0)
        BY <2>4, <3>3, <3>1 DEF PromptBroke, FollowedOK, Taken, Serving, Receives
      <3>6. /\ \A d \in Calls : call'[d].pc = "ending" => call'[d].sid # s0
            /\ \A d \in Calls : Serves(call[d], s0) => Serves(call'[d], s0)
            /\ \A d \in Calls : Serving(call[d], s0) => Serves(call'[d], s0) \/ Serving(call'[d], s0)
        BY <3>1, <3>3 DEF Taken, Others, FollowedOK, Serves, Serving, Handles, Receives
      <3> QED BY <3>2, <3>3, <3>4, <3>5, <3>6, KeepFollow
    <2>5. CASE Exits(s)
      <3>1. PICK e \in Calls : Taken(e, s, "failed")
        BY <2>5, EmitCall DEF Exits, Events
      <3>2. Live /\ card.trigger # None
        BY <2>5 DEF Exits, Live
      <3>3. PICK s0 \in Session : /\ s0 = card.trigger /\ s0 # None /\ FollowedOK(s0)
                                /\ Adopted[active].sid = s0 /\ active \in Visit /\ active # None
        BY <3>2, <1>1
      <3>4. /\ card'.trigger = s0 /\ card'.col = card.col /\ active' = active /\ auto'[active].step = auto[active].step
            /\ run' = run
        BY <2>5, <3>3 DEF Exits
      <3>5. /\ s0 \notin departed' /\ s0 \notin cardEnded' /\ s0 \notin teardown' /\ s0 \notin deferred'
            /\ s0 \in ended' => s0 \in ended \/ \E d \in Calls : Serves(call'[d], s0)
            /\ s0 \in reported' \/ s0 \in okay' => \/ s0 \in reported \/ s0 \in okay
                                                 \/ \E d \in Calls : Serves(call'[d], s0) \/ Serving(call'[d], s0)
        BY <2>5, <3>3, <3>1 DEF Exits, FollowedOK, Taken, Serving, Receives
      <3>6. /\ \A d \in Calls : call'[d].pc = "ending" => call'[d].sid # s0
            /\ \A d \in Calls : Serves(call[d], s0) => Serves(call'[d], s0)
            /\ \A d \in Calls : Serving(call[d], s0) => Serves(call'[d], s0) \/ Serving(call'[d], s0)
        BY <3>1, <3>3 DEF Taken, Others, FollowedOK, Serves, Serving, Handles, Receives
      <3> QED BY <3>2, <3>3, <3>4, <3>5, <3>6, KeepFollow
    <2> QED BY <1>3, <2>1, <2>2, <2>3, <2>4, <2>5
  <1>4. CASE QueueStarts
    <2>1. CASE ~ Startable(waiting)
      <3>1. Live /\ card.trigger # None
        BY <1>4, <2>1 DEF QueueStarts, Live
      <3>2. PICK s0 \in Session : /\ s0 = card.trigger /\ s0 # None /\ FollowedOK(s0)
                                /\ Adopted[active].sid = s0 /\ active \in Visit /\ active # None
        BY <3>1, <1>1
      <3>3. /\ card'.trigger = s0 /\ card'.col = card.col /\ active' = active /\ auto'[active].step = auto[active].step
            /\ run' = run
        BY <1>4, <2>1, <3>2 DEF QueueStarts
      <3>4. /\ s0 \notin departed' /\ s0 \notin cardEnded' /\ s0 \notin teardown' /\ s0 \notin deferred'
            /\ s0 \in ended' => s0 \in ended \/ \E d \in Calls : Serves(call'[d], s0)
            /\ s0 \in reported' \/ s0 \in okay' => \/ s0 \in reported \/ s0 \in okay
                                                 \/ \E d \in Calls : Serves(call'[d], s0) \/ Serving(call'[d], s0)
        BY <1>4, <2>1, <3>2 DEF QueueStarts, FollowedOK
      <3>5. /\ \A d \in Calls : call'[d].pc = "ending" => call'[d].sid # s0
            /\ \A d \in Calls : Serves(call[d], s0) => Serves(call'[d], s0)
            /\ \A d \in Calls : Serving(call[d], s0) => Serves(call'[d], s0) \/ Serving(call'[d], s0)
        BY <1>4, <2>1, <3>2 DEF QueueStarts, FollowedOK
      <3> QED BY <3>1, <3>2, <3>3, <3>4, <3>5, KeepFollow
    <2>2. CASE Startable(waiting)
      BY <1>4, <2>2 DEF QueueStarts, Startable
    <2> QED BY <2>1, <2>2
  <1>5. CASE RemoveWorktree
    <2>1. Live /\ card.trigger # None
      BY <1>5 DEF RemoveWorktree, Live
    <2>2. PICK s0 \in Session : /\ s0 = card.trigger /\ s0 # None /\ FollowedOK(s0)
                              /\ Adopted[active].sid = s0 /\ active \in Visit /\ active # None
      BY <2>1, <1>1
    <2>3. /\ card'.trigger = s0 /\ card'.col = card.col /\ active' = active /\ auto'[active].step = auto[active].step
          /\ run' = run
      BY <1>5, <2>2 DEF RemoveWorktree
    <2>4. /\ s0 \notin departed' /\ s0 \notin cardEnded' /\ s0 \notin teardown' /\ s0 \notin deferred'
          /\ s0 \in ended' => s0 \in ended \/ \E d \in Calls : Serves(call'[d], s0)
          /\ s0 \in reported' \/ s0 \in okay' => \/ s0 \in reported \/ s0 \in okay
                                               \/ \E d \in Calls : Serves(call'[d], s0) \/ Serving(call'[d], s0)
      BY <1>5, <2>2 DEF RemoveWorktree, FollowedOK
    <2>5. /\ \A d \in Calls : call'[d].pc = "ending" => call'[d].sid # s0
          /\ \A d \in Calls : Serves(call[d], s0) => Serves(call'[d], s0)
          /\ \A d \in Calls : Serving(call[d], s0) => Serves(call'[d], s0) \/ Serving(call'[d], s0)
      BY <1>5, <2>2 DEF RemoveWorktree, FollowedOK
    <2> QED BY <2>1, <2>2, <2>3, <2>4, <2>5, KeepFollow
  <1>6. CASE KeepWorktree
    <2>1. Live /\ card.trigger # None
      BY <1>6 DEF KeepWorktree, Live
    <2>2. PICK s0 \in Session : /\ s0 = card.trigger /\ s0 # None /\ FollowedOK(s0)
                              /\ Adopted[active].sid = s0 /\ active \in Visit /\ active # None
      BY <2>1, <1>1
    <2>3. /\ card'.trigger = s0 /\ card'.col = card.col /\ active' = active /\ auto'[active].step = auto[active].step
          /\ run' = run
      BY <1>6, <2>2 DEF KeepWorktree
    <2>4. /\ s0 \notin departed' /\ s0 \notin cardEnded' /\ s0 \notin teardown' /\ s0 \notin deferred'
          /\ s0 \in ended' => s0 \in ended \/ \E d \in Calls : Serves(call'[d], s0)
          /\ s0 \in reported' \/ s0 \in okay' => \/ s0 \in reported \/ s0 \in okay
                                               \/ \E d \in Calls : Serves(call'[d], s0) \/ Serving(call'[d], s0)
      BY <1>6, <2>2 DEF KeepWorktree, FollowedOK
    <2>5. /\ \A d \in Calls : call'[d].pc = "ending" => call'[d].sid # s0
          /\ \A d \in Calls : Serves(call[d], s0) => Serves(call'[d], s0)
          /\ \A d \in Calls : Serving(call[d], s0) => Serves(call'[d], s0) \/ Serving(call'[d], s0)
      BY <1>6, <2>2 DEF KeepWorktree, FollowedOK
    <2> QED BY <2>1, <2>2, <2>3, <2>4, <2>5, KeepFollow
  <1>7. CASE ScanAdopts
    <2>1. Live /\ card.trigger # None
      BY <1>7 DEF ScanAdopts, Adoptable
    <2>2. PICK s0 \in Session : /\ s0 = card.trigger /\ s0 # None /\ FollowedOK(s0)
                              /\ Adopted[active].sid = s0 /\ active \in Visit /\ active # None
      BY <2>1, <1>1
    <2>3. /\ card'.trigger = s0 /\ card'.col = card.col /\ active' = active /\ auto'[active].step = auto[active].step
          /\ run' = run
      <3>1. UNCHANGED <<card, run, active>> /\ auto' = Adopted
        BY <1>7 DEF ScanAdopts
      <3> QED BY <3>1, <2>2, AdoptedType
    <2>4. /\ s0 \notin departed' /\ s0 \notin cardEnded' /\ s0 \notin teardown' /\ s0 \notin deferred'
          /\ s0 \in ended' => s0 \in ended \/ \E d \in Calls : Serves(call'[d], s0)
          /\ s0 \in reported' \/ s0 \in okay' => \/ s0 \in reported \/ s0 \in okay
                                               \/ \E d \in Calls : Serves(call'[d], s0) \/ Serving(call'[d], s0)
      BY <1>7, <2>2 DEF ScanAdopts, FollowedOK
    <2>5. /\ \A d \in Calls : call'[d].pc = "ending" => call'[d].sid # s0
          /\ \A d \in Calls : Serves(call[d], s0) => Serves(call'[d], s0)
          /\ \A d \in Calls : Serving(call[d], s0) => Serves(call'[d], s0) \/ Serving(call'[d], s0)
      BY <1>7, <2>2 DEF ScanAdopts, FollowedOK
    <2> QED BY <2>1, <2>2, <2>3, <2>4, <2>5, KeepFollow
  <1>8. CASE ScanTimesOut
    <2>1. PICK e \in Calls : Taken(e, auto[active].sid, "timeout")
      BY <1>8, TimesOutCall
    <2>2. Live /\ card.trigger # None
      BY <1>8, AutoUnfold DEF ScanTimesOut, Live, AutoType, Types, TypeOK
    <2>3. PICK s0 \in Session : /\ s0 = card.trigger /\ s0 # None /\ FollowedOK(s0)
                              /\ Adopted[active].sid = s0 /\ active \in Visit /\ active # None
      BY <2>2, <1>1
    <2>4. /\ card'.trigger = s0 /\ card'.col = card.col /\ active' = active /\ auto'[active].step = auto[active].step
          /\ run' = run
      BY <1>8, <2>3, AutoUnfold DEF ScanTimesOut, AutoType
    <2>5. /\ s0 \notin departed' /\ s0 \notin cardEnded' /\ s0 \notin teardown' /\ s0 \notin deferred'
          /\ s0 \in ended' => s0 \in ended \/ \E d \in Calls : Serves(call'[d], s0)
          /\ s0 \in reported' \/ s0 \in okay' => \/ s0 \in reported \/ s0 \in okay
                                               \/ \E d \in Calls : Serves(call'[d], s0) \/ Serving(call'[d], s0)
      BY <1>8, <2>3, <2>1 DEF ScanTimesOut, FollowedOK, Taken, Serving, Receives
    <2>6. /\ \A d \in Calls : call'[d].pc = "ending" => call'[d].sid # s0
          /\ \A d \in Calls : Serves(call[d], s0) => Serves(call'[d], s0)
          /\ \A d \in Calls : Serving(call[d], s0) => Serves(call'[d], s0) \/ Serving(call'[d], s0)
      BY <2>1, <2>3 DEF Taken, Others, FollowedOK, Serves, Serving, Handles, Receives
    <2> QED BY <2>2, <2>3, <2>4, <2>5, <2>6, KeepFollow
  <1>9. ASSUME NEW to \in Columns, MoveCard(to) PROVE FollowedNow'
    BY <1>9 DEF MoveCard, Types, TypeOK, Card
  <1>10. CASE UserBlocks
    BY <1>10 DEF UserBlocks, Types, TypeOK, Card
  <1>11. CASE UNCHANGED vars
    <2>1. Live /\ card.trigger # None
      BY <1>11 DEF vars, Live
    <2>2. PICK s0 \in Session : /\ s0 = card.trigger /\ s0 # None /\ FollowedOK(s0)
                              /\ Adopted[active].sid = s0 /\ active \in Visit /\ active # None
      BY <2>1, <1>1
    <2>3. /\ card'.trigger = s0 /\ card'.col = card.col /\ active' = active /\ auto'[active].step = auto[active].step
          /\ run' = run
      BY <1>11, <2>2 DEF vars
    <2>4. /\ s0 \notin departed' /\ s0 \notin cardEnded' /\ s0 \notin teardown' /\ s0 \notin deferred'
          /\ s0 \in ended' => s0 \in ended \/ \E d \in Calls : Serves(call'[d], s0)
          /\ s0 \in reported' \/ s0 \in okay' => \/ s0 \in reported \/ s0 \in okay
                                               \/ \E d \in Calls : Serves(call'[d], s0) \/ Serving(call'[d], s0)
      BY <1>11, <2>2 DEF vars, FollowedOK
    <2>5. /\ \A d \in Calls : call'[d].pc = "ending" => call'[d].sid # s0
          /\ \A d \in Calls : Serves(call[d], s0) => Serves(call'[d], s0)
          /\ \A d \in Calls : Serving(call[d], s0) => Serves(call'[d], s0) \/ Serving(call'[d], s0)
      BY <1>11, <2>2 DEF vars, FollowedOK
    <2> QED BY <2>1, <2>2, <2>3, <2>4, <2>5, KeepFollow
  <1> QED BY <1>2, <1>3, <1>4, <1>5, <1>6, <1>7, <1>8, <1>9, <1>10, <1>11 DEF Next

\* The lane keeps following the session it asked for.
LEMMA StepFollowings ==
  ASSUME Types, Types', Single, AutoOK, AutoOK', References, FreshOK, Evidence, Evidence', Alone, Drive, Drive',
         Followings, ~ interrupted', [Next]_vars
  PROVE  Followings'
  BY StepFollowed DEF Followings

-----------------------------------------------------------------------------
(* Timeouts and reports *)

\* A step that neither reports nor times out.
LEMMA KeepSilent ==
  ASSUME Types, FreshOK, Silent, Grows, reported' = reported,
         \A c \in Calls : Receives(call'[c]) /\ call'[c].ev = "timeout"
                            => Receives(call[c]) /\ call[c].ev = "timeout" /\ call'[c].sid = call[c].sid
  PROVE  Silent'
  <1> SUFFICES ASSUME NEW c \in Calls, Receives(call'[c]), call'[c].ev = "timeout"
               PROVE  call'[c].sid \notin reported' \/ proc'[call'[c].sid] # "working"
    BY DEF Silent, Receives
  <1>1. /\ Receives(call[c]) /\ call[c].ev = "timeout" /\ call'[c].sid = call[c].sid /\ call[c].sid \in Session
        /\ call[c].sid \notin reported \/ proc[call[c].sid] # "working"
    BY DEF Silent, Types, CallsOK, CallOK
  <1>2. proc[call[c].sid] # "none"
    BY <1>1, KnownSid
  <1> QED BY <1>1, <1>2 DEF Grows

\* A session that is timed out has not reported inside its turn.
LEMMA StepSilent ==
  ASSUME Types, Types', Single, AutoOK, FreshOK, Evidence, Drive, Followings, Silent, [Next]_vars
  PROVE  Silent'
  <1> USE DEF cardVars, agentVars, tellVars, autoVars, tearVars
  <1> Grows
    BY StepGrows
  <1>1. ASSUME NEW c \in Calls, CallStep(c) PROVE Silent'
    <2>1. CASE EndDeferred(c)
      <3>1. reported' = reported
        BY <2>1 DEF EndDeferred
      <3>2. Others(c) /\ Receives(call[c])
        BY <2>1, EndDeferredCall DEF EndDeferred, At, Types, CallsOK, CallOK, Receives, Handles
      <3>3. /\ call'[c].sid = call[c].sid /\ call'[c].ev = call[c].ev
            /\ Receives(call'[c]) => Receives(call[c])
        BY <2>1, <3>2, EndDeferredCall DEF EndDeferred, At, SameEvent, Receives, Types, CallsOK, CallOK
      <3> QED BY <3>2, <3>3, <3>1, KeepSilent DEF Others
    <2>2. CASE Killed(c)
      <3>1. reported' = reported
        BY <2>2 DEF Killed
      <3>2. Others(c) /\ (Receives(call[c]) \/ Handles(call[c]))
        BY <2>2, KilledCall DEF Killed, Types, CallsOK, CallOK, Receives, Handles
      <3>3. /\ call'[c].sid = call[c].sid /\ call'[c].ev = call[c].ev
            /\ Receives(call'[c]) => Receives(call[c])
        BY <2>2, <3>2, KilledCall DEF Killed, SameEvent, Receives, Types, CallsOK, CallOK
      <3> QED BY <3>2, <3>3, <3>1, KeepSilent DEF Others
    <2>3. CASE StartPending(c)
      <3>1. reported' = reported
        BY <2>3 DEF StartPending
      <3>2. Others(c) /\ Receives(call[c])
        BY <2>3, StartPendingCall DEF StartPending, At, Types, CallsOK, CallOK, Receives, Handles
      <3>3. /\ call'[c].sid = call[c].sid /\ call'[c].ev = call[c].ev
            /\ Receives(call'[c]) => Receives(call[c])
        BY <2>3, <3>2, StartPendingCall DEF StartPending, At, SameEvent, Receives, Types, CallsOK, CallOK
      <3> QED BY <3>2, <3>3, <3>1, KeepSilent DEF Others
    <2>4. CASE SettleEnded(c)
      <3>1. reported' = reported
        BY <2>4 DEF SettleEnded
      <3>2. Others(c) /\ call'[c] = Idle
        BY <2>4, ReturnCall DEF SettleEnded
      <3> QED BY <3>2, <3>1, IdleFields, KeepSilent DEF Others
    <2>5. CASE WindDown(c)
      <3>1. reported' = reported
        BY <2>5 DEF WindDown
      <3>2. Others(c) /\ call'[c] = Idle
        BY <2>5, ReturnCall DEF WindDown
      <3> QED BY <3>2, <3>1, IdleFields, KeepSilent DEF Others
    <2>6. CASE SettleUnfollowed(c)
      <3>1. reported' = reported
        BY <2>6 DEF SettleUnfollowed
      <3>2. Others(c) /\ call'[c] = Idle
        BY <2>6, ReturnCall DEF SettleUnfollowed
      <3> QED BY <3>2, <3>1, IdleFields, KeepSilent DEF Others
    <2>7. CASE SettleTeardown(c)
      <3>1. reported' = reported
        BY <2>7 DEF SettleTeardown
      <3>2. Others(c) /\ call'[c] = Idle
        BY <2>7, ReturnCall DEF SettleTeardown
      <3> QED BY <3>2, <3>1, IdleFields, KeepSilent DEF Others
    <2>8. CASE StepOver(c)
      <3>1. reported' = reported
        BY <2>8 DEF StepOver
      <3>2. Others(c)
        BY <2>8, StepOverCall
      <3>3. ~ Receives(call'[c])
        BY <2>8, StepOverCall DEF Receives
      <3> QED BY <3>2, <3>3, <3>1, KeepSilent DEF Others
    <2>9. CASE StartNext(c)
      <3>1. reported' = reported
        BY <2>9 DEF StartNext
      <3>2. Others(c) /\ ~ Receives(call'[c])
        BY <2>9, StartNextCall DEF StartNext, At, Receives, Types, CallsOK, CallOK
      <3> QED BY <3>2, <3>1, KeepSilent DEF Others
    <2>10. CASE Recover(c)
      <3>1. reported' = reported
        BY <2>10 DEF Recover
      <3>2. Others(c) /\ ~ Receives(call'[c])
        BY <2>10, RecoverCall DEF Recover, At, Receives, Types, CallsOK, CallOK
      <3> QED BY <3>2, <3>1, KeepSilent DEF Others
    <2>11. CASE NothingFollows(c)
      <3>1. reported' = reported
        BY <2>11 DEF NothingFollows
      <3>2. Others(c) /\ ~ Receives(call'[c])
        BY <2>11, NothingFollowsCall DEF NothingFollows, At, Receives, Types, CallsOK, CallOK
      <3> QED BY <3>2, <3>1, KeepSilent DEF Others
    <2>12. CASE CreateTakesTrigger(c)
      <3>1. reported' = reported
        BY <2>12 DEF CreateTakesTrigger
      <3>2. Others(c) /\ ~ Receives(call'[c])
        BY <2>12, CreateTakesTriggerCall DEF CreateTakesTrigger, At, Receives, Types, CallsOK, CallOK
      <3> QED BY <3>2, <3>1, KeepSilent DEF Others
    <2>13. CASE CreateQueues(c)
      <3>1. reported' = reported
        BY <2>13 DEF CreateQueues
      <3>2. Others(c) /\ ~ Receives(call'[c])
        BY <2>13, CreateQueuesCall DEF CreateQueues, At, Receives, Types, CallsOK, CallOK
      <3> QED BY <3>2, <3>1, KeepSilent DEF Others
    <2>14. CASE CreateStarts(c)
      <3>1. reported' = reported
        BY <2>14 DEF CreateStarts
      <3>2. Others(c) /\ ~ Receives(call'[c])
        BY <2>14, CreateStartsCall DEF CreateStarts, At, Receives, Types, CallsOK, CallOK
      <3> QED BY <3>2, <3>1, KeepSilent DEF Others
    <2>15. CASE Spawned(c)
      <3>1. reported' = reported
        BY <2>15 DEF Spawned
      <3>2. PICK s \in Session : IF call[c].why = "queue" THEN Return(c) ELSE Answer(c, "session", s)
        BY <2>15 DEF Spawned
      <3>3. Others(c) /\ (call'[c] = Idle \/ call'[c].pc = "created")
        BY <2>15, <3>2, SpawnedCall DEF Spawned, At
      <3>4. ~ Receives(call'[c])
        BY <3>3, IdleFields DEF Receives
      <3> QED BY <3>3, <3>4, <3>1, KeepSilent DEF Others
    <2>16. CASE SpawnFails(c)
      <3>1. reported' = reported
        BY <2>16 DEF SpawnFails
      <3>2. Others(c) /\ ~ Receives(call'[c])
        BY <2>16, SpawnFailsCall, IdleFields DEF SpawnFails, At, Receives, Types, CallsOK, CallOK
      <3> QED BY <3>2, <3>1, KeepSilent DEF Others
    <2>17. CASE Entered(c)
      <3>1. reported' = reported
        BY <2>17 DEF Entered
      <3>2. Others(c) /\ call'[c] = Idle
        BY <2>17, ReturnCall DEF Entered
      <3> QED BY <3>2, <3>1, IdleFields, KeepSilent DEF Others
    <2>18. CASE Continued(c)
      <3>1. reported' = reported
        BY <2>18 DEF Continued
      <3>2. Others(c) /\ call'[c] = Idle
        BY <2>18, ReturnCall DEF Continued
      <3> QED BY <3>2, <3>1, IdleFields, KeepSilent DEF Others
    <2>19. CASE NotContinued(c)
      <3>1. reported' = reported
        BY <2>19 DEF NotContinued
      <3>2. Others(c) /\ ~ Receives(call'[c])
        BY <2>19, NotContinuedCall DEF NotContinued, At, Receives, Types, CallsOK, CallOK
      <3> QED BY <3>2, <3>1, KeepSilent DEF Others
    <2>20. CASE LaneEnds(c)
      <3>1. reported' = reported
        BY <2>20 DEF LaneEnds
      <3>2. Others(c) /\ call'[c] = Idle
        BY <2>20, ReturnCall DEF LaneEnds
      <3> QED BY <3>2, <3>1, IdleFields, KeepSilent DEF Others
    <2>21. CASE LaneAdvances(c)
      <3>1. reported' = reported
        BY <2>21 DEF LaneAdvances
      <3>2. Others(c) /\ ~ Receives(call'[c])
        BY <2>21, LaneAdvancesCall DEF LaneAdvances, At, Arrives, Receives, Types, CallsOK, CallOK
      <3> QED BY <3>2, <3>1, KeepSilent DEF Others
    <2>22. CASE LaneTearsDown(c)
      <3>1. reported' = reported
        BY <2>22 DEF LaneTearsDown
      <3>2. Others(c) /\ ~ Receives(call'[c])
        BY <2>22, LaneTearsDownCall DEF LaneTearsDown, At, Receives, Types, CallsOK, CallOK
      <3> QED BY <3>2, <3>1, KeepSilent DEF Others
    <2>23. CASE EndOne(c)
      <3>1. reported' = reported
        BY <2>23 DEF EndOne
      <3>2. Others(c) /\ ~ Receives(call'[c])
        BY <2>23, EndOneCall DEF EndOne, At, Receives, Types, CallsOK, CallOK
      <3> QED BY <3>2, <3>1, KeepSilent DEF Others
    <2>24. CASE AllEnded(c)
      <3>1. reported' = reported
        BY <2>24 DEF AllEnded
      <3>2. Others(c) /\ call'[c] = Idle
        BY <2>24, ReturnCall DEF AllEnded
      <3> QED BY <3>2, <3>1, IdleFields, KeepSilent DEF Others
    <2>25. CASE EnterLane(c)
      <3>1. reported' = reported
        BY <2>25 DEF EnterLane
      <3>2. Others(c) /\ ~ Receives(call'[c])
        BY <2>25, EnterLaneCall, IdleFields DEF EnterLane, At, Receives, Types, CallsOK, CallOK
      <3> QED BY <3>2, <3>1, KeepSilent DEF Others
    <2>26. CASE Register(c)
      <3>1. reported' = reported
        BY <2>26 DEF Register
      <3>2. Others(c) /\ ~ Receives(call'[c])
        BY <2>26, RegisterCall DEF Register, At, Receives, Types, CallsOK, CallOK
      <3> QED BY <3>2, <3>1, KeepSilent DEF Others
    <2> QED BY <1>1, <2>1, <2>2, <2>3, <2>4, <2>5, <2>6, <2>7, <2>8, <2>9, <2>10, <2>11, <2>12, <2>13, <2>14,
               <2>15, <2>16, <2>17, <2>18, <2>19, <2>20, <2>21, <2>22, <2>23, <2>24, <2>25, <2>26 DEF CallStep
  <1>2. ASSUME NEW s \in Session, Report(s) \/ TurnEnds(s) \/ TurnFails(s) \/ PromptBroke(s) \/ Exits(s)
        PROVE  Silent'
    <2>1. CASE Report(s)
      <3>1. PICK d \in Calls : Taken(d, s, "report")
        BY <2>1, EmitCall DEF Report, Events
      <3>2. Quiet /\ proc[s] = "working" /\ reported' = reported \cup {s} /\ proc' = proc
        BY <2>1 DEF Report, Emit
      <3> SUFFICES ASSUME NEW c \in Calls, Receives(call'[c]), call'[c].ev = "timeout"
                   PROVE  call'[c].sid \notin reported' \/ proc'[call'[c].sid] # "working"
        BY DEF Silent, Receives
      <3>3. c # d /\ call'[c] = call[c]
        BY <3>1 DEF Taken, Others
      <3>4. call[c].sid \in Session /\ (call[c].sid \notin reported \/ proc[call[c].sid] # "working")
        BY <3>3 DEF Silent, Types, CallsOK, CallOK
      <3>5. call[c].pc = "killing" /\ proc[call[c].sid] = "dead"
        BY <3>2, <3>3, <3>4 DEF Quiet, Awaiting, Receives, Evidence, Told, Agents
      <3> QED BY <3>2, <3>3, <3>5
    <2>2. CASE TurnEnds(s)
      <3>1. PICK d \in Calls : Taken(d, s, "end")
        BY <2>2, EmitCall DEF TurnEnds, Events
      <3>2. reported' = reported
        BY <2>2 DEF TurnEnds
      <3>3. Others(d) /\ call'[d].ev # "timeout"
        BY <3>1 DEF Taken
      <3> QED BY <3>2, <3>3, KeepSilent DEF Others
    <2>3. CASE TurnFails(s)
      <3>1. PICK d \in Calls : Taken(d, s, "failed")
        BY <2>3, EmitCall DEF TurnFails, Events
      <3>2. reported' = reported
        BY <2>3 DEF TurnFails
      <3>3. Others(d) /\ call'[d].ev # "timeout"
        BY <3>1 DEF Taken
      <3> QED BY <3>2, <3>3, KeepSilent DEF Others
    <2>4. CASE PromptBroke(s)
      <3>1. PICK d \in Calls : Taken(d, s, "failed")
        BY <2>4, EmitCall DEF PromptBroke, Events
      <3>2. reported' = reported
        BY <2>4 DEF PromptBroke
      <3>3. Others(d) /\ call'[d].ev # "timeout"
        BY <3>1 DEF Taken
      <3> QED BY <3>2, <3>3, KeepSilent DEF Others
    <2>5. CASE Exits(s)
      <3>1. PICK d \in Calls : Taken(d, s, "failed")
        BY <2>5, EmitCall DEF Exits, Events
      <3>2. reported' = reported
        BY <2>5 DEF Exits
      <3>3. Others(d) /\ call'[d].ev # "timeout"
        BY <3>1 DEF Taken
      <3> QED BY <3>2, <3>3, KeepSilent DEF Others
    <2> QED BY <1>2, <2>1, <2>2, <2>3, <2>4, <2>5
  <1>3. CASE QueueStarts
    <2>1. reported' = reported
      BY <1>3 DEF QueueStarts
    <2>2. CASE Startable(waiting)
      <3>1. PICK c \in Calls : Others(c) /\ call'[c].pc = "spawning"
        BY <1>3, <2>2, QueueStartsCall DEF QueueStarts, Types, WaitingOK
      <3> QED BY <3>1, <2>1, KeepSilent DEF Receives, Others
    <2>3. CASE ~ Startable(waiting)
      BY <1>3, <2>3, KeepSilent DEF QueueStarts
    <2> QED BY <2>2, <2>3
  <1>4. CASE RemoveWorktree
    BY <1>4, KeepSilent DEF RemoveWorktree
  <1>5. CASE KeepWorktree
    BY <1>5, KeepSilent DEF KeepWorktree
  <1>6. CASE ScanAdopts
    BY <1>6, KeepSilent DEF ScanAdopts
  <1>7. CASE ScanTimesOut
    <2>1. PICK d \in Calls : Taken(d, auto[active].sid, "timeout")
      BY <1>7, TimesOutCall
    <2> DEFINE s == auto[active].sid
    <2>2. /\ active # None /\ auto[active].status = "running" /\ s # None /\ \A c \in Calls : call[c].sid # s
          /\ reported' = reported
      BY <1>7 DEF ScanTimesOut
    <2>3. Live /\ card.trigger = s
      BY <2>2 DEF Live, Drive, Trigger
    <2>4. FollowedOK(s)
      BY <2>2, <2>3 DEF Followings, FollowedNow
    <2>5. s \notin reported
      BY <2>2, <2>4 DEF FollowedOK, Serves, Serving
    <2>6. Others(d) /\ call'[d].sid = s
      BY <2>1 DEF Taken
    <2> HIDE DEF s
    <2> SUFFICES ASSUME NEW c \in Calls, Receives(call'[c]), call'[c].ev = "timeout"
                 PROVE  call'[c].sid \notin reported' \/ proc'[call'[c].sid] # "working"
      BY DEF Silent, Receives
    <2>7. CASE c = d
      BY <2>2, <2>5, <2>6, <2>7
    <2>8. CASE c # d
      <3>1. call'[c] = call[c] /\ call[c].sid \in Session /\ (call[c].sid \notin reported \/ proc[call[c].sid] # "working")
        BY <2>6, <2>8 DEF Others, Silent, Types, CallsOK, CallOK
      <3>2. proc[call[c].sid] # "none"
        BY <3>1, KnownSid
      <3> QED BY <2>2, <3>1, <3>2 DEF Grows
    <2> QED BY <2>7, <2>8
  <1>8. ASSUME NEW to \in Columns, MoveCard(to) PROVE Silent'
    <2>1. reported' = reported
      BY <1>8 DEF MoveCard
    <2>2. CASE to \in Lanes
      <3>1. PICK d \in Calls : Arrives(d, to)
        BY <1>8, <2>2, ArriveCall DEF MoveCard
      <3> QED BY <3>1, <2>1, KeepSilent DEF Arrives, Receives, Others
    <2>3. CASE to \notin Lanes
      BY <1>8, <2>3, KeepSilent DEF MoveCard
    <2> QED BY <2>2, <2>3
  <1>9. CASE UserBlocks
    <2>1. reported' = reported
      BY <1>9 DEF UserBlocks
    <2>2. PICK c \in Calls : Others(c) /\ call'[c].pc = "ending"
      BY <1>9, UserBlocksCall
    <2> QED BY <2>2, <2>1, KeepSilent DEF Receives, Others
  <1>10. CASE UNCHANGED vars
    BY <1>10, KeepSilent DEF vars
  <1> QED BY <1>1, <1>2, <1>3, <1>4, <1>5, <1>6, <1>7, <1>8, <1>9, <1>10 DEF Next

-----------------------------------------------------------------------------
(* The invariant of a lane *)

\* What holds however the card is moved ...
LaneBase == Types /\ Single /\ AutoOK /\ References /\ FreshOK /\ Evidence /\ Alone

\* ... and until it is moved while an agent is started or ended.
LaneCalm == Drive /\ Followings /\ Silent

LaneInv == LaneBase /\ (~ interrupted => LaneCalm)

\* The lane's invariant holds at first.
LEMMA InitLane == Init => LaneInv
  <1> SUFFICES ASSUME Init PROVE LaneInv
    OBVIOUS
  <1>1. Types
    BY InitTypes
  <1>2. \A c \in Calls : /\ call[c] = Idle /\ ~ Driver(call[c]) /\ ~ Receives(call[c]) /\ ~ Handles(call[c])
                         /\ call[c].pc = "idle" /\ call[c].sid = None /\ call[c].ev = "none" /\ call[c].todo = {}
    BY DEF Init, Idle, Driver, Receives, Handles, Enters
  <1>3. /\ active = None /\ waiting = NoRun /\ \A a \in Visit : auto[a].status = "none" /\ auto[a].sid = None /\ auto[a].step = 0
        /\ \A s \in Session : run[s] = NoRun /\ proc[s] = "none" /\ run[s].auto = None
    BY DEF Init, NoAuto, NoRun
  <1>4. card.trigger = None /\ \A s \in Session : card.rec[s] = "none"
    BY DEF Init, NoCard
  <1>5. reported = {} /\ okay = {} /\ echo = {} /\ ended = {} /\ deferred = {} /\ departed = {} /\ teardown = {} /\ cardEnded = {}
    BY DEF Init
  <1>6. Single /\ Alone
    BY <1>2 DEF Single, Alone, Awaiting
  <1>7. AutoOK
    BY <1>3 DEF AutoOK
  <1>8. References
    <2>1. \A c \in Calls : Refers(call[c])
      BY <1>2 DEF Refers, Idle
    <2> QED BY <1>3, <2>1 DEF References, RestRefers
  <1>9. FreshOK
    <2> SUFFICES ASSUME NEW r \in Session PROVE Unknown(r)
      BY DEF FreshOK
    <2>1. r # None
      BY CardTypes
    <2>2. Absent(card, r) /\ Unnamed(r) /\ run[r] = NoRun
      BY <1>3, <1>4, <1>5, <2>1 DEF Absent, Unnamed
    <2>3. \A c \in Calls : UnknownTo(call[c], r)
      BY <1>2, <2>1, IdleFields, AbsentNoCard DEF UnknownTo, Idle
    <2> QED BY <2>2, <2>3 DEF Unknown
  <1>10. Evidence
    BY <1>2, <1>3, <1>5 DEF Evidence, Agents, Told
  <1>11. Drive
    <2>1. ~ Waits
      BY <1>3 DEF Waits
    <2> QED BY <1>2, <1>3, <2>1 DEF Drive, OneDriver, Drivers, InLane, Trigger, Waiting, Live
  <1>12. Followings /\ Silent
    BY <1>2, <1>4 DEF Followings, Silent
  <1> QED BY <1>1, <1>6, <1>7, <1>8, <1>9, <1>10, <1>11, <1>12 DEF LaneInv, LaneBase, LaneCalm

\* Once the card was moved at such a time, that stays so.
LEMMA Interrupted == ASSUME [Next]_vars PROVE interrupted => interrupted'
  <1> USE DEF ghostVars
  <1>1. ASSUME NEW c \in Calls, CallStep(c) PROVE interrupted => interrupted'
    <2>1. CASE EndDeferred(c)
      BY <2>1 DEF EndDeferred
    <2>2. CASE Killed(c)
      BY <2>2 DEF Killed
    <2>3. CASE StartPending(c)
      BY <2>3 DEF StartPending
    <2>4. CASE SettleEnded(c)
      BY <2>4 DEF SettleEnded
    <2>5. CASE WindDown(c)
      BY <2>5 DEF WindDown
    <2>6. CASE SettleUnfollowed(c)
      BY <2>6 DEF SettleUnfollowed
    <2>7. CASE SettleTeardown(c)
      BY <2>7 DEF SettleTeardown
    <2>8. CASE StepOver(c)
      BY <2>8 DEF StepOver
    <2>9. CASE StartNext(c)
      BY <2>9 DEF StartNext
    <2>10. CASE Recover(c)
      BY <2>10 DEF Recover
    <2>11. CASE NothingFollows(c)
      BY <2>11 DEF NothingFollows
    <2>12. CASE CreateTakesTrigger(c)
      BY <2>12 DEF CreateTakesTrigger
    <2>13. CASE CreateQueues(c)
      BY <2>13 DEF CreateQueues
    <2>14. CASE CreateStarts(c)
      BY <2>14 DEF CreateStarts
    <2>15. CASE Spawned(c)
      BY <2>15 DEF Spawned
    <2>16. CASE SpawnFails(c)
      BY <2>16 DEF SpawnFails
    <2>17. CASE Entered(c)
      BY <2>17 DEF Entered
    <2>18. CASE Continued(c)
      BY <2>18 DEF Continued
    <2>19. CASE NotContinued(c)
      BY <2>19 DEF NotContinued
    <2>20. CASE LaneEnds(c)
      BY <2>20 DEF LaneEnds
    <2>21. CASE LaneAdvances(c)
      BY <2>21 DEF LaneAdvances
    <2>22. CASE LaneTearsDown(c)
      BY <2>22 DEF LaneTearsDown
    <2>23. CASE EndOne(c)
      BY <2>23 DEF EndOne
    <2>24. CASE AllEnded(c)
      BY <2>24 DEF AllEnded
    <2>25. CASE EnterLane(c)
      BY <2>25 DEF EnterLane
    <2>26. CASE Register(c)
      BY <2>26 DEF Register
    <2> QED BY <1>1, <2>1, <2>2, <2>3, <2>4, <2>5, <2>6, <2>7, <2>8, <2>9, <2>10, <2>11, <2>12, <2>13, <2>14,
               <2>15, <2>16, <2>17, <2>18, <2>19, <2>20, <2>21, <2>22, <2>23, <2>24, <2>25, <2>26 DEF CallStep
  <1>2. ASSUME NEW s \in Session, Report(s) \/ TurnEnds(s) \/ TurnFails(s) \/ PromptBroke(s) \/ Exits(s)
        PROVE  interrupted => interrupted'
    <2>1. CASE Report(s)
      BY <2>1 DEF Report
    <2>2. CASE TurnEnds(s)
      BY <2>2 DEF TurnEnds
    <2>3. CASE TurnFails(s)
      BY <2>3 DEF TurnFails
    <2>4. CASE PromptBroke(s)
      BY <2>4 DEF PromptBroke
    <2>5. CASE Exits(s)
      BY <2>5 DEF Exits
    <2> QED BY <1>2, <2>1, <2>2, <2>3, <2>4, <2>5
  <1>3. CASE QueueStarts
    BY <1>3 DEF QueueStarts
  <1>4. CASE RemoveWorktree
    BY <1>4 DEF RemoveWorktree
  <1>5. CASE KeepWorktree
    BY <1>5 DEF KeepWorktree
  <1>6. CASE ScanAdopts
    BY <1>6 DEF ScanAdopts
  <1>7. CASE ScanTimesOut
    BY <1>7 DEF ScanTimesOut
  <1>8. ASSUME NEW to \in Columns, MoveCard(to) PROVE interrupted => interrupted'
    BY <1>8 DEF MoveCard, Move
  <1>9. CASE UserBlocks
    BY <1>9 DEF UserBlocks, Move
  <1>10. CASE UNCHANGED vars
    BY <1>10 DEF vars
  <1> QED BY <1>1, <1>2, <1>3, <1>4, <1>5, <1>6, <1>7, <1>8, <1>9, <1>10 DEF Next

\* It is inductive: each part is kept with the help of the others.
LEMMA StepLane == ASSUME ~ EchoOverlaps, LaneInv, [Next]_vars PROVE LaneInv'
  <1>1. Types' /\ Single'
    BY StepTypes, StepSingle DEF LaneInv, LaneBase
  <1>2. AutoOK' /\ References'
    BY StepAutoOK, StepRestRefers, StepRefers DEF LaneInv, LaneBase, References
  <1>3. FreshOK' /\ Evidence'
    BY StepFresh, StepEvidence DEF LaneInv, LaneBase
  <1>4. Alone'
    BY <1>1, StepAlone DEF LaneInv, LaneBase
  <1>5. ASSUME ~ interrupted' PROVE LaneCalm'
    <2>1. LaneCalm
      BY <1>5, Interrupted DEF LaneInv
    <2>2. Drive'
      BY <1>1, <1>2, <1>5, <2>1, StepDrive DEF LaneInv, LaneBase, LaneCalm
    <2>3. Followings'
      BY <1>1, <1>2, <1>3, <1>5, <2>1, <2>2, StepFollowings DEF LaneInv, LaneBase, LaneCalm
    <2>4. Silent'
      BY <1>1, <2>1, StepSilent DEF LaneInv, LaneBase, LaneCalm
    <2> QED BY <2>2, <2>3, <2>4 DEF LaneCalm
  <1> QED BY <1>1, <1>2, <1>3, <1>4, <1>5 DEF LaneInv, LaneBase

\* So it always holds.
LEMMA LaneInvariant == ASSUME ~ EchoOverlaps PROVE Spec => []LaneInv
  <1>1. LaneInv /\ [Next]_vars => LaneInv'
    BY StepLane
  <1> QED BY InitLane, <1>1, PTL DEF Spec

-----------------------------------------------------------------------------
(* Agents are started for the card's lane; turns are spared *)

\* An agent is started for the lane the card is in.
LEMMA StepStarts ==
  ASSUME Types, Drive, [Next]_vars
  PROVE  \A r \in Session : proc[r] = "none" /\ proc'[r] = "working" => card.col = run'[r].lane
  <1> USE DEF cardVars, agentVars, tellVars, autoVars, tearVars
  <1>1. ASSUME NEW c \in Calls, CallStep(c) PROVE \A r \in Session : proc[r] = "none" /\ proc'[r] = "working" => card.col = run'[r].lane
    <2>1. CASE EndDeferred(c)
      BY <2>1 DEF EndDeferred, Kill, Types, TypeOK
    <2>2. CASE Killed(c)
      BY <2>2 DEF Killed, Types, TypeOK
    <2>3. CASE StartPending(c)
      BY <2>3 DEF StartPending, Types, TypeOK
    <2>4. CASE SettleEnded(c)
      BY <2>4 DEF SettleEnded, Types, TypeOK
    <2>5. CASE WindDown(c)
      BY <2>5 DEF WindDown, Kill, EndFinished, Types, TypeOK
    <2>6. CASE SettleUnfollowed(c)
      BY <2>6 DEF SettleUnfollowed, Types, TypeOK
    <2>7. CASE SettleTeardown(c)
      BY <2>7 DEF SettleTeardown, Types, TypeOK
    <2>8. CASE StepOver(c)
      BY <2>8 DEF StepOver, Kill, Types, TypeOK
    <2>9. CASE StartNext(c)
      BY <2>9 DEF StartNext, Types, TypeOK
    <2>10. CASE Recover(c)
      BY <2>10 DEF Recover, Types, TypeOK
    <2>11. CASE NothingFollows(c)
      BY <2>11 DEF NothingFollows, Types, TypeOK
    <2>12. CASE CreateTakesTrigger(c)
      BY <2>12 DEF CreateTakesTrigger, Types, TypeOK
    <2>13. CASE CreateQueues(c)
      BY <2>13 DEF CreateQueues, Types, TypeOK
    <2>14. CASE CreateStarts(c)
      BY <2>14 DEF CreateStarts, Types, TypeOK
    <2>15. CASE Spawned(c)
      <3>1. call[c].pc = "spawning" /\ Driver(call[c])
        BY <2>15 DEF Spawned, At, Types, CallsOK, CallOK, Driver, Handles, Enters, Starts
      <3>2. call[c].job.lane = card.col
        BY <3>1, TheDriver DEF DriverOK
      <3>3. PICK r \in Session : proc' = [proc EXCEPT ![r] = "working"] /\ run' = [run EXCEPT ![r] = call[c].job]
        BY <2>15 DEF Spawned
      <3> QED BY <3>2, <3>3 DEF Types, TypeOK
    <2>16. CASE SpawnFails(c)
      BY <2>16 DEF SpawnFails, Types, TypeOK
    <2>17. CASE Entered(c)
      BY <2>17 DEF Entered, Types, TypeOK
    <2>18. CASE Continued(c)
      BY <2>18 DEF Continued, Kill, EndFinished, Types, TypeOK
    <2>19. CASE NotContinued(c)
      BY <2>19 DEF NotContinued, Types, TypeOK
    <2>20. CASE LaneEnds(c)
      BY <2>20 DEF LaneEnds, Kill, EndFinished, Types, TypeOK
    <2>21. CASE LaneAdvances(c)
      BY <2>21 DEF LaneAdvances, Kill, EndFinished, Types, TypeOK
    <2>22. CASE LaneTearsDown(c)
      BY <2>22 DEF LaneTearsDown, Types, TypeOK
    <2>23. CASE EndOne(c)
      BY <2>23 DEF EndOne, Kill, Types, TypeOK
    <2>24. CASE AllEnded(c)
      BY <2>24 DEF AllEnded, Kill, EndFinished, Types, TypeOK
    <2>25. CASE EnterLane(c)
      BY <2>25 DEF EnterLane, Types, TypeOK
    <2>26. CASE Register(c)
      BY <2>26 DEF Register, Types, TypeOK
    <2> QED BY <1>1, <2>1, <2>2, <2>3, <2>4, <2>5, <2>6, <2>7, <2>8, <2>9, <2>10, <2>11, <2>12, <2>13, <2>14,
               <2>15, <2>16, <2>17, <2>18, <2>19, <2>20, <2>21, <2>22, <2>23, <2>24, <2>25, <2>26 DEF CallStep
  <1>2. ASSUME NEW s \in Session, Report(s) \/ TurnEnds(s) \/ TurnFails(s) \/ PromptBroke(s) \/ Exits(s)
        PROVE  \A r \in Session : proc[r] = "none" /\ proc'[r] = "working" => card.col = run'[r].lane
    <2>1. CASE Report(s)
      BY <2>1 DEF Report, Types, TypeOK
    <2>2. CASE TurnEnds(s)
      BY <2>2 DEF TurnEnds, Types, TypeOK
    <2>3. CASE TurnFails(s)
      BY <2>3 DEF TurnFails, Types, TypeOK
    <2>4. CASE PromptBroke(s)
      BY <2>4 DEF PromptBroke, Types, TypeOK
    <2>5. CASE Exits(s)
      BY <2>5 DEF Exits, Types, TypeOK
    <2> QED BY <1>2, <2>1, <2>2, <2>3, <2>4, <2>5
  <1>3. CASE QueueStarts
    BY <1>3 DEF QueueStarts, Types, TypeOK
  <1>4. CASE RemoveWorktree
    BY <1>4 DEF RemoveWorktree, Types, TypeOK
  <1>5. CASE KeepWorktree
    BY <1>5 DEF KeepWorktree, Types, TypeOK
  <1>6. CASE ScanAdopts
    BY <1>6 DEF ScanAdopts, Types, TypeOK
  <1>7. CASE ScanTimesOut
    BY <1>7 DEF ScanTimesOut, Types, TypeOK
  <1>8. ASSUME NEW to \in Columns, MoveCard(to) PROVE \A r \in Session : proc[r] = "none" /\ proc'[r] = "working" => card.col = run'[r].lane
    BY <1>8 DEF MoveCard, Types, TypeOK
  <1>9. CASE UserBlocks
    BY <1>9 DEF UserBlocks, Types, TypeOK
  <1>10. CASE UNCHANGED vars
    BY <1>10 DEF vars
  <1> QED BY <1>1, <1>2, <1>3, <1>4, <1>5, <1>6, <1>7, <1>8, <1>9, <1>10 DEF Next

\* An event other than a report does not come from inside a turn that has reported.
LEMMA NotInside == ASSUME Types, Evidence, Silent, NEW c \in Calls, Receives(call[c]), call[c].ev # "report"
  PROVE  call[c].sid \in Session /\ (call[c].sid \in reported => proc[call[c].sid] # "working")
  BY DEF Types, CallsOK, CallOK, Events, Evidence, Agents, Told, Silent

\* Nor is the session of a call that ends it inside its turn, unless it has just reported.
LEMMA NotInsideLater ==
  ASSUME Types, Evidence, NEW c \in Calls, Handles(call[c]) \/ (call[c].pc = "ending" /\ call[c].sid # None),
         call[c].ev # "report"
  PROVE  call[c].sid \in Session /\ proc[call[c].sid] # "working"
  <1>1. call[c].sid \in Session /\ call[c].ev \in Events
    BY DEF Types, CallsOK, CallOK, CallType, Sid
  <1>2. call[c].ev = "end" => call[c].sid \in okay
    BY DEF Evidence, Told
  <1>3. ~ Success(call[c].ev) => call[c].sid \in ended
    BY DEF Evidence, Told
  <1> QED BY <1>1, <1>2, <1>3 DEF Events, Success, Evidence, Agents

\* A session that reported inside its turn is ended there by a teardown only.
LEMMA StepSpares ==
  ASSUME Types, Evidence, Silent, [Next]_vars
  PROVE  \A r \in Session : proc[r] = "working" /\ r \in reported /\ proc'[r] = "dead" => r \in teardown'
  <1> USE DEF cardVars, agentVars, tellVars, autoVars, tearVars
  <1>1. ASSUME NEW c \in Calls, CallStep(c) PROVE \A r \in Session : proc[r] = "working" /\ r \in reported /\ proc'[r] = "dead" => r \in teardown'
    <2>1. CASE EndDeferred(c)
      <3>1. Receives(call[c]) /\ call[c].ev # "report"
        BY <2>1 DEF EndDeferred, At, Deferred, Receives
      <3>2. call[c].sid \in Session /\ (call[c].sid \in reported => proc[call[c].sid] # "working")
        BY <3>1, NotInside
      <3>3. proc' = [proc EXCEPT ![call[c].sid] = IF call[c].sid \in ended THEN @ ELSE "dead"] \/ proc' = proc
        BY <2>1 DEF EndDeferred, Kill
      <3> QED BY <3>2, <3>3 DEF Types, TypeOK
    <2>2. CASE Killed(c)
      BY <2>2 DEF Killed, Types, TypeOK
    <2>3. CASE StartPending(c)
      BY <2>3 DEF StartPending, Types, TypeOK
    <2>4. CASE SettleEnded(c)
      BY <2>4 DEF SettleEnded, Types, TypeOK
    <2>5. CASE WindDown(c)
      <3>1. Receives(call[c])
        BY <2>5 DEF WindDown, Routing, At, Receives
      <3>2. CASE call[c].ev # "report"
        <4>1. call[c].sid \in Session /\ (call[c].sid \in reported => proc[call[c].sid] # "working")
          BY <3>1, <3>2, NotInside
        <4>2. proc' = [proc EXCEPT ![call[c].sid] = IF call[c].sid \in ended THEN @ ELSE "dead"]
          BY <2>5, <3>1, <3>2 DEF WindDown, EndFinished, Kill
        <4> QED BY <4>1, <4>2 DEF Types, TypeOK
      <3>3. CASE call[c].ev = "report"
        <4>1. \/ proc' = proc
              \/ call[c].sid \in ended /\ proc' = [proc EXCEPT ![call[c].sid] = IF call[c].sid \in ended THEN @ ELSE "dead"]
          BY <2>5, <3>1, <3>3 DEF WindDown, EndFinished, Kill
        <4> QED BY <4>1 DEF Types, TypeOK
      <3> QED BY <3>2, <3>3
    <2>6. CASE SettleUnfollowed(c)
      BY <2>6 DEF SettleUnfollowed, Types, TypeOK
    <2>7. CASE SettleTeardown(c)
      BY <2>7 DEF SettleTeardown, Types, TypeOK
    <2>8. CASE StepOver(c)
      <3>1. Receives(call[c])
        BY <2>8 DEF StepOver, Own, Routing, At, Receives
      <3>2. CASE call[c].ev # "report"
        <4>1. call[c].sid \in Session /\ (call[c].sid \in reported => proc[call[c].sid] # "working")
          BY <3>1, <3>2, NotInside
        <4>2. proc' = [proc EXCEPT ![call[c].sid] = IF call[c].sid \in ended THEN @ ELSE "dead"] \/ proc' = proc
          BY <2>8 DEF StepOver, Kill
        <4> QED BY <4>1, <4>2 DEF Types, TypeOK
      <3>3. CASE call[c].ev = "report"
        BY <2>8, <3>3 DEF StepOver, Reconciled, Success
      <3> QED BY <3>2, <3>3
    <2>9. CASE StartNext(c)
      BY <2>9 DEF StartNext, Types, TypeOK
    <2>10. CASE Recover(c)
      BY <2>10 DEF Recover, Types, TypeOK
    <2>11. CASE NothingFollows(c)
      BY <2>11 DEF NothingFollows, Types, TypeOK
    <2>12. CASE CreateTakesTrigger(c)
      BY <2>12 DEF CreateTakesTrigger, Types, TypeOK
    <2>13. CASE CreateQueues(c)
      BY <2>13 DEF CreateQueues, Types, TypeOK
    <2>14. CASE CreateStarts(c)
      BY <2>14 DEF CreateStarts, Types, TypeOK
    <2>15. CASE Spawned(c)
      BY <2>15 DEF Spawned, Types, TypeOK
    <2>16. CASE SpawnFails(c)
      BY <2>16 DEF SpawnFails, Types, TypeOK
    <2>17. CASE Entered(c)
      BY <2>17 DEF Entered, Types, TypeOK
    <2>18. CASE Continued(c)
      <3>1. Handles(call[c])
        BY <2>18, CardTypes DEF Continued, At, Types, CallsOK, CallOK, Handles, Starts
      <3>2. CASE call[c].ev # "report"
        <4>1. call[c].sid \in Session /\ (call[c].sid \in reported => proc[call[c].sid] # "working")
          BY <3>1, <3>2, NotInsideLater
        <4>2. proc' = [proc EXCEPT ![call[c].sid] = IF call[c].sid \in ended THEN @ ELSE "dead"]
          BY <2>18, <3>1, <3>2 DEF Continued, EndFinished, Kill
        <4> QED BY <4>1, <4>2 DEF Types, TypeOK
      <3>3. CASE call[c].ev = "report"
        <4>1. \/ proc' = proc
              \/ call[c].sid \in ended /\ proc' = [proc EXCEPT ![call[c].sid] = IF call[c].sid \in ended THEN @ ELSE "dead"]
          BY <2>18, <3>1, <3>3 DEF Continued, EndFinished, Kill
        <4> QED BY <4>1 DEF Types, TypeOK
      <3> QED BY <3>2, <3>3
    <2>19. CASE NotContinued(c)
      BY <2>19 DEF NotContinued, Types, TypeOK
    <2>20. CASE LaneEnds(c)
      <3>1. Handles(call[c])
        BY <2>20, CardTypes DEF LaneEnds, At, Types, CallsOK, CallOK, Handles, Starts
      <3>2. CASE call[c].ev # "report"
        <4>1. call[c].sid \in Session /\ (call[c].sid \in reported => proc[call[c].sid] # "working")
          BY <3>1, <3>2, NotInsideLater
        <4>2. proc' = [proc EXCEPT ![call[c].sid] = IF call[c].sid \in ended THEN @ ELSE "dead"]
          BY <2>20, <3>1, <3>2 DEF LaneEnds, EndFinished, Kill
        <4> QED BY <4>1, <4>2 DEF Types, TypeOK
      <3>3. CASE call[c].ev = "report"
        <4>1. \/ proc' = proc
              \/ call[c].sid \in ended /\ proc' = [proc EXCEPT ![call[c].sid] = IF call[c].sid \in ended THEN @ ELSE "dead"]
          BY <2>20, <3>1, <3>3 DEF LaneEnds, EndFinished, Kill
        <4> QED BY <4>1 DEF Types, TypeOK
      <3> QED BY <3>2, <3>3
    <2>21. CASE LaneAdvances(c)
      <3>1. Handles(call[c])
        BY <2>21, CardTypes DEF LaneAdvances, At, Types, CallsOK, CallOK, Handles, Starts
      <3>2. CASE call[c].ev # "report"
        <4>1. call[c].sid \in Session /\ (call[c].sid \in reported => proc[call[c].sid] # "working")
          BY <3>1, <3>2, NotInsideLater
        <4>2. proc' = [proc EXCEPT ![call[c].sid] = IF call[c].sid \in ended THEN @ ELSE "dead"]
          BY <2>21, <3>1, <3>2 DEF LaneAdvances, EndFinished, Kill
        <4> QED BY <4>1, <4>2 DEF Types, TypeOK
      <3>3. CASE call[c].ev = "report"
        <4>1. \/ proc' = proc
              \/ call[c].sid \in ended /\ proc' = [proc EXCEPT ![call[c].sid] = IF call[c].sid \in ended THEN @ ELSE "dead"]
          BY <2>21, <3>1, <3>3 DEF LaneAdvances, EndFinished, Kill
        <4> QED BY <4>1 DEF Types, TypeOK
      <3> QED BY <3>2, <3>3
    <2>22. CASE LaneTearsDown(c)
      BY <2>22 DEF LaneTearsDown, Types, TypeOK
    <2>23. CASE EndOne(c)
      <3>1. Min(call[c].todo) \in teardown
        <4>1. Min(call[c].todo) \in call[c].todo
          BY <2>23, TodoMin DEF EndOne, Types, CallsOK, CallType
        <4> QED BY <4>1 DEF Evidence, Told
      <3> QED BY <2>23, <3>1 DEF EndOne, Kill, Types, TypeOK
    <2>24. CASE AllEnded(c)
      <3>1. CASE call[c].sid = None
        BY <2>24, <3>1 DEF AllEnded
      <3>2. CASE call[c].sid # None
        <4>1. call[c].pc = "ending" /\ call[c].sid # None
          BY <2>24, <3>2 DEF AllEnded, At
        <4>2. CASE call[c].ev # "report"
          <5>1. call[c].sid \in Session /\ (call[c].sid \in reported => proc[call[c].sid] # "working")
            BY <4>1, <4>2, NotInsideLater
          <5>2. proc' = [proc EXCEPT ![call[c].sid] = IF call[c].sid \in ended THEN @ ELSE "dead"]
            BY <2>24, <4>1, <4>2 DEF AllEnded, EndFinished, Kill
          <5> QED BY <5>1, <5>2 DEF Types, TypeOK
        <4>3. CASE call[c].ev = "report"
          <5>1. \/ proc' = proc
                \/ call[c].sid \in ended /\ proc' = [proc EXCEPT ![call[c].sid] = IF call[c].sid \in ended THEN @ ELSE "dead"]
            BY <2>24, <4>1, <4>3 DEF AllEnded, EndFinished, Kill
          <5> QED BY <5>1 DEF Types, TypeOK
        <4> QED BY <4>2, <4>3
      <3> QED BY <3>1, <3>2
    <2>25. CASE EnterLane(c)
      BY <2>25 DEF EnterLane, Types, TypeOK
    <2>26. CASE Register(c)
      BY <2>26 DEF Register, Types, TypeOK
    <2> QED BY <1>1, <2>1, <2>2, <2>3, <2>4, <2>5, <2>6, <2>7, <2>8, <2>9, <2>10, <2>11, <2>12, <2>13, <2>14,
               <2>15, <2>16, <2>17, <2>18, <2>19, <2>20, <2>21, <2>22, <2>23, <2>24, <2>25, <2>26 DEF CallStep
  <1>2. ASSUME NEW s \in Session, Report(s) \/ TurnEnds(s) \/ TurnFails(s) \/ PromptBroke(s) \/ Exits(s)
        PROVE  \A r \in Session : proc[r] = "working" /\ r \in reported /\ proc'[r] = "dead" => r \in teardown'
    <2>1. CASE Report(s)
      BY <2>1 DEF Report, Types, TypeOK
    <2>2. CASE TurnEnds(s)
      BY <2>2 DEF TurnEnds, Types, TypeOK
    <2>3. CASE TurnFails(s)
      BY <2>3 DEF TurnFails, Types, TypeOK
    <2>4. CASE PromptBroke(s)
      BY <2>4 DEF PromptBroke, Types, TypeOK
    <2>5. CASE Exits(s)
      BY <2>5 DEF Exits, Types, TypeOK
    <2> QED BY <1>2, <2>1, <2>2, <2>3, <2>4, <2>5
  <1>3. CASE QueueStarts
    BY <1>3 DEF QueueStarts, Types, TypeOK
  <1>4. CASE RemoveWorktree
    BY <1>4 DEF RemoveWorktree, Types, TypeOK
  <1>5. CASE KeepWorktree
    BY <1>5 DEF KeepWorktree, Types, TypeOK
  <1>6. CASE ScanAdopts
    BY <1>6 DEF ScanAdopts, Types, TypeOK
  <1>7. CASE ScanTimesOut
    BY <1>7 DEF ScanTimesOut, Types, TypeOK
  <1>8. ASSUME NEW to \in Columns, MoveCard(to) PROVE \A r \in Session : proc[r] = "working" /\ r \in reported /\ proc'[r] = "dead" => r \in teardown'
    BY <1>8 DEF MoveCard, Types, TypeOK
  <1>9. CASE UserBlocks
    BY <1>9 DEF UserBlocks, Types, TypeOK
  <1>10. CASE UNCHANGED vars
    BY <1>10 DEF vars
  <1> QED BY <1>1, <1>2, <1>3, <1>4, <1>5, <1>6, <1>7, <1>8, <1>9, <1>10 DEF Next

(* An agent is started only for the lane the card is in: the handler that asks  *)
(* for it is the only one that drives the lane, and the board queue drops what  *)
(* was queued for a lane the card has left.                                     *)
THEOREM LaneStarts == ~ EchoOverlaps /\ Spec => StartsInLane
  <1> SUFFICES ASSUME ~ EchoOverlaps PROVE Spec => StartsInLane
    OBVIOUS
  <1>1. LaneInv /\ [Next]_vars =>
          [\A s \in Session : proc[s] = "none" /\ proc'[s] = "working"
             => card.col = run'[s].lane \/ interrupted]_vars
    BY StepStarts DEF LaneInv, LaneBase, LaneCalm
  <1>2. Spec => []LaneInv
    BY LaneInvariant
  <1> QED BY <1>1, <1>2, PTL DEF Spec, StartsInLane

(* A session that reported inside its turn finishes the turn, unless its card is *)
(* moved by the user or its Done lane is over: whoever ends it has seen its turn *)
(* end, or it is deferred.                                                       *)
THEOREM LaneSparesTurns == ~ EchoOverlaps /\ Spec => InTurnSpared
  <1> SUFFICES ASSUME ~ EchoOverlaps PROVE Spec => InTurnSpared
    OBVIOUS
  <1>1. LaneInv /\ [Next]_vars =>
          [\A s \in Session : proc[s] = "working" /\ s \in reported /\ proc'[s] = "dead"
             => s \in teardown' \/ interrupted]_vars
    BY StepSpares DEF LaneInv, LaneBase, LaneCalm
  <1>2. Spec => []LaneInv
    BY LaneInvariant
  <1> QED BY <1>1, <1>2, PTL DEF Spec, InTurnSpared

-----------------------------------------------------------------------------
(* One agent at work for an automation *)

Works(s) == proc[s] = "working" /\ s \notin reported

OneWorks ==
  /\ \A s, r \in Session : Works(s) /\ Works(r) /\ run[s].auto = run[r].auto => s = r
  /\ \A s \in Session : Works(s) =>
       /\ active # None /\ run[s].auto = active => s = card.trigger
       /\ waiting # NoRun => run[s].auto # waiting.auto
       /\ \A c \in Calls : call[c].pc = "spawning" => run[s].auto # call[c].job.auto

\* Nobody begins to work.
NoneBegins == run' = run /\ \A s \in Session : proc'[s] = "working" /\ s \notin reported' => Works(s)

\* An agent begins to work when session/new answers.
LEMMA StepBegins == ASSUME Types, [Next]_vars PROVE NoneBegins \/ \E d \in Calls : Spawned(d)
  <1> USE DEF cardVars, agentVars, tellVars, autoVars, tearVars
  <1>1. ASSUME NEW c \in Calls, CallStep(c) PROVE NoneBegins \/ \E d \in Calls : Spawned(d)
    <2>1. CASE EndDeferred(c)
      BY <2>1 DEF EndDeferred, Kill, Types, TypeOK, NoneBegins, Works
    <2>2. CASE Killed(c)
      BY <2>2 DEF Killed, Types, TypeOK, NoneBegins, Works
    <2>3. CASE StartPending(c)
      BY <2>3 DEF StartPending, Types, TypeOK, NoneBegins, Works
    <2>4. CASE SettleEnded(c)
      BY <2>4 DEF SettleEnded, Types, TypeOK, NoneBegins, Works
    <2>5. CASE WindDown(c)
      BY <2>5 DEF WindDown, Kill, EndFinished, Types, TypeOK, NoneBegins, Works
    <2>6. CASE SettleUnfollowed(c)
      BY <2>6 DEF SettleUnfollowed, Types, TypeOK, NoneBegins, Works
    <2>7. CASE SettleTeardown(c)
      BY <2>7 DEF SettleTeardown, Types, TypeOK, NoneBegins, Works
    <2>8. CASE StepOver(c)
      BY <2>8 DEF StepOver, Kill, Types, TypeOK, NoneBegins, Works
    <2>9. CASE StartNext(c)
      BY <2>9 DEF StartNext, Types, TypeOK, NoneBegins, Works
    <2>10. CASE Recover(c)
      BY <2>10 DEF Recover, Types, TypeOK, NoneBegins, Works
    <2>11. CASE NothingFollows(c)
      BY <2>11 DEF NothingFollows, Types, TypeOK, NoneBegins, Works
    <2>12. CASE CreateTakesTrigger(c)
      BY <2>12 DEF CreateTakesTrigger, Types, TypeOK, NoneBegins, Works
    <2>13. CASE CreateQueues(c)
      BY <2>13 DEF CreateQueues, Types, TypeOK, NoneBegins, Works
    <2>14. CASE CreateStarts(c)
      BY <2>14 DEF CreateStarts, Types, TypeOK, NoneBegins, Works
    <2>15. CASE Spawned(c)
      BY <2>15
    <2>16. CASE SpawnFails(c)
      BY <2>16 DEF SpawnFails, Types, TypeOK, NoneBegins, Works
    <2>17. CASE Entered(c)
      BY <2>17 DEF Entered, Types, TypeOK, NoneBegins, Works
    <2>18. CASE Continued(c)
      BY <2>18 DEF Continued, Kill, EndFinished, Types, TypeOK, NoneBegins, Works
    <2>19. CASE NotContinued(c)
      BY <2>19 DEF NotContinued, Types, TypeOK, NoneBegins, Works
    <2>20. CASE LaneEnds(c)
      BY <2>20 DEF LaneEnds, Kill, EndFinished, Types, TypeOK, NoneBegins, Works
    <2>21. CASE LaneAdvances(c)
      BY <2>21 DEF LaneAdvances, Kill, EndFinished, Types, TypeOK, NoneBegins, Works
    <2>22. CASE LaneTearsDown(c)
      BY <2>22 DEF LaneTearsDown, Types, TypeOK, NoneBegins, Works
    <2>23. CASE EndOne(c)
      BY <2>23 DEF EndOne, Kill, Types, TypeOK, NoneBegins, Works
    <2>24. CASE AllEnded(c)
      BY <2>24 DEF AllEnded, Kill, EndFinished, Types, TypeOK, NoneBegins, Works
    <2>25. CASE EnterLane(c)
      BY <2>25 DEF EnterLane, Types, TypeOK, NoneBegins, Works
    <2>26. CASE Register(c)
      BY <2>26 DEF Register, Types, TypeOK, NoneBegins, Works
    <2> QED BY <1>1, <2>1, <2>2, <2>3, <2>4, <2>5, <2>6, <2>7, <2>8, <2>9, <2>10, <2>11, <2>12, <2>13, <2>14,
               <2>15, <2>16, <2>17, <2>18, <2>19, <2>20, <2>21, <2>22, <2>23, <2>24, <2>25, <2>26 DEF CallStep
  <1>2. ASSUME NEW s \in Session, Report(s) \/ TurnEnds(s) \/ TurnFails(s) \/ PromptBroke(s) \/ Exits(s)
        PROVE NoneBegins \/ \E d \in Calls : Spawned(d)
    <2>1. CASE Report(s)
      BY <2>1 DEF Report, Types, TypeOK, NoneBegins, Works
    <2>2. CASE TurnEnds(s)
      BY <2>2 DEF TurnEnds, Types, TypeOK, NoneBegins, Works
    <2>3. CASE TurnFails(s)
      BY <2>3 DEF TurnFails, Types, TypeOK, NoneBegins, Works
    <2>4. CASE PromptBroke(s)
      BY <2>4 DEF PromptBroke, Types, TypeOK, NoneBegins, Works
    <2>5. CASE Exits(s)
      BY <2>5 DEF Exits, Types, TypeOK, NoneBegins, Works
    <2> QED BY <1>2, <2>1, <2>2, <2>3, <2>4, <2>5
  <1>3. CASE QueueStarts
    BY <1>3 DEF QueueStarts, Types, TypeOK, NoneBegins, Works
  <1>4. CASE RemoveWorktree
    BY <1>4 DEF RemoveWorktree, Types, TypeOK, NoneBegins, Works
  <1>5. CASE KeepWorktree
    BY <1>5 DEF KeepWorktree, Types, TypeOK, NoneBegins, Works
  <1>6. CASE ScanAdopts
    BY <1>6 DEF ScanAdopts, Types, TypeOK, NoneBegins, Works
  <1>7. CASE ScanTimesOut
    BY <1>7 DEF ScanTimesOut, Types, TypeOK, NoneBegins, Works
  <1>8. ASSUME NEW to \in Columns, MoveCard(to) PROVE NoneBegins \/ \E d \in Calls : Spawned(d)
    BY <1>8 DEF MoveCard, Types, TypeOK, NoneBegins, Works
  <1>9. CASE UserBlocks
    BY <1>9 DEF UserBlocks, Types, TypeOK, NoneBegins, Works
  <1>10. CASE UNCHANGED vars
    BY <1>10 DEF vars, NoneBegins, Works
  <1> QED BY <1>1, <1>2, <1>3, <1>4, <1>5, <1>6, <1>7, <1>8, <1>9, <1>10 DEF Next

\* A step that starts no agent leaves at most one at work.
LEMMA KeepOne ==
  ASSUME OneWorks, NoneBegins,
         active' = None \/ (active' = active /\ (card'.trigger = card.trigger \/ \A r \in Session : Works(r) => r # card.trigger)),
         waiting' # NoRun => waiting' = waiting \/ (active # None /\ waiting'.auto = active /\ card.trigger = None),
         \A c \in Calls : call'[c].pc = "spawning" =>
           \/ call'[c] = call[c]
           \/ active # None /\ call'[c].job.auto = active /\ card.trigger = None
           \/ waiting # NoRun /\ call'[c].job = waiting
  PROVE  OneWorks'
  <1>1. \A s \in Session : Works(s)' => Works(s) /\ run'[s] = run[s] /\ s # None
    BY CardTypes DEF NoneBegins, Works
  <1>2. \A s, r \in Session : Works(s)' /\ Works(r)' /\ run'[s].auto = run'[r].auto => s = r
    BY <1>1 DEF OneWorks
  <1>3. ASSUME NEW s \in Session, Works(s)'
        PROVE  /\ active' # None /\ run'[s].auto = active' => s = card'.trigger
               /\ waiting' # NoRun => run'[s].auto # waiting'.auto
               /\ \A c \in Calls : call'[c].pc = "spawning" => run'[s].auto # call'[c].job.auto
    BY <1>1, <1>3 DEF OneWorks
  <1> QED BY <1>2, <1>3 DEF OneWorks

\* A step in which nobody begins to work.
LEMMA StepKeepsOne ==
  ASSUME Types, Types', Single, AutoOK, References, FreshOK, Evidence, Drive, OneWorks, NoneBegins,
         [Next]_vars
  PROVE  OneWorks'
  <1> USE DEF cardVars, agentVars, tellVars, autoVars, tearVars
  <1>1. ASSUME NEW c \in Calls, CallStep(c) PROVE OneWorks'
    <2>1. CASE EndDeferred(c)
      <3>1. active' = None \/ (active' = active /\ (card'.trigger = card.trigger \/ \A r \in Session : Works(r) => r # card.trigger))
        BY <2>1 DEF EndDeferred
      <3>2. waiting' # NoRun => waiting' = waiting \/ (active # None /\ waiting'.auto = active /\ card.trigger = None)
        BY <2>1 DEF EndDeferred
      <3>3. \A d \in Calls : call'[d].pc = "spawning" =>
              \/ call'[d] = call[d]
              \/ active # None /\ call'[d].job.auto = active /\ card.trigger = None
              \/ waiting # NoRun /\ call'[d].job = waiting
        <4>1. Others(c) /\ call'[c].pc \in {"swept", "killing", "judge"}
          BY <2>1, EndDeferredCall
        <4> QED BY <4>1 DEF Others
      <3> QED BY <3>1, <3>2, <3>3, KeepOne
    <2>2. CASE Killed(c)
      <3>1. active' = None \/ (active' = active /\ (card'.trigger = card.trigger \/ \A r \in Session : Works(r) => r # card.trigger))
        BY <2>2 DEF Killed
      <3>2. waiting' # NoRun => waiting' = waiting \/ (active # None /\ waiting'.auto = active /\ card.trigger = None)
        BY <2>2 DEF Killed
      <3>3. \A d \in Calls : call'[d].pc = "spawning" =>
              \/ call'[d] = call[d]
              \/ active # None /\ call'[d].job.auto = active /\ card.trigger = None
              \/ waiting # NoRun /\ call'[d].job = waiting
        <4>1. Others(c) /\ call'[c].pc # "spawning"
          BY <2>2, KilledCall DEF Killed, Types, CallsOK, CallOK
        <4> QED BY <4>1 DEF Others
      <3> QED BY <3>1, <3>2, <3>3, KeepOne
    <2>3. CASE StartPending(c)
      <3>1. active' = None \/ (active' = active /\ (card'.trigger = card.trigger \/ \A r \in Session : Works(r) => r # card.trigger))
        BY <2>3 DEF StartPending
      <3>2. waiting' # NoRun => waiting' = waiting \/ (active # None /\ waiting'.auto = active /\ card.trigger = None)
        BY <2>3 DEF StartPending
      <3>3. \A d \in Calls : call'[d].pc = "spawning" =>
              \/ call'[d] = call[d]
              \/ active # None /\ call'[d].job.auto = active /\ card.trigger = None
              \/ waiting # NoRun /\ call'[d].job = waiting
        <4>1. Others(c) /\ call'[c].pc # "spawning"
          BY <2>3, StartPendingCall DEF StartPending, At, Types, CallsOK, CallOK
        <4> QED BY <4>1 DEF Others
      <3> QED BY <3>1, <3>2, <3>3, KeepOne
    <2>4. CASE SettleEnded(c)
      <3>1. active' = None \/ (active' = active /\ (card'.trigger = card.trigger \/ \A r \in Session : Works(r) => r # card.trigger))
        <4>1. call[c].sid \in Session
          BY <2>4 DEF SettleEnded, Routing, At, Types, CallsOK, CallOK, Receives
        <4> QED BY <2>4, <4>1, SettledType DEF SettleEnded, Types, TypeOK
      <3>2. waiting' # NoRun => waiting' = waiting \/ (active # None /\ waiting'.auto = active /\ card.trigger = None)
        BY <2>4 DEF SettleEnded
      <3>3. \A d \in Calls : call'[d].pc = "spawning" =>
              \/ call'[d] = call[d]
              \/ active # None /\ call'[d].job.auto = active /\ card.trigger = None
              \/ waiting # NoRun /\ call'[d].job = waiting
        <4>1. Others(c) /\ call'[c] = Idle
          BY <2>4, ReturnCall DEF SettleEnded
        <4> QED BY <4>1, IdleFields DEF Others
      <3> QED BY <3>1, <3>2, <3>3, KeepOne
    <2>5. CASE WindDown(c)
      <3>1. active' = None \/ (active' = active /\ (card'.trigger = card.trigger \/ \A r \in Session : Works(r) => r # card.trigger))
        BY <2>5 DEF WindDown, Close, Types, TypeOK, Card
      <3>2. waiting' # NoRun => waiting' = waiting \/ (active # None /\ waiting'.auto = active /\ card.trigger = None)
        BY <2>5 DEF WindDown
      <3>3. \A d \in Calls : call'[d].pc = "spawning" =>
              \/ call'[d] = call[d]
              \/ active # None /\ call'[d].job.auto = active /\ card.trigger = None
              \/ waiting # NoRun /\ call'[d].job = waiting
        <4>1. Others(c) /\ call'[c] = Idle
          BY <2>5, ReturnCall DEF WindDown
        <4> QED BY <4>1, IdleFields DEF Others
      <3> QED BY <3>1, <3>2, <3>3, KeepOne
    <2>6. CASE SettleUnfollowed(c)
      <3>1. active' = None \/ (active' = active /\ (card'.trigger = card.trigger \/ \A r \in Session : Works(r) => r # card.trigger))
        <4>1. call[c].sid \in Session
          BY <2>6 DEF SettleUnfollowed, Own, Routing, At, Types, CallsOK, CallOK, Receives
        <4> QED BY <2>6, <4>1, SettledType DEF SettleUnfollowed, Types, TypeOK
      <3>2. waiting' # NoRun => waiting' = waiting \/ (active # None /\ waiting'.auto = active /\ card.trigger = None)
        BY <2>6 DEF SettleUnfollowed
      <3>3. \A d \in Calls : call'[d].pc = "spawning" =>
              \/ call'[d] = call[d]
              \/ active # None /\ call'[d].job.auto = active /\ card.trigger = None
              \/ waiting # NoRun /\ call'[d].job = waiting
        <4>1. Others(c) /\ call'[c] = Idle
          BY <2>6, ReturnCall DEF SettleUnfollowed
        <4> QED BY <4>1, IdleFields DEF Others
      <3> QED BY <3>1, <3>2, <3>3, KeepOne
    <2>7. CASE SettleTeardown(c)
      <3>1. active' = None \/ (active' = active /\ (card'.trigger = card.trigger \/ \A r \in Session : Works(r) => r # card.trigger))
        <4>1. call[c].sid \in Session
          BY <2>7 DEF SettleTeardown, Own, Routing, At, Types, CallsOK, CallOK, Receives
        <4> QED BY <2>7, <4>1, SettledType DEF SettleTeardown, Types, TypeOK
      <3>2. waiting' # NoRun => waiting' = waiting \/ (active # None /\ waiting'.auto = active /\ card.trigger = None)
        BY <2>7 DEF SettleTeardown
      <3>3. \A d \in Calls : call'[d].pc = "spawning" =>
              \/ call'[d] = call[d]
              \/ active # None /\ call'[d].job.auto = active /\ card.trigger = None
              \/ waiting # NoRun /\ call'[d].job = waiting
        <4>1. Others(c) /\ call'[c] = Idle
          BY <2>7, ReturnCall DEF SettleTeardown
        <4> QED BY <4>1, IdleFields DEF Others
      <3> QED BY <3>1, <3>2, <3>3, KeepOne
    <2>8. CASE StepOver(c)
      <3>1. active' = None \/ (active' = active /\ (card'.trigger = card.trigger \/ \A r \in Session : Works(r) => r # card.trigger))
        BY <2>8 DEF StepOver
      <3>2. waiting' # NoRun => waiting' = waiting \/ (active # None /\ waiting'.auto = active /\ card.trigger = None)
        BY <2>8 DEF StepOver
      <3>3. \A d \in Calls : call'[d].pc = "spawning" =>
              \/ call'[d] = call[d]
              \/ active # None /\ call'[d].job.auto = active /\ card.trigger = None
              \/ waiting # NoRun /\ call'[d].job = waiting
        <4>1. Others(c) /\ call'[c].pc \in {"swept", "killing", "judge"}
          BY <2>8, StepOverCall
        <4> QED BY <4>1 DEF Others
      <3> QED BY <3>1, <3>2, <3>3, KeepOne
    <2>9. CASE StartNext(c)
      <3>1. active' = None \/ (active' = active /\ (card'.trigger = card.trigger \/ \A r \in Session : Works(r) => r # card.trigger))
        <4>1. Handles(call[c]) /\ Driver(call[c]) /\ call[c].pc \in {"judge", "recover"}
          BY <2>9 DEF StartNext, At, Handles, Driver
        <4>2. DriverOK(call[c])
          BY <4>1, TheDriver
        <4>3. active' = active
          BY <2>9 DEF StartNext
        <4>4. CASE card.trigger = call[c].sid
          <5>1. call[c].sid \in Session /\ ~ Works(call[c].sid)
            <6>1. CASE call[c].ev = "report"
              BY <4>1, <6>1 DEF Evidence, Told, Works, Types, CallsOK, CallOK
            <6>2. CASE call[c].ev # "report"
              BY <4>1, <6>2, NotInsideLater DEF Works
            <6> QED BY <6>1, <6>2
          <5> QED BY <4>3, <4>4, <5>1
        <4>5. CASE card.trigger # call[c].sid
          <5>1. card.trigger = None
            <6>1. call[c].pc = "judge" => auto[active].sid = call[c].sid /\ auto[active].status = "running"
              BY <4>2 DEF DriverOK
            <6>2. call[c].pc = "judge" => card.trigger = call[c].sid
              BY <4>1, <4>2, <6>1, CardTypes DEF Drive, Trigger, Live, DriverOK, Types, CallsOK, CallOK
            <6> QED BY <4>1, <4>2, <4>5, <6>2 DEF DriverOK
          <5> QED BY <4>3, <5>1, CardTypes
        <4> QED BY <4>4, <4>5
      <3>2. waiting' # NoRun => waiting' = waiting \/ (active # None /\ waiting'.auto = active /\ card.trigger = None)
        BY <2>9 DEF StartNext, Restart
      <3>3. \A d \in Calls : call'[d].pc = "spawning" =>
              \/ call'[d] = call[d]
              \/ active # None /\ call'[d].job.auto = active /\ card.trigger = None
              \/ waiting # NoRun /\ call'[d].job = waiting
        <4>1. Others(c) /\ call'[c].pc # "spawning"
          BY <2>9, StartNextCall DEF StartNext, At, Types, CallsOK, CallOK
        <4> QED BY <4>1 DEF Others
      <3> QED BY <3>1, <3>2, <3>3, KeepOne
    <2>10. CASE Recover(c)
      <3>1. active' = None \/ (active' = active /\ (card'.trigger = card.trigger \/ \A r \in Session : Works(r) => r # card.trigger))
        <4>1. Handles(call[c]) /\ Driver(call[c]) /\ call[c].pc \in {"judge", "recover"}
          BY <2>10 DEF Recover, At, Handles, Driver
        <4>2. DriverOK(call[c])
          BY <4>1, TheDriver
        <4>3. active' = active
          BY <2>10 DEF Recover
        <4>4. CASE card.trigger = call[c].sid
          <5>1. call[c].sid \in Session /\ ~ Works(call[c].sid)
            <6>1. CASE call[c].ev = "report"
              BY <4>1, <6>1 DEF Evidence, Told, Works, Types, CallsOK, CallOK
            <6>2. CASE call[c].ev # "report"
              BY <4>1, <6>2, NotInsideLater DEF Works
            <6> QED BY <6>1, <6>2
          <5> QED BY <4>3, <4>4, <5>1
        <4>5. CASE card.trigger # call[c].sid
          <5>1. card.trigger = None
            <6>1. call[c].pc = "judge" => auto[active].sid = call[c].sid /\ auto[active].status = "running"
              BY <4>2 DEF DriverOK
            <6>2. call[c].pc = "judge" => card.trigger = call[c].sid
              BY <4>1, <4>2, <6>1, CardTypes DEF Drive, Trigger, Live, DriverOK, Types, CallsOK, CallOK
            <6> QED BY <4>1, <4>2, <4>5, <6>2 DEF DriverOK
          <5> QED BY <4>3, <5>1, CardTypes
        <4> QED BY <4>4, <4>5
      <3>2. waiting' # NoRun => waiting' = waiting \/ (active # None /\ waiting'.auto = active /\ card.trigger = None)
        BY <2>10 DEF Recover, Restart
      <3>3. \A d \in Calls : call'[d].pc = "spawning" =>
              \/ call'[d] = call[d]
              \/ active # None /\ call'[d].job.auto = active /\ card.trigger = None
              \/ waiting # NoRun /\ call'[d].job = waiting
        <4>1. Others(c) /\ call'[c].pc # "spawning"
          BY <2>10, RecoverCall DEF Recover, At, Types, CallsOK, CallOK
        <4> QED BY <4>1 DEF Others
      <3> QED BY <3>1, <3>2, <3>3, KeepOne
    <2>11. CASE NothingFollows(c)
      <3>1. active' = None \/ (active' = active /\ (card'.trigger = card.trigger \/ \A r \in Session : Works(r) => r # card.trigger))
        BY <2>11 DEF NothingFollows
      <3>2. waiting' # NoRun => waiting' = waiting \/ (active # None /\ waiting'.auto = active /\ card.trigger = None)
        BY <2>11 DEF NothingFollows
      <3>3. \A d \in Calls : call'[d].pc = "spawning" =>
              \/ call'[d] = call[d]
              \/ active # None /\ call'[d].job.auto = active /\ card.trigger = None
              \/ waiting # NoRun /\ call'[d].job = waiting
        <4>1. Others(c) /\ call'[c].pc # "spawning"
          BY <2>11, NothingFollowsCall DEF NothingFollows, At, Types, CallsOK, CallOK
        <4> QED BY <4>1 DEF Others
      <3> QED BY <3>1, <3>2, <3>3, KeepOne
    <2>12. CASE CreateTakesTrigger(c)
      <3>1. active' = None \/ (active' = active /\ (card'.trigger = card.trigger \/ \A r \in Session : Works(r) => r # card.trigger))
        BY <2>12 DEF CreateTakesTrigger
      <3>2. waiting' # NoRun => waiting' = waiting \/ (active # None /\ waiting'.auto = active /\ card.trigger = None)
        BY <2>12 DEF CreateTakesTrigger
      <3>3. \A d \in Calls : call'[d].pc = "spawning" =>
              \/ call'[d] = call[d]
              \/ active # None /\ call'[d].job.auto = active /\ card.trigger = None
              \/ waiting # NoRun /\ call'[d].job = waiting
        <4>1. Others(c) /\ call'[c].pc # "spawning"
          BY <2>12, CreateTakesTriggerCall DEF CreateTakesTrigger, At, Types, CallsOK, CallOK
        <4> QED BY <4>1 DEF Others
      <3> QED BY <3>1, <3>2, <3>3, KeepOne
    <2>13. CASE CreateQueues(c)
      <3>1. active' = None \/ (active' = active /\ (card'.trigger = card.trigger \/ \A r \in Session : Works(r) => r # card.trigger))
        BY <2>13 DEF CreateQueues
      <3>2. waiting' # NoRun => waiting' = waiting \/ (active # None /\ waiting'.auto = active /\ card.trigger = None)
        <4>1. Driver(call[c]) /\ call[c].pc = "create" /\ call[c].why # "queue"
          BY <2>13 DEF CreateQueues, At, Driver, Handles, Enters, Types, CallsOK, CallOK, Starts
        <4>2. DriverOK(call[c]) /\ active # None
          BY <4>1, TheDriver DEF DriverOK, Begun, Live
        <4> QED BY <2>13, <4>1, <4>2 DEF CreateQueues, DriverOK
      <3>3. \A d \in Calls : call'[d].pc = "spawning" =>
              \/ call'[d] = call[d]
              \/ active # None /\ call'[d].job.auto = active /\ card.trigger = None
              \/ waiting # NoRun /\ call'[d].job = waiting
        <4>1. Others(c) /\ call'[c].pc # "spawning"
          BY <2>13, CreateQueuesCall DEF CreateQueues, At, Types, CallsOK, CallOK
        <4> QED BY <4>1 DEF Others
      <3> QED BY <3>1, <3>2, <3>3, KeepOne
    <2>14. CASE CreateStarts(c)
      <3>1. active' = None \/ (active' = active /\ (card'.trigger = card.trigger \/ \A r \in Session : Works(r) => r # card.trigger))
        BY <2>14 DEF CreateStarts
      <3>2. waiting' # NoRun => waiting' = waiting \/ (active # None /\ waiting'.auto = active /\ card.trigger = None)
        BY <2>14 DEF CreateStarts
      <3>3. \A d \in Calls : call'[d].pc = "spawning" =>
              \/ call'[d] = call[d]
              \/ active # None /\ call'[d].job.auto = active /\ card.trigger = None
              \/ waiting # NoRun /\ call'[d].job = waiting
        <4>1. Driver(call[c]) /\ call[c].pc = "create" /\ call[c].why # "queue"
          BY <2>14 DEF CreateStarts, At, Driver, Handles, Enters, Types, CallsOK, CallOK, Starts
        <4>2. DriverOK(call[c]) /\ active # None
          BY <4>1, TheDriver DEF DriverOK, Begun, Live
        <4>3. Others(c) /\ call'[c].job = call[c].job
          BY <2>14, CreateStartsCall
        <4> QED BY <4>1, <4>2, <4>3 DEF Others, DriverOK
      <3> QED BY <3>1, <3>2, <3>3, KeepOne
    <2>15. CASE Spawned(c)
      <3>1. PICK s \in Session : proc[s] = "none" /\ proc' = [proc EXCEPT ![s] = "working"]
        BY <2>15 DEF Spawned
      <3>2. s \notin reported' /\ proc'[s] = "working"
        BY <2>15, <3>1 DEF Spawned, FreshOK, Unknown, Unnamed, Types, TypeOK
      <3> QED BY <3>1, <3>2 DEF NoneBegins, Works
    <2>16. CASE SpawnFails(c)
      <3>1. active' = None \/ (active' = active /\ (card'.trigger = card.trigger \/ \A r \in Session : Works(r) => r # card.trigger))
        <4>1. Driver(call[c]) /\ call[c].pc = "spawning"
          BY <2>16 DEF SpawnFails, At, Driver, Handles, Enters, Types, CallsOK, CallOK, Starts
        <4>2. DriverOK(call[c])
          BY <4>1, TheDriver
        <4>3. call[c].row \in Card /\ card \in Card /\ card' = Saved(call[c].row) /\ active' = active
          BY <2>16 DEF SpawnFails, Types, TypeOK, CallsOK, CallType
        <4> QED BY <4>1, <4>2, <4>3, SavedType DEF DriverOK
      <3>2. waiting' # NoRun => waiting' = waiting \/ (active # None /\ waiting'.auto = active /\ card.trigger = None)
        BY <2>16 DEF SpawnFails
      <3>3. \A d \in Calls : call'[d].pc = "spawning" =>
              \/ call'[d] = call[d]
              \/ active # None /\ call'[d].job.auto = active /\ card.trigger = None
              \/ waiting # NoRun /\ call'[d].job = waiting
        <4>1. Others(c) /\ call'[c].pc # "spawning"
          BY <2>16, SpawnFailsCall, IdleFields DEF SpawnFails, At, Types, CallsOK, CallOK
        <4> QED BY <4>1 DEF Others
      <3> QED BY <3>1, <3>2, <3>3, KeepOne
    <2>17. CASE Entered(c)
      <3>1. active' = None \/ (active' = active /\ (card'.trigger = card.trigger \/ \A r \in Session : Works(r) => r # card.trigger))
        BY <2>17 DEF Entered
      <3>2. waiting' # NoRun => waiting' = waiting \/ (active # None /\ waiting'.auto = active /\ card.trigger = None)
        BY <2>17 DEF Entered
      <3>3. \A d \in Calls : call'[d].pc = "spawning" =>
              \/ call'[d] = call[d]
              \/ active # None /\ call'[d].job.auto = active /\ card.trigger = None
              \/ waiting # NoRun /\ call'[d].job = waiting
        <4>1. Others(c) /\ call'[c] = Idle
          BY <2>17, ReturnCall DEF Entered
        <4> QED BY <4>1, IdleFields DEF Others
      <3> QED BY <3>1, <3>2, <3>3, KeepOne
    <2>18. CASE Continued(c)
      <3>1. active' = None \/ (active' = active /\ (card'.trigger = card.trigger \/ \A r \in Session : Works(r) => r # card.trigger))
        BY <2>18 DEF Continued
      <3>2. waiting' # NoRun => waiting' = waiting \/ (active # None /\ waiting'.auto = active /\ card.trigger = None)
        BY <2>18 DEF Continued
      <3>3. \A d \in Calls : call'[d].pc = "spawning" =>
              \/ call'[d] = call[d]
              \/ active # None /\ call'[d].job.auto = active /\ card.trigger = None
              \/ waiting # NoRun /\ call'[d].job = waiting
        <4>1. Others(c) /\ call'[c] = Idle
          BY <2>18, ReturnCall DEF Continued
        <4> QED BY <4>1, IdleFields DEF Others
      <3> QED BY <3>1, <3>2, <3>3, KeepOne
    <2>19. CASE NotContinued(c)
      <3>1. active' = None \/ (active' = active /\ (card'.trigger = card.trigger \/ \A r \in Session : Works(r) => r # card.trigger))
        BY <2>19 DEF NotContinued
      <3>2. waiting' # NoRun => waiting' = waiting \/ (active # None /\ waiting'.auto = active /\ card.trigger = None)
        BY <2>19 DEF NotContinued
      <3>3. \A d \in Calls : call'[d].pc = "spawning" =>
              \/ call'[d] = call[d]
              \/ active # None /\ call'[d].job.auto = active /\ card.trigger = None
              \/ waiting # NoRun /\ call'[d].job = waiting
        <4>1. Others(c) /\ call'[c].pc # "spawning"
          BY <2>19, NotContinuedCall DEF NotContinued, At, Types, CallsOK, CallOK
        <4> QED BY <4>1 DEF Others
      <3> QED BY <3>1, <3>2, <3>3, KeepOne
    <2>20. CASE LaneEnds(c)
      <3>1. active' = None \/ (active' = active /\ (card'.trigger = card.trigger \/ \A r \in Session : Works(r) => r # card.trigger))
        <4>1. Driver(call[c]) /\ Handles(call[c]) /\ call[c].pc = "finish"
          BY <2>20 DEF LaneEnds, At, Driver, Handles
        <4>2. DriverOK(call[c])
          BY <4>1, TheDriver
        <4>3. call[c].copy \in Card /\ card \in Card /\ card' = Saved(call[c].copy) /\ active' = active
          BY <2>20 DEF LaneEnds, Types, TypeOK, CallsOK, CallType
        <4> QED BY <4>1, <4>2, <4>3, SavedType DEF DriverOK, Asking
      <3>2. waiting' # NoRun => waiting' = waiting \/ (active # None /\ waiting'.auto = active /\ card.trigger = None)
        BY <2>20 DEF LaneEnds
      <3>3. \A d \in Calls : call'[d].pc = "spawning" =>
              \/ call'[d] = call[d]
              \/ active # None /\ call'[d].job.auto = active /\ card.trigger = None
              \/ waiting # NoRun /\ call'[d].job = waiting
        <4>1. Others(c) /\ call'[c] = Idle
          BY <2>20, ReturnCall DEF LaneEnds
        <4> QED BY <4>1, IdleFields DEF Others
      <3> QED BY <3>1, <3>2, <3>3, KeepOne
    <2>21. CASE LaneAdvances(c)
      <3>1. active' = None \/ (active' = active /\ (card'.trigger = card.trigger \/ \A r \in Session : Works(r) => r # card.trigger))
        <4>1. Driver(call[c]) /\ Handles(call[c]) /\ call[c].pc = "finish"
          BY <2>21 DEF LaneAdvances, At, Driver, Handles
        <4>2. call[c].auto = active /\ active \in Visit
          BY <4>1, TheDriver, CardTypes DEF DriverOK, Types, TypeOK
        <4>3. auto[active].lane = "dev" /\ active # None
          BY <2>21, <4>2, CardTypes DEF LaneAdvances, Advances, AutoOf
        <4>4. Over(c)[active].lane = "dev"
          BY <4>1, <4>2, <4>3, OverType
        <4> QED BY <2>21, <4>3, <4>4 DEF LaneAdvances, LeaveLane
      <3>2. waiting' # NoRun => waiting' = waiting \/ (active # None /\ waiting'.auto = active /\ card.trigger = None)
        BY <2>21 DEF LaneAdvances
      <3>3. \A d \in Calls : call'[d].pc = "spawning" =>
              \/ call'[d] = call[d]
              \/ active # None /\ call'[d].job.auto = active /\ card.trigger = None
              \/ waiting # NoRun /\ call'[d].job = waiting
        <4>1. Others(c) /\ call'[c].pc # "spawning"
          BY <2>21, LaneAdvancesCall DEF LaneAdvances, At, Arrives, Types, CallsOK, CallOK
        <4> QED BY <4>1 DEF Others
      <3> QED BY <3>1, <3>2, <3>3, KeepOne
    <2>22. CASE LaneTearsDown(c)
      <3>1. active' = None \/ (active' = active /\ (card'.trigger = card.trigger \/ \A r \in Session : Works(r) => r # card.trigger))
        <4>1. Driver(call[c]) /\ Handles(call[c]) /\ call[c].pc = "finish"
          BY <2>22 DEF LaneTearsDown, At, Driver, Handles
        <4>2. DriverOK(call[c])
          BY <4>1, TheDriver
        <4>3. call[c].copy \in Card /\ card \in Card /\ card' = Saved(call[c].copy) /\ active' = active
          BY <2>22 DEF LaneTearsDown, Types, TypeOK, CallsOK, CallType
        <4> QED BY <4>1, <4>2, <4>3, SavedType DEF DriverOK, Asking
      <3>2. waiting' # NoRun => waiting' = waiting \/ (active # None /\ waiting'.auto = active /\ card.trigger = None)
        BY <2>22 DEF LaneTearsDown
      <3>3. \A d \in Calls : call'[d].pc = "spawning" =>
              \/ call'[d] = call[d]
              \/ active # None /\ call'[d].job.auto = active /\ card.trigger = None
              \/ waiting # NoRun /\ call'[d].job = waiting
        <4>1. Others(c) /\ call'[c].pc # "spawning"
          BY <2>22, LaneTearsDownCall DEF LaneTearsDown, At, Types, CallsOK, CallOK
        <4> QED BY <4>1 DEF Others
      <3> QED BY <3>1, <3>2, <3>3, KeepOne
    <2>23. CASE EndOne(c)
      <3>1. active' = None \/ (active' = active /\ (card'.trigger = card.trigger \/ \A r \in Session : Works(r) => r # card.trigger))
        BY <2>23 DEF EndOne
      <3>2. waiting' # NoRun => waiting' = waiting \/ (active # None /\ waiting'.auto = active /\ card.trigger = None)
        BY <2>23 DEF EndOne
      <3>3. \A d \in Calls : call'[d].pc = "spawning" =>
              \/ call'[d] = call[d]
              \/ active # None /\ call'[d].job.auto = active /\ card.trigger = None
              \/ waiting # NoRun /\ call'[d].job = waiting
        <4>1. Others(c) /\ call'[c].pc # "spawning"
          BY <2>23, EndOneCall DEF EndOne, At, Types, CallsOK, CallOK
        <4> QED BY <4>1 DEF Others
      <3> QED BY <3>1, <3>2, <3>3, KeepOne
    <2>24. CASE AllEnded(c)
      <3>1. active' = None \/ (active' = active /\ (card'.trigger = card.trigger \/ \A r \in Session : Works(r) => r # card.trigger))
        BY <2>24 DEF AllEnded
      <3>2. waiting' # NoRun => waiting' = waiting \/ (active # None /\ waiting'.auto = active /\ card.trigger = None)
        BY <2>24 DEF AllEnded
      <3>3. \A d \in Calls : call'[d].pc = "spawning" =>
              \/ call'[d] = call[d]
              \/ active # None /\ call'[d].job.auto = active /\ card.trigger = None
              \/ waiting # NoRun /\ call'[d].job = waiting
        <4>1. Others(c) /\ call'[c] = Idle
          BY <2>24, ReturnCall DEF AllEnded
        <4> QED BY <4>1, IdleFields DEF Others
      <3> QED BY <3>1, <3>2, <3>3, KeepOne
    <2>25. CASE EnterLane(c)
      <3>1. active' = None \/ (active' = active /\ (card'.trigger = card.trigger \/ \A r \in Session : Works(r) => r # card.trigger))
        BY <2>25 DEF EnterLane
      <3>2. waiting' # NoRun => waiting' = waiting \/ (active # None /\ waiting'.auto = active /\ card.trigger = None)
        BY <2>25 DEF EnterLane
      <3>3. \A d \in Calls : call'[d].pc = "spawning" =>
              \/ call'[d] = call[d]
              \/ active # None /\ call'[d].job.auto = active /\ card.trigger = None
              \/ waiting # NoRun /\ call'[d].job = waiting
        <4>1. Others(c) /\ call'[c].pc # "spawning"
          BY <2>25, EnterLaneCall, IdleFields DEF EnterLane, At, Types, CallsOK, CallOK
        <4> QED BY <4>1 DEF Others
      <3> QED BY <3>1, <3>2, <3>3, KeepOne
    <2>26. CASE Register(c)
      <3>1. PICK a \in Visit : auto[a].status = "none" /\ active' = a
        BY <2>26 DEF Register
      <3>2. waiting' = waiting
        BY <2>26 DEF Register
      <3>3. Others(c) /\ call'[c].pc # "spawning"
        BY <2>26, RegisterCall
      <3>4. \A s \in Session : Works(s)' => Works(s) /\ run'[s] = run[s] /\ run[s].auto # a
        BY <3>1, CardTypes DEF NoneBegins, Works, References, RestRefers, OfUse, Used
      <3>5. \A s, r \in Session : Works(s)' /\ Works(r)' /\ run'[s].auto = run'[r].auto => s = r
        BY <3>4 DEF OneWorks
      <3>6. ASSUME NEW s \in Session, Works(s)'
            PROVE  /\ active' # None /\ run'[s].auto = active' => s = card'.trigger
                   /\ waiting' # NoRun => run'[s].auto # waiting'.auto
                   /\ \A d \in Calls : call'[d].pc = "spawning" => run'[s].auto # call'[d].job.auto
        BY <3>1, <3>2, <3>3, <3>4, <3>6 DEF OneWorks, Others
      <3> QED BY <3>5, <3>6 DEF OneWorks
    <2> QED BY <1>1, <2>1, <2>2, <2>3, <2>4, <2>5, <2>6, <2>7, <2>8, <2>9, <2>10, <2>11, <2>12, <2>13, <2>14,
               <2>15, <2>16, <2>17, <2>18, <2>19, <2>20, <2>21, <2>22, <2>23, <2>24, <2>25, <2>26 DEF CallStep
  <1>2. ASSUME NEW s \in Session, Report(s) \/ TurnEnds(s) \/ TurnFails(s) \/ PromptBroke(s) \/ Exits(s)
        PROVE  OneWorks'
    <2>1. CASE Report(s)
      <3>1. active' = None \/ (active' = active /\ (card'.trigger = card.trigger \/ \A r \in Session : Works(r) => r # card.trigger))
        BY <2>1 DEF Report
      <3>2. waiting' # NoRun => waiting' = waiting \/ (active # None /\ waiting'.auto = active /\ card.trigger = None)
        BY <2>1 DEF Report
      <3>3. \A d \in Calls : call'[d].pc = "spawning" =>
              \/ call'[d] = call[d]
              \/ active # None /\ call'[d].job.auto = active /\ card.trigger = None
              \/ waiting # NoRun /\ call'[d].job = waiting
        <4>1. PICK d \in Calls : Taken(d, s, "report")
          BY <2>1, EmitCall DEF Report, Events
        <4> QED BY <4>1 DEF Taken, Others
      <3> QED BY <3>1, <3>2, <3>3, KeepOne
    <2>2. CASE TurnEnds(s)
      <3>1. active' = None \/ (active' = active /\ (card'.trigger = card.trigger \/ \A r \in Session : Works(r) => r # card.trigger))
        BY <2>2 DEF TurnEnds
      <3>2. waiting' # NoRun => waiting' = waiting \/ (active # None /\ waiting'.auto = active /\ card.trigger = None)
        BY <2>2 DEF TurnEnds
      <3>3. \A d \in Calls : call'[d].pc = "spawning" =>
              \/ call'[d] = call[d]
              \/ active # None /\ call'[d].job.auto = active /\ card.trigger = None
              \/ waiting # NoRun /\ call'[d].job = waiting
        <4>1. PICK d \in Calls : Taken(d, s, "end")
          BY <2>2, EmitCall DEF TurnEnds, Events
        <4> QED BY <4>1 DEF Taken, Others
      <3> QED BY <3>1, <3>2, <3>3, KeepOne
    <2>3. CASE TurnFails(s)
      <3>1. active' = None \/ (active' = active /\ (card'.trigger = card.trigger \/ \A r \in Session : Works(r) => r # card.trigger))
        BY <2>3 DEF TurnFails
      <3>2. waiting' # NoRun => waiting' = waiting \/ (active # None /\ waiting'.auto = active /\ card.trigger = None)
        BY <2>3 DEF TurnFails
      <3>3. \A d \in Calls : call'[d].pc = "spawning" =>
              \/ call'[d] = call[d]
              \/ active # None /\ call'[d].job.auto = active /\ card.trigger = None
              \/ waiting # NoRun /\ call'[d].job = waiting
        <4>1. PICK d \in Calls : Taken(d, s, "failed")
          BY <2>3, EmitCall DEF TurnFails, Events
        <4> QED BY <4>1 DEF Taken, Others
      <3> QED BY <3>1, <3>2, <3>3, KeepOne
    <2>4. CASE PromptBroke(s)
      <3>1. active' = None \/ (active' = active /\ (card'.trigger = card.trigger \/ \A r \in Session : Works(r) => r # card.trigger))
        BY <2>4 DEF PromptBroke
      <3>2. waiting' # NoRun => waiting' = waiting \/ (active # None /\ waiting'.auto = active /\ card.trigger = None)
        BY <2>4 DEF PromptBroke
      <3>3. \A d \in Calls : call'[d].pc = "spawning" =>
              \/ call'[d] = call[d]
              \/ active # None /\ call'[d].job.auto = active /\ card.trigger = None
              \/ waiting # NoRun /\ call'[d].job = waiting
        <4>1. PICK d \in Calls : Taken(d, s, "failed")
          BY <2>4, EmitCall DEF PromptBroke, Events
        <4> QED BY <4>1 DEF Taken, Others
      <3> QED BY <3>1, <3>2, <3>3, KeepOne
    <2>5. CASE Exits(s)
      <3>1. active' = None \/ (active' = active /\ (card'.trigger = card.trigger \/ \A r \in Session : Works(r) => r # card.trigger))
        BY <2>5 DEF Exits
      <3>2. waiting' # NoRun => waiting' = waiting \/ (active # None /\ waiting'.auto = active /\ card.trigger = None)
        BY <2>5 DEF Exits
      <3>3. \A d \in Calls : call'[d].pc = "spawning" =>
              \/ call'[d] = call[d]
              \/ active # None /\ call'[d].job.auto = active /\ card.trigger = None
              \/ waiting # NoRun /\ call'[d].job = waiting
        <4>1. PICK d \in Calls : Taken(d, s, "failed")
          BY <2>5, EmitCall DEF Exits, Events
        <4> QED BY <4>1 DEF Taken, Others
      <3> QED BY <3>1, <3>2, <3>3, KeepOne
    <2> QED BY <1>2, <2>1, <2>2, <2>3, <2>4, <2>5
  <1>3. CASE QueueStarts
    <2>1. active' = None \/ (active' = active /\ (card'.trigger = card.trigger \/ \A r \in Session : Works(r) => r # card.trigger))
      BY <1>3 DEF QueueStarts
    <2>2. waiting' # NoRun => waiting' = waiting \/ (active # None /\ waiting'.auto = active /\ card.trigger = None)
      BY <1>3 DEF QueueStarts
    <2>3. \A d \in Calls : call'[d].pc = "spawning" =>
            \/ call'[d] = call[d]
            \/ active # None /\ call'[d].job.auto = active /\ card.trigger = None
            \/ waiting # NoRun /\ call'[d].job = waiting
      <3>1. CASE Startable(waiting)
        <4>1. waiting # NoRun /\ waiting.auto \in Visit
          BY <1>3 DEF QueueStarts, Types, WaitingOK
        <4>2. PICK c \in Calls : Others(c) /\ call'[c].job = waiting
          BY <1>3, <3>1, <4>1, QueueStartsCall
        <4> QED BY <4>1, <4>2 DEF Others
      <3>2. CASE ~ Startable(waiting)
        BY <1>3, <3>2 DEF QueueStarts
      <3> QED BY <3>1, <3>2
    <2> QED BY <2>1, <2>2, <2>3, KeepOne
  <1>4. CASE RemoveWorktree
    <2>1. active' = None \/ (active' = active /\ (card'.trigger = card.trigger \/ \A r \in Session : Works(r) => r # card.trigger))
      BY <1>4 DEF RemoveWorktree
    <2>2. waiting' # NoRun => waiting' = waiting \/ (active # None /\ waiting'.auto = active /\ card.trigger = None)
      BY <1>4 DEF RemoveWorktree
    <2>3. \A d \in Calls : call'[d].pc = "spawning" =>
            \/ call'[d] = call[d]
            \/ active # None /\ call'[d].job.auto = active /\ card.trigger = None
            \/ waiting # NoRun /\ call'[d].job = waiting
      BY <1>4 DEF RemoveWorktree
    <2> QED BY <2>1, <2>2, <2>3, KeepOne
  <1>5. CASE KeepWorktree
    <2>1. active' = None \/ (active' = active /\ (card'.trigger = card.trigger \/ \A r \in Session : Works(r) => r # card.trigger))
      BY <1>5 DEF KeepWorktree
    <2>2. waiting' # NoRun => waiting' = waiting \/ (active # None /\ waiting'.auto = active /\ card.trigger = None)
      BY <1>5 DEF KeepWorktree
    <2>3. \A d \in Calls : call'[d].pc = "spawning" =>
            \/ call'[d] = call[d]
            \/ active # None /\ call'[d].job.auto = active /\ card.trigger = None
            \/ waiting # NoRun /\ call'[d].job = waiting
      BY <1>5 DEF KeepWorktree
    <2> QED BY <2>1, <2>2, <2>3, KeepOne
  <1>6. CASE ScanAdopts
    <2>1. active' = None \/ (active' = active /\ (card'.trigger = card.trigger \/ \A r \in Session : Works(r) => r # card.trigger))
      BY <1>6 DEF ScanAdopts
    <2>2. waiting' # NoRun => waiting' = waiting \/ (active # None /\ waiting'.auto = active /\ card.trigger = None)
      BY <1>6 DEF ScanAdopts
    <2>3. \A d \in Calls : call'[d].pc = "spawning" =>
            \/ call'[d] = call[d]
            \/ active # None /\ call'[d].job.auto = active /\ card.trigger = None
            \/ waiting # NoRun /\ call'[d].job = waiting
      BY <1>6 DEF ScanAdopts
    <2> QED BY <2>1, <2>2, <2>3, KeepOne
  <1>7. CASE ScanTimesOut
    <2>1. active' = None \/ (active' = active /\ (card'.trigger = card.trigger \/ \A r \in Session : Works(r) => r # card.trigger))
      BY <1>7 DEF ScanTimesOut
    <2>2. waiting' # NoRun => waiting' = waiting \/ (active # None /\ waiting'.auto = active /\ card.trigger = None)
      BY <1>7 DEF ScanTimesOut
    <2>3. \A d \in Calls : call'[d].pc = "spawning" =>
            \/ call'[d] = call[d]
            \/ active # None /\ call'[d].job.auto = active /\ card.trigger = None
            \/ waiting # NoRun /\ call'[d].job = waiting
      <3>1. PICK d \in Calls : Taken(d, auto[active].sid, "timeout")
        BY <1>7, TimesOutCall
      <3> QED BY <3>1 DEF Taken, Others
    <2> QED BY <2>1, <2>2, <2>3, KeepOne
  <1>8. ASSUME NEW to \in Columns, MoveCard(to) PROVE OneWorks'
    <2>1. active' = None \/ (active' = active /\ (card'.trigger = card.trigger \/ \A r \in Session : Works(r) => r # card.trigger))
      BY <1>8 DEF MoveCard, LeaveLane, Drive, InLane
    <2>2. waiting' # NoRun => waiting' = waiting \/ (active # None /\ waiting'.auto = active /\ card.trigger = None)
      BY <1>8 DEF MoveCard
    <2>3. \A d \in Calls : call'[d].pc = "spawning" =>
            \/ call'[d] = call[d]
            \/ active # None /\ call'[d].job.auto = active /\ card.trigger = None
            \/ waiting # NoRun /\ call'[d].job = waiting
      <3>1. CASE to \in Lanes
        <4>1. PICK d \in Calls : Arrives(d, to)
          BY <1>8, <3>1, ArriveCall DEF MoveCard
        <4> QED BY <4>1 DEF Arrives, Others
      <3>2. CASE to \notin Lanes
        BY <1>8, <3>2 DEF MoveCard
      <3> QED BY <3>1, <3>2
    <2> QED BY <2>1, <2>2, <2>3, KeepOne
  <1>9. CASE UserBlocks
    <2>1. active' = None \/ (active' = active /\ (card'.trigger = card.trigger \/ \A r \in Session : Works(r) => r # card.trigger))
      BY <1>9 DEF UserBlocks, Drive, InLane
    <2>2. waiting' # NoRun => waiting' = waiting \/ (active # None /\ waiting'.auto = active /\ card.trigger = None)
      BY <1>9 DEF UserBlocks
    <2>3. \A d \in Calls : call'[d].pc = "spawning" =>
            \/ call'[d] = call[d]
            \/ active # None /\ call'[d].job.auto = active /\ card.trigger = None
            \/ waiting # NoRun /\ call'[d].job = waiting
      <3>1. PICK c \in Calls : Others(c) /\ call'[c].pc = "ending"
        BY <1>9, UserBlocksCall
      <3> QED BY <3>1 DEF Others
    <2> QED BY <2>1, <2>2, <2>3, KeepOne
  <1>10. CASE UNCHANGED vars
    <2>1. active' = None \/ (active' = active /\ (card'.trigger = card.trigger \/ \A r \in Session : Works(r) => r # card.trigger))
      BY <1>10 DEF vars
    <2>2. waiting' # NoRun => waiting' = waiting \/ (active # None /\ waiting'.auto = active /\ card.trigger = None)
      BY <1>10 DEF vars
    <2>3. \A d \in Calls : call'[d].pc = "spawning" =>
            \/ call'[d] = call[d]
            \/ active # None /\ call'[d].job.auto = active /\ card.trigger = None
            \/ waiting # NoRun /\ call'[d].job = waiting
      BY <1>10 DEF vars
    <2> QED BY <2>1, <2>2, <2>3, KeepOne
  <1> QED BY <1>1, <1>2, <1>3, <1>4, <1>5, <1>6, <1>7, <1>8, <1>9, <1>10 DEF Next

\* An agent is started when no other of the automation works.
LEMMA SpawnedOne ==
  ASSUME Types, Types', FreshOK, Drive, OneWorks, NEW c \in Calls, Spawned(c)
  PROVE  OneWorks'
  <1>1. Driver(call[c]) /\ call[c].pc = "spawning" /\ call[c].row \in Card /\ card \in Card
    BY DEF Spawned, At, Driver, Handles, Enters, Types, TypeOK, CallsOK, CallType, CallOK, Starts
  <1>2. /\ call[c].row.trigger = None /\ waiting = NoRun /\ card.trigger = None /\ active # None
        /\ \A d \in Calls \ {c} : call[d].pc # "spawning"
    <2>1. DriverOK(call[c]) /\ \A d \in Calls \ {c} : ~ Driver(call[d])
      BY <1>1, TheDriver
    <2>2. \A d \in Calls : call[d].pc = "spawning" => Driver(call[d])
      BY DEF Driver, Handles, Enters, Types, CallsOK, CallOK, Starts
    <2> QED BY <1>1, <2>1, <2>2 DEF DriverOK, Begun, Live
  <1>3. PICK s \in Session : /\ proc[s] = "none" /\ proc' = [proc EXCEPT ![s] = "working"]
                             /\ run' = [run EXCEPT ![s] = call[c].job] /\ card' = Saved(WithRun(call[c].row, s))
                             /\ IF call[c].why = "queue" THEN Return(c) ELSE Answer(c, "session", s)
    BY DEF Spawned
  <1>4. waiting' = waiting /\ reported' = reported /\ active' = active
    BY DEF Spawned, tellVars, autoVars
  <1>5. Others(c) /\ call'[c].pc # "spawning"
    BY <1>1, <1>3, SpawnedCall, IdleFields
  <1>6. card'.trigger = s
    <2>1. WithRun(call[c].row, s) \in Card /\ WithRun(call[c].row, s).trigger = s
      BY <1>1, WithRunType
    <2> QED BY <1>1, <1>3, <2>1, SavedType
  <1>7. \A d \in Calls : call'[d].pc # "spawning"
    BY <1>2, <1>5 DEF Others
  <1>8. /\ run'[s] = call[c].job
        /\ \A r \in Session \ {s} : proc'[r] = proc[r] /\ run'[r] = run[r]
    BY <1>3 DEF Types, TypeOK
  <1>9. ASSUME NEW r \in Session, Works(r)', r # s
        PROVE  Works(r) /\ run'[r].auto # active /\ run'[r].auto # run'[s].auto
    BY <1>1, <1>2, <1>4, <1>8, <1>9, CardTypes DEF OneWorks, Works
  <1>10. \A q, r \in Session : Works(q)' /\ Works(r)' /\ run'[q].auto = run'[r].auto => q = r
    BY <1>8, <1>9 DEF OneWorks
  <1>11. \A r \in Session : Works(r)' /\ run'[r].auto = active => r = s
    BY <1>9
  <1> QED BY <1>2, <1>4, <1>6, <1>7, <1>10, <1>11 DEF OneWorks

\* At most one agent of an automation works.
LEMMA StepOneWorks ==
  ASSUME Types, Types', Single, AutoOK, References, FreshOK, Evidence, Drive, OneWorks, [Next]_vars
  PROVE  OneWorks'
  BY StepBegins, StepKeepsOne, SpawnedOne

LaneWorks == LaneInv /\ (~ interrupted => OneWorks)

(* Of the sessions started for one visit of a lane at most one works: a session  *)
(* is started only when no automation of the card has one at work, neither that  *)
(* which drives the lane nor that whose step waits in the board queue.           *)
THEOREM LaneOneAgent == ~ EchoOverlaps /\ Spec => []OneAgent
  <1> SUFFICES ASSUME ~ EchoOverlaps PROVE Spec => []OneAgent
    OBVIOUS
  <1>1. Init => LaneWorks
    <2> SUFFICES ASSUME Init PROVE LaneWorks
      OBVIOUS
    <2>1. \A s \in Session : ~ Works(s)
      BY DEF Init, Works
    <2> QED BY <2>1, InitLane DEF LaneWorks, OneWorks
  <1>2. LaneWorks /\ [Next]_vars => LaneWorks'
    <2> SUFFICES ASSUME LaneWorks, [Next]_vars PROVE LaneWorks'
      OBVIOUS
    <2>1. LaneInv'
      BY StepLane DEF LaneWorks
    <2>2. ASSUME ~ interrupted' PROVE OneWorks'
      <3>1. ~ interrupted
        BY <2>2, Interrupted
      <3> QED BY <2>1, <3>1, StepOneWorks DEF LaneWorks, LaneInv, LaneBase, LaneCalm
    <2> QED BY <2>1, <2>2 DEF LaneWorks
  <1>3. LaneWorks => OneAgent
    BY DEF LaneWorks, OneWorks, OneAgent, Works
  <1> QED BY <1>1, <1>2, <1>3, PTL DEF Spec
=============================================================================
