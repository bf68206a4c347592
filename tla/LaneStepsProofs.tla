-------------------------- MODULE LaneStepsProofs -------------------------
(***************************************************************************)
(* The runs of a lane's steps: each is claimed once and paid for out of    *)
(* the budget, and each comes after the steps before it.  At the end of    *)
(* Done the worktree goes last.                                            *)
(***************************************************************************)
EXTENDS LaneDriverProofs

-----------------------------------------------------------------------------
(* Every run of a step is claimed once *)

\* Who may run, or has run, step k of automation a: a session, the entry of the
\* board queue (0) or a call that starts an agent (its negative).
Ids == (-MaxCalls)..MaxSessions

Claim(x, a, k) ==
  \/ x \in Session /\ run[x].auto = a /\ run[x].step = k
  \/ x = 0 /\ waiting.auto = a /\ waiting.step = k
  \/ -x \in Calls /\ call[-x].pc \in {"create", "spawning"} /\ call[-x].job.auto = a /\ call[-x].job.step = k

Claims(a, k) == {x \in Ids : Claim(x, a, k)}

\* Dev's budget is spent by one handler at a time as long as the card is not
\* moved over a start or an end; a Done step has none to spend.
Budget(lane) == IF lane = "dev" THEN MaxRecovery ELSE 0
Counted(a) == auto[a].lane = "done" \/ ~ interrupted

BudgetOK(a) ==
  /\ auto[a].recoveries <= Budget(auto[a].lane)
  /\ \A k \in Nat \ {0} :
       Cardinality(Claims(a, k)) <= IF k > auto[a].step THEN 0
                                    ELSE 1 + (IF k = auto[a].step THEN auto[a].recoveries ELSE Budget(auto[a].lane))

Budgets == \A a \in Visit : Counted(a) => BudgetOK(a)

\* A failed fallback is recovered in Dev, and its budget is not touched yet.
Recoverable(k) ==
  k.why = "fallback" /\ k.recover /\ k.pc \in Asking \cup {"recover"} =>
    auto[k.auto].lane = "dev" /\ MaxRecovery > 0 /\ (interrupted \/ auto[k.auto].recoveries = 0)

RecoverOK == \A c \in Calls : Recoverable(call[c])

\* The claims are finitely many, and session, queue and call are told apart.
LEMMA IdsFinite == ASSUME NEW a, NEW k
  PROVE  /\ IsFiniteSet(Ids) /\ IsFiniteSet(Claims(a, k)) /\ Cardinality(Claims(a, k)) \in Nat
         /\ \A s \in Session : s \in Ids /\ s > 0
         /\ 0 \in Ids
         /\ \A c \in Calls : -c \in Ids /\ -c < 0 /\ -(-c) = c
  <1>1. -MaxCalls \in Int /\ MaxSessions \in Int
    BY Bounds
  <1>2. IsFiniteSet(Ids)
    BY <1>1, FS_Interval DEF Ids
  <1>3. IsFiniteSet(Claims(a, k))
    BY <1>2, FS_Subset DEF Claims
  <1>4. Cardinality(Claims(a, k)) \in Nat
    BY <1>3, FS_CardinalityType
  <1>5. /\ \A s \in Session : s \in Ids /\ s > 0
        /\ 0 \in Ids
        /\ \A c \in Calls : -c \in Ids /\ -c < 0 /\ -(-c) = c
    BY Bounds DEF Ids, Session, Calls
  <1> QED BY <1>2, <1>3, <1>4, <1>5

\* A claim passes from x to y.
LEMMA MoveClaim ==
  ASSUME NEW a, NEW k, NEW x \in Ids, NEW y \in Ids,
         \A z \in Ids \ {y} : Claim(z, a, k)' => Claim(z, a, k) /\ z # x,
         Claim(y, a, k)' => Claim(x, a, k)
  PROVE  Cardinality(Claims(a, k))' <= Cardinality(Claims(a, k))
  <1> DEFINE S == Claims(a, k)
             T == Claims(a, k)'
  <1>1. IsFiniteSet(S) /\ Cardinality(S) \in Nat
    BY IdsFinite
  <1>2. CASE Claim(y, a, k)'
    <2>1. x \in S
      BY <1>2 DEF Claims
    <2>2. T \subseteq (S \ {x}) \cup {y}
      BY DEF Claims
    <2> HIDE DEF S, T
    <2>3. IsFiniteSet(S \ {x}) /\ Cardinality(S \ {x}) = Cardinality(S) - 1
      BY <1>1, <2>1, FS_RemoveElement
    <2>4. IsFiniteSet((S \ {x}) \cup {y}) /\ Cardinality((S \ {x}) \cup {y}) <= Cardinality(S)
      <3> DEFINE U == S \ {x}
      <3>1. IsFiniteSet(U) /\ Cardinality(U) = Cardinality(S) - 1
        BY <2>3
      <3> HIDE DEF U
      <3>2. IsFiniteSet(U \cup {y}) /\ (Cardinality(U \cup {y}) = Cardinality(U) \/ Cardinality(U \cup {y}) = Cardinality(U) + 1)
        BY <3>1, FS_AddElement
      <3>3. IsFiniteSet(U \cup {y}) /\ Cardinality(U \cup {y}) <= Cardinality(S)
        BY <1>1, <3>1, <3>2
      <3> QED BY <3>3 DEF U
    <2>5. Cardinality(T) <= Cardinality((S \ {x}) \cup {y}) /\ Cardinality(T) \in Nat /\ Cardinality((S \ {x}) \cup {y}) \in Nat
      BY <2>2, <2>4, FS_Subset, FS_CardinalityType
    <2>6. Cardinality(T) <= Cardinality(S)
      BY <1>1, <2>4, <2>5
    <2> QED BY <2>6 DEF S, T
  <1>3. CASE ~ Claim(y, a, k)'
    <2>1. T \subseteq S
      BY <1>3 DEF Claims
    <2> HIDE DEF S, T
    <2>2. Cardinality(T) <= Cardinality(S)
      BY <1>1, <2>1, FS_Subset
    <2> QED BY <2>2 DEF S, T
  <1> QED BY <1>2, <1>3

\* A new claim.
LEMMA AddClaim ==
  ASSUME NEW a, NEW k, NEW y \in Ids, \A z \in Ids \ {y} : Claim(z, a, k)' => Claim(z, a, k)
  PROVE  /\ Cardinality(Claims(a, k))' <= Cardinality(Claims(a, k)) + 1
         /\ ~ Claim(y, a, k)' => Cardinality(Claims(a, k))' <= Cardinality(Claims(a, k))
  <1> DEFINE S == Claims(a, k)
             T == Claims(a, k)'
  <1>1. IsFiniteSet(S) /\ Cardinality(S) \in Nat
    BY IdsFinite
  <1>2. T \subseteq S \cup {y} /\ (~ Claim(y, a, k)' => T \subseteq S)
    BY DEF Claims
  <1> HIDE DEF S, T
  <1>3. IsFiniteSet(S \cup {y}) /\ Cardinality(S \cup {y}) <= Cardinality(S) + 1
    BY <1>1, FS_AddElement
  <1>4. Cardinality(T) <= Cardinality(S \cup {y}) /\ Cardinality(T) \in Nat /\ Cardinality(S \cup {y}) \in Nat
    BY <1>2, <1>3, FS_Subset, FS_CardinalityType
  <1>5. Cardinality(T) <= Cardinality(S) + 1
    BY <1>1, <1>3, <1>4
  <1>6. T \subseteq S => Cardinality(T) <= Cardinality(S)
    BY <1>1, FS_Subset
  <1> QED BY <1>2, <1>5, <1>6 DEF S, T

\* A step that brings no claim.
LEMMA KeepClaims ==
  ASSUME Types, Types', run' = run, waiting' = waiting \/ waiting' = NoRun,
         \A d \in Calls : call'[d].pc \in {"create", "spawning"} =>
           call[d].pc \in {"create", "spawning"} /\ call'[d].job = call[d].job
  PROVE  \A a \in Visit : \A k \in Nat \ {0} : Cardinality(Claims(a, k))' <= Cardinality(Claims(a, k))
  <1> SUFFICES ASSUME NEW a \in Visit, NEW k \in Nat \ {0}
               PROVE  Cardinality(Claims(a, k))' <= Cardinality(Claims(a, k))
    OBVIOUS
  <1>1. \A z \in Ids : Claim(z, a, k)' => Claim(z, a, k)
    BY CardTypes DEF Claim, NoRun
  <1>2. 0 \in Ids
    BY IdsFinite
  <1>3. CASE Claim(0, a, k)'
    BY <1>1, <1>2, <1>3, MoveClaim
  <1>4. CASE ~ Claim(0, a, k)'
    BY <1>1, <1>2, <1>4, AddClaim
  <1> QED BY <1>3, <1>4

\* A step that keeps the automations and adds no claim.
LEMMA KeepBudgets ==
  ASSUME Types, Types', Budgets, interrupted => interrupted',
         \A a \in Visit : /\ auto'[a].lane = auto[a].lane /\ auto'[a].step = auto[a].step
                          /\ auto'[a].recoveries = auto[a].recoveries,
         \A a \in Visit : \A k \in Nat \ {0} : Cardinality(Claims(a, k))' <= Cardinality(Claims(a, k))
  PROVE  Budgets'
  <1> SUFFICES ASSUME NEW a \in Visit, Counted(a)' PROVE BudgetOK(a)'
    BY DEF Budgets
  <1>1. BudgetOK(a)
    BY DEF Budgets, Counted
  <1>2. auto[a].step \in Nat /\ auto[a].recoveries \in Nat /\ Budget(auto[a].lane) \in Nat
    BY AutoUnfold, BudgetAssumption DEF AutoType, Budget
  <1>3. ASSUME NEW k \in Nat \ {0}
        PROVE  Cardinality(Claims(a, k))' <= IF k > auto'[a].step THEN 0
                 ELSE 1 + (IF k = auto'[a].step THEN auto'[a].recoveries ELSE Budget(auto'[a].lane))
    <2> DEFINE p == Cardinality(Claims(a, k))'
               q == Cardinality(Claims(a, k))
               n == IF k > auto[a].step THEN 0
                    ELSE 1 + (IF k = auto[a].step THEN auto[a].recoveries ELSE Budget(auto[a].lane))
    <2>1. p <= q /\ q <= n /\ q \in Nat /\ n \in Nat
      BY <1>1, <1>2, IdsFinite DEF BudgetOK
    <2>2. p \in Int
      <3>1. IsFiniteSet(Claims(a, k)')
        BY IdsFinite, FS_Subset DEF Claims
      <3> QED BY <3>1, FS_CardinalityType
    <2> HIDE DEF p, q, n
    <2>3. p <= n
      BY <2>1, <2>2
    <2> QED BY <2>3 DEF p, n
  <1> QED BY <1>1, <1>3 DEF BudgetOK

\* A step that keeps the automations and lets no call ask for a fallback.
LEMMA KeepRecoverOK ==
  ASSUME Types, References, RecoverOK, interrupted => interrupted',
         \A a \in Visit : Used(a) => auto'[a].lane = auto[a].lane /\ auto'[a].recoveries = auto[a].recoveries,
         \A d \in Calls : call'[d].why = "fallback" /\ call'[d].recover /\ call'[d].pc \in Asking \cup {"recover"} =>
           /\ call[d].why = "fallback" /\ call[d].recover /\ call[d].pc \in Asking \cup {"recover"}
           /\ call'[d].auto = call[d].auto
  PROVE  RecoverOK'
  <1> SUFFICES ASSUME NEW d \in Calls, call'[d].why = "fallback", call'[d].recover, call'[d].pc \in Asking \cup {"recover"}
               PROVE  /\ auto'[call'[d].auto].lane = "dev" /\ MaxRecovery > 0
                      /\ interrupted' \/ auto'[call'[d].auto].recoveries = 0
    BY DEF RecoverOK, Recoverable
  <1>1. /\ call[d].why = "fallback" /\ call[d].recover /\ call[d].pc \in Asking \cup {"recover"}
        /\ call'[d].auto = call[d].auto
    OBVIOUS
  <1>2. Handles(call[d])
    BY <1>1 DEF Handles, Asking
  <1>3. call[d].auto \in Visit /\ Used(call[d].auto)
    BY <1>2, CardTypes DEF Types, CallsOK, CallOK, References, Refers
  <1> QED BY <1>1, <1>3 DEF RecoverOK, Recoverable

\* A step is started again only out of its budget.
LEMMA StepBudgets == ASSUME LaneInv, Types', Budgets, RecoverOK, [Next]_vars PROVE Budgets' /\ RecoverOK'
  <1> USE DEF cardVars, agentVars, tellVars, autoVars, tearVars
  <1>1. interrupted => interrupted'
    BY Interrupted
  <1>2. Types /\ References /\ AutoOK /\ FreshOK
    BY DEF LaneInv, LaneBase
  <1>3. auto \in [Visit -> AutoType]
    BY <1>2, AutoUnfold
  <1>4. ASSUME NEW c \in Calls, CallStep(c) PROVE Budgets' /\ RecoverOK'
    <2>1. CASE EndDeferred(c)
      <3>1. \A a \in Visit : /\ auto'[a].lane = auto[a].lane /\ auto'[a].step = auto[a].step
                            /\ auto'[a].recoveries = auto[a].recoveries
        BY <2>1 DEF EndDeferred
      <3>2. \A d \in Calls : call'[d] = call[d] \/ call'[d].pc \notin Asking \cup {"recover"}
        <4>1. Others(c) /\ call'[c].pc \in {"swept", "killing", "judge"}
          BY <1>2, <2>1, EndDeferredCall
        <4> QED BY <4>1 DEF Others, Asking
      <3>3. \A a \in Visit : \A k \in Nat \ {0} : Cardinality(Claims(a, k))' <= Cardinality(Claims(a, k))
        <4>1. run' = run /\ (waiting' = waiting \/ waiting' = NoRun)
          BY <2>1 DEF EndDeferred
        <4>2. \A d \in Calls : call'[d].pc \in {"create", "spawning"} =>
                call[d].pc \in {"create", "spawning"} /\ call'[d].job = call[d].job
          BY <3>2 DEF Asking
        <4> QED BY <1>2, <4>1, <4>2, KeepClaims
      <3>4. \A d \in Calls : call'[d].why = "fallback" /\ call'[d].recover /\ call'[d].pc \in Asking \cup {"recover"} =>
              /\ call[d].why = "fallback" /\ call[d].recover /\ call[d].pc \in Asking \cup {"recover"}
              /\ call'[d].auto = call[d].auto
        BY <3>2 DEF Asking
      <3> QED BY <1>1, <1>2, <3>1, <3>3, <3>4, KeepBudgets, KeepRecoverOK
    <2>2. CASE Killed(c)
      <3>1. \A a \in Visit : /\ auto'[a].lane = auto[a].lane /\ auto'[a].step = auto[a].step
                            /\ auto'[a].recoveries = auto[a].recoveries
        BY <2>2 DEF Killed
      <3>2. \A d \in Calls : call'[d] = call[d] \/ call'[d].pc \notin Asking \cup {"recover"}
        <4>1. Others(c) /\ call'[c].pc \in {"swept", "judge"}
          BY <1>2, <2>2, KilledCall DEF Killed, Types, CallsOK, CallOK
        <4> QED BY <4>1 DEF Others, Asking
      <3>3. \A a \in Visit : \A k \in Nat \ {0} : Cardinality(Claims(a, k))' <= Cardinality(Claims(a, k))
        <4>1. run' = run /\ (waiting' = waiting \/ waiting' = NoRun)
          BY <2>2 DEF Killed
        <4>2. \A d \in Calls : call'[d].pc \in {"create", "spawning"} =>
                call[d].pc \in {"create", "spawning"} /\ call'[d].job = call[d].job
          BY <3>2 DEF Asking
        <4> QED BY <1>2, <4>1, <4>2, KeepClaims
      <3>4. \A d \in Calls : call'[d].why = "fallback" /\ call'[d].recover /\ call'[d].pc \in Asking \cup {"recover"} =>
              /\ call[d].why = "fallback" /\ call[d].recover /\ call[d].pc \in Asking \cup {"recover"}
              /\ call'[d].auto = call[d].auto
        BY <3>2 DEF Asking
      <3> QED BY <1>1, <1>2, <3>1, <3>3, <3>4, KeepBudgets, KeepRecoverOK
    <2>3. CASE StartPending(c)
      <3>1. \A a \in Visit : /\ auto'[a].lane = auto[a].lane /\ auto'[a].step = auto[a].step
                            /\ auto'[a].recoveries = auto[a].recoveries
        BY <2>3 DEF StartPending
      <3>2. \A d \in Calls : call'[d] = call[d] \/ call'[d].pc \notin Asking \cup {"recover"}
        <4>1. Others(c) /\ call'[c].pc \notin Asking \cup {"recover"}
          BY <1>2, <2>3, StartPendingCall DEF StartPending, At, Asking
        <4> QED BY <4>1 DEF Others
      <3>3. \A a \in Visit : \A k \in Nat \ {0} : Cardinality(Claims(a, k))' <= Cardinality(Claims(a, k))
        <4>1. run' = run /\ (waiting' = waiting \/ waiting' = NoRun)
          BY <2>3 DEF StartPending
        <4>2. \A d \in Calls : call'[d].pc \in {"create", "spawning"} =>
                call[d].pc \in {"create", "spawning"} /\ call'[d].job = call[d].job
          BY <3>2 DEF Asking
        <4> QED BY <1>2, <4>1, <4>2, KeepClaims
      <3>4. \A d \in Calls : call'[d].why = "fallback" /\ call'[d].recover /\ call'[d].pc \in Asking \cup {"recover"} =>
              /\ call[d].why = "fallback" /\ call[d].recover /\ call[d].pc \in Asking \cup {"recover"}
              /\ call'[d].auto = call[d].auto
        BY <3>2 DEF Asking
      <3> QED BY <1>1, <1>2, <3>1, <3>3, <3>4, KeepBudgets, KeepRecoverOK
    <2>4. CASE SettleEnded(c)
      <3>1. \A a \in Visit : /\ auto'[a].lane = auto[a].lane /\ auto'[a].step = auto[a].step
                            /\ auto'[a].recoveries = auto[a].recoveries
        BY <2>4 DEF SettleEnded
      <3>2. \A d \in Calls : call'[d] = call[d] \/ call'[d].pc \notin Asking \cup {"recover"}
        <4>1. Others(c) /\ call'[c] = Idle
          BY <1>2, <2>4, ReturnCall DEF SettleEnded
        <4> QED BY <4>1, IdleFields DEF Others, Asking
      <3>3. \A a \in Visit : \A k \in Nat \ {0} : Cardinality(Claims(a, k))' <= Cardinality(Claims(a, k))
        <4>1. run' = run /\ (waiting' = waiting \/ waiting' = NoRun)
          BY <2>4 DEF SettleEnded
        <4>2. \A d \in Calls : call'[d].pc \in {"create", "spawning"} =>
                call[d].pc \in {"create", "spawning"} /\ call'[d].job = call[d].job
          BY <3>2 DEF Asking
        <4> QED BY <1>2, <4>1, <4>2, KeepClaims
      <3>4. \A d \in Calls : call'[d].why = "fallback" /\ call'[d].recover /\ call'[d].pc \in Asking \cup {"recover"} =>
              /\ call[d].why = "fallback" /\ call[d].recover /\ call[d].pc \in Asking \cup {"recover"}
              /\ call'[d].auto = call[d].auto
        BY <3>2 DEF Asking
      <3> QED BY <1>1, <1>2, <3>1, <3>3, <3>4, KeepBudgets, KeepRecoverOK
    <2>5. CASE WindDown(c)
      <3>1. \A a \in Visit : /\ auto'[a].lane = auto[a].lane /\ auto'[a].step = auto[a].step
                            /\ auto'[a].recoveries = auto[a].recoveries
        BY <2>5 DEF WindDown
      <3>2. \A d \in Calls : call'[d] = call[d] \/ call'[d].pc \notin Asking \cup {"recover"}
        <4>1. Others(c) /\ call'[c] = Idle
          BY <1>2, <2>5, ReturnCall DEF WindDown
        <4> QED BY <4>1, IdleFields DEF Others, Asking
      <3>3. \A a \in Visit : \A k \in Nat \ {0} : Cardinality(Claims(a, k))' <= Cardinality(Claims(a, k))
        <4>1. run' = run /\ (waiting' = waiting \/ waiting' = NoRun)
          BY <2>5 DEF WindDown
        <4>2. \A d \in Calls : call'[d].pc \in {"create", "spawning"} =>
                call[d].pc \in {"create", "spawning"} /\ call'[d].job = call[d].job
          BY <3>2 DEF Asking
        <4> QED BY <1>2, <4>1, <4>2, KeepClaims
      <3>4. \A d \in Calls : call'[d].why = "fallback" /\ call'[d].recover /\ call'[d].pc \in Asking \cup {"recover"} =>
              /\ call[d].why = "fallback" /\ call[d].recover /\ call[d].pc \in Asking \cup {"recover"}
              /\ call'[d].auto = call[d].auto
        BY <3>2 DEF Asking
      <3> QED BY <1>1, <1>2, <3>1, <3>3, <3>4, KeepBudgets, KeepRecoverOK
    <2>6. CASE SettleUnfollowed(c)
      <3>1. \A a \in Visit : /\ auto'[a].lane = auto[a].lane /\ auto'[a].step = auto[a].step
                            /\ auto'[a].recoveries = auto[a].recoveries
        <4>1. auto' = Adopted
          BY <2>6 DEF SettleUnfollowed
        <4> QED BY <1>2, <4>1, AdoptedType
      <3>2. \A d \in Calls : call'[d] = call[d] \/ call'[d].pc \notin Asking \cup {"recover"}
        <4>1. Others(c) /\ call'[c] = Idle
          BY <1>2, <2>6, ReturnCall DEF SettleUnfollowed
        <4> QED BY <4>1, IdleFields DEF Others, Asking
      <3>3. \A a \in Visit : \A k \in Nat \ {0} : Cardinality(Claims(a, k))' <= Cardinality(Claims(a, k))
        <4>1. run' = run /\ (waiting' = waiting \/ waiting' = NoRun)
          BY <2>6 DEF SettleUnfollowed
        <4>2. \A d \in Calls : call'[d].pc \in {"create", "spawning"} =>
                call[d].pc \in {"create", "spawning"} /\ call'[d].job = call[d].job
          BY <3>2 DEF Asking
        <4> QED BY <1>2, <4>1, <4>2, KeepClaims
      <3>4. \A d \in Calls : call'[d].why = "fallback" /\ call'[d].recover /\ call'[d].pc \in Asking \cup {"recover"} =>
              /\ call[d].why = "fallback" /\ call[d].recover /\ call[d].pc \in Asking \cup {"recover"}
              /\ call'[d].auto = call[d].auto
        BY <3>2 DEF Asking
      <3> QED BY <1>1, <1>2, <3>1, <3>3, <3>4, KeepBudgets, KeepRecoverOK
    <2>7. CASE SettleTeardown(c)
      <3>1. \A a \in Visit : /\ auto'[a].lane = auto[a].lane /\ auto'[a].step = auto[a].step
                            /\ auto'[a].recoveries = auto[a].recoveries
        BY <1>3, <2>7 DEF SettleTeardown, AutoType
      <3>2. \A d \in Calls : call'[d] = call[d] \/ call'[d].pc \notin Asking \cup {"recover"}
        <4>1. Others(c) /\ call'[c] = Idle
          BY <1>2, <2>7, ReturnCall DEF SettleTeardown
        <4> QED BY <4>1, IdleFields DEF Others, Asking
      <3>3. \A a \in Visit : \A k \in Nat \ {0} : Cardinality(Claims(a, k))' <= Cardinality(Claims(a, k))
        <4>1. run' = run /\ (waiting' = waiting \/ waiting' = NoRun)
          BY <2>7 DEF SettleTeardown
        <4>2. \A d \in Calls : call'[d].pc \in {"create", "spawning"} =>
                call[d].pc \in {"create", "spawning"} /\ call'[d].job = call[d].job
          BY <3>2 DEF Asking
        <4> QED BY <1>2, <4>1, <4>2, KeepClaims
      <3>4. \A d \in Calls : call'[d].why = "fallback" /\ call'[d].recover /\ call'[d].pc \in Asking \cup {"recover"} =>
              /\ call[d].why = "fallback" /\ call[d].recover /\ call[d].pc \in Asking \cup {"recover"}
              /\ call'[d].auto = call[d].auto
        BY <3>2 DEF Asking
      <3> QED BY <1>1, <1>2, <3>1, <3>3, <3>4, KeepBudgets, KeepRecoverOK
    <2>8. CASE StepOver(c)
      <3>1. \A a \in Visit : /\ auto'[a].lane = auto[a].lane /\ auto'[a].step = auto[a].step
                            /\ auto'[a].recoveries = auto[a].recoveries
        <4>1. auto' = Adopted
          BY <2>8 DEF StepOver
        <4> QED BY <1>2, <4>1, AdoptedType
      <3>2. \A d \in Calls : call'[d] = call[d] \/ call'[d].pc \notin Asking \cup {"recover"}
        <4>1. Others(c) /\ call'[c].pc \in {"swept", "killing", "judge"}
          BY <1>2, <2>8, StepOverCall
        <4> QED BY <4>1 DEF Others, Asking
      <3>3. \A a \in Visit : \A k \in Nat \ {0} : Cardinality(Claims(a, k))' <= Cardinality(Claims(a, k))
        <4>1. run' = run /\ (waiting' = waiting \/ waiting' = NoRun)
          BY <2>8 DEF StepOver
        <4>2. \A d \in Calls : call'[d].pc \in {"create", "spawning"} =>
                call[d].pc \in {"create", "spawning"} /\ call'[d].job = call[d].job
          BY <3>2 DEF Asking
        <4> QED BY <1>2, <4>1, <4>2, KeepClaims
      <3>4. \A d \in Calls : call'[d].why = "fallback" /\ call'[d].recover /\ call'[d].pc \in Asking \cup {"recover"} =>
              /\ call[d].why = "fallback" /\ call[d].recover /\ call[d].pc \in Asking \cup {"recover"}
              /\ call'[d].auto = call[d].auto
        BY <3>2 DEF Asking
      <3> QED BY <1>1, <1>2, <3>1, <3>3, <3>4, KeepBudgets, KeepRecoverOK
    <2>9. CASE StartNext(c)
      <3>1. /\ Handles(call[c]) /\ Driver(call[c]) /\ call[c].pc \in {"judge", "recover"} /\ call[c].auto \in Visit
            /\ Used(call[c].auto)
        <4>1. call[c].pc \in {"judge", "recover"}
          BY <2>9 DEF StartNext, At
        <4>2. Handles(call[c]) /\ Driver(call[c])
          BY <4>1 DEF Handles, Driver
        <4>3. CallOK(call[c]) /\ Refers(call[c])
          BY <1>2 DEF Types, CallsOK, References
        <4>4. call[c].auto \in Visit
          BY <4>2, <4>3 DEF CallOK
        <4> QED BY <4>1, <4>2, <4>3, <4>4, CardTypes DEF Refers
      <3> DEFINE a0 == call[c].auto
                 k0 == auto[a0].step + 1
      <3>2. /\ Others(c) /\ call'[c].pc = "create" /\ call'[c].job.auto = a0 /\ call'[c].job.step = k0 /\ call'[c].auto = a0
        <4>1. call'[c].job = Job(c, AutoOf(c).step + 1) /\ Others(c) /\ call'[c].pc = "create" /\ call'[c].auto = a0
          BY <1>2, <2>9, StartNextCall
        <4> QED BY <4>1 DEF Job, AutoOf
      <3>3. run' = run /\ waiting' = NoRun
        BY <2>9 DEF StartNext, Restart
      <3>4. a0 \in Visit /\ auto[a0].step \in Nat /\ auto[a0].recoveries \in Nat /\ auto[a0].lane \in Lanes /\ MaxRecovery \in Nat
        BY <1>3, <3>1, BudgetAssumption DEF AutoType
      <3>5. -c \in Ids /\ -c < 0 /\ -(-c) = c
        BY IdsFinite
      <3> HIDE DEF a0, k0
      <3>6. ASSUME NEW a \in Visit, NEW k \in Nat \ {0}
            PROVE  /\ Cardinality(Claims(a, k))' <= Cardinality(Claims(a, k)) + 1
                   /\ a # a0 \/ k # k0 => Cardinality(Claims(a, k))' <= Cardinality(Claims(a, k))
                   /\ Cardinality(Claims(a, k)) \in Nat /\ Cardinality(Claims(a, k))' \in Int
        <4>1. \A z \in Ids \ {-c} : Claim(z, a, k)' => Claim(z, a, k)
          <5>1. \A z \in Ids : z # -c /\ -z \in Calls => -z # c
            BY <3>5 DEF Calls, Ids
          <5> QED BY <3>2, <3>3, <5>1, CardTypes DEF Claim, Others, NoRun
        <4>2. a # a0 \/ k # k0 => ~ Claim(-c, a, k)'
          BY <3>2, <3>3, <3>5, CardTypes DEF Claim, Session, NoRun
        <4>3. Cardinality(Claims(a, k))' \in Int
          <5>1. IsFiniteSet(Claims(a, k)')
            BY IdsFinite, FS_Subset DEF Claims
          <5> QED BY <5>1, FS_CardinalityType
        <4> QED BY <3>5, <4>1, <4>2, <4>3, AddClaim, IdsFinite
      <3>7. /\ SameAutos({a0}) /\ auto'[a0].lane = auto[a0].lane /\ auto'[a0].step = k0 /\ auto'[a0].recoveries = 0
            /\ k0 = auto[a0].step + 1
        BY <1>2, <2>9, StartNextAuto DEF SameLane, a0, k0
      <3>8. ASSUME NEW a \in Visit, Counted(a)' PROVE BudgetOK(a)'
        <4>1. BudgetOK(a)
          BY <1>1, <3>7, <3>8 DEF Budgets, Counted, SameAutos
        <4>2. CASE a # a0
          <5>1. auto'[a] = auto[a]
            BY <3>7, <4>2 DEF SameAutos
          <5>2. ASSUME NEW k \in Nat \ {0} PROVE Cardinality(Claims(a, k))' <= Cardinality(Claims(a, k))
            BY <3>6, <4>2
          <5>3. auto[a].step \in Nat /\ auto[a].recoveries \in Nat /\ Budget(auto[a].lane) \in Nat
            BY <1>3, <3>4 DEF AutoType, Budget
          <5>4. ASSUME NEW k \in Nat \ {0}
                PROVE  Cardinality(Claims(a, k))' <= IF k > auto[a].step THEN 0
                         ELSE 1 + (IF k = auto[a].step THEN auto[a].recoveries ELSE Budget(auto[a].lane))
            <6> DEFINE n == IF k > auto[a].step THEN 0
                            ELSE 1 + (IF k = auto[a].step THEN auto[a].recoveries ELSE Budget(auto[a].lane))
            <6>1. Cardinality(Claims(a, k)) <= n /\ n \in Nat
              BY <4>1, <5>3 DEF BudgetOK
            <6> HIDE DEF n
            <6>2. Cardinality(Claims(a, k))' <= n
              BY <3>6, <5>2, <6>1
            <6> QED BY <6>2 DEF n
          <5> QED BY <4>1, <5>1, <5>4 DEF BudgetOK
        <4>3. CASE a = a0
          <5>1. auto[a].recoveries <= Budget(auto[a].lane) /\ Budget(auto[a].lane) \in Nat
            BY <3>4, <4>1 DEF BudgetOK, Budget
          <5>2. ASSUME NEW k \in Nat \ {0}
                PROVE  Cardinality(Claims(a, k))' <= IF k > k0 THEN 0
                         ELSE 1 + (IF k = k0 THEN 0 ELSE Budget(auto[a].lane))
            <6>1. Cardinality(Claims(a, k)) <= IF k > auto[a].step THEN 0
                           ELSE 1 + (IF k = auto[a].step THEN auto[a].recoveries ELSE Budget(auto[a].lane))
              BY <4>1 DEF BudgetOK
            <6> DEFINE q == Cardinality(Claims(a, k))
                       p == Cardinality(Claims(a, k))'
            <6>2. q \in Nat /\ p \in Int /\ p <= q + 1 /\ (k # k0 => p <= q)
              BY <3>6, <4>3
            <6> HIDE DEF p, q
            <6>3. q <= IF k > auto[a].step THEN 0
                       ELSE 1 + (IF k = auto[a].step THEN auto[a].recoveries ELSE Budget(auto[a].lane))
              BY <6>1 DEF q
            <6>4. p <= IF k > k0 THEN 0 ELSE 1 + (IF k = k0 THEN 0 ELSE Budget(auto[a].lane))
              <7>1. CASE k > k0
                BY <3>4, <3>7, <4>3, <6>2, <6>3, <7>1
              <7>2. CASE k = k0
                BY <3>4, <3>7, <4>3, <6>2, <6>3, <7>2
              <7>3. CASE k < k0
                BY <3>4, <3>7, <4>3, <5>1, <6>2, <6>3, <7>3
              <7> QED BY <3>4, <3>7, <7>1, <7>2, <7>3
            <6> QED BY <6>4 DEF p
          <5> QED BY <3>7, <4>3, <5>1, <5>2 DEF BudgetOK
        <4> QED BY <4>2, <4>3
      <3>9. RecoverOK'
        <4> SUFFICES ASSUME NEW d \in Calls, call'[d].why = "fallback", call'[d].recover, call'[d].pc \in Asking \cup {"recover"}
                     PROVE  /\ auto'[call'[d].auto].lane = "dev" /\ MaxRecovery > 0
                            /\ interrupted' \/ auto'[call'[d].auto].recoveries = 0
          BY DEF RecoverOK, Recoverable
        <4>1. CASE d # c
          <5>1. call'[d] = call[d]
            BY <3>2, <4>1 DEF Others
          <5>2. /\ auto[call[d].auto].lane = "dev" /\ MaxRecovery > 0
                /\ interrupted \/ auto[call[d].auto].recoveries = 0
            BY <5>1 DEF RecoverOK, Recoverable
          <5>3. Handles(call[d]) /\ Driver(call[d]) /\ call[d].auto \in Visit
            BY <1>2, <5>1 DEF Handles, Driver, Asking, Types, CallsOK, CallOK
          <5>4. ~ interrupted' => FALSE
            BY <1>1, <3>1, <4>1, <5>3, TheDriver DEF LaneInv, LaneCalm
          <5> QED BY <3>7, <5>1, <5>2, <5>3, <5>4 DEF SameAutos
        <4>2. CASE d = c
          <5>1. /\ call'[c].recover = ShouldRecover(c) /\ call'[c].why = (IF Success(call[c].ev) THEN "next" ELSE "fallback")
            BY <1>2, <2>9, StartNextCall
          <5>2. auto[a0].lane = "dev" /\ auto[a0].recoveries < MaxRecovery
            BY <4>2, <5>1 DEF ShouldRecover, AutoOf, a0
          <5> QED BY <3>2, <3>4, <3>7, <4>2, <5>2, SMTT(30)
        <4> QED BY <4>1, <4>2
      <3> QED BY <3>8, <3>9 DEF Budgets
    <2>10. CASE Recover(c)
      <3>1. /\ Handles(call[c]) /\ Driver(call[c]) /\ call[c].pc \in {"judge", "recover"} /\ call[c].auto \in Visit
            /\ Used(call[c].auto)
        <4>1. call[c].pc \in {"judge", "recover"}
          BY <2>10 DEF Recover, At
        <4>2. Handles(call[c]) /\ Driver(call[c])
          BY <4>1 DEF Handles, Driver
        <4>3. CallOK(call[c]) /\ Refers(call[c])
          BY <1>2 DEF Types, CallsOK, References
        <4>4. call[c].auto \in Visit
          BY <4>2, <4>3 DEF CallOK
        <4> QED BY <4>1, <4>2, <4>3, <4>4, CardTypes DEF Refers
      <3> DEFINE a0 == call[c].auto
                 k0 == auto[a0].step
      <3>2. /\ Others(c) /\ call'[c].pc = "create" /\ call'[c].job.auto = a0 /\ call'[c].job.step = k0 /\ call'[c].auto = a0
        <4>1. call'[c].job = Job(c, AutoOf(c).step) /\ Others(c) /\ call'[c].pc = "create" /\ call'[c].auto = a0
          BY <1>2, <2>10, RecoverCall DEF SameTask
        <4> QED BY <4>1 DEF Job, AutoOf
      <3>3. run' = run /\ waiting' = NoRun
        BY <2>10 DEF Recover, Restart
      <3>4. a0 \in Visit /\ auto[a0].step \in Nat /\ auto[a0].recoveries \in Nat /\ auto[a0].lane \in Lanes /\ MaxRecovery \in Nat
        BY <1>3, <3>1, BudgetAssumption DEF AutoType
      <3>5. -c \in Ids /\ -c < 0 /\ -(-c) = c
        BY IdsFinite
      <3> HIDE DEF a0, k0
      <3>6. ASSUME NEW a \in Visit, NEW k \in Nat \ {0}
            PROVE  /\ Cardinality(Claims(a, k))' <= Cardinality(Claims(a, k)) + 1
                   /\ a # a0 \/ k # k0 => Cardinality(Claims(a, k))' <= Cardinality(Claims(a, k))
                   /\ Cardinality(Claims(a, k)) \in Nat /\ Cardinality(Claims(a, k))' \in Int
        <4>1. \A z \in Ids \ {-c} : Claim(z, a, k)' => Claim(z, a, k)
          <5>1. \A z \in Ids : z # -c /\ -z \in Calls => -z # c
            BY <3>5 DEF Calls, Ids
          <5> QED BY <3>2, <3>3, <5>1, CardTypes DEF Claim, Others, NoRun
        <4>2. a # a0 \/ k # k0 => ~ Claim(-c, a, k)'
          BY <3>2, <3>3, <3>5, CardTypes DEF Claim, Session, NoRun
        <4>3. Cardinality(Claims(a, k))' \in Int
          <5>1. IsFiniteSet(Claims(a, k)')
            BY IdsFinite, FS_Subset DEF Claims
          <5> QED BY <5>1, FS_CardinalityType
        <4> QED BY <3>5, <4>1, <4>2, <4>3, AddClaim, IdsFinite
      <3>7. /\ SameAutos({a0}) /\ auto'[a0].lane = auto[a0].lane /\ auto'[a0].step = auto[a0].step
            /\ auto'[a0].recoveries = auto[a0].recoveries + 1 /\ k0 = auto[a0].step
        BY <1>2, <2>10, RecoverAuto DEF SameLane, a0, k0
      <3>8. auto[a0].lane = "dev" /\ (~ interrupted' => auto[a0].recoveries < MaxRecovery)
        <4>1. CASE call[c].pc = "judge"
          BY <2>10, <4>1 DEF Recover, At, ShouldRecover, AutoOf, a0
        <4>2. CASE call[c].pc = "recover"
          <5>1. call[c].why = "fallback" /\ call[c].recover
            BY <1>2, <4>2 DEF Types, CallsOK, CallOK
          <5> QED BY <1>1, <3>4, <4>2, <5>1 DEF RecoverOK, Recoverable, a0
        <4> QED BY <3>1, <4>1, <4>2
      <3>9. ASSUME NEW a \in Visit, Counted(a)' PROVE BudgetOK(a)'
        <4>1. BudgetOK(a)
          BY <1>1, <3>7, <3>9 DEF Budgets, Counted, SameAutos
        <4>2. auto[a].step \in Nat /\ auto[a].recoveries \in Nat /\ Budget(auto[a].lane) \in Nat
          BY <1>3, <3>4 DEF AutoType, Budget
        <4>3. auto'[a].lane = auto[a].lane /\ auto'[a].step = auto[a].step /\ (a # a0 => auto'[a] = auto[a])
          BY <3>7 DEF SameAutos
        <4>4. auto'[a].recoveries <= Budget(auto'[a].lane)
          <5>1. CASE a = a0
            <6>1. ~ interrupted'
              BY <3>7, <3>9, <3>8, <5>1 DEF Counted
            <6> QED BY <3>4, <3>7, <3>8, <5>1, <6>1 DEF Budget
          <5>2. CASE a # a0
            BY <4>1, <4>3, <5>2 DEF BudgetOK
          <5> QED BY <5>1, <5>2
        <4>5. ASSUME NEW k \in Nat \ {0}
              PROVE  Cardinality(Claims(a, k))' <= IF k > auto'[a].step THEN 0
                       ELSE 1 + (IF k = auto'[a].step THEN auto'[a].recoveries ELSE Budget(auto'[a].lane))
          <5> DEFINE q == Cardinality(Claims(a, k))
                     p == Cardinality(Claims(a, k))'
          <5>1. q \in Nat /\ p \in Int /\ p <= q + 1 /\ (a # a0 \/ k # k0 => p <= q)
            BY <3>6
          <5>2. q <= IF k > auto[a].step THEN 0
                     ELSE 1 + (IF k = auto[a].step THEN auto[a].recoveries ELSE Budget(auto[a].lane))
            BY <4>1 DEF BudgetOK
          <5> HIDE DEF p, q
          <5>3. p <= IF k > auto'[a].step THEN 0
                     ELSE 1 + (IF k = auto'[a].step THEN auto'[a].recoveries ELSE Budget(auto'[a].lane))
            <6>1. CASE a = a0 /\ k = k0
              BY <3>7, <4>2, <4>3, <5>1, <5>2, <6>1
            <6>2. CASE a # a0
              BY <4>2, <4>3, <5>1, <5>2, <6>2
            <6>3. CASE a = a0 /\ k # k0
              BY <3>7, <4>2, <4>3, <5>1, <5>2, <6>3
            <6> QED BY <6>1, <6>2, <6>3
          <5> QED BY <5>3 DEF p
        <4> QED BY <4>4, <4>5 DEF BudgetOK
      <3>10. RecoverOK'
        <4> SUFFICES ASSUME NEW d \in Calls, call'[d].why = "fallback", call'[d].recover, call'[d].pc \in Asking \cup {"recover"}
                     PROVE  /\ auto'[call'[d].auto].lane = "dev" /\ MaxRecovery > 0
                            /\ interrupted' \/ auto'[call'[d].auto].recoveries = 0
          BY DEF RecoverOK, Recoverable
        <4>1. CASE d # c
          <5>1. call'[d] = call[d]
            BY <3>2, <4>1 DEF Others
          <5>2. /\ auto[call[d].auto].lane = "dev" /\ MaxRecovery > 0
                /\ interrupted \/ auto[call[d].auto].recoveries = 0
            BY <5>1 DEF RecoverOK, Recoverable
          <5>3. Handles(call[d]) /\ Driver(call[d]) /\ call[d].auto \in Visit
            BY <1>2, <5>1 DEF Handles, Driver, Asking, Types, CallsOK, CallOK
          <5>4. ~ interrupted' => FALSE
            BY <1>1, <3>1, <4>1, <5>3, TheDriver DEF LaneInv, LaneCalm
          <5> QED BY <3>7, <5>1, <5>2, <5>3, <5>4 DEF SameAutos
        <4>2. CASE d = c
          <5>1. call'[c].why = "recover"
            BY <1>2, <2>10, RecoverCall
          <5> QED BY <4>2, <5>1
        <4> QED BY <4>1, <4>2
      <3> QED BY <3>9, <3>10 DEF Budgets
    <2>11. CASE NothingFollows(c)
      <3>1. \A a \in Visit : /\ auto'[a].lane = auto[a].lane /\ auto'[a].step = auto[a].step
                            /\ auto'[a].recoveries = auto[a].recoveries
        BY <2>11 DEF NothingFollows
      <3>2. \A d \in Calls : call'[d] = call[d] \/ call'[d].pc \notin Asking \cup {"recover"}
        <4>1. Others(c) /\ call'[c].pc \notin Asking \cup {"recover"}
          BY <1>2, <2>11, NothingFollowsCall DEF NothingFollows, At, Asking
        <4> QED BY <4>1 DEF Others
      <3>3. \A a \in Visit : \A k \in Nat \ {0} : Cardinality(Claims(a, k))' <= Cardinality(Claims(a, k))
        <4>1. run' = run /\ (waiting' = waiting \/ waiting' = NoRun)
          BY <2>11 DEF NothingFollows
        <4>2. \A d \in Calls : call'[d].pc \in {"create", "spawning"} =>
                call[d].pc \in {"create", "spawning"} /\ call'[d].job = call[d].job
          BY <3>2 DEF Asking
        <4> QED BY <1>2, <4>1, <4>2, KeepClaims
      <3>4. \A d \in Calls : call'[d].why = "fallback" /\ call'[d].recover /\ call'[d].pc \in Asking \cup {"recover"} =>
              /\ call[d].why = "fallback" /\ call[d].recover /\ call[d].pc \in Asking \cup {"recover"}
              /\ call'[d].auto = call[d].auto
        BY <3>2 DEF Asking
      <3> QED BY <1>1, <1>2, <3>1, <3>3, <3>4, KeepBudgets, KeepRecoverOK
    <2>12. CASE CreateTakesTrigger(c)
      <3>1. \A a \in Visit : /\ auto'[a].lane = auto[a].lane /\ auto'[a].step = auto[a].step
                            /\ auto'[a].recoveries = auto[a].recoveries
        BY <2>12 DEF CreateTakesTrigger
      <3>2. \A d \in Calls : \/ call'[d] = call[d] \/ call'[d].pc \notin Asking \cup {"recover"}
                             \/ /\ call'[d].auto = call[d].auto /\ call'[d].recover = call[d].recover
                                /\ call'[d].why = call[d].why /\ call'[d].job = call[d].job /\ call[d].pc \in Asking
                                /\ call'[d].pc \in {"create", "spawning"} => call[d].pc \in {"create", "spawning"}
        <4>1. call[c].pc = "create"
          BY <2>12 DEF CreateTakesTrigger, At
        <4> QED BY <1>2, <4>1, <2>12, CreateTakesTriggerCall DEF Others, Asking, SameTask, SamePlan
      <3>3. \A a \in Visit : \A k \in Nat \ {0} : Cardinality(Claims(a, k))' <= Cardinality(Claims(a, k))
        <4>1. run' = run /\ (waiting' = waiting \/ waiting' = NoRun)
          BY <2>12 DEF CreateTakesTrigger
        <4>2. \A d \in Calls : call'[d].pc \in {"create", "spawning"} =>
                call[d].pc \in {"create", "spawning"} /\ call'[d].job = call[d].job
          BY <3>2 DEF Asking
        <4> QED BY <1>2, <4>1, <4>2, KeepClaims
      <3>4. \A d \in Calls : call'[d].why = "fallback" /\ call'[d].recover /\ call'[d].pc \in Asking \cup {"recover"} =>
              /\ call[d].why = "fallback" /\ call[d].recover /\ call[d].pc \in Asking \cup {"recover"}
              /\ call'[d].auto = call[d].auto
        BY <3>2 DEF Asking
      <3> QED BY <1>1, <1>2, <3>1, <3>3, <3>4, KeepBudgets, KeepRecoverOK
    <2>13. CASE CreateQueues(c)
      <3>1. \A a \in Visit : /\ auto'[a].lane = auto[a].lane /\ auto'[a].step = auto[a].step
                            /\ auto'[a].recoveries = auto[a].recoveries
        BY <2>13 DEF CreateQueues
      <3>2. \A d \in Calls : \/ call'[d] = call[d] \/ call'[d].pc \notin Asking \cup {"recover"}
                             \/ /\ call'[d].auto = call[d].auto /\ call'[d].recover = call[d].recover
                                /\ call'[d].why = call[d].why /\ call'[d].job = call[d].job /\ call[d].pc \in Asking
                                /\ call'[d].pc \in {"create", "spawning"} => call[d].pc \in {"create", "spawning"}
        <4>1. call[c].pc = "create"
          BY <2>13 DEF CreateQueues, At
        <4> QED BY <1>2, <4>1, <2>13, CreateQueuesCall DEF Others, Asking, SameTask, SamePlan
      <3>3. \A a \in Visit : \A k \in Nat \ {0} : Cardinality(Claims(a, k))' <= Cardinality(Claims(a, k))
        <4> SUFFICES ASSUME NEW a \in Visit, NEW k \in Nat \ {0}
                     PROVE  Cardinality(Claims(a, k))' <= Cardinality(Claims(a, k))
          OBVIOUS
        <4>1. call[c].pc = "create" /\ Others(c) /\ call'[c].pc = "created"
          BY <1>2, <2>13, CreateQueuesCall DEF CreateQueues, At
        <4>2. run' = run /\ waiting' \in {waiting, call[c].job}
          BY <2>13 DEF CreateQueues
        <4>3. -c \in Ids /\ -c < 0 /\ -(-c) = c /\ 0 \in Ids
          BY IdsFinite
        <4>4. \A z \in Ids \ {0} : Claim(z, a, k)' => Claim(z, a, k) /\ z # -c
          BY <4>1, <4>2, <4>3 DEF Claim, Others, Session, Calls
        <4>5. CASE waiting' = waiting
          <5>1. \A z \in Ids : Claim(z, a, k)' => Claim(z, a, k)
            BY <4>1, <4>2, <4>3, <4>5 DEF Claim, Others, Session, Calls
          <5>2. ~ Claim(0, a, k)' => Cardinality(Claims(a, k))' <= Cardinality(Claims(a, k))
            BY <4>3, <5>1, AddClaim
          <5>3. Claim(0, a, k)' => Cardinality(Claims(a, k))' <= Cardinality(Claims(a, k))
            BY <4>3, <5>1, MoveClaim
          <5> QED BY <5>2, <5>3
        <4>6. CASE waiting' = call[c].job
          <5>1. Claim(0, a, k)' => Claim(-c, a, k)
            BY <4>1, <4>3, <4>6, Bounds DEF Claim, Session, Calls
          <5> QED BY <4>3, <4>4, <5>1, MoveClaim
        <4> QED BY <4>2, <4>5, <4>6
      <3>4. \A d \in Calls : call'[d].why = "fallback" /\ call'[d].recover /\ call'[d].pc \in Asking \cup {"recover"} =>
              /\ call[d].why = "fallback" /\ call[d].recover /\ call[d].pc \in Asking \cup {"recover"}
              /\ call'[d].auto = call[d].auto
        BY <3>2 DEF Asking
      <3> QED BY <1>1, <1>2, <3>1, <3>3, <3>4, KeepBudgets, KeepRecoverOK
    <2>14. CASE CreateStarts(c)
      <3>1. \A a \in Visit : /\ auto'[a].lane = auto[a].lane /\ auto'[a].step = auto[a].step
                            /\ auto'[a].recoveries = auto[a].recoveries
        BY <2>14 DEF CreateStarts
      <3>2. \A d \in Calls : \/ call'[d] = call[d] \/ call'[d].pc \notin Asking \cup {"recover"}
                             \/ /\ call'[d].auto = call[d].auto /\ call'[d].recover = call[d].recover
                                /\ call'[d].why = call[d].why /\ call'[d].job = call[d].job /\ call[d].pc \in Asking
                                /\ call'[d].pc \in {"create", "spawning"} => call[d].pc \in {"create", "spawning"}
        <4>1. call[c].pc = "create"
          BY <2>14 DEF CreateStarts, At
        <4> QED BY <1>2, <4>1, <2>14, CreateStartsCall DEF Others, Asking, SameTask
      <3>3. \A a \in Visit : \A k \in Nat \ {0} : Cardinality(Claims(a, k))' <= Cardinality(Claims(a, k))
        <4>1. run' = run /\ (waiting' = waiting \/ waiting' = NoRun)
          BY <2>14 DEF CreateStarts
        <4>2. \A d \in Calls : call'[d].pc \in {"create", "spawning"} =>
                call[d].pc \in {"create", "spawning"} /\ call'[d].job = call[d].job
          BY <3>2 DEF Asking
        <4> QED BY <1>2, <4>1, <4>2, KeepClaims
      <3>4. \A d \in Calls : call'[d].why = "fallback" /\ call'[d].recover /\ call'[d].pc \in Asking \cup {"recover"} =>
              /\ call[d].why = "fallback" /\ call[d].recover /\ call[d].pc \in Asking \cup {"recover"}
              /\ call'[d].auto = call[d].auto
        BY <3>2 DEF Asking
      <3> QED BY <1>1, <1>2, <3>1, <3>3, <3>4, KeepBudgets, KeepRecoverOK
    <2>15. CASE Spawned(c)
      <3>1. \A a \in Visit : /\ auto'[a].lane = auto[a].lane /\ auto'[a].step = auto[a].step
                            /\ auto'[a].recoveries = auto[a].recoveries
        BY <2>15 DEF Spawned
      <3>2. PICK s \in Session : /\ proc[s] = "none" /\ run' = [run EXCEPT ![s] = call[c].job]
                                 /\ IF call[c].why = "queue" THEN Return(c) ELSE Answer(c, "session", s)
        BY <2>15 DEF Spawned
      <3>3. call[c].pc = "spawning" /\ waiting' = waiting
        BY <2>15 DEF Spawned, At
      <3>4. \A d \in Calls : \/ call'[d] = call[d] \/ call'[d].pc \notin Asking \cup {"recover"}
                             \/ /\ call'[d].auto = call[d].auto /\ call'[d].recover = call[d].recover
                                /\ call'[d].why = call[d].why /\ call[d].pc \in Asking
        BY <1>2, <3>2, <3>3, SpawnedCall, IdleFields DEF Others, Asking, SameTask
      <3>5. \A a \in Visit : \A k \in Nat \ {0} : Cardinality(Claims(a, k))' <= Cardinality(Claims(a, k))
        <4> SUFFICES ASSUME NEW a \in Visit, NEW k \in Nat \ {0}
                     PROVE  Cardinality(Claims(a, k))' <= Cardinality(Claims(a, k))
          OBVIOUS
        <4>1. Others(c) /\ call'[c].pc \notin {"create", "spawning"}
          BY <1>2, <3>2, <3>3, SpawnedCall, IdleFields
        <4>2. run'[s] = call[c].job /\ \A r \in Session \ {s} : run'[r] = run[r]
          BY <1>2, <3>2 DEF Types, TypeOK
        <4>3. -c \in Ids /\ -c < 0 /\ -(-c) = c /\ s \in Ids /\ s > 0
          BY IdsFinite
        <4>4. \A z \in Ids \ {s} : Claim(z, a, k)' => Claim(z, a, k) /\ z # -c
          BY <3>3, <4>1, <4>2, <4>3 DEF Claim, Others, Session, Calls
        <4>5. Claim(s, a, k)' => Claim(-c, a, k)
          BY <3>3, <4>2, <4>3, Bounds DEF Claim, Session, Calls
        <4> QED BY <4>3, <4>4, <4>5, MoveClaim
      <3>6. \A d \in Calls : call'[d].why = "fallback" /\ call'[d].recover /\ call'[d].pc \in Asking \cup {"recover"} =>
              /\ call[d].why = "fallback" /\ call[d].recover /\ call[d].pc \in Asking \cup {"recover"}
              /\ call'[d].auto = call[d].auto
        BY <3>4 DEF Asking
      <3> QED BY <1>1, <1>2, <3>1, <3>5, <3>6, KeepBudgets, KeepRecoverOK
    <2>16. CASE SpawnFails(c)
      <3>1. \A a \in Visit : /\ auto'[a].lane = auto[a].lane /\ auto'[a].step = auto[a].step
                            /\ auto'[a].recoveries = auto[a].recoveries
        BY <2>16 DEF SpawnFails
      <3>2. \A d \in Calls : \/ call'[d] = call[d] \/ call'[d].pc \notin Asking \cup {"recover"}
                             \/ /\ call'[d].auto = call[d].auto /\ call'[d].recover = call[d].recover
                                /\ call'[d].why = call[d].why /\ call'[d].job = call[d].job /\ call[d].pc \in Asking
                                /\ call'[d].pc \in {"create", "spawning"} => call[d].pc \in {"create", "spawning"}
        <4>1. call[c].pc = "spawning"
          BY <2>16 DEF SpawnFails, At
        <4> QED BY <1>2, <4>1, <2>16, SpawnFailsCall, IdleFields DEF Others, Asking, SameTask, SamePlan
      <3>3. \A a \in Visit : \A k \in Nat \ {0} : Cardinality(Claims(a, k))' <= Cardinality(Claims(a, k))
        <4>1. run' = run /\ (waiting' = waiting \/ waiting' = NoRun)
          BY <2>16 DEF SpawnFails
        <4>2. \A d \in Calls : call'[d].pc \in {"create", "spawning"} =>
                call[d].pc \in {"create", "spawning"} /\ call'[d].job = call[d].job
          BY <3>2 DEF Asking
        <4> QED BY <1>2, <4>1, <4>2, KeepClaims
      <3>4. \A d \in Calls : call'[d].why = "fallback" /\ call'[d].recover /\ call'[d].pc \in Asking \cup {"recover"} =>
              /\ call[d].why = "fallback" /\ call[d].recover /\ call[d].pc \in Asking \cup {"recover"}
              /\ call'[d].auto = call[d].auto
        BY <3>2 DEF Asking
      <3> QED BY <1>1, <1>2, <3>1, <3>3, <3>4, KeepBudgets, KeepRecoverOK
    <2>17. CASE Entered(c)
      <3>1. \A a \in Visit : /\ auto'[a].lane = auto[a].lane /\ auto'[a].step = auto[a].step
                            /\ auto'[a].recoveries = auto[a].recoveries
        <4>1. call[c].auto \in Visit /\ auto' = WithSession(c)
          BY <1>2, <2>17 DEF Entered, At, Types, CallsOK, CallOK, Enters
        <4> QED BY <1>2, <4>1, WithSessionType
      <3>2. \A d \in Calls : call'[d] = call[d] \/ call'[d].pc \notin Asking \cup {"recover"}
        <4>1. Others(c) /\ call'[c] = Idle
          BY <1>2, <2>17, ReturnCall DEF Entered
        <4> QED BY <4>1, IdleFields DEF Others, Asking
      <3>3. \A a \in Visit : \A k \in Nat \ {0} : Cardinality(Claims(a, k))' <= Cardinality(Claims(a, k))
        <4>1. run' = run /\ (waiting' = waiting \/ waiting' = NoRun)
          BY <2>17 DEF Entered
        <4>2. \A d \in Calls : call'[d].pc \in {"create", "spawning"} =>
                call[d].pc \in {"create", "spawning"} /\ call'[d].job = call[d].job
          BY <3>2 DEF Asking
        <4> QED BY <1>2, <4>1, <4>2, KeepClaims
      <3>4. \A d \in Calls : call'[d].why = "fallback" /\ call'[d].recover /\ call'[d].pc \in Asking \cup {"recover"} =>
              /\ call[d].why = "fallback" /\ call[d].recover /\ call[d].pc \in Asking \cup {"recover"}
              /\ call'[d].auto = call[d].auto
        BY <3>2 DEF Asking
      <3> QED BY <1>1, <1>2, <3>1, <3>3, <3>4, KeepBudgets, KeepRecoverOK
    <2>18. CASE Continued(c)
      <3>1. \A a \in Visit : /\ auto'[a].lane = auto[a].lane /\ auto'[a].step = auto[a].step
                            /\ auto'[a].recoveries = auto[a].recoveries
        BY <1>2, <2>18, ContinuedAuto DEF SameAutos, SameLane
      <3>2. \A d \in Calls : call'[d] = call[d] \/ call'[d].pc \notin Asking \cup {"recover"}
        <4>1. Others(c) /\ call'[c] = Idle
          BY <1>2, <2>18, ReturnCall DEF Continued
        <4> QED BY <4>1, IdleFields DEF Others, Asking
      <3>3. \A a \in Visit : \A k \in Nat \ {0} : Cardinality(Claims(a, k))' <= Cardinality(Claims(a, k))
        <4>1. run' = run /\ (waiting' = waiting \/ waiting' = NoRun)
          BY <2>18 DEF Continued
        <4>2. \A d \in Calls : call'[d].pc \in {"create", "spawning"} =>
                call[d].pc \in {"create", "spawning"} /\ call'[d].job = call[d].job
          BY <3>2 DEF Asking
        <4> QED BY <1>2, <4>1, <4>2, KeepClaims
      <3>4. \A d \in Calls : call'[d].why = "fallback" /\ call'[d].recover /\ call'[d].pc \in Asking \cup {"recover"} =>
              /\ call[d].why = "fallback" /\ call[d].recover /\ call[d].pc \in Asking \cup {"recover"}
              /\ call'[d].auto = call[d].auto
        BY <3>2 DEF Asking
      <3> QED BY <1>1, <1>2, <3>1, <3>3, <3>4, KeepBudgets, KeepRecoverOK
    <2>19. CASE NotContinued(c)
      <3>1. \A a \in Visit : /\ auto'[a].lane = auto[a].lane /\ auto'[a].step = auto[a].step
                            /\ auto'[a].recoveries = auto[a].recoveries
        BY <1>2, <2>19, NotContinuedAuto DEF SameAutos, SameLane
      <3>2. \A d \in Calls : \/ call'[d] = call[d] \/ call'[d].pc \notin Asking \cup {"recover"}
                             \/ /\ call'[d].auto = call[d].auto /\ call'[d].recover = call[d].recover
                                /\ call'[d].why = call[d].why /\ call'[d].job = call[d].job /\ call[d].pc \in Asking
                                /\ call'[d].pc \in {"create", "spawning"} => call[d].pc \in {"create", "spawning"}
        <4>1. call[c].pc = "created"
          BY <2>19 DEF NotContinued, At
        <4> QED BY <1>2, <4>1, <2>19, NotContinuedCall DEF Others, Asking, SameTask, SamePlan
      <3>3. \A a \in Visit : \A k \in Nat \ {0} : Cardinality(Claims(a, k))' <= Cardinality(Claims(a, k))
        <4>1. run' = run /\ (waiting' = waiting \/ waiting' = NoRun)
          BY <2>19 DEF NotContinued
        <4>2. \A d \in Calls : call'[d].pc \in {"create", "spawning"} =>
                call[d].pc \in {"create", "spawning"} /\ call'[d].job = call[d].job
          BY <3>2 DEF Asking
        <4> QED BY <1>2, <4>1, <4>2, KeepClaims
      <3>4. \A d \in Calls : call'[d].why = "fallback" /\ call'[d].recover /\ call'[d].pc \in Asking \cup {"recover"} =>
              /\ call[d].why = "fallback" /\ call[d].recover /\ call[d].pc \in Asking \cup {"recover"}
              /\ call'[d].auto = call[d].auto
        BY <3>2 DEF Asking
      <3> QED BY <1>1, <1>2, <3>1, <3>3, <3>4, KeepBudgets, KeepRecoverOK
    <2>20. CASE LaneEnds(c)
      <3>1. \A a \in Visit : /\ auto'[a].lane = auto[a].lane /\ auto'[a].step = auto[a].step
                            /\ auto'[a].recoveries = auto[a].recoveries
        <4>1. call[c].pc = "finish" /\ auto' = Over(c)
          BY <2>20 DEF LaneEnds, At
        <4> QED BY <1>2, <4>1, OverType
      <3>2. \A d \in Calls : call'[d] = call[d] \/ call'[d].pc \notin Asking \cup {"recover"}
        <4>1. Others(c) /\ call'[c] = Idle
          BY <1>2, <2>20, ReturnCall DEF LaneEnds
        <4> QED BY <4>1, IdleFields DEF Others, Asking
      <3>3. \A a \in Visit : \A k \in Nat \ {0} : Cardinality(Claims(a, k))' <= Cardinality(Claims(a, k))
        <4>1. run' = run /\ (waiting' = waiting \/ waiting' = NoRun)
          BY <2>20 DEF LaneEnds
        <4>2. \A d \in Calls : call'[d].pc \in {"create", "spawning"} =>
                call[d].pc \in {"create", "spawning"} /\ call'[d].job = call[d].job
          BY <3>2 DEF Asking
        <4> QED BY <1>2, <4>1, <4>2, KeepClaims
      <3>4. \A d \in Calls : call'[d].why = "fallback" /\ call'[d].recover /\ call'[d].pc \in Asking \cup {"recover"} =>
              /\ call[d].why = "fallback" /\ call[d].recover /\ call[d].pc \in Asking \cup {"recover"}
              /\ call'[d].auto = call[d].auto
        BY <3>2 DEF Asking
      <3> QED BY <1>1, <1>2, <3>1, <3>3, <3>4, KeepBudgets, KeepRecoverOK
    <2>21. CASE LaneAdvances(c)
      <3>1. \A a \in Visit : /\ auto'[a].lane = auto[a].lane /\ auto'[a].step = auto[a].step
                            /\ auto'[a].recoveries = auto[a].recoveries
        <4>1. call[c].pc = "finish" /\ auto' = Over(c)
          BY <2>21 DEF LaneAdvances, At
        <4> QED BY <1>2, <4>1, OverType
      <3>2. \A d \in Calls : call'[d] = call[d] \/ call'[d].pc \notin Asking \cup {"recover"}
        <4>1. Others(c) /\ call'[c].pc \notin Asking \cup {"recover"}
          BY <1>2, <2>21, LaneAdvancesCall DEF LaneAdvances, At, Arrives, Asking
        <4> QED BY <4>1 DEF Others
      <3>3. \A a \in Visit : \A k \in Nat \ {0} : Cardinality(Claims(a, k))' <= Cardinality(Claims(a, k))
        <4>1. run' = run /\ (waiting' = waiting \/ waiting' = NoRun)
          BY <2>21 DEF LaneAdvances
        <4>2. \A d \in Calls : call'[d].pc \in {"create", "spawning"} =>
                call[d].pc \in {"create", "spawning"} /\ call'[d].job = call[d].job
          BY <3>2 DEF Asking
        <4> QED BY <1>2, <4>1, <4>2, KeepClaims
      <3>4. \A d \in Calls : call'[d].why = "fallback" /\ call'[d].recover /\ call'[d].pc \in Asking \cup {"recover"} =>
              /\ call[d].why = "fallback" /\ call[d].recover /\ call[d].pc \in Asking \cup {"recover"}
              /\ call'[d].auto = call[d].auto
        BY <3>2 DEF Asking
      <3> QED BY <1>1, <1>2, <3>1, <3>3, <3>4, KeepBudgets, KeepRecoverOK
    <2>22. CASE LaneTearsDown(c)
      <3>1. \A a \in Visit : /\ auto'[a].lane = auto[a].lane /\ auto'[a].step = auto[a].step
                            /\ auto'[a].recoveries = auto[a].recoveries
        <4>1. call[c].pc = "finish" /\ auto' = Over(c)
          BY <2>22 DEF LaneTearsDown, At
        <4> QED BY <1>2, <4>1, OverType
      <3>2. \A d \in Calls : call'[d] = call[d] \/ call'[d].pc \notin Asking \cup {"recover"}
        <4>1. Others(c) /\ call'[c].pc \notin Asking \cup {"recover"}
          BY <1>2, <2>22, LaneTearsDownCall DEF LaneTearsDown, At, Asking
        <4> QED BY <4>1 DEF Others
      <3>3. \A a \in Visit : \A k \in Nat \ {0} : Cardinality(Claims(a, k))' <= Cardinality(Claims(a, k))
        <4>1. run' = run /\ (waiting' = waiting \/ waiting' = NoRun)
          BY <2>22 DEF LaneTearsDown
        <4>2. \A d \in Calls : call'[d].pc \in {"create", "spawning"} =>
                call[d].pc \in {"create", "spawning"} /\ call'[d].job = call[d].job
          BY <3>2 DEF Asking
        <4> QED BY <1>2, <4>1, <4>2, KeepClaims
      <3>4. \A d \in Calls : call'[d].why = "fallback" /\ call'[d].recover /\ call'[d].pc \in Asking \cup {"recover"} =>
              /\ call[d].why = "fallback" /\ call[d].recover /\ call[d].pc \in Asking \cup {"recover"}
              /\ call'[d].auto = call[d].auto
        BY <3>2 DEF Asking
      <3> QED BY <1>1, <1>2, <3>1, <3>3, <3>4, KeepBudgets, KeepRecoverOK
    <2>23. CASE EndOne(c)
      <3>1. \A a \in Visit : /\ auto'[a].lane = auto[a].lane /\ auto'[a].step = auto[a].step
                            /\ auto'[a].recoveries = auto[a].recoveries
        BY <2>23 DEF EndOne
      <3>2. \A d \in Calls : call'[d] = call[d] \/ call'[d].pc \notin Asking \cup {"recover"}
        <4>1. Others(c) /\ call'[c].pc \notin Asking \cup {"recover"}
          BY <1>2, <2>23, EndOneCall DEF EndOne, At, Asking
        <4> QED BY <4>1 DEF Others
      <3>3. \A a \in Visit : \A k \in Nat \ {0} : Cardinality(Claims(a, k))' <= Cardinality(Claims(a, k))
        <4>1. run' = run /\ (waiting' = waiting \/ waiting' = NoRun)
          BY <2>23 DEF EndOne
        <4>2. \A d \in Calls : call'[d].pc \in {"create", "spawning"} =>
                call[d].pc \in {"create", "spawning"} /\ call'[d].job = call[d].job
          BY <3>2 DEF Asking
        <4> QED BY <1>2, <4>1, <4>2, KeepClaims
      <3>4. \A d \in Calls : call'[d].why = "fallback" /\ call'[d].recover /\ call'[d].pc \in Asking \cup {"recover"} =>
              /\ call[d].why = "fallback" /\ call[d].recover /\ call[d].pc \in Asking \cup {"recover"}
              /\ call'[d].auto = call[d].auto
        BY <3>2 DEF Asking
      <3> QED BY <1>1, <1>2, <3>1, <3>3, <3>4, KeepBudgets, KeepRecoverOK
    <2>24. CASE AllEnded(c)
      <3>1. \A a \in Visit : /\ auto'[a].lane = auto[a].lane /\ auto'[a].step = auto[a].step
                            /\ auto'[a].recoveries = auto[a].recoveries
        BY <2>24 DEF AllEnded
      <3>2. \A d \in Calls : call'[d] = call[d] \/ call'[d].pc \notin Asking \cup {"recover"}
        <4>1. Others(c) /\ call'[c] = Idle
          BY <1>2, <2>24, ReturnCall DEF AllEnded
        <4> QED BY <4>1, IdleFields DEF Others, Asking
      <3>3. \A a \in Visit : \A k \in Nat \ {0} : Cardinality(Claims(a, k))' <= Cardinality(Claims(a, k))
        <4>1. run' = run /\ (waiting' = waiting \/ waiting' = NoRun)
          BY <2>24 DEF AllEnded
        <4>2. \A d \in Calls : call'[d].pc \in {"create", "spawning"} =>
                call[d].pc \in {"create", "spawning"} /\ call'[d].job = call[d].job
          BY <3>2 DEF Asking
        <4> QED BY <1>2, <4>1, <4>2, KeepClaims
      <3>4. \A d \in Calls : call'[d].why = "fallback" /\ call'[d].recover /\ call'[d].pc \in Asking \cup {"recover"} =>
              /\ call[d].why = "fallback" /\ call[d].recover /\ call[d].pc \in Asking \cup {"recover"}
              /\ call'[d].auto = call[d].auto
        BY <3>2 DEF Asking
      <3> QED BY <1>1, <1>2, <3>1, <3>3, <3>4, KeepBudgets, KeepRecoverOK
    <2>25. CASE EnterLane(c)
      <3>1. \A a \in Visit : /\ auto'[a].lane = auto[a].lane /\ auto'[a].step = auto[a].step
                            /\ auto'[a].recoveries = auto[a].recoveries
        BY <2>25 DEF EnterLane
      <3>2. \A d \in Calls : call'[d] = call[d] \/ call'[d].pc \notin Asking \cup {"recover"}
        <4>1. Others(c) /\ call'[c].pc \notin Asking \cup {"recover"}
          BY <1>2, <2>25, EnterLaneCall, IdleFields DEF EnterLane, At, Asking
        <4> QED BY <4>1 DEF Others
      <3>3. \A a \in Visit : \A k \in Nat \ {0} : Cardinality(Claims(a, k))' <= Cardinality(Claims(a, k))
        <4>1. run' = run /\ (waiting' = waiting \/ waiting' = NoRun)
          BY <2>25 DEF EnterLane
        <4>2. \A d \in Calls : call'[d].pc \in {"create", "spawning"} =>
                call[d].pc \in {"create", "spawning"} /\ call'[d].job = call[d].job
          BY <3>2 DEF Asking
        <4> QED BY <1>2, <4>1, <4>2, KeepClaims
      <3>4. \A d \in Calls : call'[d].why = "fallback" /\ call'[d].recover /\ call'[d].pc \in Asking \cup {"recover"} =>
              /\ call[d].why = "fallback" /\ call[d].recover /\ call[d].pc \in Asking \cup {"recover"}
              /\ call'[d].auto = call[d].auto
        BY <3>2 DEF Asking
      <3> QED BY <1>1, <1>2, <3>1, <3>3, <3>4, KeepBudgets, KeepRecoverOK
    <2>26. CASE Register(c)
      <3>1. /\ active' \in Visit /\ auto[active'].status = "none" /\ SameAutos({active'})
            /\ auto'[active'].step = 1 /\ auto'[active'].recoveries = 0 /\ auto'[active'].lane \in Lanes
        BY <1>2, <2>26, RegisterAuto
      <3>2. /\ Others(c) /\ call'[c].pc = "create" /\ call'[c].why = "enter" /\ call'[c].job.auto = active' /\ call'[c].job.step = 1
        BY <1>2, <2>26, RegisterCall
      <3>3. run' = run /\ waiting' = waiting
        BY <2>26 DEF Register
      <3>4. -c \in Ids /\ -c < 0 /\ -(-c) = c /\ MaxRecovery \in Nat
        BY IdsFinite, BudgetAssumption
      <3>5. PICK a0 \in Visit : a0 = active'
        BY <3>1
      <3>6. ASSUME NEW a \in Visit, NEW k \in Nat \ {0}
            PROVE  /\ Cardinality(Claims(a, k))' <= Cardinality(Claims(a, k)) + 1
                   /\ a # a0 \/ k # 1 => Cardinality(Claims(a, k))' <= Cardinality(Claims(a, k))
                   /\ Cardinality(Claims(a, k)) \in Nat /\ Cardinality(Claims(a, k))' \in Int
        <4>1. \A z \in Ids \ {-c} : Claim(z, a, k)' => Claim(z, a, k)
          <5>1. \A z \in Ids : z # -c /\ -z \in Calls => -z # c
            BY <3>4 DEF Calls, Ids
          <5> QED BY <3>2, <3>3, <5>1 DEF Claim, Others
        <4>2. a # a0 \/ k # 1 => ~ Claim(-c, a, k)'
          BY <3>2, <3>4, <3>5 DEF Claim, Session
        <4>3. Cardinality(Claims(a, k))' \in Int
          <5>1. IsFiniteSet(Claims(a, k)')
            BY IdsFinite, FS_Subset DEF Claims
          <5> QED BY <5>1, FS_CardinalityType
        <4> QED BY <3>4, <4>1, <4>2, <4>3, AddClaim, IdsFinite
      <3>7. ASSUME NEW k \in Nat \ {0} PROVE Cardinality(Claims(a0, k)) = 0
        <4>1. \A z \in Ids : ~ Claim(z, a0, k)
          <5>1. a0 # None /\ ~ Used(a0)
            BY <3>1, <3>5, CardTypes DEF Used
          <5>2. \A s \in Session : run[s].auto # a0
            BY <1>2, <5>1 DEF References, RestRefers, OfUse
          <5>3. waiting.auto # a0
            BY <1>2, <5>1 DEF References, RestRefers, OfUse, NoRun
          <5>4. \A d \in Calls : call[d].pc \in {"create", "spawning"} => call[d].job.auto # a0
            BY <1>2, <5>1 DEF References, Refers, OfUse
          <5> QED BY <5>2, <5>3, <5>4 DEF Claim
        <4>2. Claims(a0, k) = {}
          BY <4>1 DEF Claims
        <4> QED BY <4>2, FS_EmptySet
      <3>8. ASSUME NEW a \in Visit, Counted(a)' PROVE BudgetOK(a)'
        <4>1. CASE a # a0
          <5>1. auto'[a] = auto[a]
            BY <3>1, <3>5, <4>1 DEF SameAutos
          <5>2. BudgetOK(a)
            BY <1>1, <3>8, <5>1 DEF Budgets, Counted
          <5>3. auto[a].step \in Nat /\ auto[a].recoveries \in Nat /\ Budget(auto[a].lane) \in Nat
            BY <1>3, <3>4 DEF AutoType, Budget
          <5>4. ASSUME NEW k \in Nat \ {0}
                PROVE  Cardinality(Claims(a, k))' <= IF k > auto[a].step THEN 0
                         ELSE 1 + (IF k = auto[a].step THEN auto[a].recoveries ELSE Budget(auto[a].lane))
            <6> DEFINE n == IF k > auto[a].step THEN 0
                            ELSE 1 + (IF k = auto[a].step THEN auto[a].recoveries ELSE Budget(auto[a].lane))
            <6>1. Cardinality(Claims(a, k)) <= n /\ n \in Nat
              BY <5>2, <5>3 DEF BudgetOK
            <6> HIDE DEF n
            <6>2. Cardinality(Claims(a, k))' <= n
              BY <3>6, <4>1, <6>1
            <6> QED BY <6>2 DEF n
          <5> QED BY <5>1, <5>2, <5>4 DEF BudgetOK
        <4>2. CASE a = a0
          <5>1. auto'[a].step = 1 /\ auto'[a].recoveries = 0 /\ Budget(auto'[a].lane) \in Nat
            BY <3>1, <3>4, <3>5, <4>2 DEF Budget
          <5>2. ASSUME NEW k \in Nat \ {0}
                PROVE  Cardinality(Claims(a, k))' <= IF k > 1 THEN 0 ELSE 1
            BY <3>6, <3>7, <4>2
          <5>3. ASSUME NEW k \in Nat \ {0}
                PROVE  Cardinality(Claims(a, k))' <= IF k > auto'[a].step THEN 0
                         ELSE 1 + (IF k = auto'[a].step THEN auto'[a].recoveries ELSE Budget(auto'[a].lane))
            BY <5>1, <5>2
          <5> QED BY <5>1, <5>3 DEF BudgetOK
        <4> QED BY <4>1, <4>2
      <3>9. RecoverOK'
        <4>1. \A a \in Visit : Used(a) => auto'[a].lane = auto[a].lane /\ auto'[a].recoveries = auto[a].recoveries
          BY <3>1 DEF Used, SameAutos
        <4>2. \A d \in Calls : call'[d] = call[d] \/ call'[d].why # "fallback"
          BY <3>2 DEF Others
        <4> QED BY <1>1, <1>2, <4>1, <4>2, KeepRecoverOK
      <3> QED BY <3>8, <3>9 DEF Budgets
    <2> QED BY <1>4, <2>1, <2>2, <2>3, <2>4, <2>5, <2>6, <2>7, <2>8, <2>9, <2>10, <2>11, <2>12, <2>13, <2>14,
               <2>15, <2>16, <2>17, <2>18, <2>19, <2>20, <2>21, <2>22, <2>23, <2>24, <2>25, <2>26 DEF CallStep
  <1>5. ASSUME NEW s \in Session, Report(s) \/ TurnEnds(s) \/ TurnFails(s) \/ PromptBroke(s) \/ Exits(s)
        PROVE  Budgets' /\ RecoverOK'
    <2>1. CASE Report(s)
      <3>1. \A a \in Visit : /\ auto'[a].lane = auto[a].lane /\ auto'[a].step = auto[a].step
                            /\ auto'[a].recoveries = auto[a].recoveries
        BY <2>1 DEF Report
      <3>2. \A d \in Calls : call'[d] = call[d] \/ call'[d].pc \notin Asking \cup {"recover"}
        <4>1. PICK d \in Calls : Taken(d, s, "report")
          BY <1>2, <2>1, EmitCall DEF Report, Events
        <4> QED BY <4>1 DEF Taken, Others, Asking
      <3>3. \A a \in Visit : \A k \in Nat \ {0} : Cardinality(Claims(a, k))' <= Cardinality(Claims(a, k))
        <4>1. run' = run /\ (waiting' = waiting \/ waiting' = NoRun)
          BY <2>1 DEF Report
        <4>2. \A d \in Calls : call'[d].pc \in {"create", "spawning"} =>
                call[d].pc \in {"create", "spawning"} /\ call'[d].job = call[d].job
          BY <3>2 DEF Asking
        <4> QED BY <1>2, <4>1, <4>2, KeepClaims
      <3>4. \A d \in Calls : call'[d].why = "fallback" /\ call'[d].recover /\ call'[d].pc \in Asking \cup {"recover"} =>
              /\ call[d].why = "fallback" /\ call[d].recover /\ call[d].pc \in Asking \cup {"recover"}
              /\ call'[d].auto = call[d].auto
        BY <3>2 DEF Asking
      <3> QED BY <1>1, <1>2, <3>1, <3>3, <3>4, KeepBudgets, KeepRecoverOK
    <2>2. CASE TurnEnds(s)
      <3>1. \A a \in Visit : /\ auto'[a].lane = auto[a].lane /\ auto'[a].step = auto[a].step
                            /\ auto'[a].recoveries = auto[a].recoveries
        BY <2>2 DEF TurnEnds
      <3>2. \A d \in Calls : call'[d] = call[d] \/ call'[d].pc \notin Asking \cup {"recover"}
        <4>1. PICK d \in Calls : Taken(d, s, "end")
          BY <1>2, <2>2, EmitCall DEF TurnEnds, Events
        <4> QED BY <4>1 DEF Taken, Others, Asking
      <3>3. \A a \in Visit : \A k \in Nat \ {0} : Cardinality(Claims(a, k))' <= Cardinality(Claims(a, k))
        <4>1. run' = run /\ (waiting' = waiting \/ waiting' = NoRun)
          BY <2>2 DEF TurnEnds
        <4>2. \A d \in Calls : call'[d].pc \in {"create", "spawning"} =>
                call[d].pc \in {"create", "spawning"} /\ call'[d].job = call[d].job
          BY <3>2 DEF Asking
        <4> QED BY <1>2, <4>1, <4>2, KeepClaims
      <3>4. \A d \in Calls : call'[d].why = "fallback" /\ call'[d].recover /\ call'[d].pc \in Asking \cup {"recover"} =>
              /\ call[d].why = "fallback" /\ call[d].recover /\ call[d].pc \in Asking \cup {"recover"}
              /\ call'[d].auto = call[d].auto
        BY <3>2 DEF Asking
      <3> QED BY <1>1, <1>2, <3>1, <3>3, <3>4, KeepBudgets, KeepRecoverOK
    <2>3. CASE TurnFails(s)
      <3>1. \A a \in Visit : /\ auto'[a].lane = auto[a].lane /\ auto'[a].step = auto[a].step
                            /\ auto'[a].recoveries = auto[a].recoveries
        BY <2>3 DEF TurnFails
      <3>2. \A d \in Calls : call'[d] = call[d] \/ call'[d].pc \notin Asking \cup {"recover"}
        <4>1. PICK d \in Calls : Taken(d, s, "failed")
          BY <1>2, <2>3, EmitCall DEF TurnFails, Events
        <4> QED BY <4>1 DEF Taken, Others, Asking
      <3>3. \A a \in Visit : \A k \in Nat \ {0} : Cardinality(Claims(a, k))' <= Cardinality(Claims(a, k))
        <4>1. run' = run /\ (waiting' = waiting \/ waiting' = NoRun)
          BY <2>3 DEF TurnFails
        <4>2. \A d \in Calls : call'[d].pc \in {"create", "spawning"} =>
                call[d].pc \in {"create", "spawning"} /\ call'[d].job = call[d].job
          BY <3>2 DEF Asking
        <4> QED BY <1>2, <4>1, <4>2, KeepClaims
      <3>4. \A d \in Calls : call'[d].why = "fallback" /\ call'[d].recover /\ call'[d].pc \in Asking \cup {"recover"} =>
              /\ call[d].why = "fallback" /\ call[d].recover /\ call[d].pc \in Asking \cup {"recover"}
              /\ call'[d].auto = call[d].auto
        BY <3>2 DEF Asking
      <3> QED BY <1>1, <1>2, <3>1, <3>3, <3>4, KeepBudgets, KeepRecoverOK
    <2>4. CASE PromptBroke(s)
      <3>1. \A a \in Visit : /\ auto'[a].lane = auto[a].lane /\ auto'[a].step = auto[a].step
                            /\ auto'[a].recoveries = auto[a].recoveries
        BY <2>4 DEF PromptBroke
      <3>2. \A d \in Calls : call'[d] = call[d] \/ call'[d].pc \notin Asking \cup {"recover"}
        <4>1. PICK d \in Calls : Taken(d, s, "failed")
          BY <1>2, <2>4, EmitCall DEF PromptBroke, Events
        <4> QED BY <4>1 DEF Taken, Others, Asking
      <3>3. \A a \in Visit : \A k \in Nat \ {0} : Cardinality(Claims(a, k))' <= Cardinality(Claims(a, k))
        <4>1. run' = run /\ (waiting' = waiting \/ waiting' = NoRun)
          BY <2>4 DEF PromptBroke
        <4>2. \A d \in Calls : call'[d].pc \in {"create", "spawning"} =>
                call[d].pc \in {"create", "spawning"} /\ call'[d].job = call[d].job
          BY <3>2 DEF Asking
        <4> QED BY <1>2, <4>1, <4>2, KeepClaims
      <3>4. \A d \in Calls : call'[d].why = "fallback" /\ call'[d].recover /\ call'[d].pc \in Asking \cup {"recover"} =>
              /\ call[d].why = "fallback" /\ call[d].recover /\ call[d].pc \in Asking \cup {"recover"}
              /\ call'[d].auto = call[d].auto
        BY <3>2 DEF Asking
      <3> QED BY <1>1, <1>2, <3>1, <3>3, <3>4, KeepBudgets, KeepRecoverOK
    <2>5. CASE Exits(s)
      <3>1. \A a \in Visit : /\ auto'[a].lane = auto[a].lane /\ auto'[a].step = auto[a].step
                            /\ auto'[a].recoveries = auto[a].recoveries
        BY <2>5 DEF Exits
      <3>2. \A d \in Calls : call'[d] = call[d] \/ call'[d].pc \notin Asking \cup {"recover"}
        <4>1. PICK d \in Calls : Taken(d, s, "failed")
          BY <1>2, <2>5, EmitCall DEF Exits, Events
        <4> QED BY <4>1 DEF Taken, Others, Asking
      <3>3. \A a \in Visit : \A k \in Nat \ {0} : Cardinality(Claims(a, k))' <= Cardinality(Claims(a, k))
        <4>1. run' = run /\ (waiting' = waiting \/ waiting' = NoRun)
          BY <2>5 DEF Exits
        <4>2. \A d \in Calls : call'[d].pc \in {"create", "spawning"} =>
                call[d].pc \in {"create", "spawning"} /\ call'[d].job = call[d].job
          BY <3>2 DEF Asking
        <4> QED BY <1>2, <4>1, <4>2, KeepClaims
      <3>4. \A d \in Calls : call'[d].why = "fallback" /\ call'[d].recover /\ call'[d].pc \in Asking \cup {"recover"} =>
              /\ call[d].why = "fallback" /\ call[d].recover /\ call[d].pc \in Asking \cup {"recover"}
              /\ call'[d].auto = call[d].auto
        BY <3>2 DEF Asking
      <3> QED BY <1>1, <1>2, <3>1, <3>3, <3>4, KeepBudgets, KeepRecoverOK
    <2> QED BY <1>5, <2>1, <2>2, <2>3, <2>4, <2>5
  <1>6. CASE QueueStarts
    <2>1. CASE ~ Startable(waiting)
      <3>1. \A a \in Visit : /\ auto'[a].lane = auto[a].lane /\ auto'[a].step = auto[a].step
                            /\ auto'[a].recoveries = auto[a].recoveries
        BY <1>6 DEF QueueStarts
      <3>2. \A d \in Calls : call'[d] = call[d] \/ call'[d].pc \notin Asking \cup {"recover"}
        BY <1>6, <2>1 DEF QueueStarts
      <3>3. \A a \in Visit : \A k \in Nat \ {0} : Cardinality(Claims(a, k))' <= Cardinality(Claims(a, k))
        <4>1. run' = run /\ (waiting' = waiting \/ waiting' = NoRun)
          BY <1>6, <2>1 DEF QueueStarts
        <4>2. \A d \in Calls : call'[d].pc \in {"create", "spawning"} =>
                call[d].pc \in {"create", "spawning"} /\ call'[d].job = call[d].job
          BY <3>2 DEF Asking
        <4> QED BY <1>2, <4>1, <4>2, KeepClaims
      <3>4. \A d \in Calls : call'[d].why = "fallback" /\ call'[d].recover /\ call'[d].pc \in Asking \cup {"recover"} =>
              /\ call[d].why = "fallback" /\ call[d].recover /\ call[d].pc \in Asking \cup {"recover"}
              /\ call'[d].auto = call[d].auto
        BY <3>2 DEF Asking
      <3> QED BY <1>1, <1>2, <3>1, <3>3, <3>4, KeepBudgets, KeepRecoverOK
    <2>2. CASE Startable(waiting)
      <3>1. PICK c \in Calls : Others(c) /\ call[c].pc = "idle" /\ call'[c].pc = "spawning" /\ call'[c].why = "queue" /\ call'[c].job = waiting
        <4>1. waiting # NoRun /\ waiting.auto \in Visit
          BY <1>2, <1>6 DEF QueueStarts, Types, WaitingOK
        <4> QED BY <1>2, <1>6, <2>2, <4>1, QueueStartsCall
      <3>2. \A a \in Visit : /\ auto'[a].lane = auto[a].lane /\ auto'[a].step = auto[a].step
                            /\ auto'[a].recoveries = auto[a].recoveries
        BY <1>6 DEF QueueStarts
      <3>3. \A d \in Calls : call'[d] = call[d] \/ call'[d].why # "fallback"
        BY <3>1 DEF Others
      <3>4. \A a \in Visit : \A k \in Nat \ {0} : Cardinality(Claims(a, k))' <= Cardinality(Claims(a, k))
        <4> SUFFICES ASSUME NEW a \in Visit, NEW k \in Nat \ {0}
                     PROVE  Cardinality(Claims(a, k))' <= Cardinality(Claims(a, k))
          OBVIOUS
        <4>1. run' = run /\ waiting' = NoRun
          BY <1>6 DEF QueueStarts
        <4>2. -c \in Ids /\ -c < 0 /\ -(-c) = c /\ 0 \in Ids
          BY IdsFinite
        <4>3. \A z \in Ids \ {-c} : Claim(z, a, k)' => Claim(z, a, k) /\ z # 0
          <5>1. \A z \in Ids : z # -c /\ -z \in Calls => -z # c
            BY <4>2 DEF Calls, Ids
          <5>2. \A z \in Ids : Claim(z, a, k)' => z # 0
            BY <4>1, CardTypes DEF Claim, Session, Calls, NoRun
          <5> QED BY <3>1, <4>1, <5>1, <5>2, CardTypes DEF Claim, Others, NoRun
        <4>4. Claim(-c, a, k)' => Claim(0, a, k)
          BY <3>1, <4>1, <4>2, CardTypes DEF Claim, Session, NoRun
        <4> QED BY <4>2, <4>3, <4>4, MoveClaim
      <3>5. \A d \in Calls : call'[d].why = "fallback" /\ call'[d].recover /\ call'[d].pc \in Asking \cup {"recover"} =>
              /\ call[d].why = "fallback" /\ call[d].recover /\ call[d].pc \in Asking \cup {"recover"}
              /\ call'[d].auto = call[d].auto
        BY <3>3 DEF Asking
      <3> QED BY <1>1, <1>2, <3>2, <3>4, <3>5, KeepBudgets, KeepRecoverOK
    <2> QED BY <2>1, <2>2
  <1>7. CASE RemoveWorktree
    <2>1. \A a \in Visit : /\ auto'[a].lane = auto[a].lane /\ auto'[a].step = auto[a].step
                          /\ auto'[a].recoveries = auto[a].recoveries
      BY <1>7 DEF RemoveWorktree
    <2>2. \A d \in Calls : call'[d] = call[d] \/ call'[d].pc \notin Asking \cup {"recover"}
      BY <1>7 DEF RemoveWorktree
    <2>3. \A a \in Visit : \A k \in Nat \ {0} : Cardinality(Claims(a, k))' <= Cardinality(Claims(a, k))
      <3>1. run' = run /\ (waiting' = waiting \/ waiting' = NoRun)
        BY <1>7 DEF RemoveWorktree
      <3>2. \A d \in Calls : call'[d].pc \in {"create", "spawning"} =>
              call[d].pc \in {"create", "spawning"} /\ call'[d].job = call[d].job
        BY <2>2 DEF Asking
      <3> QED BY <1>2, <3>1, <3>2, KeepClaims
    <2>4. \A d \in Calls : call'[d].why = "fallback" /\ call'[d].recover /\ call'[d].pc \in Asking \cup {"recover"} =>
            /\ call[d].why = "fallback" /\ call[d].recover /\ call[d].pc \in Asking \cup {"recover"}
            /\ call'[d].auto = call[d].auto
      BY <2>2 DEF Asking
    <2> QED BY <1>1, <1>2, <2>1, <2>3, <2>4, KeepBudgets, KeepRecoverOK
  <1>8. CASE KeepWorktree
    <2>1. \A a \in Visit : /\ auto'[a].lane = auto[a].lane /\ auto'[a].step = auto[a].step
                          /\ auto'[a].recoveries = auto[a].recoveries
      BY <1>8 DEF KeepWorktree
    <2>2. \A d \in Calls : call'[d] = call[d] \/ call'[d].pc \notin Asking \cup {"recover"}
      BY <1>8 DEF KeepWorktree
    <2>3. \A a \in Visit : \A k \in Nat \ {0} : Cardinality(Claims(a, k))' <= Cardinality(Claims(a, k))
      <3>1. run' = run /\ (waiting' = waiting \/ waiting' = NoRun)
        BY <1>8 DEF KeepWorktree
      <3>2. \A d \in Calls : call'[d].pc \in {"create", "spawning"} =>
              call[d].pc \in {"create", "spawning"} /\ call'[d].job = call[d].job
        BY <2>2 DEF Asking
      <3> QED BY <1>2, <3>1, <3>2, KeepClaims
    <2>4. \A d \in Calls : call'[d].why = "fallback" /\ call'[d].recover /\ call'[d].pc \in Asking \cup {"recover"} =>
            /\ call[d].why = "fallback" /\ call[d].recover /\ call[d].pc \in Asking \cup {"recover"}
            /\ call'[d].auto = call[d].auto
      BY <2>2 DEF Asking
    <2> QED BY <1>1, <1>2, <2>1, <2>3, <2>4, KeepBudgets, KeepRecoverOK
  <1>9. CASE ScanAdopts
    <2>1. \A a \in Visit : /\ auto'[a].lane = auto[a].lane /\ auto'[a].step = auto[a].step
                          /\ auto'[a].recoveries = auto[a].recoveries
      <3>1. auto' = Adopted
        BY <1>9 DEF ScanAdopts
      <3> QED BY <1>2, <3>1, AdoptedType
    <2>2. \A d \in Calls : call'[d] = call[d] \/ call'[d].pc \notin Asking \cup {"recover"}
      BY <1>9 DEF ScanAdopts
    <2>3. \A a \in Visit : \A k \in Nat \ {0} : Cardinality(Claims(a, k))' <= Cardinality(Claims(a, k))
      <3>1. run' = run /\ (waiting' = waiting \/ waiting' = NoRun)
        BY <1>9 DEF ScanAdopts
      <3>2. \A d \in Calls : call'[d].pc \in {"create", "spawning"} =>
              call[d].pc \in {"create", "spawning"} /\ call'[d].job = call[d].job
        BY <2>2 DEF Asking
      <3> QED BY <1>2, <3>1, <3>2, KeepClaims
    <2>4. \A d \in Calls : call'[d].why = "fallback" /\ call'[d].recover /\ call'[d].pc \in Asking \cup {"recover"} =>
            /\ call[d].why = "fallback" /\ call[d].recover /\ call[d].pc \in Asking \cup {"recover"}
            /\ call'[d].auto = call[d].auto
      BY <2>2 DEF Asking
    <2> QED BY <1>1, <1>2, <2>1, <2>3, <2>4, KeepBudgets, KeepRecoverOK
  <1>10. CASE ScanTimesOut
    <2>1. \A a \in Visit : /\ auto'[a].lane = auto[a].lane /\ auto'[a].step = auto[a].step
                          /\ auto'[a].recoveries = auto[a].recoveries
      BY <1>3, <1>10 DEF ScanTimesOut, AutoType
    <2>2. \A d \in Calls : call'[d] = call[d] \/ call'[d].pc \notin Asking \cup {"recover"}
      <3>1. PICK d \in Calls : Taken(d, auto[active].sid, "timeout")
        BY <1>2, <1>10, TimesOutCall
      <3> QED BY <3>1 DEF Taken, Others, Asking
    <2>3. \A a \in Visit : \A k \in Nat \ {0} : Cardinality(Claims(a, k))' <= Cardinality(Claims(a, k))
      <3>1. run' = run /\ (waiting' = waiting \/ waiting' = NoRun)
        BY <1>10 DEF ScanTimesOut
      <3>2. \A d \in Calls : call'[d].pc \in {"create", "spawning"} =>
              call[d].pc \in {"create", "spawning"} /\ call'[d].job = call[d].job
        BY <2>2 DEF Asking
      <3> QED BY <1>2, <3>1, <3>2, KeepClaims
    <2>4. \A d \in Calls : call'[d].why = "fallback" /\ call'[d].recover /\ call'[d].pc \in Asking \cup {"recover"} =>
            /\ call[d].why = "fallback" /\ call[d].recover /\ call[d].pc \in Asking \cup {"recover"}
            /\ call'[d].auto = call[d].auto
      BY <2>2 DEF Asking
    <2> QED BY <1>1, <1>2, <2>1, <2>3, <2>4, KeepBudgets, KeepRecoverOK
  <1>11. ASSUME NEW to \in Columns, MoveCard(to) PROVE Budgets' /\ RecoverOK'
    <2>1. \A a \in Visit : /\ auto'[a].lane = auto[a].lane /\ auto'[a].step = auto[a].step
                          /\ auto'[a].recoveries = auto[a].recoveries
      BY <1>11 DEF MoveCard
    <2>2. \A d \in Calls : call'[d] = call[d] \/ call'[d].pc \notin Asking \cup {"recover"}
      <3>1. CASE to \in Lanes
        <4>1. PICK d \in Calls : Arrives(d, to)
          BY <1>2, <1>11, <3>1, ArriveCall DEF MoveCard
        <4> QED BY <4>1 DEF Arrives, Others, Asking
      <3>2. CASE to \notin Lanes
        BY <1>11, <3>2 DEF MoveCard
      <3> QED BY <3>1, <3>2
    <2>3. \A a \in Visit : \A k \in Nat \ {0} : Cardinality(Claims(a, k))' <= Cardinality(Claims(a, k))
      <3>1. run' = run /\ (waiting' = waiting \/ waiting' = NoRun)
        BY <1>11 DEF MoveCard
      <3>2. \A d \in Calls : call'[d].pc \in {"create", "spawning"} =>
              call[d].pc \in {"create", "spawning"} /\ call'[d].job = call[d].job
        BY <2>2 DEF Asking
      <3> QED BY <1>2, <3>1, <3>2, KeepClaims
    <2>4. \A d \in Calls : call'[d].why = "fallback" /\ call'[d].recover /\ call'[d].pc \in Asking \cup {"recover"} =>
            /\ call[d].why = "fallback" /\ call[d].recover /\ call[d].pc \in Asking \cup {"recover"}
            /\ call'[d].auto = call[d].auto
      BY <2>2 DEF Asking
    <2> QED BY <1>1, <1>2, <2>1, <2>3, <2>4, KeepBudgets, KeepRecoverOK
  <1>12. CASE UserBlocks
    <2>1. \A a \in Visit : /\ auto'[a].lane = auto[a].lane /\ auto'[a].step = auto[a].step
                          /\ auto'[a].recoveries = auto[a].recoveries
      BY <1>12 DEF UserBlocks
    <2>2. \A d \in Calls : call'[d] = call[d] \/ call'[d].pc \notin Asking \cup {"recover"}
      <3>1. PICK c \in Calls : Others(c) /\ call'[c].pc = "ending"
        BY <1>2, <1>12, UserBlocksCall
      <3> QED BY <3>1 DEF Others, Asking
    <2>3. \A a \in Visit : \A k \in Nat \ {0} : Cardinality(Claims(a, k))' <= Cardinality(Claims(a, k))
      <3>1. run' = run /\ (waiting' = waiting \/ waiting' = NoRun)
        BY <1>12 DEF UserBlocks
      <3>2. \A d \in Calls : call'[d].pc \in {"create", "spawning"} =>
              call[d].pc \in {"create", "spawning"} /\ call'[d].job = call[d].job
        BY <2>2 DEF Asking
      <3> QED BY <1>2, <3>1, <3>2, KeepClaims
    <2>4. \A d \in Calls : call'[d].why = "fallback" /\ call'[d].recover /\ call'[d].pc \in Asking \cup {"recover"} =>
            /\ call[d].why = "fallback" /\ call[d].recover /\ call[d].pc \in Asking \cup {"recover"}
            /\ call'[d].auto = call[d].auto
      BY <2>2 DEF Asking
    <2> QED BY <1>1, <1>2, <2>1, <2>3, <2>4, KeepBudgets, KeepRecoverOK
  <1>13. CASE UNCHANGED vars
    <2>1. \A a \in Visit : /\ auto'[a].lane = auto[a].lane /\ auto'[a].step = auto[a].step
                          /\ auto'[a].recoveries = auto[a].recoveries
      BY <1>13 DEF vars
    <2>2. \A d \in Calls : call'[d] = call[d] \/ call'[d].pc \notin Asking \cup {"recover"}
      BY <1>13 DEF vars
    <2>3. \A a \in Visit : \A k \in Nat \ {0} : Cardinality(Claims(a, k))' <= Cardinality(Claims(a, k))
      <3>1. run' = run /\ (waiting' = waiting \/ waiting' = NoRun)
        BY <1>13 DEF vars
      <3>2. \A d \in Calls : call'[d].pc \in {"create", "spawning"} =>
              call[d].pc \in {"create", "spawning"} /\ call'[d].job = call[d].job
        BY <2>2 DEF Asking
      <3> QED BY <1>2, <3>1, <3>2, KeepClaims
    <2>4. \A d \in Calls : call'[d].why = "fallback" /\ call'[d].recover /\ call'[d].pc \in Asking \cup {"recover"} =>
            /\ call[d].why = "fallback" /\ call[d].recover /\ call[d].pc \in Asking \cup {"recover"}
            /\ call'[d].auto = call[d].auto
      BY <2>2 DEF Asking
    <2> QED BY <1>1, <1>2, <2>1, <2>3, <2>4, KeepBudgets, KeepRecoverOK
  <1> QED BY <1>4, <1>5, <1>6, <1>7, <1>8, <1>9, <1>10, <1>11, <1>12, <1>13 DEF Next

LaneBudget == LaneInv /\ Budgets /\ RecoverOK

\* The claims count the runs.
LEMMA RunsCounted == ASSUME Types, Budgets PROVE RunsWithinBudget
  <1> SUFFICES ASSUME NEW a \in Visit, NEW k \in 1..Steps[auto[a].lane]
               PROVE  LET runs == {s \in Session : run[s].auto = a /\ run[s].step = k}
                      IN IF auto[a].lane = "done" THEN Cardinality(runs) <= 1
                                                  ELSE Cardinality(runs) <= 1 + MaxRecovery \/ interrupted
    BY DEF RunsWithinBudget
  <1> DEFINE runs == {s \in Session : run[s].auto = a /\ run[s].step = k}
  <1>1. auto[a].step \in Nat /\ auto[a].recoveries \in Nat /\ auto[a].lane \in Lanes /\ k \in Nat \ {0} /\ MaxRecovery \in Nat
    BY AutoUnfold, BudgetAssumption DEF AutoType
  <1>2. /\ IsFiniteSet(Claims(a, k)) /\ runs \subseteq Claims(a, k) /\ Cardinality(Claims(a, k)) \in Nat
    <2>1. /\ IsFiniteSet(Claims(a, k)) /\ Cardinality(Claims(a, k)) \in Nat
          /\ \A s \in Session : s \in Ids
      BY IdsFinite
    <2>2. runs \subseteq Claims(a, k)
      BY <2>1 DEF Claims, Claim
    <2> QED BY <2>1, <2>2
  <1>3. Cardinality(runs) \in Nat /\ Cardinality(runs) <= Cardinality(Claims(a, k))
    BY <1>2, FS_Subset, FS_CardinalityType
  <1>4. CASE Counted(a)
    <2>1. /\ auto[a].recoveries <= Budget(auto[a].lane)
          /\ Cardinality(Claims(a, k)) <= IF k > auto[a].step THEN 0
               ELSE 1 + (IF k = auto[a].step THEN auto[a].recoveries ELSE Budget(auto[a].lane))
      BY <1>1, <1>4 DEF Budgets, BudgetOK
    <2> HIDE DEF runs
    <2>2. Cardinality(runs) <= 1 + Budget(auto[a].lane)
      BY <1>1, <1>2, <1>3, <2>1 DEF Budget
    <2> QED BY <1>1, <1>3, <2>2 DEF Budget, Lanes, runs
  <1>5. CASE ~ Counted(a)
    BY <1>1, <1>5 DEF Counted, Lanes
  <1> QED BY <1>4, <1>5

\* The budget's invariant always holds.
LEMMA BudgetInvariant == ASSUME ~ EchoOverlaps PROVE Spec => []LaneBudget
  <1>1. Init => LaneBudget
    <2> SUFFICES ASSUME Init PROVE LaneBudget
      OBVIOUS
    <2>1. ASSUME NEW a \in Visit, NEW k \in Nat \ {0} PROVE Claims(a, k) = {}
      <3>1. \A z \in Ids : ~ Claim(z, a, k)
        BY <2>1, IdleFields, CardTypes DEF Init, Claim, NoRun
      <3> QED BY <3>1 DEF Claims
    <2>2. ASSUME NEW a \in Visit PROVE BudgetOK(a)
      <3>1. auto[a].step = 0 /\ auto[a].recoveries = 0 /\ Budget(auto[a].lane) \in Nat
        BY BudgetAssumption DEF Init, NoAuto, Budget
      <3>2. \A k \in Nat \ {0} : Cardinality(Claims(a, k)) = 0
        BY <2>1, FS_EmptySet
      <3> QED BY <3>1, <3>2 DEF BudgetOK
    <2>3. RecoverOK
      BY IdleFields DEF Init, RecoverOK, Recoverable
    <2> QED BY <2>2, <2>3, InitLane DEF LaneBudget, Budgets
  <1>2. LaneBudget /\ [Next]_vars => LaneBudget'
    <2> SUFFICES ASSUME LaneBudget, [Next]_vars PROVE LaneBudget'
      OBVIOUS
    <2>1. LaneInv' /\ Types'
      BY StepLane DEF LaneBudget, LaneInv, LaneBase
    <2> QED BY <2>1, StepBudgets DEF LaneBudget
  <1> QED BY <1>1, <1>2, PTL DEF Spec

(* A step is run at most once, and in Dev once more for each recovery its budget *)
(* allows: a run is claimed before its agent is started, by one who has counted  *)
(* it, and a claim is passed on, never copied.  A Done step keeps to this however *)
(* the card is moved.                                                            *)
THEOREM LaneWithinBudget == ~ EchoOverlaps /\ Spec => []RunsWithinBudget
  <1> SUFFICES ASSUME ~ EchoOverlaps PROVE Spec => []RunsWithinBudget
    OBVIOUS
  <1>1. LaneBudget => RunsWithinBudget
    BY RunsCounted DEF LaneBudget, LaneInv, LaneBase
  <1> QED BY <1>1, BudgetInvariant, PTL

-----------------------------------------------------------------------------
(* The steps of a lane come one after the other *)

\* Someone runs step k of a lane, has run it, or is going to.
Placed(lane, k) ==
  \/ \E a \in Visit : auto[a].lane = lane /\ auto[a].step = k
  \/ waiting.lane = lane /\ waiting.step = k
  \/ \E s \in Session : run[s].lane = lane /\ run[s].step = k
  \/ \E c \in Calls : call[c].pc \in {"create", "spawning"} /\ call[c].job.lane = lane /\ call[c].job.step = k

\* A session of the step has reported or ended its turn, or need not have.
Passed(lane, k) ==
  \E r \in Session : run[r].lane = lane /\ run[r].step = k /\ (card.fallback \/ r \in reported \cup okay)

Reached(lane, k) == \A j \in 1..(k - 1) : Passed(lane, j)

InOrder == \A lane \in Lanes : \A k \in Nat \ {0} : Placed(lane, k) => Reached(lane, k)

\* The copies of a card's setting, and the automations that look at it.
Copies(k) == /\ Handles(k) => k.copy.fallback = card.fallback
             /\ k.pc = "spawning" => k.row.fallback = card.fallback

Setting == /\ \A a \in Visit : auto[a].step > 0 => auto[a].fallback = card.fallback
           /\ \A c \in Calls : Copies(call[c])
           /\ \A s \in Session : run[s].step > 0 => run[s].auto \in Visit

\* A session that was started stays what it is, so a step that has passed stays so.
LEMMA KeepReached ==
  ASSUME Types, FreshOK, Grows, card'.fallback = card.fallback,
         \A s \in Session : proc[s] # "none" => run'[s] = run[s],
         NEW lane \in Lanes, NEW k \in Nat \ {0}, Reached(lane, k)
  PROVE  Reached(lane, k)'
  <1> SUFFICES ASSUME NEW j \in 1..(k - 1) PROVE Passed(lane, j)'
    BY DEF Reached
  <1>1. PICK r \in Session : run[r].lane = lane /\ run[r].step = j /\ (card.fallback \/ r \in reported \cup okay)
    BY DEF Reached, Passed
  <1>2. proc[r] # "none"
    BY <1>1 DEF FreshOK, Unknown, NoRun
  <1> QED BY <1>1, <1>2 DEF Passed, Grows

\* Who has a step must have reached it.
LEMMA KeepInOrder ==
  ASSUME Types, FreshOK, Grows, InOrder, card'.fallback = card.fallback,
         \A s \in Session : proc[s] # "none" => run'[s] = run[s],
         \A lane \in Lanes : \A k \in Nat \ {0} : Placed(lane, k)' => Placed(lane, k) \/ Reached(lane, k)'
  PROVE  InOrder'
  <1> SUFFICES ASSUME NEW lane \in Lanes, NEW k \in Nat \ {0}, Placed(lane, k)' PROVE Reached(lane, k)'
    BY DEF InOrder
  <1>1. Placed(lane, k) => Reached(lane, k)
    BY DEF InOrder
  <1> QED BY <1>1, KeepReached

\* The setting of the card is the one its automations and copies have.
LEMMA KeepSetting ==
  ASSUME Types, AutoOK, Kept, Setting, card'.fallback = card.fallback,
         \A a \in Visit : auto'[a].step = auto[a].step \/ Used(a) \/ auto'[a].fallback = card.fallback,
         \A d \in Calls : call'[d] = call[d] \/ (/\ Handles(call'[d]) => call'[d].copy.fallback = card.fallback
                                                 /\ call'[d].pc = "spawning" => call'[d].row.fallback = card.fallback),
         \A s \in Session : run'[s] = run[s] \/ run'[s].auto \in Visit
  PROVE  Setting'
  <1>1. ASSUME NEW a \in Visit, auto'[a].step > 0 PROVE auto'[a].fallback = card.fallback
    <2>1. CASE Used(a)
      <3>1. auto[a].step > 0
        BY <2>1 DEF AutoOK, Used
      <3> QED BY <2>1, <3>1 DEF Kept, Setting
    <2>2. CASE ~ Used(a)
      <3>1. auto[a].step = 0
        BY <2>2 DEF AutoOK, Used
      <3> QED BY <1>1, <2>2, <3>1
    <2> QED BY <2>1, <2>2
  <1>2. ASSUME NEW d \in Calls
        PROVE  /\ Handles(call'[d]) => call'[d].copy.fallback = card.fallback
               /\ call'[d].pc = "spawning" => call'[d].row.fallback = card.fallback
    BY DEF Setting, Copies
  <1>3. \A d \in Calls : Copies(call[d])'
    BY <1>2 DEF Copies, Handles
  <1>4. \A s \in Session : run'[s].step > 0 => run'[s].auto \in Visit
    BY DEF Setting
  <1> QED BY <1>1, <1>3, <1>4 DEF Setting

\* A step after which nobody runs another step than before.
LEMMA KeepOrder ==
  ASSUME Types, AutoOK, FreshOK, Kept, Grows, Setting, InOrder,
         \A a \in Visit : auto'[a].lane = auto[a].lane /\ auto'[a].step = auto[a].step,
         run' = run, waiting' = waiting \/ waiting' = NoRun,
         \A d \in Calls : call'[d].pc \in {"create", "spawning"} =>
           call[d].pc \in {"create", "spawning"} /\ call'[d].job = call[d].job,
         card'.fallback = card.fallback,
         \A d \in Calls : call'[d] = call[d] \/ (/\ Handles(call'[d]) => call'[d].copy.fallback = card.fallback
                                                 /\ call'[d].pc = "spawning" => call'[d].row.fallback = card.fallback)
  PROVE  Setting' /\ InOrder'
  <1>1. ASSUME NEW lane \in Lanes, NEW k \in Nat \ {0}, Placed(lane, k)' PROVE Placed(lane, k)
    BY <1>1 DEF Placed, NoRun
  <1> QED BY <1>1, KeepSetting, KeepInOrder

\* A step goes on to the next one only when the session it follows has passed it.
LEMMA StepOrder == ASSUME LaneInv, ~ interrupted', Setting, InOrder, [Next]_vars PROVE Setting' /\ InOrder'
  <1> USE DEF cardVars, agentVars, tellVars, autoVars, tearVars
  <1>1. ~ interrupted
    BY Interrupted
  <1>2. Types /\ References /\ AutoOK /\ FreshOK /\ Kept /\ Grows
    BY StepKept, StepGrows DEF LaneInv, LaneBase
  <1>3. auto \in [Visit -> AutoType] /\ call \in [Calls -> CallType] /\ card \in Card
    BY <1>2, AutoUnfold DEF Types, CallsOK, TypeOK
  <1>4. ASSUME NEW c \in Calls, CallStep(c) PROVE Setting' /\ InOrder'
    <2>1. CASE EndDeferred(c)
      <3>1. \A a \in Visit : auto'[a].lane = auto[a].lane /\ auto'[a].step = auto[a].step
        BY <2>1 DEF EndDeferred
      <3>2. \A d \in Calls : call'[d] = call[d] \/ call'[d].pc \notin Asking
        <4>1. Others(c) /\ call'[c].pc \in {"swept", "killing", "judge"}
          BY <1>2, <2>1, EndDeferredCall
        <4> QED BY <4>1 DEF Others, Asking
      <3>3. \A d \in Calls : call'[d].pc \in {"create", "spawning"} =>
              call[d].pc \in {"create", "spawning"} /\ call'[d].job = call[d].job
        BY <3>2 DEF Asking
      <3>4. run' = run /\ (waiting' = waiting \/ waiting' = NoRun)
        BY <2>1 DEF EndDeferred
      <3>5. card'.fallback = card.fallback
        BY <2>1 DEF EndDeferred
      <3>6. \A d \in Calls : call'[d] = call[d] \/ (/\ Handles(call'[d]) => call'[d].copy.fallback = card.fallback
                                                    /\ call'[d].pc = "spawning" => call'[d].row.fallback = card.fallback)
        <4>1. Others(c) /\ call'[c].pc \in {"swept", "killing"} /\ call'[c].why = "swept"
          BY <1>2, <2>1, EndDeferredCall
        <4> QED BY <4>1 DEF Others, Handles
      <3> QED BY <1>2, <3>1, <3>3, <3>4, <3>5, <3>6, KeepOrder
    <2>2. CASE Killed(c)
      <3>1. \A a \in Visit : auto'[a].lane = auto[a].lane /\ auto'[a].step = auto[a].step
        BY <2>2 DEF Killed
      <3>2. \A d \in Calls : call'[d] = call[d] \/ call'[d].pc \notin Asking
        <4>1. Others(c) /\ call'[c].pc \in {"swept", "judge"}
          BY <1>2, <2>2, KilledCall DEF Killed, Types, CallsOK, CallOK
        <4> QED BY <4>1 DEF Others, Asking
      <3>3. \A d \in Calls : call'[d].pc \in {"create", "spawning"} =>
              call[d].pc \in {"create", "spawning"} /\ call'[d].job = call[d].job
        BY <3>2 DEF Asking
      <3>4. run' = run /\ (waiting' = waiting \/ waiting' = NoRun)
        BY <2>2 DEF Killed
      <3>5. card'.fallback = card.fallback
        BY <2>2 DEF Killed
      <3>6. \A d \in Calls : call'[d] = call[d] \/ (/\ Handles(call'[d]) => call'[d].copy.fallback = card.fallback
                                                    /\ call'[d].pc = "spawning" => call'[d].row.fallback = card.fallback)
        <4>1. /\ Others(c) /\ (Handles(call'[c]) => Handles(call[c]) /\ call'[c].copy = call[c].copy)
              /\ call'[c].pc # "spawning"
          BY <1>2, <2>2, KilledCall DEF Killed, Handles, SamePlan, Types, CallsOK, CallOK
        <4> QED BY <4>1 DEF Others, Setting, Copies
      <3> QED BY <1>2, <3>1, <3>3, <3>4, <3>5, <3>6, KeepOrder
    <2>3. CASE StartPending(c)
      <3>1. \A a \in Visit : auto'[a].lane = auto[a].lane /\ auto'[a].step = auto[a].step
        BY <2>3 DEF StartPending
      <3>2. \A d \in Calls : call'[d] = call[d] \/ call'[d].pc \notin Asking
        <4>1. Others(c) /\ call'[c].pc \notin Asking
          BY <1>2, <2>3, StartPendingCall DEF StartPending, At, Asking
        <4> QED BY <4>1 DEF Others
      <3>3. \A d \in Calls : call'[d].pc \in {"create", "spawning"} =>
              call[d].pc \in {"create", "spawning"} /\ call'[d].job = call[d].job
        BY <3>2 DEF Asking
      <3>4. run' = run /\ (waiting' = waiting \/ waiting' = NoRun)
        BY <2>3 DEF StartPending
      <3>5. card'.fallback = card.fallback
        BY <2>3 DEF StartPending
      <3>6. \A d \in Calls : call'[d] = call[d] \/ (/\ Handles(call'[d]) => call'[d].copy.fallback = card.fallback
                                                    /\ call'[d].pc = "spawning" => call'[d].row.fallback = card.fallback)
        <4>1. Others(c) /\ ~ Handles(call'[c]) /\ call'[c].pc # "spawning"
          BY <1>2, <2>3, StartPendingCall DEF StartPending, At, Handles
        <4> QED BY <4>1 DEF Others
      <3> QED BY <1>2, <3>1, <3>3, <3>4, <3>5, <3>6, KeepOrder
    <2>4. CASE SettleEnded(c)
      <3>1. \A a \in Visit : auto'[a].lane = auto[a].lane /\ auto'[a].step = auto[a].step
        BY <2>4 DEF SettleEnded
      <3>2. \A d \in Calls : call'[d] = call[d] \/ call'[d].pc \notin Asking
        <4>1. Others(c) /\ call'[c] = Idle
          BY <1>2, <2>4, ReturnCall DEF SettleEnded
        <4> QED BY <4>1, IdleFields DEF Others, Asking
      <3>3. \A d \in Calls : call'[d].pc \in {"create", "spawning"} =>
              call[d].pc \in {"create", "spawning"} /\ call'[d].job = call[d].job
        BY <3>2 DEF Asking
      <3>4. run' = run /\ (waiting' = waiting \/ waiting' = NoRun)
        BY <2>4 DEF SettleEnded
      <3>5. card'.fallback = card.fallback
        <4>1. call[c].sid \in Session
          BY <1>2, <2>4 DEF SettleEnded, Routing, At, Types, CallsOK, CallOK, Receives
        <4> QED BY <1>3, <2>4, <4>1, SettledType DEF SettleEnded
      <3>6. \A d \in Calls : call'[d] = call[d] \/ (/\ Handles(call'[d]) => call'[d].copy.fallback = card.fallback
                                                    /\ call'[d].pc = "spawning" => call'[d].row.fallback = card.fallback)
        <4>1. Others(c) /\ ~ Handles(call'[c]) /\ call'[c].pc # "spawning"
          BY <1>2, <2>4, ReturnCall, IdleFields, IdleFields DEF SettleEnded, Handles
        <4> QED BY <4>1 DEF Others
      <3> QED BY <1>2, <3>1, <3>3, <3>4, <3>5, <3>6, KeepOrder
    <2>5. CASE WindDown(c)
      <3>1. \A a \in Visit : auto'[a].lane = auto[a].lane /\ auto'[a].step = auto[a].step
        BY <2>5 DEF WindDown
      <3>2. \A d \in Calls : call'[d] = call[d] \/ call'[d].pc \notin Asking
        <4>1. Others(c) /\ call'[c] = Idle
          BY <1>2, <2>5, ReturnCall DEF WindDown
        <4> QED BY <4>1, IdleFields DEF Others, Asking
      <3>3. \A d \in Calls : call'[d].pc \in {"create", "spawning"} =>
              call[d].pc \in {"create", "spawning"} /\ call'[d].job = call[d].job
        BY <3>2 DEF Asking
      <3>4. run' = run /\ (waiting' = waiting \/ waiting' = NoRun)
        BY <2>5 DEF WindDown
      <3>5. card'.fallback = card.fallback
        <4>1. call[c].sid \in Session /\ "completed" \in Status \ {"none"}
          BY <1>2, <2>5 DEF WindDown, Routing, At, Types, CallsOK, CallOK, Receives, Status
        <4> QED BY <1>3, <2>5, <4>1, CloseType DEF WindDown
      <3>6. \A d \in Calls : call'[d] = call[d] \/ (/\ Handles(call'[d]) => call'[d].copy.fallback = card.fallback
                                                    /\ call'[d].pc = "spawning" => call'[d].row.fallback = card.fallback)
        <4>1. Others(c) /\ ~ Handles(call'[c]) /\ call'[c].pc # "spawning"
          BY <1>2, <2>5, ReturnCall, IdleFields, IdleFields DEF WindDown, Handles
        <4> QED BY <4>1 DEF Others
      <3> QED BY <1>2, <3>1, <3>3, <3>4, <3>5, <3>6, KeepOrder
    <2>6. CASE SettleUnfollowed(c)
      <3>1. \A a \in Visit : auto'[a].lane = auto[a].lane /\ auto'[a].step = auto[a].step
        <4>1. auto' = Adopted
          BY <2>6 DEF SettleUnfollowed
        <4> QED BY <1>2, <4>1, AdoptedType
      <3>2. \A d \in Calls : call'[d] = call[d] \/ call'[d].pc \notin Asking
        <4>1. Others(c) /\ call'[c] = Idle
          BY <1>2, <2>6, ReturnCall DEF SettleUnfollowed
        <4> QED BY <4>1, IdleFields DEF Others, Asking
      <3>3. \A d \in Calls : call'[d].pc \in {"create", "spawning"} =>
              call[d].pc \in {"create", "spawning"} /\ call'[d].job = call[d].job
        BY <3>2 DEF Asking
      <3>4. run' = run /\ (waiting' = waiting \/ waiting' = NoRun)
        BY <2>6 DEF SettleUnfollowed
      <3>5. card'.fallback = card.fallback
        <4>1. call[c].sid \in Session
          BY <1>2, <2>6 DEF SettleUnfollowed, Own, Routing, At, Types, CallsOK, CallOK, Receives
        <4> QED BY <1>3, <2>6, <4>1, SettledType DEF SettleUnfollowed
      <3>6. \A d \in Calls : call'[d] = call[d] \/ (/\ Handles(call'[d]) => call'[d].copy.fallback = card.fallback
                                                    /\ call'[d].pc = "spawning" => call'[d].row.fallback = card.fallback)
        <4>1. Others(c) /\ ~ Handles(call'[c]) /\ call'[c].pc # "spawning"
          BY <1>2, <2>6, ReturnCall, IdleFields, IdleFields DEF SettleUnfollowed, Handles
        <4> QED BY <4>1 DEF Others
      <3> QED BY <1>2, <3>1, <3>3, <3>4, <3>5, <3>6, KeepOrder
    <2>7. CASE SettleTeardown(c)
      <3>1. \A a \in Visit : auto'[a].lane = auto[a].lane /\ auto'[a].step = auto[a].step
        BY <1>3, <2>7 DEF SettleTeardown, AutoType
      <3>2. \A d \in Calls : call'[d] = call[d] \/ call'[d].pc \notin Asking
        <4>1. Others(c) /\ call'[c] = Idle
          BY <1>2, <2>7, ReturnCall DEF SettleTeardown
        <4> QED BY <4>1, IdleFields DEF Others, Asking
      <3>3. \A d \in Calls : call'[d].pc \in {"create", "spawning"} =>
              call[d].pc \in {"create", "spawning"} /\ call'[d].job = call[d].job
        BY <3>2 DEF Asking
      <3>4. run' = run /\ (waiting' = waiting \/ waiting' = NoRun)
        BY <2>7 DEF SettleTeardown
      <3>5. card'.fallback = card.fallback
        <4>1. call[c].sid \in Session
          BY <1>2, <2>7 DEF SettleTeardown, Own, Routing, At, Types, CallsOK, CallOK, Receives
        <4> QED BY <1>3, <2>7, <4>1, SettledType DEF SettleTeardown
      <3>6. \A d \in Calls : call'[d] = call[d] \/ (/\ Handles(call'[d]) => call'[d].copy.fallback = card.fallback
                                                    /\ call'[d].pc = "spawning" => call'[d].row.fallback = card.fallback)
        <4>1. Others(c) /\ ~ Handles(call'[c]) /\ call'[c].pc # "spawning"
          BY <1>2, <2>7, ReturnCall, IdleFields, IdleFields DEF SettleTeardown, Handles
        <4> QED BY <4>1 DEF Others
      <3> QED BY <1>2, <3>1, <3>3, <3>4, <3>5, <3>6, KeepOrder
    <2>8. CASE StepOver(c)
      <3>1. \A a \in Visit : auto'[a].lane = auto[a].lane /\ auto'[a].step = auto[a].step
        <4>1. auto' = Adopted
          BY <2>8 DEF StepOver
        <4> QED BY <1>2, <4>1, AdoptedType
      <3>2. \A d \in Calls : call'[d] = call[d] \/ call'[d].pc \notin Asking
        <4>1. Others(c) /\ call'[c].pc \in {"swept", "killing", "judge"}
          BY <1>2, <2>8, StepOverCall
        <4> QED BY <4>1 DEF Others, Asking
      <3>3. \A d \in Calls : call'[d].pc \in {"create", "spawning"} =>
              call[d].pc \in {"create", "spawning"} /\ call'[d].job = call[d].job
        BY <3>2 DEF Asking
      <3>4. run' = run /\ (waiting' = waiting \/ waiting' = NoRun)
        BY <2>8 DEF StepOver
      <3>5. card'.fallback = card.fallback
        BY <2>8 DEF StepOver
      <3>6. \A d \in Calls : call'[d] = call[d] \/ (/\ Handles(call'[d]) => call'[d].copy.fallback = card.fallback
                                                    /\ call'[d].pc = "spawning" => call'[d].row.fallback = card.fallback)
        <4>1. Others(c) /\ call'[c].copy = card /\ call'[c].pc # "spawning"
          BY <1>2, <2>8, StepOverCall
        <4> QED BY <4>1 DEF Others
      <3> QED BY <1>2, <3>1, <3>3, <3>4, <3>5, <3>6, KeepOrder
    <2>9. CASE StartNext(c)
      <3>1. /\ call[c].pc = "judge" /\ Handles(call[c]) /\ Driver(call[c]) /\ call[c].auto \in Visit /\ Used(call[c].auto)
        <4>1. call[c].pc = "judge"
          BY <2>9 DEF StartNext, At
        <4>2. Handles(call[c]) /\ Driver(call[c])
          BY <4>1 DEF Handles, Driver
        <4>3. CallOK(call[c]) /\ Refers(call[c])
          BY <1>2 DEF Types, CallsOK, References
        <4>4. call[c].auto \in Visit
          BY <4>2, <4>3 DEF CallOK
        <4> QED BY <4>1, <4>2, <4>3, <4>4, CardTypes DEF Refers
      <3>2. PICK a0 \in Visit : a0 = call[c].auto
        BY <3>1
      <3>3. /\ a0 = active /\ auto[a0].lane = card.col /\ Live /\ auto[a0].sid = call[c].sid
        BY <1>1, <1>2, <3>1, <3>2, TheDriver, CardTypes DEF DriverOK, LaneInv, LaneCalm, Drive, InLane, Live,
               Handles
      <3>4. PICK s0 \in Session : s0 = call[c].sid
        BY <1>2, <3>1 DEF Types, CallsOK, CallOK
      <3>5. card.trigger = s0 /\ s0 # None
        BY <1>1, <3>2, <3>3, <3>4, CardTypes DEF LaneInv, LaneCalm, Drive, Trigger
      <3>6. run[s0].lane = card.col /\ run[s0].step >= auto[a0].step
        BY <1>1, <3>3, <3>5 DEF LaneInv, LaneCalm, Followings, FollowedNow, FollowedOK
      <3>7. auto[a0].lane \in Lanes /\ auto[a0].step \in Nat \ {0} /\ run[s0].step \in Nat \ {0}
        BY <1>2, <1>3, <3>1, <3>2, <3>6, CardTypes DEF Types, TypeOK, Jobs, AutoType, AutoOK, Used
      <3>8. Reached(auto[a0].lane, auto[a0].step + 1)
        <4> SUFFICES ASSUME NEW j \in 1..auto[a0].step PROVE Passed(auto[a0].lane, j)
          BY <3>7 DEF Reached
        <4>1. CASE j < run[s0].step
          <5>1. Placed(auto[a0].lane, run[s0].step)
            BY <3>3, <3>6 DEF Placed
          <5>2. Reached(auto[a0].lane, run[s0].step)
            BY <3>7, <5>1 DEF InOrder
          <5> QED BY <3>7, <4>1, <5>2 DEF Reached
        <4>2. CASE j >= run[s0].step
          <5>1. j = run[s0].step
            BY <3>6, <3>7, <4>2
          <5>2. CASE Success(call[c].ev)
            <6>1. s0 \in reported \cup okay
              BY <3>4, <5>2 DEF LaneInv, LaneBase, Evidence, Told, Success
            <6> QED BY <3>3, <3>6, <5>1, <6>1 DEF Passed
          <5>3. CASE ~ Success(call[c].ev)
            <6>1. auto[a0].fallback
              BY <2>9, <3>2, <5>3 DEF StartNext, CanFallback, AutoOf
            <6>2. card.fallback
              BY <3>7, <6>1 DEF Setting
            <6> QED BY <3>3, <3>6, <5>1, <6>2 DEF Passed
          <5> QED BY <5>2, <5>3
        <4> QED BY <3>7, <4>1, <4>2
      <3>9. /\ SameAutos({a0}) /\ SameLane(a0) /\ auto'[a0].step = auto[a0].step + 1
        BY <1>2, <2>9, <3>2, StartNextAuto
      <3>10. /\ Others(c) /\ call'[c].pc = "create" /\ call'[c].job.lane = auto[a0].lane /\ call'[c].job.step = auto[a0].step + 1
        <4>1. call'[c].job = Job(c, AutoOf(c).step + 1) /\ Others(c) /\ call'[c].pc = "create"
          BY <1>2, <2>9, StartNextCall
        <4> QED BY <3>2, <4>1 DEF Job, AutoOf
      <3>11. run' = run /\ waiting' = NoRun
        BY <2>9 DEF StartNext, Restart
      <3>12. card'.fallback = card.fallback
        <4>1. Handles(call[c]) /\ call[c].copy.fallback = card.fallback
          BY <1>2, <2>9 DEF StartNext, At, Handles, Setting, Copies
        <4> QED BY <1>2, <1>3, <2>9, <4>1, ClearedType, SavedType DEF StartNext, Restart
      <3>13. \A d \in Calls : call'[d] = call[d] \/ (/\ Handles(call'[d]) => call'[d].copy.fallback = card.fallback
                                                     /\ call'[d].pc = "spawning" => call'[d].row.fallback = card.fallback)
        <4>1. Handles(call[c]) /\ call[c].copy.fallback = card.fallback
          BY <1>2, <2>9 DEF StartNext, At, Handles, Setting, Copies
        <4>2. Others(c) /\ call'[c].copy = Cleared(c) /\ call'[c].pc # "spawning"
          BY <1>2, <2>9, StartNextCall
        <4>3. Cleared(c).fallback = card.fallback
          BY <1>2, <4>1, ClearedType
        <4> QED BY <4>2, <4>3 DEF Others
      <3>14. \A a \in Visit : auto'[a].step = auto[a].step \/ Used(a) \/ auto'[a].fallback = card.fallback
        BY <3>1, <3>2, <3>9 DEF SameAutos
      <3>15. \A s \in Session : run'[s] = run[s] \/ run'[s].auto \in Visit
        BY <3>11
      <3>16. Setting'
        BY <1>2, <3>12, <3>13, <3>14, <3>15, KeepSetting
      <3>17. \A s \in Session : proc[s] # "none" => run'[s] = run[s]
        BY <3>11
      <3>18. ASSUME NEW lane \in Lanes, NEW k \in Nat \ {0}, Placed(lane, k)'
             PROVE  Placed(lane, k) \/ Reached(lane, k)'
        <4>1. CASE lane = auto[a0].lane /\ k = auto[a0].step + 1
          <5>1. Reached(lane, k)
            BY <3>8, <4>1
          <5> QED BY <1>2, <3>12, <3>17, <5>1, KeepReached
        <4>2. CASE ~ (lane = auto[a0].lane /\ k = auto[a0].step + 1)
          BY <3>18, <3>9, <3>10, <3>11, <4>2 DEF Placed, SameAutos, SameLane, Others, NoRun
        <4> QED BY <4>1, <4>2
      <3>19. InOrder'
        BY <1>2, <3>12, <3>17, <3>18, KeepInOrder
      <3> QED BY <3>16, <3>19
    <2>10. CASE Recover(c)
      <3>1. /\ Handles(call[c]) /\ call[c].auto \in Visit /\ Used(call[c].auto)
        BY <1>2, <2>10, CardTypes DEF Recover, At, Handles, Types, CallsOK, CallOK, References, Refers
      <3>2. PICK a0 \in Visit : a0 = call[c].auto
        BY <3>1
      <3>3. SameAutos({a0}) /\ SameLane(a0) /\ auto'[a0].step = auto[a0].step
        BY <1>2, <2>10, <3>2, RecoverAuto
      <3>4. Others(c) /\ call'[c].pc = "create" /\ call'[c].job.lane = auto[a0].lane /\ call'[c].job.step = auto[a0].step
        <4>1. call'[c].job = Job(c, AutoOf(c).step) /\ Others(c) /\ call'[c].pc = "create"
          BY <1>2, <2>10, RecoverCall
        <4> QED BY <3>2, <4>1 DEF Job, AutoOf
      <3>5. run' = run /\ waiting' = NoRun
        BY <2>10 DEF Recover, Restart
      <3>6. card'.fallback = card.fallback
        <4>1. Handles(call[c]) /\ call[c].copy.fallback = card.fallback
          BY <1>2, <2>10 DEF Recover, At, Handles, Setting, Copies
        <4> QED BY <1>2, <1>3, <2>10, <4>1, ClearedType, SavedType DEF Recover, Restart
      <3>7. \A d \in Calls : call'[d] = call[d] \/ (/\ Handles(call'[d]) => call'[d].copy.fallback = card.fallback
                                                    /\ call'[d].pc = "spawning" => call'[d].row.fallback = card.fallback)
        <4>1. Handles(call[c]) /\ call[c].copy.fallback = card.fallback
          BY <1>2, <2>10 DEF Recover, At, Handles, Setting, Copies
        <4>2. Others(c) /\ call'[c].copy = Cleared(c) /\ call'[c].pc # "spawning"
          BY <1>2, <2>10, RecoverCall
        <4>3. Cleared(c).fallback = card.fallback
          BY <1>2, <4>1, ClearedType
        <4> QED BY <4>2, <4>3 DEF Others
      <3>8. \A a \in Visit : auto'[a].step = auto[a].step \/ Used(a) \/ auto'[a].fallback = card.fallback
        BY <3>3 DEF SameAutos
      <3>9. \A s \in Session : run'[s] = run[s] \/ run'[s].auto \in Visit
        BY <3>5
      <3>10. Setting'
        BY <1>2, <3>6, <3>7, <3>8, <3>9, KeepSetting
      <3>11. \A s \in Session : proc[s] # "none" => run'[s] = run[s]
        BY <3>5
      <3>12. ASSUME NEW lane \in Lanes, NEW k \in Nat \ {0}, Placed(lane, k)'
             PROVE  Placed(lane, k) \/ Reached(lane, k)'
        BY <3>3, <3>4, <3>12, <3>5 DEF Placed, SameAutos, SameLane, Others, NoRun
      <3>13. InOrder'
        BY <1>2, <3>6, <3>11, <3>12, KeepInOrder
      <3> QED BY <3>10, <3>13
    <2>11. CASE NothingFollows(c)
      <3>1. \A a \in Visit : auto'[a].lane = auto[a].lane /\ auto'[a].step = auto[a].step
        BY <2>11 DEF NothingFollows
      <3>2. \A d \in Calls : call'[d] = call[d] \/ call'[d].pc \notin Asking
        <4>1. Others(c) /\ call'[c].pc \notin Asking
          BY <1>2, <2>11, NothingFollowsCall DEF NothingFollows, At, Asking
        <4> QED BY <4>1 DEF Others
      <3>3. \A d \in Calls : call'[d].pc \in {"create", "spawning"} =>
              call[d].pc \in {"create", "spawning"} /\ call'[d].job = call[d].job
        BY <3>2 DEF Asking
      <3>4. run' = run /\ (waiting' = waiting \/ waiting' = NoRun)
        BY <2>11 DEF NothingFollows
      <3>5. card'.fallback = card.fallback
        BY <2>11 DEF NothingFollows
      <3>6. \A d \in Calls : call'[d] = call[d] \/ (/\ Handles(call'[d]) => call'[d].copy.fallback = card.fallback
                                                    /\ call'[d].pc = "spawning" => call'[d].row.fallback = card.fallback)
        <4>1. Handles(call[c]) /\ call[c].copy.fallback = card.fallback
          BY <1>2, <2>11 DEF NothingFollows, At, Handles, Setting, Copies
        <4>2. Others(c) /\ call'[c].copy = Judged(c) /\ call'[c].pc # "spawning"
          BY <1>2, <2>11, NothingFollowsCall
        <4>3. Judged(c).fallback = card.fallback
          BY <1>2, <4>1, JudgedType
        <4> QED BY <4>2, <4>3 DEF Others
      <3> QED BY <1>2, <3>1, <3>3, <3>4, <3>5, <3>6, KeepOrder
    <2>12. CASE CreateTakesTrigger(c)
      <3>1. \A a \in Visit : auto'[a].lane = auto[a].lane /\ auto'[a].step = auto[a].step
        BY <2>12 DEF CreateTakesTrigger
      <3>2. \A d \in Calls : \/ call'[d] = call[d] \/ call'[d].pc \notin Asking
                             \/ /\ call'[d].job = call[d].job /\ call[d].pc \in Asking
                                /\ call'[d].pc \in {"create", "spawning"} => call[d].pc \in {"create", "spawning"}
        <4>1. call[c].pc = "create"
          BY <2>12 DEF CreateTakesTrigger, At
        <4> QED BY <1>2, <4>1, <2>12, CreateTakesTriggerCall DEF Others, Asking, SameTask, SamePlan
      <3>3. \A d \in Calls : call'[d].pc \in {"create", "spawning"} =>
              call[d].pc \in {"create", "spawning"} /\ call'[d].job = call[d].job
        BY <3>2 DEF Asking
      <3>4. run' = run /\ (waiting' = waiting \/ waiting' = NoRun)
        BY <2>12 DEF CreateTakesTrigger
      <3>5. card'.fallback = card.fallback
        BY <2>12 DEF CreateTakesTrigger
      <3>6. \A d \in Calls : call'[d] = call[d] \/ (/\ Handles(call'[d]) => call'[d].copy.fallback = card.fallback
                                                    /\ call'[d].pc = "spawning" => call'[d].row.fallback = card.fallback)
        <4>1. /\ Others(c) /\ (Handles(call'[c]) => Handles(call[c]) /\ call'[c].copy = call[c].copy)
              /\ call'[c].pc # "spawning"
          BY <1>2, <2>12, CreateTakesTriggerCall DEF CreateTakesTrigger, At, Handles, SamePlan, Types,
                 CallsOK, CallOK
        <4> QED BY <4>1 DEF Others, Setting, Copies
      <3> QED BY <1>2, <3>1, <3>3, <3>4, <3>5, <3>6, KeepOrder
    <2>13. CASE CreateQueues(c)
      <3>1. card'.fallback = card.fallback
        BY <2>13 DEF CreateQueues
      <3>2. \A d \in Calls : call'[d] = call[d] \/ (/\ Handles(call'[d]) => call'[d].copy.fallback = card.fallback
                                                    /\ call'[d].pc = "spawning" => call'[d].row.fallback = card.fallback)
        <4>1. /\ Others(c) /\ (Handles(call'[c]) => Handles(call[c]) /\ call'[c].copy = call[c].copy)
              /\ call'[c].pc # "spawning"
          BY <1>2, <2>13, CreateQueuesCall DEF CreateQueues, At, Handles, SamePlan, Types, CallsOK, CallOK
        <4> QED BY <4>1 DEF Others, Setting, Copies
      <3>3. \A a \in Visit : auto'[a].step = auto[a].step \/ Used(a) \/ auto'[a].fallback = card.fallback
        BY <2>13 DEF CreateQueues
      <3>4. \A s \in Session : run'[s] = run[s] \/ run'[s].auto \in Visit
        BY <2>13 DEF CreateQueues
      <3>5. Setting'
        BY <1>2, <3>1, <3>2, <3>3, <3>4, KeepSetting
      <3>6. \A s \in Session : proc[s] # "none" => run'[s] = run[s]
        BY <2>13 DEF CreateQueues
      <3>7. ASSUME NEW lane \in Lanes, NEW k \in Nat \ {0}, Placed(lane, k)'
            PROVE  Placed(lane, k) \/ Reached(lane, k)'
        <4>1. call[c].pc = "create" /\ Others(c) /\ call'[c].pc = "created"
          BY <1>2, <2>13, CreateQueuesCall DEF CreateQueues, At
        <4>2. run' = run /\ auto' = auto /\ waiting' \in {waiting, call[c].job}
          BY <2>13 DEF CreateQueues
        <4> QED BY <3>7, <4>1, <4>2 DEF Placed, Others
      <3>8. InOrder'
        BY <1>2, <3>1, <3>6, <3>7, KeepInOrder
      <3> QED BY <3>5, <3>8
    <2>14. CASE CreateStarts(c)
      <3>1. \A a \in Visit : auto'[a].lane = auto[a].lane /\ auto'[a].step = auto[a].step
        BY <2>14 DEF CreateStarts
      <3>2. \A d \in Calls : \/ call'[d] = call[d] \/ call'[d].pc \notin Asking
                             \/ /\ call'[d].job = call[d].job /\ call[d].pc \in Asking
                                /\ call'[d].pc \in {"create", "spawning"} => call[d].pc \in {"create", "spawning"}
        <4>1. call[c].pc = "create"
          BY <2>14 DEF CreateStarts, At
        <4> QED BY <1>2, <4>1, <2>14, CreateStartsCall DEF Others, Asking, SameTask
      <3>3. \A d \in Calls : call'[d].pc \in {"create", "spawning"} =>
              call[d].pc \in {"create", "spawning"} /\ call'[d].job = call[d].job
        BY <3>2 DEF Asking
      <3>4. run' = run /\ (waiting' = waiting \/ waiting' = NoRun)
        BY <2>14 DEF CreateStarts
      <3>5. card'.fallback = card.fallback
        BY <2>14 DEF CreateStarts
      <3>6. \A d \in Calls : call'[d] = call[d] \/ (/\ Handles(call'[d]) => call'[d].copy.fallback = card.fallback
                                                    /\ call'[d].pc = "spawning" => call'[d].row.fallback = card.fallback)
        <4>1. /\ Others(c) /\ (Handles(call'[c]) => Handles(call[c])) /\ call'[c].copy = call[c].copy
              /\ call'[c].row = card
          BY <1>2, <2>14, CreateStartsCall DEF CreateStarts, At, Handles
        <4> QED BY <4>1 DEF Others, Setting, Copies
      <3> QED BY <1>2, <3>1, <3>3, <3>4, <3>5, <3>6, KeepOrder
    <2>15. CASE Spawned(c)
      <3>1. PICK s \in Session : /\ proc[s] = "none" /\ run' = [run EXCEPT ![s] = call[c].job]
                                 /\ IF call[c].why = "queue" THEN Return(c) ELSE Answer(c, "session", s)
        BY <2>15 DEF Spawned
      <3>2. call[c].pc = "spawning" /\ waiting' = waiting /\ auto' = auto
        BY <2>15 DEF Spawned, At
      <3>3. run'[s] = call[c].job /\ \A r \in Session \ {s} : run'[r] = run[r]
        BY <1>2, <3>1 DEF Types, TypeOK
      <3>4. card'.fallback = card.fallback
        <4>1. call[c].row \in Card /\ call[c].row.fallback = card.fallback
          BY <1>3, <2>15 DEF Spawned, At, CallType, Setting, Copies
        <4> QED BY <1>3, <2>15, <4>1, WithRunType, SavedType DEF Spawned
      <3>5. \A d \in Calls : call'[d] = call[d] \/ (/\ Handles(call'[d]) => call'[d].copy.fallback = card.fallback
                                                    /\ call'[d].pc = "spawning" => call'[d].row.fallback = card.fallback)
        <4>1. PICK e \in Session : IF call[c].why = "queue" THEN Return(c) ELSE Answer(c, "session", e)
          BY <2>15 DEF Spawned
        <4>2. /\ Others(c) /\ (Handles(call'[c]) => Handles(call[c]) /\ call'[c].copy = call[c].copy)
              /\ call'[c].pc # "spawning"
          BY <1>2, <2>15, <4>1, SpawnedCall, IdleFields DEF Spawned, At, Handles, SamePlan
        <4> QED BY <4>2 DEF Others, Setting, Copies
      <3>6. \A a \in Visit : auto'[a].step = auto[a].step \/ Used(a) \/ auto'[a].fallback = card.fallback
        BY <2>15 DEF Spawned
      <3>7. \A r \in Session : run'[r] = run[r] \/ run'[r].auto \in Visit
        BY <1>2, <3>2, <3>3 DEF Types, CallsOK, CallOK
      <3>8. Setting'
        BY <1>2, <3>4, <3>5, <3>6, <3>7, KeepSetting
      <3>9. \A r \in Session : proc[r] # "none" => run'[r] = run[r]
        BY <3>1, <3>3
      <3>10. ASSUME NEW lane \in Lanes, NEW k \in Nat \ {0}, Placed(lane, k)'
             PROVE  Placed(lane, k) \/ Reached(lane, k)'
        <4>1. Others(c) /\ call'[c].pc \notin {"create", "spawning"}
          BY <1>2, <3>1, <3>2, SpawnedCall, IdleFields
        <4> QED BY <3>2, <3>3, <3>10, <4>1 DEF Placed, Others
      <3>11. InOrder'
        BY <1>2, <3>4, <3>9, <3>10, KeepInOrder
      <3> QED BY <3>8, <3>11
    <2>16. CASE SpawnFails(c)
      <3>1. \A a \in Visit : auto'[a].lane = auto[a].lane /\ auto'[a].step = auto[a].step
        BY <2>16 DEF SpawnFails
      <3>2. \A d \in Calls : \/ call'[d] = call[d] \/ call'[d].pc \notin Asking
                             \/ /\ call'[d].job = call[d].job /\ call[d].pc \in Asking
                                /\ call'[d].pc \in {"create", "spawning"} => call[d].pc \in {"create", "spawning"}
        <4>1. call[c].pc = "spawning"
          BY <2>16 DEF SpawnFails, At
        <4> QED BY <1>2, <4>1, <2>16, SpawnFailsCall, IdleFields DEF Others, Asking, SameTask, SamePlan
      <3>3. \A d \in Calls : call'[d].pc \in {"create", "spawning"} =>
              call[d].pc \in {"create", "spawning"} /\ call'[d].job = call[d].job
        BY <3>2 DEF Asking
      <3>4. run' = run /\ (waiting' = waiting \/ waiting' = NoRun)
        BY <2>16 DEF SpawnFails
      <3>5. card'.fallback = card.fallback
        <4>1. call[c].row \in Card /\ call[c].row.fallback = card.fallback
          BY <1>3, <2>16 DEF SpawnFails, At, CallType, Setting, Copies
        <4> QED BY <1>3, <2>16, <4>1, SavedType DEF SpawnFails
      <3>6. \A d \in Calls : call'[d] = call[d] \/ (/\ Handles(call'[d]) => call'[d].copy.fallback = card.fallback
                                                    /\ call'[d].pc = "spawning" => call'[d].row.fallback = card.fallback)
        <4>1. /\ Others(c) /\ (Handles(call'[c]) => Handles(call[c]) /\ call'[c].copy = call[c].copy)
              /\ call'[c].pc # "spawning"
          BY <1>2, <2>16, SpawnFailsCall, IdleFields DEF SpawnFails, At, Handles, SamePlan, Types, CallsOK,
                 CallOK
        <4> QED BY <4>1 DEF Others, Setting, Copies
      <3> QED BY <1>2, <3>1, <3>3, <3>4, <3>5, <3>6, KeepOrder
    <2>17. CASE Entered(c)
      <3>1. \A a \in Visit : auto'[a].lane = auto[a].lane /\ auto'[a].step = auto[a].step
        <4>1. call[c].auto \in Visit /\ auto' = WithSession(c)
          BY <1>2, <2>17 DEF Entered, At, Types, CallsOK, CallOK, Enters
        <4> QED BY <1>2, <4>1, WithSessionType
      <3>2. \A d \in Calls : call'[d] = call[d] \/ call'[d].pc \notin Asking
        <4>1. Others(c) /\ call'[c] = Idle
          BY <1>2, <2>17, ReturnCall DEF Entered
        <4> QED BY <4>1, IdleFields DEF Others, Asking
      <3>3. \A d \in Calls : call'[d].pc \in {"create", "spawning"} =>
              call[d].pc \in {"create", "spawning"} /\ call'[d].job = call[d].job
        BY <3>2 DEF Asking
      <3>4. run' = run /\ (waiting' = waiting \/ waiting' = NoRun)
        BY <2>17 DEF Entered
      <3>5. card'.fallback = card.fallback
        BY <2>17 DEF Entered
      <3>6. \A d \in Calls : call'[d] = call[d] \/ (/\ Handles(call'[d]) => call'[d].copy.fallback = card.fallback
                                                    /\ call'[d].pc = "spawning" => call'[d].row.fallback = card.fallback)
        <4>1. Others(c) /\ ~ Handles(call'[c]) /\ call'[c].pc # "spawning"
          BY <1>2, <2>17, ReturnCall, IdleFields, IdleFields DEF Entered, At, Handles
        <4> QED BY <4>1 DEF Others
      <3> QED BY <1>2, <3>1, <3>3, <3>4, <3>5, <3>6, KeepOrder
    <2>18. CASE Continued(c)
      <3>1. \A a \in Visit : auto'[a].lane = auto[a].lane /\ auto'[a].step = auto[a].step
        BY <1>2, <2>18, ContinuedAuto DEF SameAutos, SameLane
      <3>2. \A d \in Calls : call'[d] = call[d] \/ call'[d].pc \notin Asking
        <4>1. Others(c) /\ call'[c] = Idle
          BY <1>2, <2>18, ReturnCall DEF Continued
        <4> QED BY <4>1, IdleFields DEF Others, Asking
      <3>3. \A d \in Calls : call'[d].pc \in {"create", "spawning"} =>
              call[d].pc \in {"create", "spawning"} /\ call'[d].job = call[d].job
        BY <3>2 DEF Asking
      <3>4. run' = run /\ (waiting' = waiting \/ waiting' = NoRun)
        BY <2>18 DEF Continued
      <3>5. card'.fallback = card.fallback
        BY <2>18 DEF Continued
      <3>6. \A d \in Calls : call'[d] = call[d] \/ (/\ Handles(call'[d]) => call'[d].copy.fallback = card.fallback
                                                    /\ call'[d].pc = "spawning" => call'[d].row.fallback = card.fallback)
        <4>1. Others(c) /\ ~ Handles(call'[c]) /\ call'[c].pc # "spawning"
          BY <1>2, <2>18, ReturnCall, IdleFields, IdleFields DEF Continued, At, Handles
        <4> QED BY <4>1 DEF Others
      <3> QED BY <1>2, <3>1, <3>3, <3>4, <3>5, <3>6, KeepOrder
    <2>19. CASE NotContinued(c)
      <3>1. \A a \in Visit : auto'[a].lane = auto[a].lane /\ auto'[a].step = auto[a].step
        BY <1>2, <2>19, NotContinuedAuto DEF SameAutos, SameLane
      <3>2. \A d \in Calls : \/ call'[d] = call[d] \/ call'[d].pc \notin Asking
                             \/ /\ call'[d].job = call[d].job /\ call[d].pc \in Asking
                                /\ call'[d].pc \in {"create", "spawning"} => call[d].pc \in {"create", "spawning"}
        <4>1. call[c].pc = "created"
          BY <2>19 DEF NotContinued, At
        <4> QED BY <1>2, <4>1, <2>19, NotContinuedCall DEF Others, Asking, SameTask, SamePlan
      <3>3. \A d \in Calls : call'[d].pc \in {"create", "spawning"} =>
              call[d].pc \in {"create", "spawning"} /\ call'[d].job = call[d].job
        BY <3>2 DEF Asking
      <3>4. run' = run /\ (waiting' = waiting \/ waiting' = NoRun)
        BY <2>19 DEF NotContinued
      <3>5. card'.fallback = card.fallback
        BY <2>19 DEF NotContinued
      <3>6. \A d \in Calls : call'[d] = call[d] \/ (/\ Handles(call'[d]) => call'[d].copy.fallback = card.fallback
                                                    /\ call'[d].pc = "spawning" => call'[d].row.fallback = card.fallback)
        <4>1. Handles(call[c])
          BY <1>2, <2>19 DEF NotContinued, At, Handles, Types, CallsOK, CallOK, Starts
        <4>2. Others(c) /\ call'[c].copy = call[c].copy /\ call'[c].pc \in {"recover", "finish"}
          BY <1>2, <2>19, NotContinuedCall DEF SamePlan
        <4> QED BY <4>1, <4>2 DEF Others, Setting, Copies
      <3> QED BY <1>2, <3>1, <3>3, <3>4, <3>5, <3>6, KeepOrder
    <2>20. CASE LaneEnds(c)
      <3>1. \A a \in Visit : auto'[a].lane = auto[a].lane /\ auto'[a].step = auto[a].step
        <4>1. call[c].pc = "finish" /\ auto' = Over(c)
          BY <2>20 DEF LaneEnds, At
        <4> QED BY <1>2, <4>1, OverType
      <3>2. \A d \in Calls : call'[d] = call[d] \/ call'[d].pc \notin Asking
        <4>1. Others(c) /\ call'[c] = Idle
          BY <1>2, <2>20, ReturnCall DEF LaneEnds
        <4> QED BY <4>1, IdleFields DEF Others, Asking
      <3>3. \A d \in Calls : call'[d].pc \in {"create", "spawning"} =>
              call[d].pc \in {"create", "spawning"} /\ call'[d].job = call[d].job
        BY <3>2 DEF Asking
      <3>4. run' = run /\ (waiting' = waiting \/ waiting' = NoRun)
        BY <2>20 DEF LaneEnds
      <3>5. card'.fallback = card.fallback
        <4>1. call[c].copy \in Card /\ call[c].copy.fallback = card.fallback
          BY <1>3, <2>20 DEF LaneEnds, At, CallType, Setting, Copies, Handles
        <4> QED BY <1>3, <2>20, <4>1, SavedType DEF LaneEnds
      <3>6. \A d \in Calls : call'[d] = call[d] \/ (/\ Handles(call'[d]) => call'[d].copy.fallback = card.fallback
                                                    /\ call'[d].pc = "spawning" => call'[d].row.fallback = card.fallback)
        <4>1. Others(c) /\ ~ Handles(call'[c]) /\ call'[c].pc # "spawning"
          BY <1>2, <2>20, ReturnCall, IdleFields, IdleFields DEF LaneEnds, At, Handles
        <4> QED BY <4>1 DEF Others
      <3> QED BY <1>2, <3>1, <3>3, <3>4, <3>5, <3>6, KeepOrder
    <2>21. CASE LaneAdvances(c)
      <3>1. \A a \in Visit : auto'[a].lane = auto[a].lane /\ auto'[a].step = auto[a].step
        <4>1. call[c].pc = "finish" /\ auto' = Over(c)
          BY <2>21 DEF LaneAdvances, At
        <4> QED BY <1>2, <4>1, OverType
      <3>2. \A d \in Calls : call'[d] = call[d] \/ call'[d].pc \notin Asking
        <4>1. Others(c) /\ call'[c].pc \notin Asking
          BY <1>2, <2>21, LaneAdvancesCall DEF LaneAdvances, At, Arrives, Asking
        <4> QED BY <4>1 DEF Others
      <3>3. \A d \in Calls : call'[d].pc \in {"create", "spawning"} =>
              call[d].pc \in {"create", "spawning"} /\ call'[d].job = call[d].job
        BY <3>2 DEF Asking
      <3>4. run' = run /\ (waiting' = waiting \/ waiting' = NoRun)
        BY <2>21 DEF LaneAdvances
      <3>5. card'.fallback = card.fallback
        <4>1. call[c].copy \in Card /\ call[c].copy.fallback = card.fallback
          BY <1>3, <2>21 DEF LaneAdvances, At, CallType, Setting, Copies, Handles
        <4>2. Saved(call[c].copy) \in Card /\ Saved(call[c].copy).fallback = card.fallback
          BY <1>3, <4>1, SavedType
        <4>3. card' = [Saved(call[c].copy) EXCEPT !.col = "done", !.trigger = None]
          BY <2>21 DEF LaneAdvances
        <4> HIDE DEF Saved
        <4> QED BY <4>2, <4>3 DEF Card
      <3>6. \A d \in Calls : call'[d] = call[d] \/ (/\ Handles(call'[d]) => call'[d].copy.fallback = card.fallback
                                                    /\ call'[d].pc = "spawning" => call'[d].row.fallback = card.fallback)
        <4>1. Others(c) /\ ~ Handles(call'[c]) /\ call'[c].pc # "spawning"
          BY <1>2, <2>21, LaneAdvancesCall, IdleFields DEF LaneAdvances, At, Arrives, Handles
        <4> QED BY <4>1 DEF Others
      <3> QED BY <1>2, <3>1, <3>3, <3>4, <3>5, <3>6, KeepOrder
    <2>22. CASE LaneTearsDown(c)
      <3>1. \A a \in Visit : auto'[a].lane = auto[a].lane /\ auto'[a].step = auto[a].step
        <4>1. call[c].pc = "finish" /\ auto' = Over(c)
          BY <2>22 DEF LaneTearsDown, At
        <4> QED BY <1>2, <4>1, OverType
      <3>2. \A d \in Calls : call'[d] = call[d] \/ call'[d].pc \notin Asking
        <4>1. Others(c) /\ call'[c].pc \notin Asking
          BY <1>2, <2>22, LaneTearsDownCall DEF LaneTearsDown, At, Asking
        <4> QED BY <4>1 DEF Others
      <3>3. \A d \in Calls : call'[d].pc \in {"create", "spawning"} =>
              call[d].pc \in {"create", "spawning"} /\ call'[d].job = call[d].job
        BY <3>2 DEF Asking
      <3>4. run' = run /\ (waiting' = waiting \/ waiting' = NoRun)
        BY <2>22 DEF LaneTearsDown
      <3>5. card'.fallback = card.fallback
        <4>1. call[c].copy \in Card /\ call[c].copy.fallback = card.fallback
          BY <1>3, <2>22 DEF LaneTearsDown, At, CallType, Setting, Copies, Handles
        <4> QED BY <1>3, <2>22, <4>1, SavedType DEF LaneTearsDown
      <3>6. \A d \in Calls : call'[d] = call[d] \/ (/\ Handles(call'[d]) => call'[d].copy.fallback = card.fallback
                                                    /\ call'[d].pc = "spawning" => call'[d].row.fallback = card.fallback)
        <4>1. Others(c) /\ ~ Handles(call'[c]) /\ call'[c].pc # "spawning"
          BY <1>2, <2>22, LaneTearsDownCall DEF LaneTearsDown, At, Handles
        <4> QED BY <4>1 DEF Others
      <3> QED BY <1>2, <3>1, <3>3, <3>4, <3>5, <3>6, KeepOrder
    <2>23. CASE EndOne(c)
      <3>1. \A a \in Visit : auto'[a].lane = auto[a].lane /\ auto'[a].step = auto[a].step
        BY <2>23 DEF EndOne
      <3>2. \A d \in Calls : call'[d] = call[d] \/ call'[d].pc \notin Asking
        <4>1. Others(c) /\ call'[c].pc \notin Asking
          BY <1>2, <2>23, EndOneCall DEF EndOne, At, Asking
        <4> QED BY <4>1 DEF Others
      <3>3. \A d \in Calls : call'[d].pc \in {"create", "spawning"} =>
              call[d].pc \in {"create", "spawning"} /\ call'[d].job = call[d].job
        BY <3>2 DEF Asking
      <3>4. run' = run /\ (waiting' = waiting \/ waiting' = NoRun)
        BY <2>23 DEF EndOne
      <3>5. card'.fallback = card.fallback
        BY <2>23 DEF EndOne
      <3>6. \A d \in Calls : call'[d] = call[d] \/ (/\ Handles(call'[d]) => call'[d].copy.fallback = card.fallback
                                                    /\ call'[d].pc = "spawning" => call'[d].row.fallback = card.fallback)
        <4>1. Others(c) /\ ~ Handles(call'[c]) /\ call'[c].pc # "spawning"
          BY <1>2, <2>23, EndOneCall DEF EndOne, At, Handles
        <4> QED BY <4>1 DEF Others
      <3> QED BY <1>2, <3>1, <3>3, <3>4, <3>5, <3>6, KeepOrder
    <2>24. CASE AllEnded(c)
      <3>1. \A a \in Visit : auto'[a].lane = auto[a].lane /\ auto'[a].step = auto[a].step
        BY <2>24 DEF AllEnded
      <3>2. \A d \in Calls : call'[d] = call[d] \/ call'[d].pc \notin Asking
        <4>1. Others(c) /\ call'[c] = Idle
          BY <1>2, <2>24, ReturnCall DEF AllEnded
        <4> QED BY <4>1, IdleFields DEF Others, Asking
      <3>3. \A d \in Calls : call'[d].pc \in {"create", "spawning"} =>
              call[d].pc \in {"create", "spawning"} /\ call'[d].job = call[d].job
        BY <3>2 DEF Asking
      <3>4. run' = run /\ (waiting' = waiting \/ waiting' = NoRun)
        BY <2>24 DEF AllEnded
      <3>5. card'.fallback = card.fallback
        BY <2>24 DEF AllEnded
      <3>6. \A d \in Calls : call'[d] = call[d] \/ (/\ Handles(call'[d]) => call'[d].copy.fallback = card.fallback
                                                    /\ call'[d].pc = "spawning" => call'[d].row.fallback = card.fallback)
        <4>1. Others(c) /\ ~ Handles(call'[c]) /\ call'[c].pc # "spawning"
          BY <1>2, <2>24, ReturnCall, IdleFields, IdleFields DEF AllEnded, At, Handles
        <4> QED BY <4>1 DEF Others
      <3> QED BY <1>2, <3>1, <3>3, <3>4, <3>5, <3>6, KeepOrder
    <2>25. CASE EnterLane(c)
      <3>1. \A a \in Visit : auto'[a].lane = auto[a].lane /\ auto'[a].step = auto[a].step
        BY <2>25 DEF EnterLane
      <3>2. \A d \in Calls : call'[d] = call[d] \/ call'[d].pc \notin Asking
        <4>1. Others(c) /\ call'[c].pc \notin Asking
          BY <1>2, <2>25, EnterLaneCall, IdleFields DEF EnterLane, At, Asking
        <4> QED BY <4>1 DEF Others
      <3>3. \A d \in Calls : call'[d].pc \in {"create", "spawning"} =>
              call[d].pc \in {"create", "spawning"} /\ call'[d].job = call[d].job
        BY <3>2 DEF Asking
      <3>4. run' = run /\ (waiting' = waiting \/ waiting' = NoRun)
        BY <2>25 DEF EnterLane
      <3>5. card'.fallback = card.fallback
        BY <2>25 DEF EnterLane
      <3>6. \A d \in Calls : call'[d] = call[d] \/ (/\ Handles(call'[d]) => call'[d].copy.fallback = card.fallback
                                                    /\ call'[d].pc = "spawning" => call'[d].row.fallback = card.fallback)
        <4>1. Others(c) /\ ~ Handles(call'[c]) /\ call'[c].pc # "spawning"
          BY <1>2, <2>25, EnterLaneCall, IdleFields, IdleFields DEF EnterLane, At, Handles
        <4> QED BY <4>1 DEF Others
      <3> QED BY <1>2, <3>1, <3>3, <3>4, <3>5, <3>6, KeepOrder
    <2>26. CASE Register(c)
      <3>1. PICK a0 \in Visit : a0 = active'
        BY <1>2, <2>26, RegisterAuto
      <3>2. /\ auto[a0].status = "none" /\ SameAutos({a0}) /\ auto'[a0].step = 1 /\ auto'[a0].fallback = card.fallback
        BY <1>2, <2>26, <3>1, RegisterAuto
      <3>3. Others(c) /\ call'[c].pc = "create" /\ call'[c].job.step = 1
        BY <1>2, <2>26, RegisterCall
      <3>4. run' = run /\ waiting' = waiting
        BY <2>26 DEF Register
      <3>5. card'.fallback = card.fallback
        BY <2>26 DEF Register
      <3>6. \A d \in Calls : call'[d] = call[d] \/ (/\ Handles(call'[d]) => call'[d].copy.fallback = card.fallback
                                                    /\ call'[d].pc = "spawning" => call'[d].row.fallback = card.fallback)
        <4>1. Others(c) /\ ~ Handles(call'[c]) /\ call'[c].pc # "spawning"
          BY <1>2, <2>26, RegisterCall DEF Handles
        <4> QED BY <4>1 DEF Others
      <3>7. \A a \in Visit : auto'[a].step = auto[a].step \/ Used(a) \/ auto'[a].fallback = card.fallback
        BY <3>2 DEF SameAutos
      <3>8. \A s \in Session : run'[s] = run[s] \/ run'[s].auto \in Visit
        BY <2>26 DEF Register
      <3>9. Setting'
        BY <1>2, <3>5, <3>6, <3>7, <3>8, KeepSetting
      <3>10. \A s \in Session : proc[s] # "none" => run'[s] = run[s]
        BY <2>26 DEF Register
      <3>11. ASSUME NEW lane \in Lanes, NEW k \in Nat \ {0}, Placed(lane, k)'
             PROVE  Placed(lane, k) \/ Reached(lane, k)'
        <4>1. CASE k = 1
          BY <4>1 DEF Reached
        <4>2. CASE k # 1
          BY <3>2, <3>3, <3>4, <3>11, <4>2 DEF Placed, SameAutos, Others
        <4> QED BY <4>1, <4>2
      <3>12. InOrder'
        BY <1>2, <3>5, <3>10, <3>11, KeepInOrder
      <3> QED BY <3>9, <3>12
    <2> QED BY <1>4, <2>1, <2>2, <2>3, <2>4, <2>5, <2>6, <2>7, <2>8, <2>9, <2>10, <2>11, <2>12, <2>13, <2>14,
               <2>15, <2>16, <2>17, <2>18, <2>19, <2>20, <2>21, <2>22, <2>23, <2>24, <2>25, <2>26 DEF CallStep
  <1>5. ASSUME NEW s \in Session, Report(s) \/ TurnEnds(s) \/ TurnFails(s) \/ PromptBroke(s) \/ Exits(s)
        PROVE  Setting' /\ InOrder'
    <2>1. CASE Report(s)
      <3>1. \A a \in Visit : auto'[a].lane = auto[a].lane /\ auto'[a].step = auto[a].step
        BY <2>1 DEF Report
      <3>2. \A d \in Calls : call'[d] = call[d] \/ call'[d].pc \notin Asking
        <4>1. PICK d \in Calls : Taken(d, s, "report")
          BY <1>2, <2>1, EmitCall DEF Report, Events
        <4> QED BY <4>1 DEF Taken, Others, Asking
      <3>3. \A d \in Calls : call'[d].pc \in {"create", "spawning"} =>
              call[d].pc \in {"create", "spawning"} /\ call'[d].job = call[d].job
        BY <3>2 DEF Asking
      <3>4. run' = run /\ (waiting' = waiting \/ waiting' = NoRun)
        BY <2>1 DEF Report
      <3>5. card'.fallback = card.fallback
        BY <2>1 DEF Report
      <3>6. \A d \in Calls : call'[d] = call[d] \/ (/\ Handles(call'[d]) => call'[d].copy.fallback = card.fallback
                                                    /\ call'[d].pc = "spawning" => call'[d].row.fallback = card.fallback)
        <4>1. PICK d \in Calls : Taken(d, s, "report")
          BY <1>2, <2>1, EmitCall DEF Report, Events
        <4> QED BY <4>1 DEF Taken, Others, Handles
      <3> QED BY <1>2, <3>1, <3>3, <3>4, <3>5, <3>6, KeepOrder
    <2>2. CASE TurnEnds(s)
      <3>1. \A a \in Visit : auto'[a].lane = auto[a].lane /\ auto'[a].step = auto[a].step
        BY <2>2 DEF TurnEnds
      <3>2. \A d \in Calls : call'[d] = call[d] \/ call'[d].pc \notin Asking
        <4>1. PICK d \in Calls : Taken(d, s, "end")
          BY <1>2, <2>2, EmitCall DEF TurnEnds, Events
        <4> QED BY <4>1 DEF Taken, Others, Asking
      <3>3. \A d \in Calls : call'[d].pc \in {"create", "spawning"} =>
              call[d].pc \in {"create", "spawning"} /\ call'[d].job = call[d].job
        BY <3>2 DEF Asking
      <3>4. run' = run /\ (waiting' = waiting \/ waiting' = NoRun)
        BY <2>2 DEF TurnEnds
      <3>5. card'.fallback = card.fallback
        BY <2>2 DEF TurnEnds
      <3>6. \A d \in Calls : call'[d] = call[d] \/ (/\ Handles(call'[d]) => call'[d].copy.fallback = card.fallback
                                                    /\ call'[d].pc = "spawning" => call'[d].row.fallback = card.fallback)
        <4>1. PICK d \in Calls : Taken(d, s, "end")
          BY <1>2, <2>2, EmitCall DEF TurnEnds, Events
        <4> QED BY <4>1 DEF Taken, Others, Handles
      <3> QED BY <1>2, <3>1, <3>3, <3>4, <3>5, <3>6, KeepOrder
    <2>3. CASE TurnFails(s)
      <3>1. \A a \in Visit : auto'[a].lane = auto[a].lane /\ auto'[a].step = auto[a].step
        BY <2>3 DEF TurnFails
      <3>2. \A d \in Calls : call'[d] = call[d] \/ call'[d].pc \notin Asking
        <4>1. PICK d \in Calls : Taken(d, s, "failed")
          BY <1>2, <2>3, EmitCall DEF TurnFails, Events
        <4> QED BY <4>1 DEF Taken, Others, Asking
      <3>3. \A d \in Calls : call'[d].pc \in {"create", "spawning"} =>
              call[d].pc \in {"create", "spawning"} /\ call'[d].job = call[d].job
        BY <3>2 DEF Asking
      <3>4. run' = run /\ (waiting' = waiting \/ waiting' = NoRun)
        BY <2>3 DEF TurnFails
      <3>5. card'.fallback = card.fallback
        BY <2>3 DEF TurnFails
      <3>6. \A d \in Calls : call'[d] = call[d] \/ (/\ Handles(call'[d]) => call'[d].copy.fallback = card.fallback
                                                    /\ call'[d].pc = "spawning" => call'[d].row.fallback = card.fallback)
        <4>1. PICK d \in Calls : Taken(d, s, "failed")
          BY <1>2, <2>3, EmitCall DEF TurnFails, Events
        <4> QED BY <4>1 DEF Taken, Others, Handles
      <3> QED BY <1>2, <3>1, <3>3, <3>4, <3>5, <3>6, KeepOrder
    <2>4. CASE PromptBroke(s)
      <3>1. \A a \in Visit : auto'[a].lane = auto[a].lane /\ auto'[a].step = auto[a].step
        BY <2>4 DEF PromptBroke
      <3>2. \A d \in Calls : call'[d] = call[d] \/ call'[d].pc \notin Asking
        <4>1. PICK d \in Calls : Taken(d, s, "failed")
          BY <1>2, <2>4, EmitCall DEF PromptBroke, Events
        <4> QED BY <4>1 DEF Taken, Others, Asking
      <3>3. \A d \in Calls : call'[d].pc \in {"create", "spawning"} =>
              call[d].pc \in {"create", "spawning"} /\ call'[d].job = call[d].job
        BY <3>2 DEF Asking
      <3>4. run' = run /\ (waiting' = waiting \/ waiting' = NoRun)
        BY <2>4 DEF PromptBroke
      <3>5. card'.fallback = card.fallback
        BY <2>4 DEF PromptBroke
      <3>6. \A d \in Calls : call'[d] = call[d] \/ (/\ Handles(call'[d]) => call'[d].copy.fallback = card.fallback
                                                    /\ call'[d].pc = "spawning" => call'[d].row.fallback = card.fallback)
        <4>1. PICK d \in Calls : Taken(d, s, "failed")
          BY <1>2, <2>4, EmitCall DEF PromptBroke, Events
        <4> QED BY <4>1 DEF Taken, Others, Handles
      <3> QED BY <1>2, <3>1, <3>3, <3>4, <3>5, <3>6, KeepOrder
    <2>5. CASE Exits(s)
      <3>1. \A a \in Visit : auto'[a].lane = auto[a].lane /\ auto'[a].step = auto[a].step
        BY <2>5 DEF Exits
      <3>2. \A d \in Calls : call'[d] = call[d] \/ call'[d].pc \notin Asking
        <4>1. PICK d \in Calls : Taken(d, s, "failed")
          BY <1>2, <2>5, EmitCall DEF Exits, Events
        <4> QED BY <4>1 DEF Taken, Others, Asking
      <3>3. \A d \in Calls : call'[d].pc \in {"create", "spawning"} =>
              call[d].pc \in {"create", "spawning"} /\ call'[d].job = call[d].job
        BY <3>2 DEF Asking
      <3>4. run' = run /\ (waiting' = waiting \/ waiting' = NoRun)
        BY <2>5 DEF Exits
      <3>5. card'.fallback = card.fallback
        BY <2>5 DEF Exits
      <3>6. \A d \in Calls : call'[d] = call[d] \/ (/\ Handles(call'[d]) => call'[d].copy.fallback = card.fallback
                                                    /\ call'[d].pc = "spawning" => call'[d].row.fallback = card.fallback)
        <4>1. PICK d \in Calls : Taken(d, s, "failed")
          BY <1>2, <2>5, EmitCall DEF Exits, Events
        <4> QED BY <4>1 DEF Taken, Others, Handles
      <3> QED BY <1>2, <3>1, <3>3, <3>4, <3>5, <3>6, KeepOrder
    <2> QED BY <1>5, <2>1, <2>2, <2>3, <2>4, <2>5
  <1>6. CASE QueueStarts
    <2>1. CASE ~ Startable(waiting)
      <3>1. \A a \in Visit : auto'[a].lane = auto[a].lane /\ auto'[a].step = auto[a].step
        BY <1>6 DEF QueueStarts
      <3>2. \A d \in Calls : call'[d] = call[d] \/ call'[d].pc \notin Asking
        BY <1>6, <2>1 DEF QueueStarts
      <3>3. \A d \in Calls : call'[d].pc \in {"create", "spawning"} =>
              call[d].pc \in {"create", "spawning"} /\ call'[d].job = call[d].job
        BY <3>2 DEF Asking
      <3>4. run' = run /\ (waiting' = waiting \/ waiting' = NoRun)
        BY <1>6, <2>1 DEF QueueStarts
      <3>5. card'.fallback = card.fallback
        BY <1>6 DEF QueueStarts
      <3>6. \A d \in Calls : call'[d] = call[d] \/ (/\ Handles(call'[d]) => call'[d].copy.fallback = card.fallback
                                                    /\ call'[d].pc = "spawning" => call'[d].row.fallback = card.fallback)
        BY <1>6, <2>1 DEF QueueStarts
      <3> QED BY <1>2, <3>1, <3>3, <3>4, <3>5, <3>6, KeepOrder
    <2>2. CASE Startable(waiting)
      <3>1. PICK c \in Calls : /\ Others(c) /\ call[c].pc = "idle" /\ call'[c].pc = "spawning" /\ call'[c].why = "queue"
                               /\ call'[c].job = waiting /\ call'[c].row = card
        <4>1. waiting # NoRun /\ waiting.auto \in Visit
          BY <1>2, <1>6 DEF QueueStarts, Types, WaitingOK
        <4> QED BY <1>2, <1>6, <2>2, <4>1, QueueStartsCall
      <3>2. run' = run /\ auto' = auto /\ waiting' = NoRun
        BY <1>6 DEF QueueStarts
      <3>3. card'.fallback = card.fallback
        BY <1>6 DEF QueueStarts
      <3>4. \A d \in Calls : call'[d] = call[d] \/ (/\ Handles(call'[d]) => call'[d].copy.fallback = card.fallback
                                                    /\ call'[d].pc = "spawning" => call'[d].row.fallback = card.fallback)
        BY <3>1 DEF Others, Handles
      <3>5. \A a \in Visit : auto'[a].step = auto[a].step \/ Used(a) \/ auto'[a].fallback = card.fallback
        BY <1>6 DEF QueueStarts
      <3>6. \A s \in Session : run'[s] = run[s] \/ run'[s].auto \in Visit
        BY <1>6 DEF QueueStarts
      <3>7. Setting'
        BY <1>2, <3>3, <3>4, <3>5, <3>6, KeepSetting
      <3>8. \A s \in Session : proc[s] # "none" => run'[s] = run[s]
        BY <1>6 DEF QueueStarts
      <3>9. ASSUME NEW lane \in Lanes, NEW k \in Nat \ {0}, Placed(lane, k)'
            PROVE  Placed(lane, k) \/ Reached(lane, k)'
        BY <3>1, <3>2, <3>9 DEF Placed, Others, NoRun
      <3>10. InOrder'
        BY <1>2, <3>3, <3>8, <3>9, KeepInOrder
      <3> QED BY <3>7, <3>10
    <2> QED BY <2>1, <2>2
  <1>7. CASE RemoveWorktree
    <2>1. \A a \in Visit : auto'[a].lane = auto[a].lane /\ auto'[a].step = auto[a].step
      BY <1>7 DEF RemoveWorktree
    <2>2. \A d \in Calls : call'[d] = call[d] \/ call'[d].pc \notin Asking
      BY <1>7 DEF RemoveWorktree
    <2>3. \A d \in Calls : call'[d].pc \in {"create", "spawning"} =>
            call[d].pc \in {"create", "spawning"} /\ call'[d].job = call[d].job
      BY <2>2 DEF Asking
    <2>4. run' = run /\ (waiting' = waiting \/ waiting' = NoRun)
      BY <1>7 DEF RemoveWorktree
    <2>5. card'.fallback = card.fallback
      BY <1>7 DEF RemoveWorktree
    <2>6. \A d \in Calls : call'[d] = call[d] \/ (/\ Handles(call'[d]) => call'[d].copy.fallback = card.fallback
                                                  /\ call'[d].pc = "spawning" => call'[d].row.fallback = card.fallback)
      BY <1>7 DEF RemoveWorktree
    <2> QED BY <1>2, <2>1, <2>3, <2>4, <2>5, <2>6, KeepOrder
  <1>8. CASE KeepWorktree
    <2>1. \A a \in Visit : auto'[a].lane = auto[a].lane /\ auto'[a].step = auto[a].step
      BY <1>8 DEF KeepWorktree
    <2>2. \A d \in Calls : call'[d] = call[d] \/ call'[d].pc \notin Asking
      BY <1>8 DEF KeepWorktree
    <2>3. \A d \in Calls : call'[d].pc \in {"create", "spawning"} =>
            call[d].pc \in {"create", "spawning"} /\ call'[d].job = call[d].job
      BY <2>2 DEF Asking
    <2>4. run' = run /\ (waiting' = waiting \/ waiting' = NoRun)
      BY <1>8 DEF KeepWorktree
    <2>5. card'.fallback = card.fallback
      BY <1>8 DEF KeepWorktree
    <2>6. \A d \in Calls : call'[d] = call[d] \/ (/\ Handles(call'[d]) => call'[d].copy.fallback = card.fallback
                                                  /\ call'[d].pc = "spawning" => call'[d].row.fallback = card.fallback)
      BY <1>8 DEF KeepWorktree
    <2> QED BY <1>2, <2>1, <2>3, <2>4, <2>5, <2>6, KeepOrder
  <1>9. CASE ScanAdopts
    <2>1. \A a \in Visit : auto'[a].lane = auto[a].lane /\ auto'[a].step = auto[a].step
      <3>1. auto' = Adopted
        BY <1>9 DEF ScanAdopts
      <3> QED BY <1>2, <3>1, AdoptedType
    <2>2. \A d \in Calls : call'[d] = call[d] \/ call'[d].pc \notin Asking
      BY <1>9 DEF ScanAdopts
    <2>3. \A d \in Calls : call'[d].pc \in {"create", "spawning"} =>
            call[d].pc \in {"create", "spawning"} /\ call'[d].job = call[d].job
      BY <2>2 DEF Asking
    <2>4. run' = run /\ (waiting' = waiting \/ waiting' = NoRun)
      BY <1>9 DEF ScanAdopts
    <2>5. card'.fallback = card.fallback
      BY <1>9 DEF ScanAdopts
    <2>6. \A d \in Calls : call'[d] = call[d] \/ (/\ Handles(call'[d]) => call'[d].copy.fallback = card.fallback
                                                  /\ call'[d].pc = "spawning" => call'[d].row.fallback = card.fallback)
      BY <1>9 DEF ScanAdopts
    <2> QED BY <1>2, <2>1, <2>3, <2>4, <2>5, <2>6, KeepOrder
  <1>10. CASE ScanTimesOut
    <2>1. \A a \in Visit : auto'[a].lane = auto[a].lane /\ auto'[a].step = auto[a].step
      BY <1>3, <1>10 DEF ScanTimesOut, AutoType
    <2>2. \A d \in Calls : call'[d] = call[d] \/ call'[d].pc \notin Asking
      <3>1. PICK d \in Calls : Taken(d, auto[active].sid, "timeout")
        BY <1>2, <1>10, TimesOutCall
      <3> QED BY <3>1 DEF Taken, Others, Asking
    <2>3. \A d \in Calls : call'[d].pc \in {"create", "spawning"} =>
            call[d].pc \in {"create", "spawning"} /\ call'[d].job = call[d].job
      BY <2>2 DEF Asking
    <2>4. run' = run /\ (waiting' = waiting \/ waiting' = NoRun)
      BY <1>10 DEF ScanTimesOut
    <2>5. card'.fallback = card.fallback
      BY <1>10 DEF ScanTimesOut
    <2>6. \A d \in Calls : call'[d] = call[d] \/ (/\ Handles(call'[d]) => call'[d].copy.fallback = card.fallback
                                                  /\ call'[d].pc = "spawning" => call'[d].row.fallback = card.fallback)
      <3>1. PICK d \in Calls : Taken(d, auto[active].sid, "timeout")
        BY <1>2, <1>10, TimesOutCall
      <3> QED BY <3>1 DEF Taken, Others, Handles
    <2> QED BY <1>2, <2>1, <2>3, <2>4, <2>5, <2>6, KeepOrder
  <1>11. ASSUME NEW to \in Columns, MoveCard(to) PROVE Setting' /\ InOrder'
    <2>1. \A a \in Visit : auto'[a].lane = auto[a].lane /\ auto'[a].step = auto[a].step
      BY <1>11 DEF MoveCard
    <2>2. \A d \in Calls : call'[d] = call[d] \/ call'[d].pc \notin Asking
      <3>1. CASE to \in Lanes
        <4>1. PICK d \in Calls : Arrives(d, to)
          BY <1>2, <1>11, <3>1, ArriveCall DEF MoveCard
        <4> QED BY <4>1 DEF Arrives, Others, Asking
      <3>2. CASE to \notin Lanes
        BY <1>11, <3>2 DEF MoveCard
      <3> QED BY <3>1, <3>2
    <2>3. \A d \in Calls : call'[d].pc \in {"create", "spawning"} =>
            call[d].pc \in {"create", "spawning"} /\ call'[d].job = call[d].job
      BY <2>2 DEF Asking
    <2>4. run' = run /\ (waiting' = waiting \/ waiting' = NoRun)
      BY <1>11 DEF MoveCard
    <2>5. card'.fallback = card.fallback
      BY <1>3, <1>11 DEF MoveCard, Card
    <2>6. \A d \in Calls : call'[d] = call[d] \/ (/\ Handles(call'[d]) => call'[d].copy.fallback = card.fallback
                                                  /\ call'[d].pc = "spawning" => call'[d].row.fallback = card.fallback)
      <3>1. CASE to \in Lanes
        <4>1. PICK d \in Calls : Arrives(d, to)
          BY <1>2, <1>11, <3>1, ArriveCall DEF MoveCard
        <4> QED BY <4>1 DEF Arrives, Others, Handles
      <3>2. CASE to \notin Lanes
        BY <1>11, <3>2 DEF MoveCard
      <3> QED BY <3>1, <3>2
    <2> QED BY <1>2, <2>1, <2>3, <2>4, <2>5, <2>6, KeepOrder
  <1>12. CASE UserBlocks
    <2>1. \A a \in Visit : auto'[a].lane = auto[a].lane /\ auto'[a].step = auto[a].step
      BY <1>12 DEF UserBlocks
    <2>2. \A d \in Calls : call'[d] = call[d] \/ call'[d].pc \notin Asking
      <3>1. PICK c \in Calls : Others(c) /\ call'[c].pc = "ending"
        BY <1>2, <1>12, UserBlocksCall
      <3> QED BY <3>1 DEF Others, Asking
    <2>3. \A d \in Calls : call'[d].pc \in {"create", "spawning"} =>
            call[d].pc \in {"create", "spawning"} /\ call'[d].job = call[d].job
      BY <2>2 DEF Asking
    <2>4. run' = run /\ (waiting' = waiting \/ waiting' = NoRun)
      BY <1>12 DEF UserBlocks
    <2>5. card'.fallback = card.fallback
      BY <1>3, <1>12 DEF UserBlocks, Card
    <2>6. \A d \in Calls : call'[d] = call[d] \/ (/\ Handles(call'[d]) => call'[d].copy.fallback = card.fallback
                                                  /\ call'[d].pc = "spawning" => call'[d].row.fallback = card.fallback)
      <3>1. PICK c \in Calls : Others(c) /\ call'[c].pc = "ending"
        BY <1>2, <1>12, UserBlocksCall
      <3> QED BY <3>1 DEF Others, Handles
    <2> QED BY <1>2, <2>1, <2>3, <2>4, <2>5, <2>6, KeepOrder
  <1>13. CASE UNCHANGED vars
    <2>1. \A a \in Visit : auto'[a].lane = auto[a].lane /\ auto'[a].step = auto[a].step
      BY <1>13 DEF vars
    <2>2. \A d \in Calls : call'[d] = call[d] \/ call'[d].pc \notin Asking
      BY <1>13 DEF vars
    <2>3. \A d \in Calls : call'[d].pc \in {"create", "spawning"} =>
            call[d].pc \in {"create", "spawning"} /\ call'[d].job = call[d].job
      BY <2>2 DEF Asking
    <2>4. run' = run /\ (waiting' = waiting \/ waiting' = NoRun)
      BY <1>13 DEF vars
    <2>5. card'.fallback = card.fallback
      BY <1>13 DEF vars
    <2>6. \A d \in Calls : call'[d] = call[d] \/ (/\ Handles(call'[d]) => call'[d].copy.fallback = card.fallback
                                                  /\ call'[d].pc = "spawning" => call'[d].row.fallback = card.fallback)
      BY <1>13 DEF vars
    <2> QED BY <1>2, <2>1, <2>3, <2>4, <2>5, <2>6, KeepOrder
  <1> QED BY <1>4, <1>5, <1>6, <1>7, <1>8, <1>9, <1>10, <1>11, <1>12, <1>13 DEF Next

LaneOrder == LaneInv /\ (~ interrupted => Setting /\ InOrder)

(* A step starts only after a session of each step before it in the lane has     *)
(* reported or ended its turn, or the card allows a fallback: where a step is    *)
(* asked for, waits or runs, the ones before it have passed.                     *)
THEOREM LaneInOrder == ~ EchoOverlaps /\ Spec => []StepsInOrder
  <1> SUFFICES ASSUME ~ EchoOverlaps PROVE Spec => []StepsInOrder
    OBVIOUS
  <1>1. Init => LaneOrder
    <2> SUFFICES ASSUME Init PROVE LaneOrder
      OBVIOUS
    <2>1. \A lane \in Lanes : \A k \in Nat \ {0} : ~ Placed(lane, k)
      BY IdleFields DEF Init, Placed, NoRun, NoAuto
    <2>2. Setting
      BY IdleFields DEF Init, Setting, Copies, Handles, NoAuto, NoRun
    <2> QED BY <2>1, <2>2, InitLane DEF LaneOrder, InOrder
  <1>2. LaneOrder /\ [Next]_vars => LaneOrder'
    <2> SUFFICES ASSUME LaneOrder, [Next]_vars PROVE LaneOrder'
      OBVIOUS
    <2>1. LaneInv'
      BY StepLane DEF LaneOrder
    <2>2. ASSUME ~ interrupted' PROVE Setting' /\ InOrder'
      <3>1. ~ interrupted
        BY <2>2, Interrupted
      <3> QED BY <2>2, <3>1, StepOrder DEF LaneOrder
    <2> QED BY <2>1, <2>2 DEF LaneOrder
  <1>3. LaneOrder => StepsInOrder
    <2> SUFFICES ASSUME LaneOrder, NEW s \in Session, run[s].step > 1, ~ interrupted
                 PROVE  \E r \in Session : /\ run[r].step = run[s].step - 1 /\ run[r].lane = run[s].lane
                                           /\ auto[run[s].auto].fallback \/ r \in reported \cup okay
      BY DEF StepsInOrder
    <2>1. Types /\ References /\ AutoOK /\ FreshOK /\ Setting /\ InOrder
      BY DEF LaneOrder, LaneInv, LaneBase
    <2>2. run[s].lane \in Lanes /\ run[s].step \in Nat \ {0} /\ Placed(run[s].lane, run[s].step)
      BY <2>1 DEF Types, TypeOK, Jobs, Placed
    <2>3. Passed(run[s].lane, run[s].step - 1)
      BY <2>1, <2>2 DEF InOrder, Reached
    <2>4. auto[run[s].auto].fallback = card.fallback
      <3>1. run[s].auto \in Visit /\ run[s].auto # None
        BY <2>1, <2>2, CardTypes DEF Setting
      <3>2. auto[run[s].auto].step > 0
        BY <2>1, <3>1 DEF References, RestRefers, OfUse, Used, AutoOK
      <3> QED BY <2>1, <3>1, <3>2 DEF Setting
    <2> QED BY <2>3, <2>4 DEF Passed
  <1> QED BY <1>1, <1>2, <1>3, PTL DEF Spec

-----------------------------------------------------------------------------
(* The worktree of a card that came to Done *)

Alive(s) == proc[s] \in {"working", "idle"}

\* A call that ends the sessions of a card whose Done lane succeeded.
Cleans(k) == k.pc = "ending" /\ k.clean

\* The worktree's cleanup is under way: sessions are ended for it, one that is
\* inside its turn is waited for, or git is asked.
UnderWay == cleaning \/ pending # {} \/ \E c \in Calls : Cleans(call[c])

\* A visit of the Done lane that is over.
Finished(a) == auto[a].lane = "done" /\ auto[a].status \in {"completed", "failed"}

\* Whom the cleanup has still to end before it goes on.
Collected ==
  /\ cleaning => \A s \in Session : ~ Alive(s)
  /\ \A p \in pending : \A s \in Session : Alive(s) => s = p
  /\ \A c \in Calls : Cleans(call[c]) =>
       \A s \in Session : Alive(s) => s \in call[c].todo \/ (call[c].ev = "report" /\ s = call[c].sid)

DoneVisits == {a \in Visit : auto[a].lane = "done"}

\* The card came to Done once, and that visit is its automation's.
Once == DoneVisits = {active}

Tree == /\ UnderWay => \E a \in Visit : Finished(a)
        /\ Once => Collected

\* The session whose end was waited for has been ended.
Swept == \A c \in Calls : call[c].pc = "swept" => call[c].sid \in ended

\* A card has a record of every session whose agent lives.
Recorded(t) == \A s \in Session : Alive(s) => t.rec[s] # "none"

\* No agent comes to life.
NoneStarts ==
  \A s \in Session : proc'[s] \in {"working", "idle"} => proc[s] \in {"working", "idle"}

\* An agent comes to life when session/new answers.
LEMMA StepNoneStarts == ASSUME Types, [Next]_vars PROVE NoneStarts \/ \E d \in Calls : Spawned(d)
  <1> USE DEF cardVars, agentVars, tellVars, autoVars, tearVars
  <1>1. ASSUME NEW c \in Calls, CallStep(c) PROVE NoneStarts \/ \E d \in Calls : Spawned(d)
    <2>1. CASE EndDeferred(c)
      BY <2>1 DEF EndDeferred, Kill, Types, TypeOK, NoneStarts
    <2>2. CASE Killed(c)
      BY <2>2 DEF Killed, Types, TypeOK, NoneStarts
    <2>3. CASE StartPending(c)
      BY <2>3 DEF StartPending, Types, TypeOK, NoneStarts
    <2>4. CASE SettleEnded(c)
      BY <2>4 DEF SettleEnded, Types, TypeOK, NoneStarts
    <2>5. CASE WindDown(c)
      BY <2>5 DEF WindDown, Kill, EndFinished, Types, TypeOK, NoneStarts
    <2>6. CASE SettleUnfollowed(c)
      BY <2>6 DEF SettleUnfollowed, Types, TypeOK, NoneStarts
    <2>7. CASE SettleTeardown(c)
      BY <2>7 DEF SettleTeardown, Types, TypeOK, NoneStarts
    <2>8. CASE StepOver(c)
      BY <2>8 DEF StepOver, Kill, Types, TypeOK, NoneStarts
    <2>9. CASE StartNext(c)
      BY <2>9 DEF StartNext, Types, TypeOK, NoneStarts
    <2>10. CASE Recover(c)
      BY <2>10 DEF Recover, Types, TypeOK, NoneStarts
    <2>11. CASE NothingFollows(c)
      BY <2>11 DEF NothingFollows, Types, TypeOK, NoneStarts
    <2>12. CASE CreateTakesTrigger(c)
      BY <2>12 DEF CreateTakesTrigger, Types, TypeOK, NoneStarts
    <2>13. CASE CreateQueues(c)
      BY <2>13 DEF CreateQueues, Types, TypeOK, NoneStarts
    <2>14. CASE CreateStarts(c)
      BY <2>14 DEF CreateStarts, Types, TypeOK, NoneStarts
    <2>15. CASE Spawned(c)
      BY <2>15
    <2>16. CASE SpawnFails(c)
      BY <2>16 DEF SpawnFails, Types, TypeOK, NoneStarts
    <2>17. CASE Entered(c)
      BY <2>17 DEF Entered, Types, TypeOK, NoneStarts
    <2>18. CASE Continued(c)
      BY <2>18 DEF Continued, Kill, EndFinished, Types, TypeOK, NoneStarts
    <2>19. CASE NotContinued(c)
      BY <2>19 DEF NotContinued, Types, TypeOK, NoneStarts
    <2>20. CASE LaneEnds(c)
      BY <2>20 DEF LaneEnds, Kill, EndFinished, Types, TypeOK, NoneStarts
    <2>21. CASE LaneAdvances(c)
      BY <2>21 DEF LaneAdvances, Kill, EndFinished, Types, TypeOK, NoneStarts
    <2>22. CASE LaneTearsDown(c)
      BY <2>22 DEF LaneTearsDown, Types, TypeOK, NoneStarts
    <2>23. CASE EndOne(c)
      BY <2>23 DEF EndOne, Kill, Types, TypeOK, NoneStarts
    <2>24. CASE AllEnded(c)
      BY <2>24 DEF AllEnded, Kill, EndFinished, Types, TypeOK, NoneStarts
    <2>25. CASE EnterLane(c)
      BY <2>25 DEF EnterLane, Types, TypeOK, NoneStarts
    <2>26. CASE Register(c)
      BY <2>26 DEF Register, Types, TypeOK, NoneStarts
    <2> QED BY <1>1, <2>1, <2>2, <2>3, <2>4, <2>5, <2>6, <2>7, <2>8, <2>9, <2>10, <2>11, <2>12, <2>13, <2>14,
               <2>15, <2>16, <2>17, <2>18, <2>19, <2>20, <2>21, <2>22, <2>23, <2>24, <2>25, <2>26 DEF CallStep
  <1>2. ASSUME NEW s \in Session, Report(s) \/ TurnEnds(s) \/ TurnFails(s) \/ PromptBroke(s) \/ Exits(s)
        PROVE  NoneStarts \/ \E d \in Calls : Spawned(d)
    <2>1. CASE Report(s)
      BY <2>1 DEF Report, Types, TypeOK, NoneStarts
    <2>2. CASE TurnEnds(s)
      BY <2>2 DEF TurnEnds, Types, TypeOK, NoneStarts
    <2>3. CASE TurnFails(s)
      BY <2>3 DEF TurnFails, Types, TypeOK, NoneStarts
    <2>4. CASE PromptBroke(s)
      BY <2>4 DEF PromptBroke, Types, TypeOK, NoneStarts
    <2>5. CASE Exits(s)
      BY <2>5 DEF Exits, Types, TypeOK, NoneStarts
    <2> QED BY <1>2, <2>1, <2>2, <2>3, <2>4, <2>5
  <1>3. CASE QueueStarts
    BY <1>3 DEF QueueStarts, Types, TypeOK, NoneStarts
  <1>4. CASE RemoveWorktree
    BY <1>4 DEF RemoveWorktree, Types, TypeOK, NoneStarts
  <1>5. CASE KeepWorktree
    BY <1>5 DEF KeepWorktree, Types, TypeOK, NoneStarts
  <1>6. CASE ScanAdopts
    BY <1>6 DEF ScanAdopts, Types, TypeOK, NoneStarts
  <1>7. CASE ScanTimesOut
    BY <1>7 DEF ScanTimesOut, Types, TypeOK, NoneStarts
  <1>8. ASSUME NEW to \in Columns, MoveCard(to) PROVE NoneStarts \/ \E d \in Calls : Spawned(d)
    BY <1>8 DEF MoveCard, Types, TypeOK, NoneStarts
  <1>9. CASE UserBlocks
    BY <1>9 DEF UserBlocks, Types, TypeOK, NoneStarts
  <1>10. CASE UNCHANGED vars
    BY <1>10 DEF vars, NoneStarts
  <1> QED BY <1>1, <1>2, <1>3, <1>4, <1>5, <1>6, <1>7, <1>8, <1>9, <1>10 DEF Next

\* No lane record is lost.
NoneLost == \A s \in Session : card.rec[s] # "none" => card'.rec[s] # "none"

\* A save loses neither the stored records nor the copy's.
LEMMA NoneLostSaved == ASSUME Types, NEW t \in Card
  PROVE  \A s \in Session : Saved(t).rec[s] = "none" <=> card.rec[s] = "none" /\ t.rec[s] = "none"
  <1>1. card \in Card /\ \A s \in Session : t.rec[s] \in Status /\ card.rec[s] \in Status
    BY DEF Types, TypeOK, Card
  <1> QED BY <1>1, SavedType DEF MergeStatus, Ended

\* No step loses a lane record.
LEMMA StepNoneLost == ASSUME Types, [Next]_vars PROVE NoneLost
  <1> USE DEF cardVars, agentVars, tellVars, autoVars, tearVars
  <1>1. ASSUME NEW c \in Calls, CallStep(c) PROVE NoneLost
    <2>1. CASE EndDeferred(c)
      BY <2>1 DEF EndDeferred, NoneLost
    <2>2. CASE Killed(c)
      BY <2>2 DEF Killed, NoneLost
    <2>3. CASE StartPending(c)
      BY <2>3 DEF StartPending, NoneLost
    <2>4. CASE SettleEnded(c)
      <3>1. call[c].sid \in Session /\ card \in Card
        BY <2>4 DEF SettleEnded, Own, Routing, At, Types, TypeOK, CallsOK, CallOK, Receives
      <3> QED BY <2>4, <3>1, SettledType DEF SettleEnded, NoneLost
    <2>5. CASE WindDown(c)
      <3>1. call[c].sid \in Session /\ card \in Card /\ "completed" \in Status \ {"none"}
        BY <2>5 DEF WindDown, Routing, At, Types, TypeOK, CallsOK, CallOK, Receives, Status
      <3> QED BY <2>5, <3>1, CloseType DEF WindDown, NoneLost
    <2>6. CASE SettleUnfollowed(c)
      <3>1. call[c].sid \in Session /\ card \in Card
        BY <2>6 DEF SettleUnfollowed, Own, Routing, At, Types, TypeOK, CallsOK, CallOK, Receives
      <3> QED BY <2>6, <3>1, SettledType DEF SettleUnfollowed, NoneLost
    <2>7. CASE SettleTeardown(c)
      <3>1. call[c].sid \in Session /\ card \in Card
        BY <2>7 DEF SettleTeardown, Own, Routing, At, Types, TypeOK, CallsOK, CallOK, Receives
      <3> QED BY <2>7, <3>1, SettledType DEF SettleTeardown, NoneLost
    <2>8. CASE StepOver(c)
      BY <2>8 DEF StepOver, NoneLost
    <2>9. CASE StartNext(c)
      <3>1. Cleared(c) \in Card
        BY <2>9, ClearedType DEF StartNext, At, Handles
      <3> QED BY <2>9, <3>1, NoneLostSaved DEF StartNext, Restart, NoneLost
    <2>10. CASE Recover(c)
      <3>1. Cleared(c) \in Card
        BY <2>10, ClearedType DEF Recover, At, Handles
      <3> QED BY <2>10, <3>1, NoneLostSaved DEF Recover, Restart, NoneLost
    <2>11. CASE NothingFollows(c)
      BY <2>11 DEF NothingFollows, NoneLost
    <2>12. CASE CreateTakesTrigger(c)
      BY <2>12 DEF CreateTakesTrigger, NoneLost
    <2>13. CASE CreateQueues(c)
      BY <2>13 DEF CreateQueues, NoneLost
    <2>14. CASE CreateStarts(c)
      BY <2>14 DEF CreateStarts, NoneLost
    <2>15. CASE Spawned(c)
      <3>1. PICK s \in Session : card' = Saved(WithRun(call[c].row, s))
        BY <2>15 DEF Spawned
      <3>2. WithRun(call[c].row, s) \in Card
        BY WithRunType DEF Types, CallsOK, CallType
      <3> QED BY <3>1, <3>2, NoneLostSaved DEF NoneLost
    <2>16. CASE SpawnFails(c)
      <3>1. call[c].row \in Card
        BY DEF Types, CallsOK, CallType
      <3> QED BY <2>16, <3>1, NoneLostSaved DEF SpawnFails, NoneLost
    <2>17. CASE Entered(c)
      BY <2>17 DEF Entered, NoneLost
    <2>18. CASE Continued(c)
      BY <2>18 DEF Continued, NoneLost
    <2>19. CASE NotContinued(c)
      BY <2>19 DEF NotContinued, NoneLost
    <2>20. CASE LaneEnds(c)
      <3>1. call[c].copy \in Card /\ card \in Card
        BY DEF Types, TypeOK, CallsOK, CallType
      <3>2. Saved(call[c].copy) \in Card
        BY <3>1, SavedType
      <3> QED BY <2>20, <3>1, <3>2, NoneLostSaved DEF LaneEnds, NoneLost, Card
    <2>21. CASE LaneAdvances(c)
      <3>1. call[c].copy \in Card /\ card \in Card
        BY DEF Types, TypeOK, CallsOK, CallType
      <3>2. Saved(call[c].copy) \in Card
        BY <3>1, SavedType
      <3> QED BY <2>21, <3>1, <3>2, NoneLostSaved DEF LaneAdvances, NoneLost, Card
    <2>22. CASE LaneTearsDown(c)
      <3>1. call[c].copy \in Card /\ card \in Card
        BY DEF Types, TypeOK, CallsOK, CallType
      <3>2. Saved(call[c].copy) \in Card
        BY <3>1, SavedType
      <3> QED BY <2>22, <3>1, <3>2, NoneLostSaved DEF LaneTearsDown, NoneLost, Card
    <2>23. CASE EndOne(c)
      BY <2>23 DEF EndOne, NoneLost
    <2>24. CASE AllEnded(c)
      BY <2>24 DEF AllEnded, NoneLost
    <2>25. CASE EnterLane(c)
      BY <2>25 DEF EnterLane, NoneLost
    <2>26. CASE Register(c)
      BY <2>26 DEF Register, NoneLost
    <2> QED BY <1>1, <2>1, <2>2, <2>3, <2>4, <2>5, <2>6, <2>7, <2>8, <2>9, <2>10, <2>11, <2>12, <2>13, <2>14,
               <2>15, <2>16, <2>17, <2>18, <2>19, <2>20, <2>21, <2>22, <2>23, <2>24, <2>25, <2>26 DEF CallStep
  <1>2. ASSUME NEW s \in Session, Report(s) \/ TurnEnds(s) \/ TurnFails(s) \/ PromptBroke(s) \/ Exits(s)
        PROVE  NoneLost
    <2>1. CASE Report(s)
      BY <2>1 DEF Report, NoneLost
    <2>2. CASE TurnEnds(s)
      BY <2>2 DEF TurnEnds, NoneLost
    <2>3. CASE TurnFails(s)
      BY <2>3 DEF TurnFails, NoneLost
    <2>4. CASE PromptBroke(s)
      BY <2>4 DEF PromptBroke, NoneLost
    <2>5. CASE Exits(s)
      BY <2>5 DEF Exits, NoneLost
    <2> QED BY <1>2, <2>1, <2>2, <2>3, <2>4, <2>5
  <1>3. CASE QueueStarts
    BY <1>3 DEF QueueStarts, NoneLost
  <1>4. CASE RemoveWorktree
    BY <1>4 DEF RemoveWorktree, NoneLost
  <1>5. CASE KeepWorktree
    BY <1>5 DEF KeepWorktree, NoneLost
  <1>6. CASE ScanAdopts
    BY <1>6 DEF ScanAdopts, NoneLost
  <1>7. CASE ScanTimesOut
    BY <1>7 DEF ScanTimesOut, NoneLost
  <1>8. ASSUME NEW to \in Columns, MoveCard(to) PROVE NoneLost
    BY <1>8 DEF MoveCard, Types, TypeOK, Card, NoneLost
  <1>9. CASE UserBlocks
    BY <1>9 DEF UserBlocks, Types, TypeOK, Card, NoneLost
  <1>10. CASE UNCHANGED vars
    BY <1>10 DEF vars, NoneLost
  <1> QED BY <1>1, <1>2, <1>3, <1>4, <1>5, <1>6, <1>7, <1>8, <1>9, <1>10 DEF Next

\* No visit begins, and the card's automation is the same or none.
SameVisits == active' \in {active, None} /\ \A a \in Visit : auto'[a].lane = auto[a].lane

\* A visit of a lane begins with its registration; the card's automation is the latest or none.
LEMMA StepVisits == ASSUME Types, [Next]_vars PROVE SameVisits \/ \E d \in Calls : Register(d)
  <1> USE DEF cardVars, agentVars, tellVars, autoVars, tearVars
  <1>1. ASSUME NEW c \in Calls, CallStep(c) PROVE SameVisits \/ \E d \in Calls : Register(d)
    <2>1. CASE EndDeferred(c)
      BY <2>1 DEF EndDeferred, Types, TypeOK, SameVisits
    <2>2. CASE Killed(c)
      BY <2>2 DEF Killed, Types, TypeOK, SameVisits
    <2>3. CASE StartPending(c)
      BY <2>3 DEF StartPending, Types, TypeOK, SameVisits
    <2>4. CASE SettleEnded(c)
      BY <2>4 DEF SettleEnded, Types, TypeOK, SameVisits
    <2>5. CASE WindDown(c)
      BY <2>5 DEF WindDown, Types, TypeOK, SameVisits
    <2>6. CASE SettleUnfollowed(c)
      BY <2>6, AdoptedType DEF SettleUnfollowed, SameVisits
    <2>7. CASE SettleTeardown(c)
      BY <2>7 DEF SettleTeardown, Types, TypeOK, SameVisits
    <2>8. CASE StepOver(c)
      BY <2>8, AdoptedType DEF StepOver, SameVisits
    <2>9. CASE StartNext(c)
      BY <2>9, StartNextAuto DEF StartNext, SameAutos, SameLane, SameVisits
    <2>10. CASE Recover(c)
      BY <2>10, RecoverAuto DEF Recover, SameAutos, SameLane, SameVisits
    <2>11. CASE NothingFollows(c)
      BY <2>11 DEF NothingFollows, Types, TypeOK, SameVisits
    <2>12. CASE CreateTakesTrigger(c)
      BY <2>12 DEF CreateTakesTrigger, Types, TypeOK, SameVisits
    <2>13. CASE CreateQueues(c)
      BY <2>13 DEF CreateQueues, Types, TypeOK, SameVisits
    <2>14. CASE CreateStarts(c)
      BY <2>14 DEF CreateStarts, Types, TypeOK, SameVisits
    <2>15. CASE Spawned(c)
      BY <2>15 DEF Spawned, Types, TypeOK, SameVisits
    <2>16. CASE SpawnFails(c)
      BY <2>16 DEF SpawnFails, Types, TypeOK, SameVisits
    <2>17. CASE Entered(c)
      <3>1. call[c].auto \in Visit
        BY <2>17 DEF Entered, At, Types, CallsOK, CallOK, Enters
      <3> QED BY <2>17, <3>1, WithSessionType DEF Entered, SameVisits
    <2>18. CASE Continued(c)
      BY <2>18, ContinuedAuto DEF Continued, SameAutos, SameLane, SameVisits
    <2>19. CASE NotContinued(c)
      BY <2>19, NotContinuedAuto DEF NotContinued, SameAutos, SameLane, SameVisits
    <2>20. CASE LaneEnds(c)
      BY <2>20, OverType DEF LaneEnds, At, SameVisits
    <2>21. CASE LaneAdvances(c)
      BY <2>21, OverType DEF LaneAdvances, At, LeaveLane, SameVisits
    <2>22. CASE LaneTearsDown(c)
      BY <2>22, OverType DEF LaneTearsDown, At, SameVisits
    <2>23. CASE EndOne(c)
      BY <2>23 DEF EndOne, Types, TypeOK, SameVisits
    <2>24. CASE AllEnded(c)
      BY <2>24 DEF AllEnded, Types, TypeOK, SameVisits
    <2>25. CASE EnterLane(c)
      BY <2>25 DEF EnterLane, Types, TypeOK, SameVisits
    <2>26. CASE Register(c)
      BY <2>26
    <2> QED BY <1>1, <2>1, <2>2, <2>3, <2>4, <2>5, <2>6, <2>7, <2>8, <2>9, <2>10, <2>11, <2>12, <2>13, <2>14,
               <2>15, <2>16, <2>17, <2>18, <2>19, <2>20, <2>21, <2>22, <2>23, <2>24, <2>25, <2>26 DEF CallStep
  <1>2. ASSUME NEW s \in Session, Report(s) \/ TurnEnds(s) \/ TurnFails(s) \/ PromptBroke(s) \/ Exits(s)
        PROVE  SameVisits \/ \E d \in Calls : Register(d)
    <2>1. CASE Report(s)
      BY <2>1 DEF Report, Types, TypeOK, SameVisits
    <2>2. CASE TurnEnds(s)
      BY <2>2 DEF TurnEnds, Types, TypeOK, SameVisits
    <2>3. CASE TurnFails(s)
      BY <2>3 DEF TurnFails, Types, TypeOK, SameVisits
    <2>4. CASE PromptBroke(s)
      BY <2>4 DEF PromptBroke, Types, TypeOK, SameVisits
    <2>5. CASE Exits(s)
      BY <2>5 DEF Exits, Types, TypeOK, SameVisits
    <2> QED BY <1>2, <2>1, <2>2, <2>3, <2>4, <2>5
  <1>3. CASE QueueStarts
    BY <1>3 DEF QueueStarts, Types, TypeOK, SameVisits
  <1>4. CASE RemoveWorktree
    BY <1>4 DEF RemoveWorktree, Types, TypeOK, SameVisits
  <1>5. CASE KeepWorktree
    BY <1>5 DEF KeepWorktree, Types, TypeOK, SameVisits
  <1>6. CASE ScanAdopts
    BY <1>6, AdoptedType DEF ScanAdopts, SameVisits
  <1>7. CASE ScanTimesOut
    BY <1>7 DEF ScanTimesOut, Types, TypeOK, SameVisits
  <1>8. ASSUME NEW to \in Columns, MoveCard(to) PROVE SameVisits \/ \E d \in Calls : Register(d)
    BY <1>8 DEF MoveCard, LeaveLane, SameVisits
  <1>9. CASE UserBlocks
    BY <1>9 DEF UserBlocks, Types, TypeOK, SameVisits
  <1>10. CASE UNCHANGED vars
    BY <1>10 DEF vars, SameVisits
  <1> QED BY <1>1, <1>2, <1>3, <1>4, <1>5, <1>6, <1>7, <1>8, <1>9, <1>10 DEF Next

\* A handler's copy of the card that is still to be used.
Held(k) == Handles(k) /\ ~ (k.pc = "created" /\ k.res = "session")

\* Where the copies come from.
Informed ==
  \A c \in Calls : Held(call'[c]) =>
    \/ call'[c] = call[c]
    \/ call'[c].copy = card
    \/ Held(call[c]) /\ \A s \in Session : call[c].copy.rec[s] # "none" => call'[c].copy.rec[s] # "none"

\* A handler's copy keeps its records from the card it was read from on.
LEMMA StepInformed == ASSUME Types, [Next]_vars PROVE Informed
  <1> USE DEF cardVars, agentVars, tellVars, autoVars, tearVars
  <1>1. ASSUME NEW c \in Calls, CallStep(c) PROVE Informed
    <2>1. CASE EndDeferred(c)
      <3>1. Others(c) /\ call'[c].pc \in {"swept", "killing"} /\ call'[c].why = "swept"
        BY <2>1, EndDeferredCall
      <3>2. ~ Held(call'[c])
        BY <3>1 DEF Held, Handles
      <3> QED BY <3>1, <3>2 DEF Others, Informed
    <2>2. CASE Killed(c)
      <3>1. call[c].pc = "killing" /\ call[c].why \in {"swept", "judge"}
        BY <2>2 DEF Killed, Types, CallsOK, CallOK
      <3>2. Others(c) /\ call'[c].pc = call[c].why /\ call'[c].copy = call[c].copy
        BY <2>2, KilledCall DEF SamePlan
      <3>3. Held(call'[c]) => Held(call[c])
        BY <3>1, <3>2 DEF Held, Handles
      <3> QED BY <3>2, <3>3 DEF Others, Informed
    <2>3. CASE StartPending(c)
      BY <2>3, StartPendingCall DEF StartPending, At, Others, Handles, Held, Informed
    <2>4. CASE SettleEnded(c)
      BY <2>4, ReturnCall, IdleFields DEF SettleEnded, Others, Handles, Held, Informed
    <2>5. CASE WindDown(c)
      BY <2>5, ReturnCall, IdleFields DEF WindDown, Others, Handles, Held, Informed
    <2>6. CASE SettleUnfollowed(c)
      BY <2>6, ReturnCall, IdleFields DEF SettleUnfollowed, Others, Handles, Held, Informed
    <2>7. CASE SettleTeardown(c)
      BY <2>7, ReturnCall, IdleFields DEF SettleTeardown, Others, Handles, Held, Informed
    <2>8. CASE StepOver(c)
      BY <2>8, StepOverCall DEF StepOver, At, Others, Handles, Held, Informed
    <2>9. CASE StartNext(c)
      <3>1. \A s \in Session : Cleared(c).rec[s] = "none" <=> call[c].copy.rec[s] = "none"
        BY <2>9, ClearedType DEF StartNext, At, Handles
      <3>2. Held(call[c])
        BY <2>9 DEF StartNext, At, Handles, Held
      <3> QED BY <2>9, <3>1, <3>2, StartNextCall DEF Others, Informed
    <2>10. CASE Recover(c)
      <3>1. \A s \in Session : Cleared(c).rec[s] = "none" <=> call[c].copy.rec[s] = "none"
        BY <2>10, ClearedType DEF Recover, At, Handles
      <3>2. Held(call[c])
        BY <2>10 DEF Recover, At, Handles, Held
      <3> QED BY <2>10, <3>1, <3>2, RecoverCall DEF Others, Informed
    <2>11. CASE NothingFollows(c)
      <3>1. \A s \in Session : Judged(c).rec[s] = "none" <=> call[c].copy.rec[s] = "none"
        BY <2>11, JudgedType DEF NothingFollows, At, Handles
      <3>2. Held(call[c])
        BY <2>11 DEF NothingFollows, At, Handles, Held
      <3> QED BY <2>11, <3>1, <3>2, NothingFollowsCall DEF Others, Informed
    <2>12. CASE CreateTakesTrigger(c)
      BY <2>12, CreateTakesTriggerCall
         DEF CreateTakesTrigger, At, SamePlan, SameAnswer, SameEvent, SameTask, SameTodo, Types, CallsOK,
             CallOK, Starts, Others, Handles, Held, Informed
    <2>13. CASE CreateQueues(c)
      BY <2>13, CreateQueuesCall
         DEF CreateQueues, At, SamePlan, SameAnswer, SameEvent, SameTask, SameTodo, Types, CallsOK, CallOK,
             Starts, Others, Handles, Held, Informed
    <2>14. CASE CreateStarts(c)
      <3>1. call[c].pc = "create" /\ call[c].why \in Starts
        BY <2>14 DEF CreateStarts, At, Types, CallsOK, CallOK
      <3>2. Others(c) /\ call'[c].pc \in {"spawning"} /\ call'[c].why = call[c].why /\ call'[c].copy = call[c].copy
        BY <2>14, CreateStartsCall DEF SamePlan
      <3>3. Held(call'[c]) => Held(call[c])
        BY <3>1, <3>2 DEF Held, Handles, Starts
      <3> QED BY <3>2, <3>3 DEF Others, Informed
    <2>15. CASE Spawned(c)
      BY <2>15, SpawnedCall, IdleFields
         DEF Spawned, At, SamePlan, SameAnswer, SameEvent, SameTask, SameTodo, Types, CallsOK, CallOK, Starts,
             Others, Handles, Held, Informed
    <2>16. CASE SpawnFails(c)
      BY <2>16, SpawnFailsCall, IdleFields
         DEF SpawnFails, At, SamePlan, SameAnswer, SameEvent, SameTask, SameTodo, Types, CallsOK, CallOK,
             Starts, Others, Handles, Held, Informed
    <2>17. CASE Entered(c)
      BY <2>17, ReturnCall, IdleFields DEF Entered, Others, Handles, Held, Informed
    <2>18. CASE Continued(c)
      BY <2>18, ReturnCall, IdleFields DEF Continued, Others, Handles, Held, Informed
    <2>19. CASE NotContinued(c)
      <3>1. call[c].pc = "created" /\ call[c].why \in Starts /\ call[c].res = "none" /\ call[c].why # "enter"
        BY <2>19 DEF NotContinued, At, Types, CallsOK, CallOK
      <3>2. Others(c) /\ call'[c].pc \in {"recover", "finish"} /\ call'[c].why = call[c].why /\ call'[c].copy = call[c].copy
        BY <2>19, NotContinuedCall DEF SamePlan
      <3>3. Held(call'[c]) => Held(call[c])
        BY <3>1, <3>2 DEF Held, Handles, Starts
      <3> QED BY <3>2, <3>3 DEF Others, Informed
    <2>20. CASE LaneEnds(c)
      BY <2>20, ReturnCall, IdleFields DEF LaneEnds, Others, Handles, Held, Informed
    <2>21. CASE LaneAdvances(c)
      BY <2>21, LaneAdvancesCall DEF LaneAdvances, Arrives, Others, Handles, Held, Informed
    <2>22. CASE LaneTearsDown(c)
      BY <2>22, LaneTearsDownCall DEF LaneTearsDown, At, Others, Handles, Held, Informed
    <2>23. CASE EndOne(c)
      BY <2>23, EndOneCall DEF EndOne, At, Others, Handles, Held, Informed
    <2>24. CASE AllEnded(c)
      BY <2>24, ReturnCall, IdleFields DEF AllEnded, Others, Handles, Held, Informed
    <2>25. CASE EnterLane(c)
      BY <2>25, EnterLaneCall, IdleFields DEF EnterLane, At, Others, Handles, Held, Informed
    <2>26. CASE Register(c)
      BY <2>26, RegisterCall DEF Register, At, Others, Handles, Held, Informed
    <2> QED BY <1>1, <2>1, <2>2, <2>3, <2>4, <2>5, <2>6, <2>7, <2>8, <2>9, <2>10, <2>11, <2>12, <2>13, <2>14,
               <2>15, <2>16, <2>17, <2>18, <2>19, <2>20, <2>21, <2>22, <2>23, <2>24, <2>25, <2>26 DEF CallStep
  <1>2. ASSUME NEW s \in Session, Report(s) \/ TurnEnds(s) \/ TurnFails(s) \/ PromptBroke(s) \/ Exits(s)
        PROVE  Informed
    <2>1. CASE Report(s)
      <3>1. PICK d \in Calls : Taken(d, s, "report")
        BY <2>1, EmitCall DEF Report, Events
      <3> QED BY <2>1, <3>1 DEF Report, Taken, Others, Handles, Held, Informed
    <2>2. CASE TurnEnds(s)
      <3>1. PICK d \in Calls : Taken(d, s, "end")
        BY <2>2, EmitCall DEF TurnEnds, Events
      <3> QED BY <2>2, <3>1 DEF TurnEnds, Taken, Others, Handles, Held, Informed
    <2>3. CASE TurnFails(s)
      <3>1. PICK d \in Calls : Taken(d, s, "failed")
        BY <2>3, EmitCall DEF TurnFails, Events
      <3> QED BY <2>3, <3>1 DEF TurnFails, Taken, Others, Handles, Held, Informed
    <2>4. CASE PromptBroke(s)
      <3>1. PICK d \in Calls : Taken(d, s, "failed")
        BY <2>4, EmitCall DEF PromptBroke, Events
      <3> QED BY <2>4, <3>1 DEF PromptBroke, Taken, Others, Handles, Held, Informed
    <2>5. CASE Exits(s)
      <3>1. PICK d \in Calls : Taken(d, s, "failed")
        BY <2>5, EmitCall DEF Exits, Events
      <3> QED BY <2>5, <3>1 DEF Exits, Taken, Others, Handles, Held, Informed
    <2> QED BY <1>2, <2>1, <2>2, <2>3, <2>4, <2>5
  <1>3. CASE QueueStarts
    <2>1. CASE Startable(waiting)
      <3>1. PICK d \in Calls : /\ Others(d) /\ call'[d].pc = "spawning" /\ call'[d].why = "queue"
                               /\ call'[d].clean = FALSE
        BY <1>3, <2>1, QueueStartsCall DEF QueueStarts, Types, WaitingOK
      <3> QED BY <1>3, <3>1 DEF QueueStarts, Others, Others, Handles, Held, Informed
    <2>2. CASE ~ Startable(waiting)
      BY <1>3, <2>2 DEF QueueStarts, Others, Handles, Held, Informed
    <2> QED BY <2>1, <2>2
  <1>4. CASE RemoveWorktree
    BY <1>4 DEF RemoveWorktree, Others, Handles, Held, Informed
  <1>5. CASE KeepWorktree
    BY <1>5 DEF KeepWorktree, Others, Handles, Held, Informed
  <1>6. CASE ScanAdopts
    BY <1>6 DEF ScanAdopts, Others, Handles, Held, Informed
  <1>7. CASE ScanTimesOut
    <2>1. PICK d \in Calls : Taken(d, auto[active].sid, "timeout")
      BY <1>7, TimesOutCall
    <2> QED BY <1>7, <2>1 DEF ScanTimesOut, Taken, Others, Handles, Held, Informed
  <1>8. ASSUME NEW to \in Columns, MoveCard(to) PROVE Informed
    <2>1. CASE to \in Lanes
      <3>1. PICK d \in Calls : Arrives(d, to)
        BY <1>8, <2>1, ArriveCall DEF MoveCard
      <3> QED BY <1>8, <3>1 DEF MoveCard, Arrives, Others, Handles, Held, Informed
    <2>2. CASE to \notin Lanes
      BY <1>8, <2>2 DEF MoveCard, Others, Handles, Held, Informed
    <2> QED BY <2>1, <2>2
  <1>9. CASE UserBlocks
    <2>1. PICK d \in Calls : Others(d) /\ call'[d].pc = "ending" /\ call'[d].clean = FALSE
      BY <1>9, UserBlocksCall
    <2> QED BY <1>9, <2>1 DEF UserBlocks, Others, Handles, Held, Informed
  <1>10. CASE UNCHANGED vars
    BY <1>10 DEF vars, Others, Handles, Held, Informed
  <1> QED BY <1>1, <1>2, <1>3, <1>4, <1>5, <1>6, <1>7, <1>8, <1>9, <1>10 DEF Next

\* No cleanup begins or goes on.
NoCleanup ==
  /\ cleaning' => cleaning
  /\ pending' \subseteq pending
  /\ \A c \in Calls : Cleans(call'[c]) \/ call'[c].pc = "swept" => call'[c] = call[c]

CleanupStep(c) ==
  StartPending(c) \/ LaneTearsDown(c) \/ EndOne(c) \/ AllEnded(c) \/ EndDeferred(c) \/ Killed(c)

\* The worktree's cleanup goes on with the steps of its calls.
LEMMA StepCleanup == ASSUME Types, [Next]_vars PROVE NoCleanup \/ \E d \in Calls : CleanupStep(d)
  <1> USE DEF cardVars, agentVars, tellVars, autoVars, tearVars
  <1>1. ASSUME NEW c \in Calls, CallStep(c) PROVE NoCleanup \/ \E d \in Calls : CleanupStep(d)
    <2>1. CASE EndDeferred(c)
      BY <2>1 DEF CleanupStep
    <2>2. CASE Killed(c)
      BY <2>2 DEF CleanupStep
    <2>3. CASE StartPending(c)
      BY <2>3 DEF CleanupStep
    <2>4. CASE SettleEnded(c)
      BY <2>4, ReturnCall, IdleFields DEF SettleEnded, Others, treeVars, Cleans, NoCleanup
    <2>5. CASE WindDown(c)
      BY <2>5, ReturnCall, IdleFields DEF WindDown, Others, treeVars, Cleans, NoCleanup
    <2>6. CASE SettleUnfollowed(c)
      BY <2>6, ReturnCall, IdleFields DEF SettleUnfollowed, Others, treeVars, Cleans, NoCleanup
    <2>7. CASE SettleTeardown(c)
      BY <2>7, ReturnCall, IdleFields DEF SettleTeardown, Others, treeVars, Cleans, NoCleanup
    <2>8. CASE StepOver(c)
      <3>1. Others(c) /\ call'[c].pc \in {"judge", "killing"}
        BY <2>8, StepOverCall
      <3> QED BY <2>8, <3>1 DEF StepOver, Others, treeVars, Cleans, NoCleanup
    <2>9. CASE StartNext(c)
      BY <2>9, StartNextCall DEF StartNext, At, Others, treeVars, Cleans, NoCleanup
    <2>10. CASE Recover(c)
      BY <2>10, RecoverCall DEF Recover, At, Others, treeVars, Cleans, NoCleanup
    <2>11. CASE NothingFollows(c)
      BY <2>11, NothingFollowsCall DEF NothingFollows, At, Others, treeVars, Cleans, NoCleanup
    <2>12. CASE CreateTakesTrigger(c)
      BY <2>12, CreateTakesTriggerCall DEF CreateTakesTrigger, At, Others, treeVars, Cleans, NoCleanup
    <2>13. CASE CreateQueues(c)
      BY <2>13, CreateQueuesCall DEF CreateQueues, At, Others, treeVars, Cleans, NoCleanup
    <2>14. CASE CreateStarts(c)
      BY <2>14, CreateStartsCall DEF CreateStarts, At, Others, treeVars, Cleans, NoCleanup
    <2>15. CASE Spawned(c)
      BY <2>15, SpawnedCall, IdleFields DEF Spawned, At, Others, treeVars, Cleans, NoCleanup
    <2>16. CASE SpawnFails(c)
      BY <2>16, SpawnFailsCall, IdleFields DEF SpawnFails, At, Others, treeVars, Cleans, NoCleanup
    <2>17. CASE Entered(c)
      BY <2>17, ReturnCall, IdleFields DEF Entered, Others, treeVars, Cleans, NoCleanup
    <2>18. CASE Continued(c)
      BY <2>18, ReturnCall, IdleFields DEF Continued, Others, treeVars, Cleans, NoCleanup
    <2>19. CASE NotContinued(c)
      BY <2>19, NotContinuedCall DEF NotContinued, At, Others, treeVars, Cleans, NoCleanup
    <2>20. CASE LaneEnds(c)
      BY <2>20, ReturnCall, IdleFields DEF LaneEnds, Others, treeVars, Cleans, NoCleanup
    <2>21. CASE LaneAdvances(c)
      BY <2>21, LaneAdvancesCall DEF LaneAdvances, Arrives, Others, treeVars, Cleans, NoCleanup
    <2>22. CASE LaneTearsDown(c)
      BY <2>22 DEF CleanupStep
    <2>23. CASE EndOne(c)
      BY <2>23 DEF CleanupStep
    <2>24. CASE AllEnded(c)
      BY <2>24 DEF CleanupStep
    <2>25. CASE EnterLane(c)
      BY <2>25, EnterLaneCall, IdleFields DEF EnterLane, At, Others, treeVars, Cleans, NoCleanup
    <2>26. CASE Register(c)
      BY <2>26, RegisterCall DEF Register, At, Others, treeVars, Cleans, NoCleanup
    <2> QED BY <1>1, <2>1, <2>2, <2>3, <2>4, <2>5, <2>6, <2>7, <2>8, <2>9, <2>10, <2>11, <2>12, <2>13, <2>14,
               <2>15, <2>16, <2>17, <2>18, <2>19, <2>20, <2>21, <2>22, <2>23, <2>24, <2>25, <2>26 DEF CallStep
  <1>2. ASSUME NEW s \in Session, Report(s) \/ TurnEnds(s) \/ TurnFails(s) \/ PromptBroke(s) \/ Exits(s)
        PROVE  NoCleanup \/ \E d \in Calls : CleanupStep(d)
    <2>1. CASE Report(s)
      <3>1. PICK d \in Calls : Taken(d, s, "report")
        BY <2>1, EmitCall DEF Report, Events
      <3> QED BY <2>1, <3>1 DEF Report, Taken, Others, treeVars, Cleans, NoCleanup
    <2>2. CASE TurnEnds(s)
      <3>1. PICK d \in Calls : Taken(d, s, "end")
        BY <2>2, EmitCall DEF TurnEnds, Events
      <3> QED BY <2>2, <3>1 DEF TurnEnds, Taken, Others, treeVars, Cleans, NoCleanup
    <2>3. CASE TurnFails(s)
      <3>1. PICK d \in Calls : Taken(d, s, "failed")
        BY <2>3, EmitCall DEF TurnFails, Events
      <3> QED BY <2>3, <3>1 DEF TurnFails, Taken, Others, treeVars, Cleans, NoCleanup
    <2>4. CASE PromptBroke(s)
      <3>1. PICK d \in Calls : Taken(d, s, "failed")
        BY <2>4, EmitCall DEF PromptBroke, Events
      <3> QED BY <2>4, <3>1 DEF PromptBroke, Taken, Others, treeVars, Cleans, NoCleanup
    <2>5. CASE Exits(s)
      <3>1. PICK d \in Calls : Taken(d, s, "failed")
        BY <2>5, EmitCall DEF Exits, Events
      <3> QED BY <2>5, <3>1 DEF Exits, Taken, Others, treeVars, Cleans, NoCleanup
    <2> QED BY <1>2, <2>1, <2>2, <2>3, <2>4, <2>5
  <1>3. CASE QueueStarts
    <2>1. CASE Startable(waiting)
      <3>1. PICK d \in Calls : /\ Others(d) /\ call'[d].pc = "spawning" /\ call'[d].why = "queue"
                               /\ call'[d].clean = FALSE
        BY <1>3, <2>1, QueueStartsCall DEF QueueStarts, Types, WaitingOK
      <3> QED BY <1>3, <3>1 DEF QueueStarts, Others, Others, treeVars, Cleans, NoCleanup
    <2>2. CASE ~ Startable(waiting)
      BY <1>3, <2>2 DEF QueueStarts, Others, treeVars, Cleans, NoCleanup
    <2> QED BY <2>1, <2>2
  <1>4. CASE RemoveWorktree
    BY <1>4 DEF RemoveWorktree, Others, treeVars, Cleans, NoCleanup
  <1>5. CASE KeepWorktree
    BY <1>5 DEF KeepWorktree, Others, treeVars, Cleans, NoCleanup
  <1>6. CASE ScanAdopts
    BY <1>6 DEF ScanAdopts, Others, treeVars, Cleans, NoCleanup
  <1>7. CASE ScanTimesOut
    <2>1. PICK d \in Calls : Taken(d, auto[active].sid, "timeout")
      BY <1>7, TimesOutCall
    <2> QED BY <1>7, <2>1 DEF ScanTimesOut, Taken, Others, treeVars, Cleans, NoCleanup
  <1>8. ASSUME NEW to \in Columns, MoveCard(to) PROVE NoCleanup \/ \E d \in Calls : CleanupStep(d)
    <2>1. CASE to \in Lanes
      <3>1. PICK d \in Calls : Arrives(d, to)
        BY <1>8, <2>1, ArriveCall DEF MoveCard
      <3> QED BY <1>8, <3>1 DEF MoveCard, Arrives, Others, treeVars, Cleans, NoCleanup
    <2>2. CASE to \notin Lanes
      BY <1>8, <2>2 DEF MoveCard, Others, treeVars, Cleans, NoCleanup
    <2> QED BY <2>1, <2>2
  <1>9. CASE UserBlocks
    <2>1. PICK d \in Calls : Others(d) /\ call'[d].pc = "ending" /\ call'[d].clean = FALSE
      BY <1>9, UserBlocksCall
    <2> QED BY <1>9, <2>1 DEF UserBlocks, Others, treeVars, Cleans, NoCleanup
  <1>10. CASE UNCHANGED vars
    BY <1>10 DEF vars, Others, treeVars, Cleans, NoCleanup
  <1> QED BY <1>1, <1>2, <1>3, <1>4, <1>5, <1>6, <1>7, <1>8, <1>9, <1>10 DEF Next

\* What is said of a call that drives the lane.
LEMMA DriverFacts == ASSUME Drive, NEW c \in Calls, Handles(call[c]) \/ Enters(call[c])
  PROVE  DriverOK(call[c]) /\ call[c].auto = active /\ active # None
  BY DEF Drive, Drivers, Driver, DriverOK

\* A visit of Done that is over stays over.
LEMMA StepFinished == ASSUME Types, Drive, RecoverOK, [Next]_vars PROVE \A a \in Visit : Finished(a) => Finished(a)'
  <1> USE DEF cardVars, agentVars, tellVars, autoVars, tearVars
  <1>1. ASSUME NEW c \in Calls, CallStep(c) PROVE \A a \in Visit : Finished(a) => Finished(a)'
    <2>1. CASE EndDeferred(c)
      BY <2>1 DEF EndDeferred, Finished
    <2>2. CASE Killed(c)
      BY <2>2 DEF Killed, Finished
    <2>3. CASE StartPending(c)
      BY <2>3 DEF StartPending, Finished
    <2>4. CASE SettleEnded(c)
      BY <2>4 DEF SettleEnded, Finished
    <2>5. CASE WindDown(c)
      BY <2>5 DEF WindDown, Finished
    <2>6. CASE SettleUnfollowed(c)
      <3>1. \A a \in Visit : Finished(a) => Adopted[a] = auto[a]
        BY AdoptedType DEF Finished, Live
      <3> QED BY <2>6, <3>1 DEF SettleUnfollowed, Finished
    <2>7. CASE SettleTeardown(c)
      <3>1. \A a \in Visit : auto'[a].lane = auto[a].lane /\ auto'[a].status = auto[a].status
        BY <2>7 DEF SettleTeardown, Types, TypeOK
      <3> QED BY <3>1 DEF Finished
    <2>8. CASE StepOver(c)
      <3>1. \A a \in Visit : Finished(a) => Adopted[a] = auto[a]
        BY AdoptedType DEF Finished, Live
      <3> QED BY <2>8, <3>1 DEF StepOver, Finished
    <2>9. CASE StartNext(c)
      <3>1. auto[call[c].auto].status = "running"
        BY <2>9, DriverFacts DEF StartNext, At, Handles, DriverOK
      <3> QED BY <2>9, <3>1, StartNextAuto DEF SameAutos, Finished
    <2>10. CASE Recover(c)
      <3>1. auto[call[c].auto].status = "running" \/ auto[call[c].auto].lane = "dev"
        <4>1. CASE At(c, "judge")
          BY <4>1, DriverFacts DEF At, Handles, DriverOK
        <4>2. CASE At(c, "recover")
          BY <4>2 DEF At, RecoverOK, Recoverable, Types, CallsOK, CallOK
        <4> QED BY <2>10, <4>1, <4>2 DEF Recover
      <3> QED BY <2>10, <3>1, RecoverAuto DEF SameAutos, Finished
    <2>11. CASE NothingFollows(c)
      BY <2>11 DEF NothingFollows, Finished
    <2>12. CASE CreateTakesTrigger(c)
      BY <2>12 DEF CreateTakesTrigger, Finished
    <2>13. CASE CreateQueues(c)
      BY <2>13 DEF CreateQueues, Finished
    <2>14. CASE CreateStarts(c)
      BY <2>14 DEF CreateStarts, Finished
    <2>15. CASE Spawned(c)
      BY <2>15 DEF Spawned, Finished
    <2>16. CASE SpawnFails(c)
      BY <2>16 DEF SpawnFails, Finished
    <2>17. CASE Entered(c)
      <3>1. call[c].auto \in Visit /\ auto[call[c].auto].status \in {"queued", "running"}
        BY <2>17, DriverFacts DEF Entered, At, Enters, DriverOK, Begun, Live, Types, CallsOK, CallOK
      <3> QED BY <2>17, <3>1, WithSessionType DEF Entered, Finished
    <2>18. CASE Continued(c)
      <3>1. Handles(call[c]) /\ call[c].pc = "created"
        BY <2>18 DEF Continued, At, Handles, Types, CallsOK, CallOK, Starts
      <3>2. auto[call[c].auto].status \in {"queued", "running"}
        BY <3>1, DriverFacts DEF DriverOK, Begun, Live
      <3> QED BY <2>18, <3>2, ContinuedAuto DEF SameAutos, Finished
    <2>19. CASE NotContinued(c)
      BY <2>19, NotContinuedAuto DEF SameAutos, SameLane, Finished
    <2>20. CASE LaneEnds(c)
      BY <2>20, OverType DEF LaneEnds, At, Finished
    <2>21. CASE LaneAdvances(c)
      BY <2>21, OverType DEF LaneAdvances, At, Finished
    <2>22. CASE LaneTearsDown(c)
      BY <2>22, OverType DEF LaneTearsDown, At, Finished
    <2>23. CASE EndOne(c)
      BY <2>23 DEF EndOne, Finished
    <2>24. CASE AllEnded(c)
      BY <2>24 DEF AllEnded, Finished
    <2>25. CASE EnterLane(c)
      BY <2>25 DEF EnterLane, Finished
    <2>26. CASE Register(c)
      BY <2>26, RegisterAuto DEF SameAutos, Finished
    <2> QED BY <1>1, <2>1, <2>2, <2>3, <2>4, <2>5, <2>6, <2>7, <2>8, <2>9, <2>10, <2>11, <2>12, <2>13, <2>14,
               <2>15, <2>16, <2>17, <2>18, <2>19, <2>20, <2>21, <2>22, <2>23, <2>24, <2>25, <2>26 DEF CallStep
  <1>2. ASSUME NEW s \in Session, Report(s) \/ TurnEnds(s) \/ TurnFails(s) \/ PromptBroke(s) \/ Exits(s)
        PROVE  \A a \in Visit : Finished(a) => Finished(a)'
    <2>1. CASE Report(s)
      BY <2>1 DEF Report, Finished
    <2>2. CASE TurnEnds(s)
      BY <2>2 DEF TurnEnds, Finished
    <2>3. CASE TurnFails(s)
      BY <2>3 DEF TurnFails, Finished
    <2>4. CASE PromptBroke(s)
      BY <2>4 DEF PromptBroke, Finished
    <2>5. CASE Exits(s)
      BY <2>5 DEF Exits, Finished
    <2> QED BY <1>2, <2>1, <2>2, <2>3, <2>4, <2>5
  <1>3. CASE QueueStarts
    BY <1>3 DEF QueueStarts, Finished
  <1>4. CASE RemoveWorktree
    BY <1>4 DEF RemoveWorktree, Finished
  <1>5. CASE KeepWorktree
    BY <1>5 DEF KeepWorktree, Finished
  <1>6. CASE ScanAdopts
    <2>1. \A a \in Visit : Finished(a) => Adopted[a] = auto[a]
      BY AdoptedType DEF Finished, Live
    <2> QED BY <1>6, <2>1 DEF ScanAdopts, Finished
  <1>7. CASE ScanTimesOut
    <2>1. \A a \in Visit : auto'[a].lane = auto[a].lane /\ auto'[a].status = auto[a].status
      BY <1>7 DEF ScanTimesOut, Types, TypeOK
    <2> QED BY <2>1 DEF Finished
  <1>8. ASSUME NEW to \in Columns, MoveCard(to) PROVE \A a \in Visit : Finished(a) => Finished(a)'
    BY <1>8 DEF MoveCard, Finished
  <1>9. CASE UserBlocks
    BY <1>9 DEF UserBlocks, Finished
  <1>10. CASE UNCHANGED vars
    BY <1>10 DEF vars, Finished
  <1> QED BY <1>1, <1>2, <1>3, <1>4, <1>5, <1>6, <1>7, <1>8, <1>9, <1>10 DEF Next

\* The worktree is removed at the end of a cleanup.
LEMMA StepRemoves == ASSUME [Next]_vars PROVE worktree /\ ~ worktree' => RemoveWorktree
  <1> USE DEF cardVars, agentVars, tellVars, autoVars, tearVars, treeVars
  <1>1. ASSUME NEW c \in Calls, CallStep(c) PROVE worktree /\ ~ worktree' => RemoveWorktree
    <2>1. CASE EndDeferred(c)
      BY <2>1 DEF EndDeferred
    <2>2. CASE Killed(c)
      BY <2>2 DEF Killed
    <2>3. CASE StartPending(c)
      BY <2>3 DEF StartPending
    <2>4. CASE SettleEnded(c)
      BY <2>4 DEF SettleEnded
    <2>5. CASE WindDown(c)
      BY <2>5 DEF WindDown
    <2>6. CASE SettleUnfollowed(c)
      BY <2>6 DEF SettleUnfollowed
    <2>7. CASE SettleTeardown(c)
      BY <2>7 DEF SettleTeardown
    <2>8. CASE StepOver(c)
      BY <2>8 DEF StepOver
    <2>9. CASE StartNext(c)
      BY <2>9 DEF StartNext
    <2>10. CASE Recover(c)
      BY <2>10 DEF Recover
    <2>11. CASE NothingFollows(c)
      BY <2>11 DEF NothingFollows
    <2>12. CASE CreateTakesTrigger(c)
      BY <2>12 DEF CreateTakesTrigger
    <2>13. CASE CreateQueues(c)
      BY <2>13 DEF CreateQueues
    <2>14. CASE CreateStarts(c)
      BY <2>14 DEF CreateStarts
    <2>15. CASE Spawned(c)
      BY <2>15 DEF Spawned
    <2>16. CASE SpawnFails(c)
      BY <2>16 DEF SpawnFails
    <2>17. CASE Entered(c)
      BY <2>17 DEF Entered
    <2>18. CASE Continued(c)
      BY <2>18 DEF Continued
    <2>19. CASE NotContinued(c)
      BY <2>19 DEF NotContinued
    <2>20. CASE LaneEnds(c)
      BY <2>20 DEF LaneEnds
    <2>21. CASE LaneAdvances(c)
      BY <2>21 DEF LaneAdvances
    <2>22. CASE LaneTearsDown(c)
      BY <2>22 DEF LaneTearsDown
    <2>23. CASE EndOne(c)
      BY <2>23 DEF EndOne
    <2>24. CASE AllEnded(c)
      BY <2>24 DEF AllEnded
    <2>25. CASE EnterLane(c)
      BY <2>25 DEF EnterLane
    <2>26. CASE Register(c)
      BY <2>26 DEF Register
    <2> QED BY <1>1, <2>1, <2>2, <2>3, <2>4, <2>5, <2>6, <2>7, <2>8, <2>9, <2>10, <2>11, <2>12, <2>13, <2>14,
               <2>15, <2>16, <2>17, <2>18, <2>19, <2>20, <2>21, <2>22, <2>23, <2>24, <2>25, <2>26 DEF CallStep
  <1>2. ASSUME NEW s \in Session, Report(s) \/ TurnEnds(s) \/ TurnFails(s) \/ PromptBroke(s) \/ Exits(s)
        PROVE  worktree /\ ~ worktree' => RemoveWorktree
    <2>1. CASE Report(s)
      BY <2>1 DEF Report
    <2>2. CASE TurnEnds(s)
      BY <2>2 DEF TurnEnds
    <2>3. CASE TurnFails(s)
      BY <2>3 DEF TurnFails
    <2>4. CASE PromptBroke(s)
      BY <2>4 DEF PromptBroke
    <2>5. CASE Exits(s)
      BY <2>5 DEF Exits
    <2> QED BY <1>2, <2>1, <2>2, <2>3, <2>4, <2>5
  <1>3. CASE QueueStarts
    BY <1>3 DEF QueueStarts
  <1>4. CASE RemoveWorktree
    BY <1>4 DEF RemoveWorktree
  <1>5. CASE KeepWorktree
    BY <1>5 DEF KeepWorktree
  <1>6. CASE ScanAdopts
    BY <1>6 DEF ScanAdopts
  <1>7. CASE ScanTimesOut
    BY <1>7 DEF ScanTimesOut
  <1>8. ASSUME NEW to \in Columns, MoveCard(to) PROVE worktree /\ ~ worktree' => RemoveWorktree
    BY <1>8 DEF MoveCard
  <1>9. CASE UserBlocks
    BY <1>9 DEF UserBlocks
  <1>10. CASE UNCHANGED vars
    BY <1>10 DEF vars, treeVars
  <1> QED BY <1>1, <1>2, <1>3, <1>4, <1>5, <1>6, <1>7, <1>8, <1>9, <1>10 DEF Next

-----------------------------------------------------------------------------
(* The teardown finds every agent that lives *)

\* The card knows every session whose agent lives.
LEMMA StepRecorded == ASSUME Types, Recorded(card), [Next]_vars PROVE Recorded(card)'
  <1>1. NoneLost
    BY StepNoneLost
  <1>2. CASE NoneStarts
    BY <1>1, <1>2 DEF NoneStarts, NoneLost, Recorded, Alive
  <1>3. ASSUME NEW d \in Calls, Spawned(d) PROVE Recorded(card)'
    <2>1. PICK s \in Session : proc' = [proc EXCEPT ![s] = "working"] /\ card' = Saved(WithRun(call[d].row, s))
      BY <1>3 DEF Spawned
    <2>2. WithRun(call[d].row, s) \in Card /\ WithRun(call[d].row, s).rec[s] # "none"
      BY WithRunType DEF Types, CallsOK, CallType
    <2>3. card'.rec[s] # "none"
      BY <2>1, <2>2, NoneLostSaved
    <2>4. \A r \in Session \ {s} : proc'[r] = proc[r]
      BY <2>1 DEF Types, TypeOK
    <2> QED BY <1>1, <2>3, <2>4 DEF NoneLost, Recorded, Alive
  <1> QED BY <1>2, <1>3, StepNoneStarts

\* So does a handler's copy.
CopiesRecorded == \A c \in Calls : Held(call[c]) => Recorded(call[c].copy)

LEMMA StepCopies == ASSUME Types, Drive, Recorded(card), CopiesRecorded, [Next]_vars PROVE CopiesRecorded'
  <1> SUFFICES ASSUME NEW c \in Calls, Held(call'[c]), NEW s \in Session, proc'[s] \in {"working", "idle"}
               PROVE  call'[c].copy.rec[s] # "none"
    BY DEF CopiesRecorded, Recorded, Alive
  <1>1. CASE NoneStarts
    <2>1. Alive(s)
      BY <1>1 DEF NoneStarts, Alive
    <2>2. Informed
      BY StepInformed
    <2> QED BY <2>1, <2>2 DEF Informed, CopiesRecorded, Recorded
  <1>2. ASSUME NEW d \in Calls, Spawned(d) PROVE FALSE
    <2>1. call[d].pc = "spawning" /\ Driver(call[d])
      BY <1>2 DEF Spawned, At, Driver, Handles, Enters, Types, CallsOK, CallOK, Starts
    <2>2. PICK r \in Session : IF call[d].why = "queue" THEN Return(d) ELSE Answer(d, "session", r)
      BY <1>2 DEF Spawned
    <2>3. Others(d) /\ ~ Held(call'[d])
      BY <2>1, <2>2, SpawnedCall, IdleFields DEF Held
    <2>4. c # d /\ Driver(call[c])
      BY <2>3 DEF Others, Held, Driver
    <2> QED BY <2>1, <2>4 DEF Drive, OneDriver
  <1> QED BY <1>1, <1>2, StepNoneStarts

\* Whoever starts the cleanup that waited for a session has seen it ended.
LEMMA StepSwept == ASSUME Types, Evidence, Swept, [Next]_vars PROVE Swept'
  <1>1. ended \subseteq ended'
    BY StepGrows DEF Grows
  <1>2. ASSUME NEW c \in Calls, call'[c].pc = "swept", call'[c] = call[c] PROVE call'[c].sid \in ended'
    BY <1>1, <1>2 DEF Swept
  <1>3. CASE NoCleanup
    BY <1>2, <1>3 DEF NoCleanup, Swept
  <1>4. ASSUME NEW d \in Calls, CleanupStep(d), NEW c \in Calls, call'[c].pc = "swept" PROVE call'[c].sid \in ended'
    <2>1. CASE StartPending(d)
      BY <1>2, <1>4, <2>1, StartPendingCall DEF Others
    <2>2. CASE LaneTearsDown(d)
      BY <1>2, <1>4, <2>2, LaneTearsDownCall DEF Others
    <2>3. CASE EndOne(d)
      BY <1>2, <1>4, <2>3, EndOneCall DEF EndOne, At, Others
    <2>4. CASE AllEnded(d)
      BY <1>2, <1>4, <2>4, ReturnCall, IdleFields DEF AllEnded, Others
    <2>5. CASE EndDeferred(d)
      <3>1. Others(d) /\ call'[d].sid = call[d].sid /\ call[d].sid \in ended'
        BY <2>5, EndDeferredCall DEF EndDeferred, Kill, SameEvent
      <3> QED BY <1>2, <1>4, <3>1 DEF Others
    <2>6. CASE Killed(d)
      <3>1. Others(d) /\ call'[d].sid = call[d].sid /\ call[d].sid \in ended
        BY <2>6, KilledCall DEF Killed, SameEvent, Evidence, Told
      <3> QED BY <1>1, <1>2, <1>4, <3>1 DEF Others
    <2> QED BY <1>4, <2>1, <2>2, <2>3, <2>4, <2>5, <2>6 DEF CleanupStep
  <1> QED BY <1>3, <1>4, StepCleanup DEF Swept

\* While the worktree's cleanup is under way the lane does not live.
LEMMA NotLive == ASSUME Tree, UnderWay, Once PROVE ~ Live
  BY DEF Tree, Finished, Once, DoneVisits, Live

\* The cleanup after a step that begins no visit, starts no agent and, but for
\* call c, leaves the cleanup where it was or stops it.
LEMMA KeepCollected ==
  ASSUME Collected, NoneStarts, cleaning' => cleaning, pending' \subseteq pending,
         \A d \in Calls : Cleans(call'[d]) => call'[d] = call[d]
  PROVE  Collected'
  BY DEF Collected, NoneStarts, Alive

\* Nobody whose agent lives is forgotten by the cleanup.
LEMMA StepCollected ==
  ASSUME Types, Evidence, Swept, CopiesRecorded, Collected, NoneStarts, NEW c \in Calls, CleanupStep(c)
  PROVE  Collected'
  <1> USE DEF cardVars, agentVars, tellVars, autoVars, tearVars, treeVars
  <1>1. \A s \in Session : Alive(s)' => Alive(s)
    BY DEF NoneStarts, Alive
  <1>2. \A s \in Session : s \in ended => ~ Alive(s)
    BY DEF Evidence, Agents, Alive
  <1>3. CASE StartPending(c)
    <2>1. pending' \subseteq pending /\ \A d \in Calls : Cleans(call'[d]) => call'[d] = call[d]
      BY <1>3, StartPendingCall DEF StartPending, Others, Cleans
    <2>2. CASE call[c].sid \in pending
      <3>1. call[c].sid \in ended /\ call[c].sid \in Session
        BY <1>3, <2>2 DEF StartPending, At, Swept, Types, TypeOK
      <3>2. \A s \in Session : ~ Alive(s)
        BY <1>2, <2>2, <3>1 DEF Collected
      <3> QED BY <1>1, <3>2 DEF Collected, Alive
    <2>3. CASE call[c].sid \notin pending
      <3>1. cleaning' = cleaning
        BY <1>3, <2>3 DEF StartPending
      <3> QED BY <2>1, <3>1, KeepCollected
    <2> QED BY <2>2, <2>3
  <1>4. CASE LaneTearsDown(c)
    <2>1. cleaning' = cleaning /\ pending' = pending /\ Others(c)
      BY <1>4, LaneTearsDownCall DEF LaneTearsDown
    <2>2. ASSUME Cleans(call'[c]), NEW s \in Session, Alive(s)
          PROVE  s \in call'[c].todo \/ (call'[c].ev = "report" /\ s = call'[c].sid)
      <3>1. /\ TearsDown(c) /\ call'[c].ev = call[c].ev /\ call'[c].sid = call[c].sid
            /\ call'[c].todo = SessionsOf(call[c].copy)
                                 \ (IF call[c].ev = "report" THEN {call[c].sid} \cap SessionsOf(call[c].copy) ELSE {})
        BY <1>4, <2>2, LaneTearsDownCall DEF Cleans, SameEvent
      <3>2. Held(call[c])
        BY <1>4 DEF LaneTearsDown, At, Held, Handles
      <3>3. s \in SessionsOf(call[c].copy)
        BY <2>2, <3>2 DEF CopiesRecorded, Recorded, SessionsOf
      <3> QED BY <3>1, <3>3
    <2> QED BY <1>1, <2>1, <2>2 DEF Collected, Others, Alive
  <1>5. CASE EndOne(c)
    <2> DEFINE m == Min(call[c].todo)
    <2>1. m \in Session /\ m \in call[c].todo
      BY <1>5, TodoMin DEF EndOne, Types, CallsOK, CallType
    <2>2. /\ cleaning' = cleaning /\ pending' = pending /\ Others(c)
          /\ call'[c].todo = call[c].todo \ {m} /\ SameEvent(c) /\ call'[c].clean = call[c].clean
          /\ call[c].pc = "ending"
      BY <1>5, EndOneCall DEF EndOne, At
    <2>3. proc'[m] = "dead"
      <3>1. Kill(m)
        BY <1>5 DEF EndOne
      <3> QED BY <2>1, <3>1 DEF Kill, Evidence, Agents, Types, TypeOK
    <2> HIDE DEF m
    <2>4. Cleans(call'[c]) => Cleans(call[c])
      BY <2>2 DEF Cleans
    <2>5. ASSUME Cleans(call'[c]), NEW s \in Session, proc'[s] \in {"working", "idle"}
          PROVE  s \in call'[c].todo \/ (call'[c].ev = "report" /\ s = call'[c].sid)
      <3>1. s # m /\ Alive(s)
        BY <2>3, <2>5 DEF NoneStarts, Alive
      <3>2. s \in call[c].todo \/ (call[c].ev = "report" /\ s = call[c].sid)
        BY <2>4, <2>5, <3>1 DEF Collected
      <3> QED BY <2>2, <3>1, <3>2 DEF SameEvent
    <2> QED BY <1>1, <2>2, <2>5 DEF Collected, Others, Alive
  <1>6. CASE AllEnded(c)
    <2>1. Others(c) /\ call'[c] = Idle /\ ~ Cleans(call'[c]) /\ call[c].pc = "ending" /\ call[c].todo = {}
      BY <1>6, ReturnCall, IdleFields DEF AllEnded, At, Cleans
    <2>2. \A d \in Calls : Cleans(call'[d]) => call'[d] = call[d]
      BY <2>1 DEF Others
    <2>3. CleanUp(c)
      BY <1>6 DEF AllEnded
    <2>4. CASE ~ call[c].clean
      BY <2>2, <2>3, <2>4, KeepCollected DEF CleanUp
    <2>5. CASE call[c].clean /\ call[c].ev = "report"
      <3>1. \A s \in Session : Alive(s) => s = call[c].sid
        BY <2>1, <2>5 DEF Collected, Cleans
      <3>2. pending' = pending \cup {call[c].sid} /\ cleaning' = cleaning
        BY <2>3, <2>5 DEF CleanUp
      <3> QED BY <1>1, <2>2, <3>1, <3>2 DEF Collected, Alive
    <2>6. CASE call[c].clean /\ call[c].ev # "report"
      <3>1. \A s \in Session : ~ Alive(s)
        BY <2>1, <2>6 DEF Collected, Cleans
      <3> QED BY <1>1, <3>1 DEF Collected, Alive
    <2> QED BY <2>4, <2>5, <2>6
  <1>7. CASE EndDeferred(c)
    <2>1. cleaning' = cleaning /\ pending' = pending
      BY <1>7 DEF EndDeferred
    <2>2. Others(c) /\ call'[c].pc \in {"swept", "killing"}
      BY <1>7, EndDeferredCall
    <2> QED BY <2>1, <2>2, KeepCollected DEF Others, Cleans
  <1>8. CASE Killed(c)
    <2>1. Others(c) /\ call'[c].pc = call[c].why /\ call[c].why \in {"swept", "judge"}
      BY <1>8, KilledCall DEF Killed, Types, CallsOK, CallOK
    <2>2. cleaning' = cleaning /\ pending' = pending /\ \A d \in Calls : Cleans(call'[d]) => call'[d] = call[d]
      BY <1>8, <2>1 DEF Killed, Others, Cleans
    <2> QED BY <2>2, KeepCollected
  <1> QED BY <1>3, <1>4, <1>5, <1>6, <1>7, <1>8 DEF CleanupStep

\* The cleanup is under way only after a visit of the Done lane.
LEMMA StepUnderWay ==
  ASSUME Types, UnderWay => \E a \in Visit : Finished(a), \A a \in Visit : Finished(a) => Finished(a)', [Next]_vars
  PROVE  UnderWay' => \E a \in Visit : Finished(a)'
  <1> USE DEF cardVars, agentVars, tellVars, autoVars, tearVars, treeVars
  <1>1. CASE UnderWay' => UnderWay
    BY <1>1
  <1>2. CASE NoCleanup
    BY <1>1, <1>2 DEF NoCleanup, UnderWay
  <1>3. ASSUME NEW c \in Calls, CleanupStep(c) PROVE UnderWay' => \E a \in Visit : Finished(a)'
    <2>1. CASE StartPending(c)
      <3>1. \A d \in Calls : Cleans(call'[d]) => call'[d] = call[d]
        BY <2>1, StartPendingCall DEF Others, Cleans
      <3> QED BY <1>1, <2>1, <3>1 DEF StartPending, UnderWay
    <2>2. CASE LaneTearsDown(c)
      <3>1. CASE TearsDown(c)
        <4>1. /\ call[c].auto \in Visit /\ auto'[call[c].auto].lane = auto[call[c].auto].lane
              /\ auto'[call[c].auto].status \in {"completed", "failed"}
          BY <2>2, OverType DEF LaneTearsDown, At
        <4>2. auto[call[c].auto].lane = "done"
          BY <3>1 DEF TearsDown, AutoOf
        <4> QED BY <4>1, <4>2 DEF Finished
      <3>2. CASE ~ TearsDown(c)
        <4>1. \A d \in Calls : Cleans(call'[d]) => call'[d] = call[d]
          BY <2>2, <3>2, LaneTearsDownCall DEF Others, Cleans
        <4> QED BY <1>1, <2>2, <4>1 DEF LaneTearsDown, UnderWay
      <3> QED BY <3>1, <3>2
    <2>3. CASE EndOne(c)
      <3>1. \A d \in Calls : Cleans(call'[d]) => Cleans(call[d])
        BY <2>3, EndOneCall DEF EndOne, At, Others, Cleans
      <3> QED BY <1>1, <2>3, <3>1 DEF EndOne, UnderWay
    <2>4. CASE AllEnded(c)
      <3>1. \A d \in Calls : Cleans(call'[d]) => call'[d] = call[d]
        BY <2>4, ReturnCall, IdleFields DEF AllEnded, Others, Cleans
      <3>2. CASE Cleans(call[c])
        BY <1>1, <3>2 DEF UnderWay
      <3>3. CASE ~ Cleans(call[c])
        <4>1. cleaning' = cleaning /\ pending' = pending
          BY <2>4, <3>3 DEF AllEnded, At, CleanUp, Cleans
        <4> QED BY <1>1, <3>1, <4>1 DEF UnderWay
      <3> QED BY <3>2, <3>3
    <2>5. CASE EndDeferred(c)
      <3>1. \A d \in Calls : Cleans(call'[d]) => call'[d] = call[d]
        BY <2>5, EndDeferredCall DEF Others, Cleans
      <3> QED BY <1>1, <2>5, <3>1 DEF EndDeferred, UnderWay
    <2>6. CASE Killed(c)
      <3>1. Others(c) /\ call'[c].pc = call[c].why /\ call[c].why \in {"swept", "judge"}
        BY <2>6, KilledCall DEF Killed, Types, CallsOK, CallOK
      <3> QED BY <1>1, <2>6, <3>1 DEF Killed, Others, Cleans, UnderWay
    <2> QED BY <1>3, <2>1, <2>2, <2>3, <2>4, <2>5, <2>6 DEF CleanupStep
  <1> QED BY <1>2, <1>3, StepCleanup

\* A visit that begins finds no cleanup under way, or is not the first of Done;
\* an agent is started only for a lane that lives.
LEMMA StepTree ==
  ASSUME Types, Evidence, Swept, Drive, RecoverOK, CopiesRecorded, Tree, [Next]_vars
  PROVE  Tree'
  <1> USE DEF cardVars, agentVars, tellVars, autoVars, tearVars, treeVars
  <1>1. \A a \in Visit : Finished(a) => Finished(a)'
    BY StepFinished
  <1>2. UnderWay' => \E a \in Visit : Finished(a)'
    BY <1>1, StepUnderWay DEF Tree
  <1>3. ASSUME ~ UnderWay' PROVE Collected'
    BY <1>3 DEF UnderWay, Collected
  <1>4. ASSUME Once', NEW d \in Calls, Register(d) PROVE Collected'
    <2>1. active' \in Visit /\ auto[active'].status = "none" /\ SameAutos({active'})
      BY <1>4, RegisterAuto
    <2>2. \A a \in Visit : Finished(a) => a = active'
      BY <1>1, <1>4 DEF Once, DoneVisits, Finished
    <2>3. ~ UnderWay
      BY <2>1, <2>2 DEF Tree, Finished
    <2>4. \A c \in Calls : Cleans(call'[c]) => call'[c] = call[c]
      BY <1>4, RegisterCall DEF Others, Cleans
    <2> QED BY <1>3, <1>4, <2>3, <2>4 DEF Register, UnderWay
  <1>5. ASSUME Once', NEW d \in Calls, Spawned(d) PROVE Collected'
    <2>1. Driver(call[d]) /\ call[d].pc = "spawning"
      BY <1>5 DEF Spawned, At, Driver, Handles, Enters, Types, CallsOK, CallOK, Starts
    <2>2. Live
      BY <2>1 DEF Drive, Drivers, DriverOK, Begun
    <2>3. Once
      BY <1>5 DEF Spawned, Once, DoneVisits
    <2>4. ~ UnderWay
      BY <2>2, <2>3, NotLive
    <2>5. \A c \in Calls : Cleans(call'[c]) => call'[c] = call[c]
      BY <1>5, <2>1, SpawnedCall, IdleFields DEF Spawned, Others, Cleans
    <2> QED BY <1>3, <1>5, <2>4, <2>5 DEF Spawned, UnderWay
  <1>6. ASSUME Once', SameVisits, NoneStarts PROVE Collected'
    <2>1. Once
      <3>1. DoneVisits' = DoneVisits
        BY <1>6 DEF SameVisits, DoneVisits
      <3>2. active' # None
        BY <1>6, CardTypes DEF Once, DoneVisits
      <3> QED BY <1>6, <3>1, <3>2 DEF Once, SameVisits
    <2>2. CASE NoCleanup
      BY <1>6, <2>1, <2>2, KeepCollected DEF Tree, NoCleanup
    <2>3. ASSUME NEW d \in Calls, CleanupStep(d) PROVE Collected'
      BY <1>6, <2>1, <2>3, StepCollected DEF Tree
    <2> QED BY <2>2, <2>3, StepCleanup
  <1>7. Once' => Collected'
    BY <1>4, <1>5, <1>6, StepVisits, StepNoneStarts
  <1> QED BY <1>2, <1>7 DEF Tree

\* The invariant of the worktree.
LaneTree == /\ LaneBudget /\ Recorded(card) /\ Swept
            /\ ~ interrupted => CopiesRecorded /\ Tree

(* A card that came to Done once and has not left loses its worktree only after  *)
(* all its agents have ended: the copy that the Done lane's end is judged on     *)
(* names every session whose agent lives, so that each is among those the        *)
(* teardown ends, or is the one inside its turn whose end the cleanup waits for; *)
(* and no agent is started after that, the lane being over.                      *)
THEOREM LaneWorktreeLast == ~ EchoOverlaps /\ Spec => WorktreeLast
  <1> SUFFICES ASSUME ~ EchoOverlaps PROVE Spec => WorktreeLast
    OBVIOUS
  <1>1. Init /\ LaneBudget => LaneTree
    <2> SUFFICES ASSUME Init, LaneBudget PROVE LaneTree
      OBVIOUS
    <2>1. \A s \in Session : ~ Alive(s)
      BY DEF Init, Alive
    <2>2. \A c \in Calls : ~ Held(call[c]) /\ ~ Cleans(call[c]) /\ call[c].pc # "swept"
      BY IdleFields DEF Init, Held, Cleans
    <2>3. ~ UnderWay /\ Collected
      BY <2>1, <2>2 DEF Init, UnderWay, Collected
    <2> QED BY <2>1, <2>2, <2>3 DEF LaneTree, Recorded, Swept, CopiesRecorded, Tree
  <1>2. LaneBudget /\ LaneBudget' /\ LaneTree /\ [Next]_vars => LaneTree'
    <2> SUFFICES ASSUME LaneBudget, LaneBudget', LaneTree, [Next]_vars PROVE LaneTree'
      OBVIOUS
    <2>1. Types /\ Evidence /\ RecoverOK
      BY DEF LaneBudget, LaneInv, LaneBase
    <2>2. Recorded(card)' /\ Swept'
      BY <2>1, StepRecorded, StepSwept DEF LaneTree
    <2>3. ASSUME ~ interrupted' PROVE CopiesRecorded' /\ Tree'
      <3>1. ~ interrupted
        BY <2>3, Interrupted
      <3>2. Drive /\ CopiesRecorded /\ Tree
        BY <3>1 DEF LaneBudget, LaneInv, LaneCalm, LaneTree
      <3> QED BY <2>1, <3>2, StepCopies, StepTree DEF LaneTree
    <2> QED BY <2>2, <2>3 DEF LaneTree
  <1>3. LaneTree /\ [Next]_vars =>
          [worktree /\ ~ worktree' /\ ~ interrupted /\ {a \in Visit : auto[a].lane = "done"} = {active}
             => \A s \in Session : proc[s] \in {"none", "dead"}]_vars
    <2> SUFFICES ASSUME LaneTree, [Next]_vars, worktree, ~ worktree', ~ interrupted, Once
                 PROVE  \A s \in Session : proc[s] \in {"none", "dead"}
      BY DEF Once, DoneVisits
    <2>1. cleaning /\ Collected
      BY StepRemoves DEF RemoveWorktree, LaneTree, Tree
    <2> QED BY <2>1 DEF Collected, Alive, LaneTree, LaneBudget, LaneInv, LaneBase, Types, TypeOK
  <1> QED BY <1>1, <1>2, <1>3, BudgetInvariant, PTL DEF Spec, WorktreeLast

=============================================================================
