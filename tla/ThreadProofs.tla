----------------------------- MODULE ThreadProofs -----------------------------
(***************************************************************************)
(* What no interleaving of turns, timers, stops, resets and restarts can   *)
(* do to a thread, its goal and its wakes, for every value of the          *)
(* constants.                                                              *)
(***************************************************************************)
EXTENDS ThreadTurns, TLAPS

(***************************************************************************)
(* What the operators on a goal row return.                                *)
(***************************************************************************)

LEMMA SetStatusRow ==
  ASSUME NEW g \in GoalRow, NEW s \in GoalStatus \union {"none"}
  PROVE  /\ SetStatus(g, s) \in GoalRow
         /\ SetStatus(g, s).id = g.id
         /\ SetStatus(g, s).used = g.used
         /\ SetStatus(g, s).status = s
  BY DEF SetStatus, GoalRow

LEMMA PausedRow ==
  ASSUME NEW g \in GoalRow
  PROVE  /\ PausedIfActive(g) \in GoalRow
         /\ PausedIfActive(g).id = g.id
         /\ PausedIfActive(g).used = g.used
         /\ PausedIfActive(g).status # "active"
<1>1. "paused" \in GoalStatus \union {"none"}
  BY DEF GoalStatus
<1> QED
  BY <1>1, SetStatusRow DEF PausedIfActive

LEMMA ChargeRow ==
  ASSUME NEW g \in GoalRow, NEW id, NEW o, NEW stopped
  PROVE  /\ Charge(g, id, o, stopped) \in GoalRow
         /\ Charge(g, id, o, stopped).id = g.id
         /\ Charge(g, id, o, stopped).used = g.used + (IF g.id = id THEN 1 ELSE 0)
         /\ g.status # "active" => Charge(g, id, o, stopped).status = g.status
<1> DEFINE hit   == IF InfraHit(o, stopped) THEN 1 ELSE 0
           lazy  == IF o = "idle" THEN 1 ELSE 0
           spent == [g EXCEPT !.used = @ + 1, !.infra = @ + hit, !.idle = @ + lazy]
<1>1. hit \in Nat /\ lazy \in Nat
  OBVIOUS
<1> HIDE DEF hit, lazy
<1>2. g.used + 1 \in Nat /\ g.infra + hit \in Nat /\ g.idle + lazy \in Nat
  BY <1>1 DEF GoalRow
<1>3. /\ spent \in GoalRow
      /\ spent.id = g.id
      /\ spent.used = g.used + 1
      /\ spent.status = g.status
  BY <1>2 DEF GoalRow
<1>4. /\ [spent EXCEPT !.status = "budget_limited"] \in GoalRow
      /\ [spent EXCEPT !.status = "budget_limited"].id = g.id
      /\ [spent EXCEPT !.status = "budget_limited"].used = g.used + 1
  BY <1>3 DEF GoalRow, GoalStatus
<1>5. g.used + 0 = g.used
  BY DEF GoalRow
<1> HIDE DEF spent
<1>6. Charge(g, id, o, stopped) = IF g.id # id THEN g
                                  ELSE IF OverBudget(spent) /\ g.status = "active"
                                       THEN [spent EXCEPT !.status = "budget_limited"]
                                       ELSE spent
  BY DEF Charge, spent, hit, lazy
<1> QED
  BY <1>3, <1>4, <1>5, <1>6

LEMMA StatusAfterRange ==
  ASSUME NEW g \in GoalRow, NEW o, NEW stopped
  PROVE  /\ StatusAfter(g, o, stopped) \in GoalStatus \union {"none"}
         /\ g.status # "active" => StatusAfter(g, o, stopped) = g.status
  BY DEF StatusAfter, GoalRow, GoalStatus

LEMMA StatusBeforeRange ==
  ASSUME NEW g \in GoalRow
  PROVE  StatusBefore(g) \in GoalStatus
  BY DEF StatusBefore, GoalStatus

LEMMA NewRows ==
  /\ NoGoal \in GoalRow
  /\ \A id \in GoalId, b \in Budgets :
       /\ NewGoal(id, b) \in GoalRow
       /\ NewGoal(id, b).id = id
       /\ NewGoal(id, b).used = 0
  /\ FreeTurn \in TurnRow
  BY DEF NoGoal, NewGoal, FreeTurn, GoalRow, TurnRow, GoalStatus, Outcome

\* What the end of a run may do to the goal of its thread.
LEMMA FinishedRun ==
  ASSUME TypeOK, NEW t \in Slot, NEW o, FinishRun(t, o)
  PROVE  /\ timers' \in [GoalId -> Nat]
         /\ \/ UNCHANGED <<goal, announced>> /\ (goal.id = 0 \/ turns[t].goal # goal.id)
            \/ /\ goal'.id = goal.id
               /\ goal' \in GoalRow
               /\ goal'.used = goal.used + (IF goal.id = turns[t].goal THEN 1 ELSE 0)
               /\ goal.status # "active" => goal'.status # "active"
               /\ UNCHANGED announced
            \/ /\ goal.id \in GoalId
               /\ goal' = NoGoal
               /\ announced' = [announced EXCEPT ![goal.id] = @ + 1]
         /\ ran' = IF turns[t].goal = 0 THEN ran
                   ELSE [ran EXCEPT ![turns[t].goal] = @ + 1]
<1> DEFINE id      == turns[t].goal
           stopped == turns[t].stopped
           charged == Charge(goal, id, o, stopped)
           judged  == SetStatus(charged, StatusAfter(charged, o, stopped))
           throws  == judged.status # charged.status /\ goal.id # id
           next    == /\ judged.status = "active"
                      /\ o \in {"done", "idle"}
                      /\ ~stopped
                      /\ ~turns[t].queued
<1>1. goal \in GoalRow /\ timers \in [GoalId -> Nat]
  BY DEF TypeOK
<1>2. /\ charged \in GoalRow
      /\ charged.id = goal.id
      /\ charged.used = goal.used + (IF goal.id = id THEN 1 ELSE 0)
      /\ goal.status # "active" => charged.status = goal.status
  BY <1>1, ChargeRow
<1> HIDE DEF charged
<1>3. /\ judged \in GoalRow
      /\ judged.id = goal.id
      /\ judged.used = charged.used
      /\ judged.status = StatusAfter(charged, o, stopped)
      /\ goal.status # "active" => judged.status # "active"
  BY <1>2, StatusAfterRange, SetStatusRow
<1> HIDE DEF judged
<1>4. CASE id = 0 \/ goal.id = 0 \/ throws
  <2>1. UNCHANGED <<goal, announced, timers>>
    BY <1>4 DEF FinishRun, charged, judged
  <2>2. goal.id = 0 \/ id # goal.id
    BY <1>4
  <2>3. ran' = IF id = 0 THEN ran ELSE [ran EXCEPT ![id] = @ + 1]
    BY DEF FinishRun
  <2> QED
    BY <1>1, <2>1, <2>2, <2>3
<1>5. CASE ~(id = 0 \/ goal.id = 0 \/ throws)
  <2>1. /\ AnnounceAndClear(judged)
        /\ timers' = [timers EXCEPT ![goal.id] = @ + (IF next THEN 1 ELSE 0)]
    BY <1>5 DEF FinishRun, charged, judged
  <2>2. goal.id \in GoalId
    BY <1>1, <1>5 DEF GoalRow
  <2>3. timers' \in [GoalId -> Nat]
    BY <1>1, <2>1, <2>2
  <2>4. \/ goal' = judged /\ UNCHANGED announced
        \/ goal' = NoGoal /\ announced' = [announced EXCEPT ![goal.id] = @ + 1]
    BY <2>1, <1>2, <1>3 DEF AnnounceAndClear
  <2>5. judged.used = goal.used + (IF goal.id = id THEN 1 ELSE 0)
    BY <1>2, <1>3
  <2>6. ran' = IF id = 0 THEN ran ELSE [ran EXCEPT ![id] = @ + 1]
    BY DEF FinishRun
  <2> QED
    BY <2>2, <2>3, <2>4, <2>5, <2>6, <1>3
<1> QED
  BY <1>4, <1>5

(***************************************************************************)
(* Type correctness.                                                       *)
(***************************************************************************)

LEMMA StartsTyped ==
  ASSUME TypeOK, NEW t \in Slot, NEW w \in Wake \union {NoWake}, Starts(t, w)
  PROVE  turns' \in [Slot -> TurnRow]
<1>1. [FreeTurn EXCEPT !.phase = "starting", !.wake = w] \in TurnRow
  BY DEF FreeTurn, TurnRow, Outcome
<1> QED
  BY <1>1 DEF Starts, TypeOK

LEMMA DeliverTyped ==
  ASSUME TypeOK, Deliver
  PROVE  turns' \in [Slot -> TurnRow]
<1>1. ASSUME active # 0, NEW taken \in BOOLEAN,
             turns' = [turns EXCEPT ![active].queued = @ \/ taken]
      PROVE  turns' \in [Slot -> TurnRow]
  <2>1. active \in Slot /\ turns[active] \in TurnRow
    BY <1>1 DEF TypeOK
  <2>2. [turns[active] EXCEPT !.queued = @ \/ taken] \in TurnRow
    BY <2>1 DEF TurnRow
  <2> QED
    BY <1>1, <2>1, <2>2 DEF TypeOK
<1>2. ASSUME NEW t \in Slot, Starts(t, NoWake)
      PROVE  turns' \in [Slot -> TurnRow]
  BY <1>2, StartsTyped
<1> QED
  BY <1>1, <1>2 DEF Deliver

LEMMA FreeTyped ==
  ASSUME TypeOK, NEW t \in Slot, Free(t)
  PROVE  /\ turns' \in [Slot -> TurnRow]
         /\ audits' \subseteq (Slot \union {0}) \X GoalId
  BY NewRows DEF Free, TypeOK

LEMMA MarkTyped ==
  ASSUME TypeOK, NEW w \in Wake, NEW s \in WakeStatus
  PROVE  Mark(w, s) \in [Wake -> WakeStatus]
  BY DEF Mark, TypeOK

LEMMA SendEndedTyped ==
  ASSUME TypeOK, NEW t \in Slot, NEW s \in {"failed", "delivered"}, SendEnded(t, s)
  PROVE  wakes' \in [Wake -> WakeStatus]
<1>1. s \in WakeStatus
  BY DEF WakeStatus
<1> QED
  BY <1>1, MarkTyped DEF SendEnded, TypeOK

LEMMA FinishRunTyped ==
  ASSUME TypeOK, NEW t \in Slot, NEW o, FinishRun(t, o)
  PROVE  TypeOK'
<1>1. /\ turns' \in [Slot -> TurnRow]
      /\ audits' \subseteq (Slot \union {0}) \X GoalId
  BY FreeTyped DEF FinishRun
<1>2. wakes' \in [Wake -> WakeStatus]
  BY SendEndedTyped DEF FinishRun
<1>3. timers' \in [GoalId -> Nat]
  BY FinishedRun
<1>4. goal' \in GoalRow
  BY FinishedRun, NewRows DEF TypeOK
<1>5. announced' \in [GoalId -> Nat]
  BY FinishedRun DEF TypeOK
<1>6. ran' \in [GoalId -> Nat]
  <2>1. turns[t].goal \in GoalId \union {0}
    BY DEF TypeOK, TurnRow
  <2> QED
    BY <2>1, FinishedRun DEF TypeOK
<1>7. followUps' \in Nat /\ active' = 0
  BY DEF FinishRun, TypeOK
<1>8. UNCHANGED <<lastGoal, armed, prompts, stopping, sends, stops, restarts>>
  BY DEF FinishRun, countVars
<1> QED
  BY <1>1, <1>2, <1>3, <1>4, <1>5, <1>6, <1>7, <1>8 DEF TypeOK

LEMMA TypeInit ==
  Init => TypeOK
  BY NewRows, BoundsAssumption DEF Init, TypeOK, WakeStatus

LEMMA CountedTyped ==
  ASSUME TypeOK, Counted
  PROVE  sends' \in 0 .. MaxSends
  BY BoundsAssumption DEF Counted, TypeOK

LEMMA UserTyped ==
  ASSUME TypeOK, User
  PROVE  TypeOK'
<1>1. CASE Send
  <2>1. turns' \in [Slot -> TurnRow]
    BY <1>1, DeliverTyped DEF Send
  <2> QED
    BY <1>1, <2>1, CountedTyped DEF Send, TypeOK, goalVars, wakeVars
<1>2. CASE ResumeGoal
  <2>1. goal' \in GoalRow
    BY <1>2, SetStatusRow DEF ResumeGoal, TypeOK, GoalStatus
  <2>2. timers' \in [GoalId -> Nat]
    BY <1>2 DEF ResumeGoal, TypeOK, GoalRow
  <2> QED
    BY <1>2, <2>1, <2>2 DEF ResumeGoal, TypeOK, wakeVars, turnVars, countVars
<1>3. CASE PauseGoal
  <2>1. goal' \in GoalRow
    BY <1>3, SetStatusRow DEF PauseGoal, TypeOK, GoalStatus
  <2> QED
    BY <1>3, <2>1 DEF PauseGoal, TypeOK, wakeVars, turnVars, countVars
<1>4. CASE ClearGoal
  BY <1>4, NewRows DEF ClearGoal, TypeOK, wakeVars, turnVars, countVars
<1>5. CASE Stop
  <2>1. turns' \in [Slot -> TurnRow] /\ stopping' \in Nat
    <3>1. \A t \in Slot : [turns[t] EXCEPT !.stopped = TRUE] \in TurnRow
      BY DEF TypeOK, TurnRow
    <3> QED
      BY <1>5, <3>1 DEF Stop, TypeOK
  <2>2. goal' \in GoalRow
    BY <1>5, PausedRow DEF Stop, TypeOK
  <2> QED
    BY <1>5, <2>1, <2>2, BoundsAssumption DEF Stop, TypeOK, wakeVars
<1>6. ASSUME NEW b \in Budgets, GoalSend(b)
      PROVE  TypeOK'
  <2>1. turns' \in [Slot -> TurnRow]
    BY <1>6, DeliverTyped DEF GoalSend
  <2>2. goal' \in GoalRow /\ lastGoal' \in 0 .. MaxGoals
    <3>1. CASE goal' = NewGoal(lastGoal + 1, b) /\ lastGoal < MaxGoals /\ lastGoal' = lastGoal + 1
      <4>1. lastGoal + 1 \in GoalId
        BY <3>1, BoundsAssumption DEF TypeOK, GoalId
      <4> QED
        BY <3>1, <4>1, NewRows DEF GoalId
    <3>2. CASE /\ goal' = [SetStatus(goal, "active") EXCEPT !.budget = IF b = 0 THEN @ ELSE b]
               /\ lastGoal' = lastGoal
      <4>1. SetStatus(goal, "active") \in GoalRow
        BY SetStatusRow DEF TypeOK, GoalStatus
      <4> QED
        BY <3>2, <4>1 DEF TypeOK, GoalRow
    <3> QED
      BY <1>6, <3>1, <3>2 DEF GoalSend
  <2> QED
    BY <1>6, <2>1, <2>2, CountedTyped DEF GoalSend, TypeOK, wakeVars
<1>7. ASSUME NEW b \in Budgets, EditBudget(b)
      PROVE  TypeOK'
  <2>1. goal' \in GoalRow
    BY <1>7 DEF EditBudget, TypeOK, GoalRow
  <2> QED
    BY <1>7, <2>1 DEF EditBudget, TypeOK, wakeVars, turnVars, countVars
<1> QED
  BY <1>1, <1>2, <1>3, <1>4, <1>5, <1>6, <1>7 DEF User

LEMMA AgentTyped ==
  ASSUME TypeOK, NEW t \in Slot, Agent(t)
  PROVE  TypeOK'
<1>1. ASSUME NEW b \in Budgets, CreateGoal(t, b)
      PROVE  TypeOK'
  <2>1. lastGoal + 1 \in GoalId
    BY <1>1, BoundsAssumption DEF CreateGoal, TypeOK, GoalId
  <2>2. goal' \in GoalRow /\ lastGoal' \in 0 .. MaxGoals
    BY <1>1, <2>1, NewRows DEF CreateGoal, GoalId
  <2> QED
    BY <1>1, <2>2 DEF CreateGoal, TypeOK, wakeVars, turnVars, countVars
<1>2. CASE BlockGoal(t)
  <2>1. goal' \in GoalRow
    BY <1>2, SetStatusRow DEF BlockGoal, TypeOK, GoalStatus
  <2> QED
    BY <1>2, <2>1 DEF BlockGoal, TypeOK, wakeVars, turnVars, countVars
<1>3. CASE AuditGoal(t)
  <2>1. goal.id \in GoalId
    BY <1>3 DEF AuditGoal, TypeOK, GoalRow
  <2>2. audits' \subseteq (Slot \union {0}) \X GoalId
    BY <1>3, <2>1 DEF AuditGoal, TypeOK
  <2> QED
    BY <1>3, <2>2 DEF AuditGoal, TypeOK, goalVars, wakeVars, countVars
<1>4. ASSUME NEW w \in Wake, ScheduleWake(t, w)
      PROVE  TypeOK'
  <2>1. wakes' \in [Wake -> WakeStatus] /\ armed' \subseteq Wake
    BY <1>4 DEF ScheduleWake, TypeOK, WakeStatus
  <2> QED
    BY <1>4, <2>1 DEF ScheduleWake, TypeOK, goalVars, turnVars, countVars
<1>5. ASSUME NEW w \in Wake, NEW s \in {"cancelled", "resolved"}, DropWake(t, w, s)
      PROVE  TypeOK'
  <2>1. wakes' \in [Wake -> WakeStatus]
    BY <1>5, MarkTyped DEF DropWake, WakeStatus
  <2> QED
    BY <1>5, <2>1 DEF DropWake, TypeOK, goalVars, turnVars, countVars
<1> QED
  BY <1>1, <1>2, <1>3, <1>4, <1>5 DEF Agent

LEMMA AdvanceTyped ==
  ASSUME TypeOK, NEW t \in Slot, Advance(t)
  PROVE  TypeOK'
<1>1. CASE Begin(t)
  <2>1. turns' \in [Slot -> TurnRow]
    <3> DEFINE g == IF goal.status = "active" THEN goal.id ELSE 0
    <3>1. g \in GoalId \union {0}
      BY DEF TypeOK, GoalRow
    <3> HIDE DEF g
    <3>2. [turns[t] EXCEPT !.phase = "running", !.goal = g] \in TurnRow
      BY <3>1 DEF TypeOK, TurnRow
    <3>3. turns' = [turns EXCEPT ![t] = [turns[t] EXCEPT !.phase = "running", !.goal = g]]
      BY <1>1 DEF Begin, TypeOK, g
    <3> QED
      BY <3>2, <3>3 DEF TypeOK
  <2> QED
    BY <1>1, <2>1 DEF Begin, TypeOK, goalVars, wakeVars, countVars
<1>2. ASSUME NEW s \in {"failed", "delivered"}, StartEnds(t, s)
      PROVE  TypeOK'
  BY <1>2, FreeTyped, SendEndedTyped DEF StartEnds, TypeOK, goalVars, countVars
<1>3. ASSUME NEW o \in {"done", "idle", "retry", "continuation"}, Settle(t, o)
      PROVE  TypeOK'
  <2>1. turns' \in [Slot -> TurnRow]
    <3>1. [turns[t] EXCEPT !.phase = "settling", !.outcome = o] \in TurnRow
      <4>1. turns[t] \in TurnRow /\ o \in Outcome
        BY DEF TypeOK, Outcome
      <4> QED
        BY <4>1 DEF TurnRow
    <3>2. turns' = [turns EXCEPT ![t] = [turns[t] EXCEPT !.phase = "settling", !.outcome = o]]
      BY <1>3 DEF Settle, TypeOK
    <3> QED
      BY <3>1, <3>2 DEF TypeOK
  <2> QED
    BY <1>3, <2>1 DEF Settle, TypeOK, goalVars, wakeVars, countVars
<1>4. CASE Settled(t)
  BY <1>4, FinishRunTyped DEF Settled
<1>5. ASSUME NEW o \in {"error", "provider", "aborted"}, Fail(t, o)
      PROVE  TypeOK'
  BY <1>5, FinishRunTyped DEF Fail
<1>6. CASE Leave(t)
  BY <1>6, FreeTyped, SendEndedTyped DEF Leave, TypeOK, goalVars, countVars
<1> QED
  BY <1>1, <1>2, <1>3, <1>4, <1>5, <1>6 DEF Advance

LEMMA TimerTyped ==
  ASSUME TypeOK, Timer
  PROVE  TypeOK'
<1>1. ASSUME NEW g \in GoalId, GoalTimer(g)
      PROVE  TypeOK'
  <2>1. timers' \in [GoalId -> Nat]
    BY <1>1 DEF GoalTimer, TypeOK
  <2>2. goal' \in GoalRow
    <3>1. SetStatus(goal, StatusBefore(goal)) \in GoalRow /\ goal \in GoalRow
      BY SetStatusRow, StatusBeforeRange DEF TypeOK
    <3> QED
      BY <1>1, <3>1 DEF GoalTimer
  <2>3. turns' \in [Slot -> TurnRow]
    BY <1>1, StartsTyped DEF GoalTimer, TypeOK
  <2>4. sends' \in 0 .. MaxSends
    BY <1>1, BoundsAssumption DEF GoalTimer, Counted, TypeOK
  <2> QED
    BY <1>1, <2>1, <2>2, <2>3, <2>4 DEF GoalTimer, TypeOK, wakeVars
<1>2. CASE FollowUp
  <2>1. turns' \in [Slot -> TurnRow]
    BY <1>2, DeliverTyped DEF FollowUp
  <2> QED
    BY <1>2, <2>1, CountedTyped DEF FollowUp, TypeOK, goalVars, wakeVars
<1>3. ASSUME NEW w \in Wake, FireWake(w)
      PROVE  TypeOK'
  <2>1. turns' \in [Slot -> TurnRow]
    BY <1>3, StartsTyped DEF FireWake
  <2> QED
    BY <1>3, <2>1 DEF FireWake, TypeOK, goalVars, countVars
<1> QED
  BY <1>1, <1>2, <1>3 DEF Timer

LEMMA AuditTyped ==
  ASSUME TypeOK, NEW a \in audits, CompleteGoal(a) \/ AuditFails(a)
  PROVE  TypeOK'
<1>1. CASE CompleteGoal(a)
  <2>1. SetStatus(goal, "complete") \in GoalRow /\ SetStatus(goal, "complete").id = goal.id
    BY SetStatusRow DEF TypeOK, GoalStatus
  <2>2. goal' \in GoalRow /\ announced' \in [GoalId -> Nat]
    BY <1>1, <2>1, NewRows DEF CompleteGoal, AnnounceAndClear, TypeOK
  <2> QED
    BY <1>1, <2>2 DEF CompleteGoal, TypeOK, wakeVars, countVars
<1>2. CASE AuditFails(a)
  BY <1>2 DEF AuditFails, TypeOK, goalVars, wakeVars, countVars
<1> QED
  BY <1>1, <1>2

LEMMA StopEndsTyped ==
  ASSUME TypeOK, StopEnds
  PROVE  TypeOK'
  BY PausedRow DEF StopEnds, TypeOK, wakeVars, countVars

LEMMA ResetTyped ==
  ASSUME TypeOK, Reset
  PROVE  TypeOK'
<1>1. turns' \in [Slot -> TurnRow]
  <2>1. [turns[active] EXCEPT !.phase = "detached"] \in TurnRow
    BY DEF Reset, TypeOK, TurnRow
  <2>2. turns' = [turns EXCEPT ![active] = [turns[active] EXCEPT !.phase = "detached"]]
    BY DEF Reset, TypeOK
  <2> QED
    BY <2>1, <2>2 DEF TypeOK
<1>2. goal' \in GoalRow
  BY PausedRow DEF Reset, TypeOK
<1>3. restarts' \in 0 .. MaxRestarts
  BY BoundsAssumption DEF Reset, TypeOK
<1> QED
  BY <1>1, <1>2, <1>3 DEF Reset, TypeOK, wakeVars

LEMMA RestartTyped ==
  ASSUME TypeOK, NEW quit \in BOOLEAN, Restart(quit)
  PROVE  TypeOK'
<1>1. goal' \in GoalRow
  BY PausedRow DEF Restart, TypeOK
<1>2. turns' \in [Slot -> TurnRow]
  BY NewRows DEF Restart
<1> QED
  BY <1>1, <1>2, BoundsAssumption DEF Restart, TypeOK

LEMMA TypeStep ==
  ASSUME TypeOK, [Next]_vars
  PROVE  TypeOK'
<1>1. CASE UNCHANGED vars
  BY <1>1 DEF TypeOK, vars, goalVars, wakeVars, turnVars, countVars
<1>2. CASE Next
  BY <1>2, UserTyped, AgentTyped, AdvanceTyped, TimerTyped, AuditTyped, StopEndsTyped,
     ResetTyped, RestartTyped DEF Next
<1> QED
  BY <1>1, <1>2

\* Type correctness: rows, turns, timers and histories of the thread stay well
\* formed; in particular no abort ends that has not begun
\* (agentRuntimeRunLifecycleController.ts abort).
THEOREM ThreadTypeCorrect == Spec => []TypeOK
  BY TypeInit, TypeStep, PTL DEF Spec

(***************************************************************************)
(* The map of active runs.                                                 *)
(***************************************************************************)

LEMMA StartsKeepsRuns ==
  ASSUME TypeOK, NEW t \in Slot, NEW w, Starts(t, w), ActiveIsInFlight, active' = active
  PROVE  ActiveIsInFlight'
<1>1. turns[t].phase = "free"
  BY DEF Starts, InFlight
<1>2. active # t
  BY <1>1, SlotAssumption DEF ActiveIsInFlight
<1> QED
  BY <1>2 DEF Starts, TypeOK, ActiveIsInFlight

LEMMA DeliverKeepsRuns ==
  ASSUME TypeOK, Deliver, ActiveIsInFlight, active' = active
  PROVE  ActiveIsInFlight'
<1>1. ASSUME active # 0, NEW taken \in BOOLEAN,
             turns' = [turns EXCEPT ![active].queued = @ \/ taken]
      PROVE  ActiveIsInFlight'
  <2>1. active \in Slot /\ turns[active] \in TurnRow
    BY <1>1 DEF TypeOK
  <2>2. turns'[active].phase = turns[active].phase
    BY <1>1, <2>1 DEF TypeOK, TurnRow
  <2> QED
    BY <1>1, <2>2 DEF ActiveIsInFlight
<1> QED
  BY <1>1, StartsKeepsRuns DEF Deliver

LEMMA RunsStep ==
  ASSUME TypeOK, [Next]_vars, ActiveIsInFlight
  PROVE  ActiveIsInFlight'
<1>1. CASE UNCHANGED <<turns, active>>
  BY <1>1 DEF ActiveIsInFlight
<1>2. CASE Deliver /\ active' = active
  BY <1>2, DeliverKeepsRuns
<1>3. ASSUME NEW t \in Slot, NEW w, Starts(t, w), active' = active
      PROVE  ActiveIsInFlight'
  BY <1>3, StartsKeepsRuns
<1>4. CASE active' = 0
  BY <1>4 DEF ActiveIsInFlight
<1>5. CASE Stop
  <2>1. CASE active # 0
    <3>1. active \in Slot /\ turns[active] \in TurnRow
      BY <2>1 DEF TypeOK
    <3>2. turns' = [turns EXCEPT ![active].stopped = TRUE] /\ active' = active
      BY <1>5, <2>1 DEF Stop
    <3>3. turns'[active].phase = turns[active].phase
      BY <3>1, <3>2 DEF TypeOK, TurnRow
    <3> QED
      BY <3>2, <3>3 DEF ActiveIsInFlight
  <2>2. CASE active = 0
    BY <1>5, <2>2 DEF Stop, ActiveIsInFlight
  <2> QED
    BY <2>1, <2>2
<1>6. ASSUME NEW t \in Slot, Begin(t)
      PROVE  ActiveIsInFlight'
  <2>1. turns'[t].phase = "running" /\ active' = t
    BY <1>6 DEF Begin, TypeOK, TurnRow
  <2> QED
    BY <2>1 DEF ActiveIsInFlight
<1>7. ASSUME NEW t \in Slot, NEW s, StartEnds(t, s)
      PROVE  ActiveIsInFlight'
  <2>1. active # t
    BY <1>7, SlotAssumption DEF StartEnds, ActiveIsInFlight
  <2>2. \A x \in Slot \ {t} : turns'[x] = turns[x]
    BY <1>7 DEF StartEnds, Free, TypeOK
  <2> QED
    BY <1>7, <2>1, <2>2 DEF StartEnds, ActiveIsInFlight, TypeOK
<1>8. ASSUME NEW t \in Slot, NEW o, Settle(t, o)
      PROVE  ActiveIsInFlight'
  <2>1. turns'[t].phase = "settling"
    BY <1>8 DEF Settle, TypeOK, TurnRow
  <2>2. \A x \in Slot \ {t} : turns'[x] = turns[x]
    BY <1>8 DEF Settle, TypeOK
  <2> QED
    BY <1>8, <2>1, <2>2 DEF Settle, ActiveIsInFlight, TypeOK
<1>9. CASE User
  BY <1>1, <1>2, <1>5, <1>9
     DEF User, Send, GoalSend, ResumeGoal, PauseGoal, ClearGoal, EditBudget, turnVars
<1>10. ASSUME NEW t \in Slot, Agent(t)
       PROVE  ActiveIsInFlight'
  BY <1>1, <1>10
     DEF Agent, CreateGoal, BlockGoal, AuditGoal, ScheduleWake, DropWake, turnVars
<1>11. ASSUME NEW t \in Slot, Advance(t)
       PROVE  ActiveIsInFlight'
  BY <1>4, <1>6, <1>7, <1>8, <1>11 DEF Advance, Settled, Fail, Leave, FinishRun
<1>12. CASE Timer
  BY <1>1, <1>2, <1>3, <1>12 DEF Timer, GoalTimer, FollowUp, FireWake
<1>13. ASSUME NEW a \in audits, CompleteGoal(a) \/ AuditFails(a)
       PROVE  ActiveIsInFlight'
  BY <1>1, <1>13 DEF CompleteGoal, AuditFails
<1>14. CASE StopEnds \/ Reset \/ \E quit \in BOOLEAN : Restart(quit)
  BY <1>4, <1>14 DEF StopEnds, Reset, Restart
<1>15. CASE UNCHANGED vars
  BY <1>1, <1>15 DEF vars, turnVars
<1> QED
  BY <1>9, <1>10, <1>11, <1>12, <1>13, <1>14, <1>15 DEF Next

\* The map of active runs never keeps a run that is over, though ends, stops and
\* resets all delete its entry without a look at whose it is
\* (runtimeSendAfterRun.ts clearActiveRun, agentRuntimeRunLifecycleController.ts).
THEOREM ActiveRunsAreInFlight == Spec => []ActiveIsInFlight
<1>1. Init => ActiveIsInFlight
  BY DEF Init, ActiveIsInFlight
<1> QED
  BY <1>1, RunsStep, ThreadTypeCorrect, PTL DEF Spec

(***************************************************************************)
(* Goals: what the turns, the history and the row know of ids given out.   *)
(***************************************************************************)

Known ==
    /\ goal.id <= lastGoal
    /\ \A t \in Slot : turns[t].goal <= lastGoal
    /\ \A g \in GoalId : g > lastGoal => ran[g] = 0 /\ announced[g] = 0

GoalInv == Known /\ UsageIsOfOwnTurns /\ AnnouncedOnce

\* A turn that starts, or a message that joins one, works for no new goal.
LEMMA StartsKnown ==
  ASSUME TypeOK, NEW t \in Slot, NEW w, Starts(t, w)
  PROVE  \A x \in Slot : turns'[x].goal \in {0, turns[x].goal}
  BY DEF Starts, TypeOK, FreeTurn

LEMMA DeliverKnown ==
  ASSUME TypeOK, Deliver
  PROVE  \A x \in Slot : turns'[x].goal \in {0, turns[x].goal}
<1>1. ASSUME active # 0, NEW taken \in BOOLEAN,
             turns' = [turns EXCEPT ![active].queued = @ \/ taken]
      PROVE  \A x \in Slot : turns'[x].goal \in {0, turns[x].goal}
  BY <1>1 DEF TypeOK, TurnRow
<1> QED
  BY <1>1, StartsKnown DEF Deliver

LEMMA FreeKnown ==
  ASSUME TypeOK, NEW t \in Slot, Free(t)
  PROVE  \A x \in Slot : turns'[x].goal \in {0, turns[x].goal}
  BY DEF Free, TypeOK, FreeTurn

\* No turn of the next state works for a goal that this one does not know.
TurnsKnown == \A x \in Slot : turns'[x].goal \in {0, turns[x].goal, goal.id}

LEMMA IdsAreNat ==
  ASSUME TypeOK
  PROVE  goal.id \in Nat /\ lastGoal \in Nat /\ \A x \in Slot : turns[x].goal \in Nat
<1>1. GoalId \union {0} \subseteq Nat
  BY DEF GoalId
<1>2. goal.id \in GoalId \union {0} /\ lastGoal \in Nat
  BY DEF TypeOK, GoalRow
<1>3. \A x \in Slot : turns[x].goal \in GoalId \union {0}
  BY DEF TypeOK, TurnRow
<1> QED
  BY <1>1, <1>2, <1>3

\* A step that keeps the goal's id and usage, or clears the goal.
LEMMA QuietKeepsGoalInv ==
  ASSUME TypeOK, TypeOK', GoalInv, TurnsKnown, UNCHANGED <<lastGoal, ran, announced>>,
         goal' = NoGoal \/ (goal'.id = goal.id /\ goal'.used = goal.used)
  PROVE  GoalInv'
<1>1. goal.id \in Nat /\ lastGoal \in Nat /\ \A x \in Slot : turns[x].goal \in Nat
  BY IdsAreNat
<1>2. goal'.id = 0 \/ (goal'.id = goal.id /\ goal'.used = goal.used)
  BY DEF NoGoal
<1>3. Known'
  BY <1>1, <1>2 DEF GoalInv, Known, TurnsKnown
<1>4. UsageIsOfOwnTurns'
  BY <1>2 DEF GoalInv, UsageIsOfOwnTurns
<1>5. AnnouncedOnce'
  BY <1>2 DEF GoalInv, AnnouncedOnce, GoalId
<1> QED
  BY <1>3, <1>4, <1>5 DEF GoalInv

LEMMA NewGoalKeepsGoalInv ==
  ASSUME TypeOK, TypeOK', GoalInv, TurnsKnown, UNCHANGED <<ran, announced>>,
         lastGoal < MaxGoals, lastGoal' = lastGoal + 1,
         NEW b \in Budgets, goal' = NewGoal(lastGoal + 1, b)
  PROVE  GoalInv'
<1>1. goal.id \in Nat /\ lastGoal \in Nat /\ \A x \in Slot : turns[x].goal \in Nat
  BY IdsAreNat
<1>2. lastGoal + 1 \in GoalId
  BY <1>1, BoundsAssumption DEF GoalId
<1>3. goal'.id = lastGoal + 1 /\ goal'.used = 0
  BY <1>2, NewRows
<1>4. ran[lastGoal + 1] = 0 /\ announced[lastGoal + 1] = 0
  BY <1>1, <1>2 DEF GoalInv, Known
<1>5. Known'
  BY <1>1, <1>3 DEF GoalInv, Known, TurnsKnown, GoalId
<1>6. UsageIsOfOwnTurns'
  BY <1>3, <1>4 DEF UsageIsOfOwnTurns
<1>7. AnnouncedOnce'
  BY <1>3, <1>4 DEF GoalInv, AnnouncedOnce
<1> QED
  BY <1>5, <1>6, <1>7 DEF GoalInv

LEMMA AnnouncedKeepsGoalInv ==
  ASSUME TypeOK, TypeOK', GoalInv, TurnsKnown, UNCHANGED <<lastGoal, ran>>,
         goal.id \in GoalId, goal' = NoGoal,
         announced' = [announced EXCEPT ![goal.id] = @ + 1]
  PROVE  GoalInv'
<1>1. goal.id \in Nat /\ lastGoal \in Nat /\ \A x \in Slot : turns[x].goal \in Nat
  BY IdsAreNat
<1>2. goal'.id = 0
  BY DEF NoGoal
<1>3. announced[goal.id] = 0
  BY DEF GoalInv, AnnouncedOnce, TypeOK
<1>4. /\ announced'[goal.id] = 1
      /\ \A g \in GoalId \ {goal.id} : announced'[g] = announced[g]
  BY <1>3 DEF TypeOK
<1>5. Known'
  BY <1>1, <1>2, <1>4 DEF GoalInv, Known, TurnsKnown, GoalId
<1>6. UsageIsOfOwnTurns'
  BY <1>2 DEF UsageIsOfOwnTurns
<1>7. AnnouncedOnce'
  BY <1>2, <1>4 DEF GoalInv, AnnouncedOnce, GoalId
<1> QED
  BY <1>5, <1>6, <1>7 DEF GoalInv

\* The run that ended was that of the thread's goal, and is charged to it, or it
\* was not, and is charged to nobody.
LEMMA FinishRunKeepsGoalInv ==
  ASSUME TypeOK, TypeOK', GoalInv, NEW t \in Slot, NEW o, FinishRun(t, o)
  PROVE  GoalInv'
<1> DEFINE id == turns[t].goal
<1>1. /\ goal.id \in GoalId \union {0} /\ lastGoal \in Nat
      /\ goal.id \in Nat /\ \A x \in Slot : turns[x].goal \in Nat
      /\ id \in GoalId \union {0} /\ id <= lastGoal
      /\ goal.used \in Nat
  <2>1. goal.id \in GoalId \union {0} /\ goal.used \in Nat /\ lastGoal \in Nat
    BY DEF TypeOK, GoalRow
  <2>2. \A x \in Slot : turns[x].goal \in GoalId \union {0}
    BY DEF TypeOK, TurnRow
  <2>3. GoalId \union {0} \subseteq Nat
    BY BoundsAssumption DEF GoalId
  <2>4. id <= lastGoal
    BY DEF GoalInv, Known
  <2>5. QED
    BY <2>1, <2>2, <2>3, <2>4
<1>2. lastGoal' = lastGoal
  BY DEF FinishRun
<1>3. \A x \in Slot : turns'[x].goal <= lastGoal
  BY <1>1, FreeKnown DEF FinishRun, GoalInv, Known
<1>4. /\ \A g \in GoalId \ {id} : ran'[g] = ran[g]
      /\ id # 0 => ran'[id] = ran[id] + 1
  BY <1>1, FinishedRun DEF TypeOK
<1>5. \/ goal' = goal /\ announced' = announced /\ (goal.id = 0 \/ id # goal.id)
      \/ /\ goal'.id = goal.id
         /\ goal'.used = goal.used + (IF goal.id = id THEN 1 ELSE 0)
         /\ announced' = announced
      \/ /\ goal.id \in GoalId
         /\ goal'.id = 0
         /\ announced' = [announced EXCEPT ![goal.id] = @ + 1]
  BY FinishedRun DEF NoGoal
<1> HIDE DEF id
<1>6. announced' = announced
      \/ /\ goal.id \in GoalId /\ goal'.id = 0
         /\ announced'[goal.id] = 1
         /\ \A g \in GoalId \ {goal.id} : announced'[g] = announced[g]
  BY <1>5 DEF GoalInv, AnnouncedOnce, TypeOK
<1>7. Known'
  <2>1. goal'.id <= lastGoal
    BY <1>1, <1>5 DEF GoalInv, Known
  <2>2. \A g \in GoalId : g > lastGoal => ran'[g] = 0 /\ announced'[g] = 0
    BY <1>1, <1>4, <1>6 DEF GoalInv, Known, GoalId
  <2> QED
    BY <1>2, <1>3, <2>1, <2>2 DEF Known
<1>8. UsageIsOfOwnTurns'
  BY <1>1, <1>4, <1>5 DEF GoalInv, UsageIsOfOwnTurns
<1>9. AnnouncedOnce'
  BY <1>5, <1>6 DEF GoalInv, AnnouncedOnce, GoalId
<1> QED
  BY <1>7, <1>8, <1>9 DEF GoalInv

LEMMA GoalStep ==
  ASSUME TypeOK, [Next]_vars, GoalInv
  PROVE  GoalInv'
<1>0. TypeOK'
  BY TypeStep
<1>1. ASSUME TurnsKnown, UNCHANGED <<lastGoal, ran, announced>>,
             goal' = NoGoal \/ (goal'.id = goal.id /\ goal'.used = goal.used)
      PROVE  GoalInv'
  BY <1>0, <1>1, QuietKeepsGoalInv
<1>2. UNCHANGED turns => TurnsKnown
  BY DEF TurnsKnown
<1>3. Deliver => TurnsKnown
  BY DeliverKnown DEF TurnsKnown
<1>4. \A t \in Slot : Free(t) => TurnsKnown
  BY FreeKnown DEF TurnsKnown
<1>5. \A t \in Slot : \A w : Starts(t, w) => TurnsKnown
  BY StartsKnown DEF TurnsKnown
<1>6. goal \in GoalRow
  BY DEF TypeOK
<1>7. \A s \in GoalStatus : SetStatus(goal, s).id = goal.id /\ SetStatus(goal, s).used = goal.used
  BY <1>6, SetStatusRow
<1>8. PausedIfActive(goal).id = goal.id /\ PausedIfActive(goal).used = goal.used
  BY <1>6, PausedRow
<1>9. CASE User
  <2>1. CASE Send
    BY <1>1, <1>3, <2>1 DEF Send, goalVars
  <2>2. CASE ResumeGoal \/ PauseGoal \/ ClearGoal
    BY <1>1, <1>2, <1>7, <2>2 DEF ResumeGoal, PauseGoal, ClearGoal, turnVars, GoalStatus
  <2>3. CASE Stop
    <3>1. TurnsKnown
      BY <2>3 DEF Stop, TypeOK, TurnRow, TurnsKnown
    <3> QED
      BY <1>1, <1>8, <2>3, <3>1 DEF Stop
  <2>4. ASSUME NEW b \in Budgets, GoalSend(b)
        PROVE  GoalInv'
    <3>1. TurnsKnown
      BY <1>3, <2>4 DEF GoalSend
    <3>2. CASE lastGoal < MaxGoals /\ goal' = NewGoal(lastGoal + 1, b) /\ lastGoal' = lastGoal + 1
      BY <1>0, <2>4, <3>1, <3>2, NewGoalKeepsGoalInv DEF GoalSend
    <3>3. CASE /\ goal' = [SetStatus(goal, "active") EXCEPT !.budget = IF b = 0 THEN @ ELSE b]
               /\ lastGoal' = lastGoal
      <4>1. SetStatus(goal, "active") \in GoalRow
        BY <1>6, SetStatusRow DEF GoalStatus
      <4>2. goal'.id = goal.id /\ goal'.used = goal.used
        BY <1>7, <3>3, <4>1 DEF GoalRow, GoalStatus
      <4> QED
        BY <1>1, <2>4, <3>1, <3>3, <4>2 DEF GoalSend
    <3> QED
      BY <2>4, <3>2, <3>3 DEF GoalSend
  <2>5. ASSUME NEW b \in Budgets, EditBudget(b)
        PROVE  GoalInv'
    <3>1. goal'.id = goal.id /\ goal'.used = goal.used
      BY <1>6, <2>5 DEF EditBudget, GoalRow
    <3> QED
      BY <1>1, <1>2, <2>5, <3>1 DEF EditBudget, turnVars
  <2> QED
    BY <1>9, <2>1, <2>2, <2>3, <2>4, <2>5 DEF User
<1>10. ASSUME NEW t \in Slot, Agent(t)
       PROVE  GoalInv'
  <2>1. ASSUME NEW b \in Budgets, CreateGoal(t, b)
        PROVE  GoalInv'
    BY <1>0, <1>2, <2>1, NewGoalKeepsGoalInv DEF CreateGoal, turnVars
  <2>2. CASE BlockGoal(t)
    BY <1>1, <1>2, <1>7, <2>2 DEF BlockGoal, turnVars, GoalStatus
  <2>3. CASE UNCHANGED goalVars /\ UNCHANGED turns
    BY <1>1, <1>2, <2>3 DEF goalVars
  <2> QED
    BY <1>10, <2>1, <2>2, <2>3 DEF Agent, AuditGoal, ScheduleWake, DropWake, turnVars
<1>11. ASSUME NEW t \in Slot, Advance(t)
       PROVE  GoalInv'
  <2>1. CASE Begin(t)
    <3>1. TurnsKnown
      BY <2>1 DEF Begin, TypeOK, TurnRow, TurnsKnown
    <3> QED
      BY <1>1, <2>1, <3>1 DEF Begin, goalVars
  <2>2. ASSUME NEW o, Settle(t, o)
        PROVE  GoalInv'
    <3>1. TurnsKnown
      BY <2>2 DEF Settle, TypeOK, TurnRow, TurnsKnown
    <3> QED
      BY <1>1, <2>2, <3>1 DEF Settle, goalVars
  <2>3. CASE Free(t) /\ UNCHANGED goalVars
    BY <1>1, <1>4, <2>3 DEF goalVars
  <2>4. ASSUME NEW o, FinishRun(t, o)
        PROVE  GoalInv'
    BY <1>0, <2>4, FinishRunKeepsGoalInv
  <2> QED
    BY <1>11, <2>1, <2>2, <2>3, <2>4 DEF Advance, StartEnds, Settled, Fail, Leave
<1>12. CASE Timer
  <2>1. ASSUME NEW g \in GoalId, GoalTimer(g)
        PROVE  GoalInv'
    <3>1. TurnsKnown
      BY <1>2, <1>5, <2>1 DEF GoalTimer
    <3>2. goal'.id = goal.id /\ goal'.used = goal.used
      BY <1>6, <1>7, <2>1, StatusBeforeRange DEF GoalTimer
    <3> QED
      BY <1>1, <2>1, <3>1, <3>2 DEF GoalTimer
  <2>2. CASE FollowUp
    BY <1>1, <1>3, <2>2 DEF FollowUp, goalVars
  <2>3. ASSUME NEW w \in Wake, FireWake(w)
        PROVE  GoalInv'
    BY <1>1, <1>5, <2>3 DEF FireWake, goalVars
  <2> QED
    BY <1>12, <2>1, <2>2, <2>3 DEF Timer
<1>13. ASSUME NEW a \in audits, CompleteGoal(a) \/ AuditFails(a)
       PROVE  GoalInv'
  <2>1. CASE CompleteGoal(a) /\ goal.id = a[2] /\ active = 0
    <3>1. SetStatus(goal, "complete").status = "complete"
      BY <1>6, SetStatusRow DEF GoalStatus
    <3>2. /\ SetStatus(goal, "complete").id = goal.id
          /\ goal.id \in GoalId
      BY <1>7, <2>1 DEF GoalStatus, TypeOK
    <3>3. goal' = NoGoal /\ announced' = [announced EXCEPT ![goal.id] = @ + 1]
      BY <2>1, <3>1, <3>2 DEF CompleteGoal, AnnounceAndClear
    <3> QED
      BY <1>0, <1>2, <2>1, <3>2, <3>3, AnnouncedKeepsGoalInv DEF CompleteGoal
  <2>2. CASE CompleteGoal(a) /\ ~(goal.id = a[2] /\ active = 0)
    BY <1>1, <1>2, <1>7, <2>2 DEF CompleteGoal, GoalStatus
  <2>3. CASE AuditFails(a)
    BY <1>1, <1>2, <2>3 DEF AuditFails, goalVars
  <2> QED
    BY <1>13, <2>1, <2>2, <2>3
<1>14. CASE StopEnds
  BY <1>1, <1>2, <1>8, <1>14 DEF StopEnds
<1>15. CASE Reset
  <2>1. TurnsKnown
    BY <1>15 DEF Reset, TypeOK, TurnRow, TurnsKnown
  <2> QED
    BY <1>1, <1>8, <1>15, <2>1 DEF Reset
<1>16. ASSUME NEW quit \in BOOLEAN, Restart(quit)
       PROVE  GoalInv'
  <2>1. TurnsKnown
    BY <1>16 DEF Restart, FreeTurn, TurnsKnown
  <2> QED
    BY <1>1, <1>8, <1>16, <2>1 DEF Restart
<1>17. CASE UNCHANGED vars
  BY <1>1, <1>2, <1>17 DEF vars, goalVars, turnVars
<1> QED
  BY <1>9, <1>10, <1>11, <1>12, <1>13, <1>14, <1>15, <1>16, <1>17 DEF Next

LEMMA GoalInvHolds == Spec => []GoalInv
<1>1. Init => GoalInv
  BY BoundsAssumption DEF Init, GoalInv, Known, UsageIsOfOwnTurns, AnnouncedOnce, NoGoal,
     FreeTurn, GoalId
<1> QED
  BY <1>1, GoalStep, ThreadTypeCorrect, PTL DEF Spec

\* A goal is charged with the runs that worked for it and with no others,
\* whatever the user made of it while a run was on
\* (threadGoalRepository.ts accountThreadGoalUsage).
THEOREM UsageIsOwn == Spec => []UsageIsOfOwnTurns
<1>1. GoalInv => UsageIsOfOwnTurns
  BY DEF GoalInv
<1> QED
  BY <1>1, GoalInvHolds, PTL

\* A goal gets one completion message at most and is gone once it has it
\* (agentRuntimeGoalContinuationController.ts finalizeCompletedThreadGoal).
THEOREM GoalsAreAnnouncedOnce == Spec => []AnnouncedOnce
<1>1. GoalInv => AnnouncedOnce
  BY DEF GoalInv
<1> QED
  BY <1>1, GoalInvHolds, PTL

(***************************************************************************)
(* Who sets a goal to work again.                                          *)
(***************************************************************************)

\* The step that OnlyUserReactivates is about.
Reactivates == goal'.id = goal.id /\ goal.status # "active" /\ goal'.status = "active"

LEMMA ReactivateStep ==
  ASSUME TypeOK, [Next]_vars, Reactivates
  PROVE  ResumeGoal \/ \E b \in Budgets : GoalSend(b)
<1>1. goal \in GoalRow /\ lastGoal \in Nat
  BY BoundsAssumption DEF TypeOK
<1>2. goal' # goal
  BY DEF Reactivates
<1>3. goal' # NoGoal
  BY DEF Reactivates, NoGoal
<1>4. \A s \in GoalStatus \ {"active"} : goal' # SetStatus(goal, s)
  BY <1>1, SetStatusRow DEF Reactivates
<1>5. goal' # PausedIfActive(goal)
  BY <1>1, PausedRow DEF Reactivates
<1>6. ~UNCHANGED goalVars
  BY <1>2 DEF goalVars
<1>7. ASSUME User
      PROVE  ResumeGoal \/ \E b \in Budgets : GoalSend(b)
  <2>1. ~Send /\ ~PauseGoal /\ ~ClearGoal /\ ~Stop
    BY <1>2, <1>3, <1>4, <1>5, <1>6 DEF Send, PauseGoal, ClearGoal, Stop, GoalStatus
  <2>2. \A b \in Budgets : ~EditBudget(b)
    BY <1>1 DEF EditBudget, GoalRow, Reactivates
  <2> QED
    BY <1>7, <2>1, <2>2 DEF User
<1>8. ASSUME NEW t \in Slot, Agent(t)
      PROVE  FALSE
  <2>1. \A b \in Budgets : ~CreateGoal(t, b)
    <3>1. SUFFICES ASSUME NEW b \in Budgets, CreateGoal(t, b)
                   PROVE  FALSE
      OBVIOUS
    <3>2. lastGoal + 1 \in GoalId
      BY <1>1, <3>1, BoundsAssumption DEF CreateGoal, GoalId
    <3> QED
      BY <1>1, <3>1, <3>2, NewRows DEF CreateGoal, Reactivates
  <2>2. ~BlockGoal(t)
    BY <1>4 DEF BlockGoal, GoalStatus
  <2> QED
    BY <1>6, <1>8, <2>1, <2>2 DEF Agent, AuditGoal, ScheduleWake, DropWake
<1>9. ASSUME NEW t \in Slot, Advance(t)
      PROVE  FALSE
  <2>1. \A o : ~FinishRun(t, o)
    BY <1>2, <1>3, FinishedRun DEF Reactivates
  <2> QED
    BY <1>6, <1>9, <2>1 DEF Advance, Begin, StartEnds, Settle, Settled, Fail, Leave
<1>10. ~Timer
  <2>1. \A g \in GoalId : ~GoalTimer(g)
    BY <1>2 DEF GoalTimer, Reactivates
  <2> QED
    BY <1>6, <2>1 DEF Timer, FollowUp, FireWake
<1>11. \A a \in audits : ~CompleteGoal(a) /\ ~AuditFails(a)
  BY <1>2, <1>3, <1>4, <1>6 DEF CompleteGoal, AuditFails, AnnounceAndClear, GoalStatus
<1>12. ~StopEnds /\ ~Reset /\ \A quit \in BOOLEAN : ~Restart(quit)
  BY <1>2, <1>5 DEF StopEnds, Reset, Restart
<1> QED
  BY <1>6, <1>7, <1>8, <1>9, <1>10, <1>11, <1>12 DEF Next, vars

\* Only the user sets a goal to work again: whatever ends late, a run, a stop, a
\* validation or a timer, leaves a goal that is not active as inactive as it is
\* (threadGoalRepository.ts, agentRuntimeGoalContinuationController.ts).
THEOREM ReactivatedByUser == Spec => OnlyUserReactivates
<1>1. ASSUME TypeOK, [Next]_vars
      PROVE  [Reactivates => ResumeGoal \/ \E b \in Budgets : GoalSend(b)]_vars
  BY <1>1, ReactivateStep
<1>2. Spec => [][Reactivates => ResumeGoal \/ \E b \in Budgets : GoalSend(b)]_vars
  BY <1>1, ThreadTypeCorrect, PTL DEF Spec
<1> QED
  BY <1>2 DEF OnlyUserReactivates, Reactivates

(***************************************************************************)
(* Wakes.                                                                  *)
(***************************************************************************)

\* What is so of a wake: one that a turn delivers has been scheduled and has no
\* timer, one with a timer has not prompted the thread since the process started.
WakeInv ==
    /\ WakesCarried
    /\ OnePendingWake
    /\ \A w \in Wake : \A t \in Slot : Delivering(t, w) => w \notin armed /\ wakes[w] # "none"
    /\ \A w \in Wake : /\ w \in armed => prompts[w] = 0
                       /\ wakes[w] = "none" => prompts[w] = 0
                       /\ prompts[w] <= 1

\* A step that changes neither the wakes nor which turns deliver them.
SameDeliveries == \A w \in Wake : \A t \in Slot : Delivering(t, w)' <=> Delivering(t, w)

LEMMA QuietKeepsWakes ==
  ASSUME TypeOK, WakeInv, UNCHANGED wakeVars, SameDeliveries
  PROVE  WakeInv'
  BY DEF WakeInv, WakesCarried, OnePendingWake, SameDeliveries, wakeVars

\* The send of turn t ended: if it delivered a wake, that wake is settled.
LEMMA EndKeepsWakes ==
  ASSUME TypeOK, WakeInv, NEW t \in Slot, NEW s \in {"failed", "delivered"},
         Free(t), InFlight(t), SendEnded(t, s), UNCHANGED <<armed, prompts>>
  PROVE  WakeInv'
<1>1. /\ \A w \in Wake : ~Delivering(t, w)'
      /\ \A w \in Wake : \A x \in Slot \ {t} : Delivering(x, w)' <=> Delivering(x, w)
  BY DEF Free, Delivering, FreeTurn, TypeOK
<1>2. \A w \in Wake : wakes'[w] = IF turns[t].wake = w /\ wakes[w] = "pending" THEN s ELSE wakes[w]
  BY DEF SendEnded, Mark, TypeOK
<1>3. \A w \in Wake : turns[t].wake = w <=> Delivering(t, w)
  BY DEF InFlight, Delivering
<1>4. \A w \in Wake : /\ wakes'[w] = "pending" <=> wakes[w] = "pending" /\ ~Delivering(t, w)
                      /\ wakes'[w] = "none" <=> wakes[w] = "none"
  BY <1>2, <1>3
<1>5. WakesCarried'
  BY <1>1, <1>4 DEF WakeInv, WakesCarried
<1>6. OnePendingWake'
  BY <1>4, WakeAssumption DEF WakeInv, OnePendingWake
<1> QED
  BY <1>1, <1>4, <1>5, <1>6 DEF WakeInv

LEMMA StartsDelivering ==
  ASSUME TypeOK, NEW t \in Slot, NEW v, Starts(t, v)
  PROVE  /\ \A w \in Wake : Delivering(t, w)' <=> v = w
         /\ \A w \in Wake : ~Delivering(t, w)
         /\ \A w \in Wake : \A x \in Slot \ {t} : Delivering(x, w)' <=> Delivering(x, w)
  BY DEF Starts, InFlight, Delivering, FreeTurn, TypeOK

LEMMA DeliverSame ==
  ASSUME TypeOK, Deliver
  PROVE  SameDeliveries
<1>1. ASSUME active # 0, NEW taken \in BOOLEAN,
             turns' = [turns EXCEPT ![active].queued = @ \/ taken]
      PROVE  SameDeliveries
  BY <1>1 DEF SameDeliveries, Delivering, TypeOK, TurnRow
<1>2. ASSUME NEW t \in Slot, Starts(t, NoWake)
      PROVE  SameDeliveries
  BY <1>2, StartsDelivering, WakeAssumption DEF SameDeliveries
<1> QED
  BY <1>1, <1>2 DEF Deliver

LEMMA FireKeepsWakes ==
  ASSUME TypeOK, WakeInv, NEW w \in Wake, FireWake(w)
  PROVE  WakeInv'
<1>1. PICK t \in Slot : Starts(t, w)
  BY DEF FireWake
<1>2. /\ wakes' = wakes /\ armed' = armed \ {w} /\ wakes[w] = "pending" /\ w \in armed
      /\ prompts' = [prompts EXCEPT ![w] = @ + 1]
  BY DEF FireWake
<1>3. WakesCarried'
  BY <1>1, <1>2, StartsDelivering DEF WakeInv, WakesCarried
<1>4. OnePendingWake'
  BY <1>2 DEF WakeInv, OnePendingWake
<1>5. \A v \in Wake : \A x \in Slot : Delivering(x, v)' => v \notin armed' /\ wakes'[v] # "none"
  BY <1>1, <1>2, StartsDelivering DEF WakeInv
<1>6. \A v \in Wake : prompts'[v] = IF v = w THEN 1 ELSE prompts[v]
  BY <1>2 DEF WakeInv, TypeOK
<1> QED
  BY <1>2, <1>3, <1>4, <1>5, <1>6 DEF WakeInv

LEMMA ScheduleKeepsWakes ==
  ASSUME TypeOK, WakeInv, NEW t \in Slot, NEW w \in Wake, ScheduleWake(t, w)
  PROVE  WakeInv'
<1>1. SameDeliveries
  BY DEF ScheduleWake, turnVars, SameDeliveries, Delivering
<1>2. /\ wakes[w] = "none" /\ prompts' = prompts
      /\ armed' = (armed \ Superseded(w)) \union {w}
      /\ \A v \in Wake : wakes'[v] = IF v = w THEN "pending"
                                     ELSE IF v \in Superseded(w) THEN "superseded"
                                     ELSE wakes[v]
  BY DEF ScheduleWake
<1>3. w \notin Superseded(w)
  BY <1>2 DEF Superseded
<1>4. w \notin armed /\ \A x \in Slot : ~Delivering(x, w)
  BY <1>2 DEF WakeInv, WakesCarried
<1>5. WakesCarried'
  BY <1>1, <1>2, <1>3 DEF WakeInv, WakesCarried, SameDeliveries
<1>6. OnePendingWake'
  <2>1. CASE w \in Keyed
    <3>1. \A v \in Keyed : wakes'[v] = "pending" => v = w
      BY <1>2, <2>1, WakeAssumption DEF Superseded
    <3> QED
      BY <3>1 DEF OnePendingWake
  <2>2. CASE w \notin Keyed
    BY <1>2, <2>2, WakeAssumption DEF WakeInv, OnePendingWake
  <2> QED
    BY <2>1, <2>2
<1>7. \A v \in Wake : \A x \in Slot : Delivering(x, v)' => v \notin armed' /\ wakes'[v] # "none"
  BY <1>1, <1>2, <1>4 DEF WakeInv, SameDeliveries
<1> QED
  BY <1>2, <1>5, <1>6, <1>7 DEF WakeInv

LEMMA DropKeepsWakes ==
  ASSUME TypeOK, WakeInv, NEW t \in Slot, NEW w \in Wake,
         NEW s \in {"cancelled", "resolved"}, DropWake(t, w, s)
  PROVE  WakeInv'
<1>1. SameDeliveries
  BY DEF DropWake, turnVars, SameDeliveries, Delivering
<1>2. /\ prompts' = prompts /\ armed' = armed \ {w}
      /\ \A v \in Wake : wakes'[v] = IF v = w /\ wakes[w] = "pending" THEN s ELSE wakes[v]
  BY DEF DropWake, Mark, TypeOK
<1>3. WakesCarried'
  BY <1>1, <1>2 DEF WakeInv, WakesCarried, SameDeliveries
<1>4. OnePendingWake'
  BY <1>2, WakeAssumption DEF WakeInv, OnePendingWake
<1>5. \A v \in Wake : \A x \in Slot : Delivering(x, v)' => v \notin armed' /\ wakes'[v] # "none"
  BY <1>1, <1>2 DEF WakeInv, SameDeliveries
<1> QED
  BY <1>2, <1>3, <1>4, <1>5 DEF WakeInv

LEMMA RestartKeepsWakes ==
  ASSUME TypeOK, WakeInv, NEW quit, Restart(quit)
  PROVE  WakeInv'
<1>1. \A w \in Wake : \A t \in Slot : ~Delivering(t, w)'
  BY DEF Restart, Delivering, FreeTurn
<1>2. /\ wakes' = wakes /\ armed' = {w \in Wake : wakes[w] = "pending"}
      /\ \A w \in Wake : prompts'[w] = 0
  BY DEF Restart
<1> QED
  BY <1>1, <1>2 DEF WakeInv, WakesCarried, OnePendingWake

LEMMA WakeStep ==
  ASSUME TypeOK, ActiveIsInFlight, [Next]_vars, WakeInv
  PROVE  WakeInv'
<1>1. ASSUME UNCHANGED wakeVars, SameDeliveries
      PROVE  WakeInv'
  BY <1>1, QuietKeepsWakes
<1>2. UNCHANGED turns => SameDeliveries
  BY DEF SameDeliveries, Delivering
<1>3. Deliver => SameDeliveries
  BY DeliverSame
<1>4. CASE User
  <2>1. CASE Stop
    <3>1. SameDeliveries
      BY <2>1 DEF Stop, SameDeliveries, Delivering, TypeOK, TurnRow
    <3> QED
      BY <1>1, <2>1, <3>1 DEF Stop
  <2> QED
    BY <1>1, <1>2, <1>3, <1>4, <2>1
       DEF User, Send, GoalSend, ResumeGoal, PauseGoal, ClearGoal, EditBudget, turnVars
<1>5. ASSUME NEW t \in Slot, Agent(t)
      PROVE  WakeInv'
  <2>1. CASE UNCHANGED wakeVars /\ UNCHANGED turns
    BY <1>1, <1>2, <2>1
  <2> QED
    BY <1>5, <2>1, ScheduleKeepsWakes, DropKeepsWakes
       DEF Agent, CreateGoal, BlockGoal, AuditGoal, turnVars
<1>6. ASSUME NEW t \in Slot, Advance(t)
      PROVE  WakeInv'
  <2>1. CASE Begin(t)
    <3>1. SameDeliveries
      BY <2>1 DEF Begin, SameDeliveries, Delivering, TypeOK, TurnRow
    <3> QED
      BY <1>1, <2>1, <3>1 DEF Begin
  <2>2. ASSUME NEW o, Settle(t, o)
        PROVE  WakeInv'
    <3>1. SameDeliveries
      BY <2>2 DEF Settle, Running, SameDeliveries, Delivering, TypeOK, TurnRow
    <3> QED
      BY <1>1, <2>2, <3>1 DEF Settle
  <2>3. ASSUME NEW s \in {"failed", "delivered"},
               Free(t), InFlight(t), SendEnded(t, s), UNCHANGED <<armed, prompts>>
        PROVE  WakeInv'
    BY <2>3, EndKeepsWakes
  <2>4. ASSUME NEW o, FinishRun(t, o), InFlight(t)
        PROVE  WakeInv'
    BY <2>3, <2>4 DEF FinishRun
  <2>5. ASSUME NEW s \in {"failed", "delivered"}, StartEnds(t, s)
        PROVE  WakeInv'
    BY <2>3, <2>5 DEF StartEnds, InFlight
  <2>6. CASE Leave(t)
    BY <2>3, <2>6 DEF Leave, InFlight
  <2>7. CASE Settled(t) \/ \E o : Fail(t, o)
    BY <2>4, <2>7 DEF Settled, Fail, InFlight
  <2> QED
    BY <1>6, <2>1, <2>2, <2>5, <2>6, <2>7 DEF Advance
<1>7. CASE Timer
  <2>1. ASSUME NEW g \in GoalId, GoalTimer(g)
        PROVE  WakeInv'
    <3>1. \A t \in Slot : Starts(t, NoWake) => SameDeliveries
      BY StartsDelivering, WakeAssumption DEF SameDeliveries
    <3> QED
      BY <1>1, <1>2, <2>1, <3>1 DEF GoalTimer
  <2> QED
    BY <1>1, <1>3, <1>7, <2>1, FireKeepsWakes DEF Timer, FollowUp
<1>8. ASSUME NEW a \in audits, CompleteGoal(a) \/ AuditFails(a)
      PROVE  WakeInv'
  BY <1>1, <1>2, <1>8 DEF CompleteGoal, AuditFails
<1>9. CASE StopEnds
  BY <1>1, <1>2, <1>9 DEF StopEnds
<1>10. CASE Reset
  <2>1. SameDeliveries
    <3>1. active \in Slot /\ turns[active] \in TurnRow /\ turns[active].phase # "free"
      BY <1>10 DEF Reset, TypeOK, ActiveIsInFlight
    <3>2. turns' = [turns EXCEPT ![active].phase = "detached"]
      BY <1>10 DEF Reset
    <3> QED
      BY <3>1, <3>2 DEF SameDeliveries, Delivering, TypeOK, TurnRow
  <2> QED
    BY <1>1, <1>10, <2>1 DEF Reset
<1>11. ASSUME NEW quit \in BOOLEAN, Restart(quit)
       PROVE  WakeInv'
  BY <1>11, RestartKeepsWakes
<1>12. CASE UNCHANGED vars
  BY <1>1, <1>2, <1>12 DEF vars, turnVars
<1> QED
  BY <1>4, <1>5, <1>6, <1>7, <1>8, <1>9, <1>10, <1>11, <1>12 DEF Next

LEMMA WakeInvHolds == Spec => []WakeInv
<1>1. Init => WakeInv
  BY WakeAssumption DEF Init, WakeInv, WakesCarried, OnePendingWake, Delivering, FreeTurn
<1> QED
  BY <1>1, WakeStep, ThreadTypeCorrect, ActiveRunsAreInFlight, PTL DEF Spec

\* A pending wake has a timer or a turn that delivers it, and a timer is only there
\* for a pending wake (agentRuntimeThreadWakeContinuationController.ts).
THEOREM WakesAreCarried == Spec => []WakesCarried
<1>1. WakeInv => WakesCarried
  BY DEF WakeInv
<1> QED
  BY <1>1, WakeInvHolds, PTL

\* An operation has at most one pending wake (threadWakeRepository.ts
\* scheduleThreadWakeContinuation).
THEOREM WakesAreSuperseded == Spec => []OnePendingWake
<1>1. WakeInv => OnePendingWake
  BY DEF WakeInv
<1> QED
  BY <1>1, WakeInvHolds, PTL

\* A wake prompts the thread once in each life of the process
\* (agentRuntimeThreadWakeContinuationController.ts deliverWakeIfIdle).
THEOREM WakesPromptOnce == Spec => []PromptedOncePerLife
<1>1. WakeInv => PromptedOncePerLife
  BY DEF WakeInv, PromptedOncePerLife
<1> QED
  BY <1>1, WakeInvHolds, PTL
====
