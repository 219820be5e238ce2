---- MODULE ThreadTurns ----
(***************************************************************************)
(* One chat thread of the agent runtime: the sends that become turns, the  *)
(* goal that turns work on, continue and account for, and the wakes that   *)
(* turns schedule for later.  Whoever wants a turn (the user, the goal     *)
(* continuation, a retry, a wake) looks at the map of active runs and then *)
(* starts; the map, the goal row and the wake rows change while others     *)
(* are waiting.                                                            *)
(*                                                                         *)
(* Persistent: goal, wakes.  In memory: turns, active, timers, followUps,  *)
(* stopping, audits, armed.  The rest are bounds and history.              *)
(***************************************************************************)
EXTENDS Naturals, FiniteSets

CONSTANTS
    Slot,             \* how many turns may be in flight at once: 1 .. n
    MaxSends,         \* bound: turns or queued messages that are not wakes
    MaxGoals,         \* bound: goals ever created
    Budgets,          \* token budgets, in turns; 0 is none
    NoProgressLimit,  \* GOAL_NO_PROGRESS_TURN_LIMIT
    InfraLimit,       \* GOAL_PROVIDER_INFRA_FAILURE_LIMIT
    MaxTimers,        \* bound: timers waiting for a goal the user resumes
    Wake,             \* the wakes that can be scheduled
    Keyed,            \* those of them that share one operation key
    NoWake,           \* what a turn delivers that no wake started
    MaxStops,         \* bound: stops by the user
    MaxRestarts       \* bound: runtime resets, quits and crashes

ASSUME SlotAssumption == Slot \subseteq Nat \ {0}
ASSUME BoundsAssumption ==
    /\ MaxSends \in Nat /\ MaxGoals \in Nat /\ MaxTimers \in Nat
    /\ MaxStops \in Nat /\ MaxRestarts \in Nat
    /\ NoProgressLimit \in Nat /\ InfraLimit \in Nat
    /\ Budgets \subseteq Nat
ASSUME WakeAssumption == Keyed \subseteq Wake /\ NoWake \notin Wake

GoalId == 1 .. MaxGoals
Outcome == {"none", "done", "idle", "retry", "continuation", "error", "provider", "aborted"}

VARIABLES
    goal,       \* the thread's row of thread_goals, id 0 when there is none
    turns,      \* the sends in flight
    active,     \* the thread's entry of activeRuns, 0 when there is none
    timers,     \* goal continuation timers by the goal they expect
    followUps,  \* retries and continuations of a run, waiting for their delay
    stopping,   \* aborts between their first await and their end
    audits,     \* completion validations under way: <<turn, goal>>
    wakes,      \* the status of each row of thread_wake_continuations
    armed,      \* the wakes that have a timer
    sends, stops, restarts,     \* what the bounds count
    lastGoal,                   \* the last goal id given out
    ran, announced, prompts     \* history: runs that ended per goal,
                                \* completion messages, prompts per wake
                                \* since the process started

goalVars == <<goal, timers, lastGoal, ran, announced>>
wakeVars == <<wakes, armed, prompts>>
turnVars == <<turns, active, followUps, stopping, audits>>
countVars == <<sends, stops, restarts>>
vars == <<goalVars, wakeVars, turnVars, countVars>>

GoalStatus == {"active", "paused", "blocked", "budget_limited", "provider_unavailable", "complete"}
WakeStatus == {"none", "pending", "delivered", "cancelled", "failed", "resolved", "superseded"}
GoalRow == [id : GoalId \union {0}, status : GoalStatus \union {"none"},
            budget : Budgets \union {0}, used : Nat, idle : Nat, infra : Nat]
TurnRow == [phase : {"free", "starting", "running", "settling", "detached"},
            wake : Wake \union {NoWake}, goal : GoalId \union {0},
            stopped : BOOLEAN, queued : BOOLEAN, outcome : Outcome]
NoGoal == [id |-> 0, status |-> "none", budget |-> 0, used |-> 0, idle |-> 0, infra |-> 0]
NewGoal(id, b) == [NoGoal EXCEPT !.id = id, !.status = "active", !.budget = b]
FreeTurn == [phase |-> "free", wake |-> NoWake, goal |-> 0,
             stopped |-> FALSE, queued |-> FALSE, outcome |-> "none"]

-----------------------------------------------------------------------------
(* The goal row *)

\* setThreadGoal: a goal that comes back to work forgets its failures.
SetStatus(g, s) ==
    IF g.status # "active" /\ s = "active"
    THEN [g EXCEPT !.status = s, !.idle = 0, !.infra = 0]
    ELSE [g EXCEPT !.status = s]

PausedIfActive(g) == IF g.status = "active" THEN SetStatus(g, "paused") ELSE g

OverBudget(g) == g.budget > 0 /\ g.used >= g.budget

\* Whether the provider, not the agent, is what made the run of outcome o stop.
InfraHit(o, stopped) == o = "continuation" \/ (o = "provider" /\ ~stopped)
FailedRun(o) == o \in {"error", "provider", "aborted"}

\* Fault: accountThreadGoalUsage without its check of the goal id.
ChargeAnyGoal(g, id, o, stopped) ==
    LET spent == [g EXCEPT !.used = @ + 1,
                           !.infra = @ + (IF InfraHit(o, stopped) THEN 1 ELSE 0),
                           !.idle = @ + (IF o = "idle" THEN 1 ELSE 0)]
    IN  IF OverBudget(spent) /\ g.status = "active"
        THEN [spent EXCEPT !.status = "budget_limited"]
        ELSE spent

\* accountThreadGoalUsage: what the run of goal id costs, if that goal is
\* still the thread's.
Charge(g, id, o, stopped) ==
    IF g.id # id THEN g
    ELSE LET spent == [g EXCEPT !.used = @ + 1,
                                !.infra = @ + (IF InfraHit(o, stopped) THEN 1 ELSE 0),
                                !.idle = @ + (IF o = "idle" THEN 1 ELSE 0)]
         IN  IF OverBudget(spent) /\ g.status = "active"
             THEN [spent EXCEPT !.status = "budget_limited"]
             ELSE spent

\* Fault: a failed run that is judged without regard to what the user made of its goal.
StatusAfterAnyGoal(g, o, stopped) ==
    IF stopped THEN "paused"
    ELSE IF ~FailedRun(o) THEN "active"
    ELSE IF o # "provider" THEN "paused"
    ELSE IF g.infra >= InfraLimit THEN "provider_unavailable"
    ELSE "active"

\* The status the end of the run leaves on the thread's goal.
StatusAfter(g, o, stopped) ==
    IF g.status # "active" THEN g.status
    ELSE IF stopped THEN "paused"
    ELSE IF ~FailedRun(o) THEN "active"
    ELSE IF o # "provider" THEN "paused"
    ELSE IF g.infra >= InfraLimit THEN "provider_unavailable"
    ELSE "active"

\* Fault: a spent budget is written as a status that the rows know and no handler leaves.
StatusBeforeUsage(g) ==
    IF OverBudget(g) THEN "usage_limited"
    ELSE IF g.infra >= InfraLimit THEN "provider_unavailable"
    ELSE IF g.idle >= NoProgressLimit THEN "paused"
    ELSE "active"

\* What an idle thread makes of an active goal before it continues it.
StatusBefore(g) ==
    IF OverBudget(g) THEN "budget_limited"
    ELSE IF g.infra >= InfraLimit THEN "provider_unavailable"
    ELSE IF g.idle >= NoProgressLimit THEN "paused"
    ELSE "active"

-----------------------------------------------------------------------------
(* Turns *)

InFlight(t) == turns[t].phase # "free"

\* A send that found no active run: it goes on to its preparation, and the
\* map of active runs does not show it yet.
Starts(t, w) ==
    /\ ~InFlight(t)
    /\ \A s \in Slot : s < t => InFlight(s)
    /\ turns' = [turns EXCEPT ![t] = [FreeTurn EXCEPT !.phase = "starting", !.wake = w]]

\* send: a message for a thread with an active run joins its queue, unless
\* the session refuses it.  It counts as queued even after it was delivered.
Deliver ==
    \/ /\ active # 0
       /\ \E taken \in BOOLEAN : turns' = [turns EXCEPT ![active].queued = @ \/ taken]
    \/ /\ active = 0
       /\ \E t \in Slot : Starts(t, NoWake)

Counted == sends < MaxSends /\ sends' = sends + 1

\* The user's message.
Send ==
    /\ Counted
    /\ Deliver
    /\ UNCHANGED <<goalVars, wakeVars, active, followUps, stopping, audits, stops, restarts>>

\* The user's message in goal mode: the goal is created, or set to work
\* again with the budget given, and then the message is sent.
GoalSend(b) ==
    /\ Counted
    /\ \/ /\ goal.id = 0
          /\ lastGoal < MaxGoals
          /\ goal' = NewGoal(lastGoal + 1, b)
          /\ lastGoal' = lastGoal + 1
       \/ /\ goal.id # 0
          /\ goal' = [SetStatus(goal, "active") EXCEPT !.budget = IF b = 0 THEN @ ELSE b]
          /\ UNCHANGED lastGoal
    /\ Deliver
    /\ UNCHANGED <<timers, ran, announced, wakeVars, active, followUps, stopping, audits,
                   stops, restarts>>

\* The prepared send starts its run; it works for the goal only if the goal
\* is active now.
Begin(t) ==
    /\ turns[t].phase = "starting"
    /\ turns' = [turns EXCEPT ![t].phase = "running",
                              ![t].goal = IF goal.status = "active" THEN goal.id ELSE 0]
    /\ active' = t
    /\ UNCHANGED <<goalVars, wakeVars, followUps, stopping, audits, countVars>>

\* A wake row is written only while it is pending.
Mark(w, s) == [wakes EXCEPT ![w] = IF @ = "pending" THEN s ELSE @]

\* Fault: a delivery that marks nothing when its turn ends.
SendUnmarked(t, s) == wakes' = wakes

\* The send of turn t returned (delivered) or threw (failed).
SendEnded(t, s) ==
    wakes' = IF turns[t].wake \in Wake THEN Mark(turns[t].wake, s) ELSE wakes

Free(t) ==
    /\ turns' = [turns EXCEPT ![t] = FreeTurn]
    /\ audits' = {<<IF a[1] = t THEN 0 ELSE a[1], a[2]>> : a \in audits}

\* The preparation throws, or refuses the message with an answer of its own.
StartEnds(t, s) ==
    /\ turns[t].phase = "starting"
    /\ Free(t)
    /\ SendEnded(t, s)
    /\ UNCHANGED <<goalVars, armed, prompts, active, followUps, stopping, countVars>>

-----------------------------------------------------------------------------
(* What the agent does in a running turn *)

Running(t) == turns[t].phase = "running"

CreateGoal(t, b) ==
    /\ Running(t)
    /\ goal.id = 0
    /\ lastGoal < MaxGoals
    /\ goal' = NewGoal(lastGoal + 1, b)
    /\ lastGoal' = lastGoal + 1
    /\ UNCHANGED <<timers, ran, announced, wakeVars, turnVars, countVars>>

BlockGoal(t) ==
    /\ Running(t)
    /\ goal.id # 0
    /\ goal' = SetStatus(goal, "blocked")
    /\ UNCHANGED <<timers, lastGoal, ran, announced, wakeVars, turnVars, countVars>>

\* update_goal "complete" reads the goal, then waits for its validation.
AuditGoal(t) ==
    /\ Running(t)
    /\ goal.id # 0
    /\ \A a \in audits : a[1] # t
    /\ audits' = audits \union {<<t, goal.id>>}
    /\ UNCHANGED <<goalVars, wakeVars, turns, active, followUps, stopping, countVars>>

\* Fault: finalizeCompletedThreadGoal that leaves the goal for its caller to clear.
AnnounceOnly(g) ==
    /\ announced' = IF g.status = "complete" THEN [announced EXCEPT ![g.id] = @ + 1] ELSE announced
    /\ goal' = g

\* finalizeCompletedThreadGoal, on the goal row g.
AnnounceAndClear(g) ==
    IF g.status = "complete"
    THEN /\ announced' = [announced EXCEPT ![g.id] = @ + 1]
         /\ goal' = NoGoal
    ELSE /\ goal' = g
         /\ UNCHANGED announced

\* The validation passes: the goal is complete if it is the one that was
\* read.  While a run is active its end announces the goal.
CompleteGoal(a) ==
    /\ audits' = audits \ {a}
    /\ \/ /\ goal.id # a[2]
          /\ UNCHANGED <<goal, announced>>
       \/ /\ goal.id = a[2]
          /\ IF active = 0
             THEN AnnounceAndClear(SetStatus(goal, "complete"))
             ELSE goal' = SetStatus(goal, "complete") /\ UNCHANGED announced
    /\ UNCHANGED <<timers, lastGoal, ran, wakeVars, turns, active, followUps, stopping, countVars>>

AuditFails(a) ==
    /\ audits' = audits \ {a}
    /\ UNCHANGED <<goalVars, wakeVars, turns, active, followUps, stopping, countVars>>

\* Fault: a wake that looks only for timers to clear, not for pending rows.
SupersededIfArmed(w) == IF w \in Keyed THEN Keyed \cap armed ELSE {}

\* thread_wake_schedule: a wake with an operation key supersedes the pending
\* wakes of that operation and clears their timers.
Superseded(w) == IF w \in Keyed THEN {v \in Keyed : wakes[v] = "pending"} ELSE {}

ScheduleWake(t, w) ==
    /\ Running(t)
    /\ wakes[w] = "none"
    /\ wakes' = [v \in Wake |-> IF v = w THEN "pending"
                                ELSE IF v \in Superseded(w) THEN "superseded"
                                ELSE wakes[v]]
    /\ armed' = (armed \ Superseded(w)) \union {w}
    /\ UNCHANGED <<goalVars, prompts, turnVars, countVars>>

\* thread_wake_cancel and thread_wake_resolve.
DropWake(t, w, s) ==
    /\ Running(t)
    /\ wakes[w] # "none"
    /\ wakes' = Mark(w, s)
    /\ armed' = armed \ {w}
    /\ UNCHANGED <<goalVars, prompts, turnVars, countVars>>

-----------------------------------------------------------------------------
(* The end of a turn *)

\* The end of the run and all that follows it in one go: the run's entry is
\* cleared, its follow-up armed, its goal charged and judged, and the next
\* turn of the goal scheduled.  A judgment of a goal that is not the run's
\* own throws, and the send with it.
FinishRun(t, o) ==
    LET id      == turns[t].goal
        stopped == turns[t].stopped
        charged == Charge(goal, id, o, stopped)
        judged  == SetStatus(charged, StatusAfter(charged, o, stopped))
        throws  == judged.status # charged.status /\ goal.id # id
        next    == /\ judged.status = "active"
                   /\ o \in {"done", "idle"}
                   /\ ~stopped
                   /\ ~turns[t].queued
    IN  /\ Free(t)
        /\ active' = 0
        /\ followUps' = followUps + (IF o \in {"retry", "continuation"} THEN 1 ELSE 0)
        /\ IF id = 0 \/ goal.id = 0 \/ throws
           THEN UNCHANGED <<goal, announced, timers>>
           ELSE /\ AnnounceAndClear(judged)
                /\ timers' = [timers EXCEPT ![goal.id] = @ + (IF next THEN 1 ELSE 0)]
        /\ ran' = IF id = 0 THEN ran ELSE [ran EXCEPT ![id] = @ + 1]
        /\ SendEnded(t, IF id # 0 /\ goal.id # 0 /\ throws THEN "failed" ELSE "delivered")
        /\ UNCHANGED <<lastGoal, armed, prompts, stopping, countVars>>

\* The handler of the prompt's end has chosen its outcome and awaits the
\* session file, the compaction or the plan before it writes it.
Settle(t, o) ==
    /\ Running(t)
    /\ ~turns[t].stopped
    /\ \A a \in audits : a[1] # t
    /\ turns' = [turns EXCEPT ![t].phase = "settling", ![t].outcome = o]
    /\ UNCHANGED <<goalVars, wakeVars, active, followUps, stopping, audits, countVars>>

Settled(t) ==
    /\ turns[t].phase = "settling"
    /\ FinishRun(t, turns[t].outcome)

\* The run fails, or unwinds because it was stopped.
Fail(t, o) ==
    /\ turns[t].phase \in {"running", "settling"}
    /\ turns[t].stopped <=> o = "aborted"
    /\ FinishRun(t, o)

\* A run the runtime let go of: its end still clears the thread's entry.
Leave(t) ==
    /\ turns[t].phase = "detached"
    /\ Free(t)
    /\ active' = 0
    /\ SendEnded(t, "delivered")
    /\ UNCHANGED <<goalVars, armed, prompts, followUps, stopping, countVars>>

-----------------------------------------------------------------------------
(* Timers *)

\* maybeContinueGoalIfIdle.
GoalTimer(g) ==
    /\ timers[g] > 0
    /\ timers' = [timers EXCEPT ![g] = @ - 1]
    /\ \/ /\ active # 0 \/ goal.id # g \/ goal.status # "active"
          /\ UNCHANGED <<goal, turns, sends>>
       \/ /\ active = 0 /\ goal.id = g /\ goal.status = "active"
          /\ StatusBefore(goal) # "active"
          /\ goal' = SetStatus(goal, StatusBefore(goal))
          /\ UNCHANGED <<turns, sends>>
       \/ /\ active = 0 /\ goal.id = g /\ goal.status = "active"
          /\ StatusBefore(goal) = "active"
          /\ Counted
          /\ \E t \in Slot : Starts(t, NoWake)
          /\ UNCHANGED goal
    /\ UNCHANGED <<lastGoal, ran, announced, wakeVars, active, followUps, stopping, audits,
                   stops, restarts>>

FollowUp ==
    /\ followUps > 0
    /\ Counted
    /\ followUps' = followUps - 1
    /\ Deliver
    /\ UNCHANGED <<goalVars, wakeVars, active, stopping, audits, stops, restarts>>

\* Fault: a delivery that arms its retry before it knows whether it needs one.
FireWakeAndRetry(w) ==
    /\ w \in armed
    /\ wakes[w] = "pending"
    /\ active = 0
    /\ \E t \in Slot : Starts(t, w)
    /\ prompts' = [prompts EXCEPT ![w] = @ + 1]
    /\ UNCHANGED <<goalVars, wakes, armed, active, followUps, stopping, audits, countVars>>

\* deliverWakeIfIdle: a wake that finds an active run tries again two
\* seconds later, which changes nothing here; one that is no longer pending
\* is logged as dropped.
FireWake(w) ==
    /\ w \in armed
    /\ wakes[w] = "pending"
    /\ active = 0
    /\ armed' = armed \ {w}
    /\ \E t \in Slot : Starts(t, w)
    /\ prompts' = [prompts EXCEPT ![w] = @ + 1]
    /\ UNCHANGED <<goalVars, wakes, active, followUps, stopping, audits, countVars>>

-----------------------------------------------------------------------------
(* The user and the process *)

ResumeGoal ==
    /\ goal.id # 0
    /\ goal.status # "active"
    /\ timers[goal.id] < MaxTimers
    /\ goal' = SetStatus(goal, "active")
    /\ timers' = [timers EXCEPT ![goal.id] = @ + 1]
    /\ UNCHANGED <<lastGoal, ran, announced, wakeVars, turnVars, countVars>>

\* The window asks for a pause because it showed the goal as active.
PauseGoal ==
    /\ goal.id # 0
    /\ goal' = SetStatus(goal, "paused")
    /\ UNCHANGED <<timers, lastGoal, ran, announced, wakeVars, turnVars, countVars>>

EditBudget(b) ==
    /\ goal.id # 0
    /\ goal' = [goal EXCEPT !.budget = b]
    /\ UNCHANGED <<timers, lastGoal, ran, announced, wakeVars, turnVars, countVars>>

ClearGoal ==
    /\ goal.id # 0
    /\ goal' = NoGoal
    /\ UNCHANGED <<timers, lastGoal, ran, announced, wakeVars, turnVars, countVars>>

\* abort, up to its wait for the session of the active run, if there is one.
Stop ==
    /\ stops < MaxStops
    /\ stops' = stops + 1
    /\ \/ /\ active # 0
          /\ turns' = [turns EXCEPT ![active].stopped = TRUE]
          /\ stopping' = stopping + 1
          /\ UNCHANGED goal
       \/ /\ active = 0
          /\ goal' = PausedIfActive(goal)
          /\ UNCHANGED <<turns, stopping>>
    /\ UNCHANGED <<timers, lastGoal, ran, announced, wakeVars, active, followUps, audits,
                   sends, restarts>>

\* abort, from there on: whatever run is active by now loses its entry.
StopEnds ==
    /\ stopping > 0
    /\ stopping' = stopping - 1
    /\ active' = 0
    /\ goal' = PausedIfActive(goal)
    /\ UNCHANGED <<timers, lastGoal, ran, announced, wakeVars, turns, followUps, audits, countVars>>

\* Fault: interruptActiveRuns that leaves the entry to the end of the run.
ResetKeepsEntry ==
    /\ restarts < MaxRestarts
    /\ restarts' = restarts + 1
    /\ active # 0
    /\ turns' = [turns EXCEPT ![active].phase = "detached"]
    /\ goal' = PausedIfActive(goal)
    /\ UNCHANGED <<active, timers, lastGoal, ran, announced, wakeVars, followUps, stopping,
                   audits, sends, stops>>

\* interruptActiveRuns and resetSessions, in a process that goes on.
Reset ==
    /\ restarts < MaxRestarts
    /\ restarts' = restarts + 1
    /\ active # 0
    /\ turns' = [turns EXCEPT ![active].phase = "detached"]
    /\ active' = 0
    /\ goal' = PausedIfActive(goal)
    /\ UNCHANGED <<timers, lastGoal, ran, announced, wakeVars, followUps, stopping, audits,
                   sends, stops>>

\* Fault: a start that waits for new wakes instead of arming the pending ones.
RestartUnreconciled(quit) ==
    /\ restarts < MaxRestarts
    /\ restarts' = restarts + 1
    /\ goal' = IF quit /\ active # 0 THEN PausedIfActive(goal) ELSE goal
    /\ turns' = [t \in Slot |-> FreeTurn]
    /\ active' = 0
    /\ timers' = [g \in GoalId |-> 0]
    /\ followUps' = 0 /\ stopping' = 0 /\ audits' = {} /\ armed' = {}
    /\ prompts' = [w \in Wake |-> 0]
    /\ UNCHANGED <<lastGoal, ran, announced, wakes, sends, stops>>

\* The process ends, in order (quit) or not, and starts again: what was in
\* memory is gone, and the wakes that are pending get their timers back.
Restart(quit) ==
    /\ restarts < MaxRestarts
    /\ restarts' = restarts + 1
    /\ goal' = IF quit /\ active # 0 THEN PausedIfActive(goal) ELSE goal
    /\ turns' = [t \in Slot |-> FreeTurn]
    /\ active' = 0
    /\ timers' = [g \in GoalId |-> 0]
    /\ followUps' = 0
    /\ stopping' = 0
    /\ audits' = {}
    /\ armed' = {w \in Wake : wakes[w] = "pending"}
    /\ prompts' = [w \in Wake |-> 0]
    /\ UNCHANGED <<lastGoal, ran, announced, wakes, sends, stops>>

-----------------------------------------------------------------------------
Init ==
    /\ goal = NoGoal
    /\ turns = [t \in Slot |-> FreeTurn]
    /\ active = 0
    /\ timers = [g \in GoalId |-> 0]
    /\ followUps = 0 /\ stopping = 0
    /\ audits = {}
    /\ wakes = [w \in Wake |-> "none"]
    /\ armed = {}
    /\ sends = 0 /\ stops = 0 /\ restarts = 0
    /\ lastGoal = 0
    /\ ran = [g \in GoalId |-> 0]
    /\ announced = [g \in GoalId |-> 0]
    /\ prompts = [w \in Wake |-> 0]

User ==
    \/ Send \/ ResumeGoal \/ PauseGoal \/ ClearGoal \/ Stop
    \/ \E b \in Budgets : GoalSend(b) \/ EditBudget(b)

Agent(t) ==
    \/ \E b \in Budgets : CreateGoal(t, b)
    \/ BlockGoal(t) \/ AuditGoal(t)
    \/ \E w \in Wake : ScheduleWake(t, w)
    \/ \E w \in Wake, s \in {"cancelled", "resolved"} : DropWake(t, w, s)

\* A turn moves on towards its end.
Advance(t) ==
    \/ Begin(t)
    \/ \E s \in {"failed", "delivered"} : StartEnds(t, s)
    \/ \E o \in {"done", "idle", "retry", "continuation"} : Settle(t, o)
    \/ Settled(t)
    \/ \E o \in {"error", "provider", "aborted"} : Fail(t, o)
    \/ Leave(t)

Timer ==
    \/ \E g \in GoalId : GoalTimer(g)
    \/ FollowUp
    \/ \E w \in Wake : FireWake(w)

Next ==
    \/ User
    \/ \E t \in Slot : Agent(t) \/ Advance(t)
    \/ \E a \in audits : CompleteGoal(a) \/ AuditFails(a)
    \/ Timer
    \/ StopEnds
    \/ Reset
    \/ \E quit \in BOOLEAN : Restart(quit)

Spec == Init /\ [][Next]_vars

\* The watchdogs end every turn, and timers fire.
Fairness ==
    /\ \A t \in Slot : WF_vars(Advance(t))
    /\ WF_vars(StopEnds)
    /\ \A w \in Wake : WF_vars(FireWake(w))

FairSpec == Spec /\ Fairness

-----------------------------------------------------------------------------
(* Properties *)

\* Type correctness of the thread: its rows, its turns, its timers.
TypeOK ==
    /\ goal \in GoalRow
    /\ turns \in [Slot -> TurnRow]
    /\ active \in Slot \union {0}
    /\ timers \in [GoalId -> Nat]
    /\ followUps \in Nat /\ stopping \in Nat
    /\ audits \subseteq (Slot \union {0}) \X GoalId
    /\ wakes \in [Wake -> WakeStatus]
    /\ armed \subseteq Wake
    /\ sends \in 0 .. MaxSends /\ stops \in 0 .. MaxStops /\ restarts \in 0 .. MaxRestarts
    /\ lastGoal \in 0 .. MaxGoals
    /\ ran \in [GoalId -> Nat] /\ announced \in [GoalId -> Nat]
    /\ prompts \in [Wake -> Nat]

\* The map of active runs never keeps a run that is over, whatever the order
\* of ends, stops and resets: a thread with such an entry would queue every
\* message on a dead run and never continue its goal again
\* (runtimeSendAfterRun.ts clearActiveRun, agentRuntimeRunLifecycleController.ts).
ActiveIsInFlight == active # 0 => turns[active].phase \in {"running", "settling"}

\* A goal is charged with the runs that worked for it and with no others,
\* though the user may replace it while a run is on.  A run that a reset has
\* detached is not charged, and ran does not count it either
\* (threadGoalRepository.ts accountThreadGoalUsage).
UsageIsOfOwnTurns == goal.id # 0 => goal.used = ran[goal.id]

\* A goal gets one completion message at most, and is gone once it has it,
\* though its completion races the end of the run, a stop and a new goal
\* (agentRuntimeGoalContinuationController.ts finalizeCompletedThreadGoal).
AnnouncedOnce == \A g \in GoalId : announced[g] <= 1 /\ (announced[g] = 1 => goal.id # g)

Delivering(t, w) == turns[t].phase # "free" /\ turns[t].wake = w

\* No wake is lost and none fires for nothing: a pending wake has a timer or
\* a turn that is delivering it, and a timer is only there for a pending wake
\* (agentRuntimeThreadWakeContinuationController.ts).
WakesCarried ==
    \A w \in Wake :
        /\ w \in armed => wakes[w] = "pending"
        /\ wakes[w] = "pending" => w \in armed \/ \E t \in Slot : Delivering(t, w)

\* An operation has at most one pending wake, that of its last schedule, even
\* while an older one is being delivered (threadWakeRepository.ts).
OnePendingWake ==
    \A v, w \in Keyed : wakes[v] = "pending" /\ wakes[w] = "pending" => v = w

\* The thread is prompted by a wake once in each life of the process: a wake
\* that the process died on is repeated, no other is.
PromptedOncePerLife == \A w \in Wake : prompts[w] <= 1

\* Only the user sets a goal to work again: no late accounting of a run, no
\* timer and no restart reactivates a goal that was paused, blocked, limited
\* or completed meanwhile.
OnlyUserReactivates ==
    [][goal'.id = goal.id /\ goal.status # "active" /\ goal'.status = "active"
       => ResumeGoal \/ \E b \in Budgets : GoalSend(b)]_vars

\* Every wake is delivered, dropped or found to have failed in the end, once
\* the thread is idle for long enough (the two seconds of
\* agentRuntimeThreadWakeContinuationController.ts ACTIVE_RUN_RETRY_MS).
WakeSettles == \A w \in Wake : wakes[w] = "pending" ~> wakes[w] # "pending"
====
