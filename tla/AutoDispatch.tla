------------------------------ MODULE AutoDispatch ------------------------------
(***************************************************************************)
(* The auto-dispatch loop of a project runtime, over OrchestrationRuns: a  *)
(* timer starts a tick; a tick starts the prepared runs there are slots    *)
(* for, resumes runs that a restart interrupted, prepares and starts fresh *)
(* ones, and sets the timer again (orchestrationAutoDispatchService.ts).   *)
(* The user may switch the loop off and on at any moment.                  *)
(*                                                                         *)
(* A tick awaits each start up to the point where the worker begins, so    *)
(* it shares the steps StartThrows, BeginWork and those of a preparation   *)
(* with the process it awaits.                                             *)
(***************************************************************************)
EXTENDS OrchestrationRuns

CONSTANTS
    Tick,              \* bound: concurrent ticks; tick k prepares as preparer k
    NoJob,             \* a tick that awaits no start
    AutoContinueLimit, \* RESTART_INTERRUPTED_AUTO_CONTINUE_LIMIT
    Toggle             \* whether the user switches auto-dispatch off and on

ASSUME DispatchAssumption ==
    /\ Tick \subseteq Preparer
    /\ NoJob \notin Job
    /\ AutoContinueLimit \in Nat
    /\ Toggle \in BOOLEAN

VARIABLES
    dispatch,  \* host.autoDispatch, its timer reduced to whether it is set
    tick,      \* tick[k]: a call of runAutoDispatchTick
    resumed    \* resumed[r]: how often r was auto-continued since its agent was
               \* last active; an observer, read by no action

dvars == <<dispatch, tick, resumed>>
allvars == <<vars, dvars>>

\* "opening" awaits the workflow; "prepared", "interrupted" and "fresh" start
\* the runs in queue one by one, each awaited in job; "preparing" awaits a
\* preparation, "scheduled" the schedules, "failing" the report of an error.
TickPc == {"idle", "opening", "prepared", "interrupted", "preparing", "fresh",
           "scheduled", "failing"}
TickRecord == [pc : TickPc, queue : SUBSET Run, job : Job \cup {NoJob}]
IdleTick == [pc |-> "idle", queue |-> {}, job |-> NoJob]

\* createAutoDispatchState and the first scheduleAutoDispatch of the host.
DispatchInit ==
    /\ Init
    /\ dispatch = [enabled |-> TRUE, inFlight |-> FALSE, timer |-> TRUE]
    /\ tick = [k \in Tick |-> IdleTick]
    /\ resumed = [r \in Run |-> 0]

\* scheduleAutoDispatch
Schedule(s) == IF s.enabled THEN [s EXCEPT !.timer = TRUE] ELSE s

-------------------------------------------------------------------------------
(* Candidates (orchestrationDispatch.ts).                                    *)

\* listAutoStartablePreparedOrchestrationRuns: the scheduler's rule, for the
\* tasks with a prepared run, and the oldest such run of each.
AutoStartable(d) ==
    LET waiting == TasksIn(d, "prepared")
        claims  == [claimed |-> Task \ waiting, running |-> TasksIn(d, "running")]
        chosen  == CHOOSE sel \in SUBSET Task : IsSelection(sel, Task, d.state, claims)
    IN  {r \in RunsIn(d, "prepared") :
           /\ TaskOf(d, r) \in chosen
           /\ \A q \in RunsIn(d, "prepared") : TaskOf(d, q) = TaskOf(d, r) => r <= q}

PreparedBefore(d, q, r) ==
    \/ TaskOf(d, q) # TaskOf(d, r) /\ DispatchesBefore(TaskOf(d, q), TaskOf(d, r))
    \/ TaskOf(d, q) = TaskOf(d, r) /\ q < r

InterruptedBefore(d, q, r) ==
    LET left  == TaskInfo[TaskOf(d, q)].priority
        right == TaskInfo[TaskOf(d, r)].priority
    IN  left < right \/ (left = right /\ q < r)

\* Fault: the slots that running tasks take are not subtracted.
ContinuableBeyondSlots(d, held) ==
    LET busy == Claims(d).claimed \cup Claims(d).running
        open == {r \in Run \ held : /\ IsRestartInterrupted(d, r)
                                    /\ TaskOf(d, r) \notin busy
                                    /\ d.run[r].proof.attempts < AutoContinueLimit}
    IN  {r \in open : Cardinality({q \in open : InterruptedBefore(d, q, r)})
                        < MaxConcurrentAgents}

\* listAutoContinuableRestartInterruptedRuns; held are the runs whose proof
\* mentions credentials or a budget (restartInterruptedNeedsManualReview).
AutoContinuable(d, held) ==
    LET busy == Claims(d).claimed \cup Claims(d).running
        open == {r \in Run \ held : /\ IsRestartInterrupted(d, r)
                                    /\ TaskOf(d, r) \notin busy
                                    /\ d.run[r].proof.attempts < AutoContinueLimit}
    IN  {r \in open : Cardinality({q \in open : InterruptedBefore(d, q, r)})
                        < FreeSlots(Claims(d).running)}

-------------------------------------------------------------------------------
(* A tick.                                                                   *)

GotoTick(k, pc) == tick' = [tick EXCEPT ![k] = [IdleTick EXCEPT !.pc = pc]]

\* A timer that goes off while a tick is in flight is forgotten.
TimerDropped ==
    /\ dispatch.timer
    /\ ~dispatch.enabled \/ dispatch.inFlight
    /\ dispatch' = [dispatch EXCEPT !.timer = FALSE]
    /\ UNCHANGED <<vars, tick, resumed>>

TickBegins(k) ==
    /\ dispatch.timer
    /\ dispatch.enabled
    /\ ~dispatch.inFlight
    /\ tick[k].pc = "idle"
    /\ dispatch' = [dispatch EXCEPT !.timer = FALSE, !.inFlight = TRUE]
    /\ GotoTick(k, "opening")
    /\ UNCHANGED <<vars, resumed>>

\* Fault: the catch block does not set the timer again.
TickEndsForGood(k) ==
    /\ tick[k].pc \in {"scheduled", "failing"}
    /\ dispatch' = [dispatch EXCEPT
          !.inFlight = FALSE,
          !.timer = @ \/ (dispatch.enabled /\ tick[k].pc = "scheduled")]
    /\ GotoTick(k, "idle")
    /\ UNCHANGED <<vars, resumed>>

\* The end of the try or catch block, and the finally block, whoever is in flight.
TickEnds(k) ==
    /\ tick[k].pc \in {"scheduled", "failing"}
    /\ dispatch' = [Schedule(dispatch) EXCEPT !.inFlight = FALSE]
    /\ GotoTick(k, "idle")
    /\ UNCHANGED <<vars, resumed>>

\* WORKFLOW.md says auto_dispatch: false.
TickForbidden(k) ==
    /\ tick[k].pc = "opening"
    /\ dispatch' = [Schedule(dispatch) EXCEPT !.inFlight = FALSE]
    /\ GotoTick(k, "idle")
    /\ UNCHANGED <<vars, resumed>>

\* The workflow file cannot be read, or a scheduled run or flow throws.
TickThrows(k) ==
    /\ tick[k].pc \in {"opening", "scheduled"}
    /\ GotoTick(k, "failing")
    /\ UNCHANGED <<vars, dispatch, resumed>>

Bump(n) == IF n > AutoContinueLimit THEN n ELSE n + 1   \* bound of the observer

\* Starts r in job j: a status that cannot be started throws, and so does the
\* attempt to resume a run that is no longer interrupted.
StartInTick(k, phase, rest, j, r) ==
    LET resumes == phase = "interrupted"
        d == IF resumes THEN RecordAutoContinue(db, r) ELSE db
    IN  IF IsStartable(db, r) /\ (resumes => IsRestartInterrupted(db, r))
        THEN /\ IsFree(j)
             /\ db' = d
             /\ job' = [job EXCEPT ![j] =
                   [IdleJob EXCEPT !.pc = "loading", !.run = r, !.proof = d.run[r].proof]]
             /\ tick' = [tick EXCEPT ![k] = [pc |-> phase, queue |-> rest, job |-> j]]
             /\ resumed' = IF resumes THEN [resumed EXCEPT ![r] = Bump(@)] ELSE resumed
             /\ UNCHANGED <<prep, canceling, judging, dispatch>>
        ELSE GotoTick(k, "failing") /\ UNCHANGED <<vars, dispatch, resumed>>

\* One turn of the loop over the runs to start: the first in order, which is
\* passed over if it is to be resumed and its workspace or thread is gone.
StartNext(k, phase, queue) ==
    IF queue = {}
    THEN GotoTick(k, phase) /\ UNCHANGED <<vars, dispatch, resumed>>
    ELSE \E r \in queue :
           /\ \A q \in queue \ {r} : IF phase = "interrupted"
                                     THEN InterruptedBefore(db, r, q)
                                     ELSE PreparedBefore(db, r, q)
           /\ \/ \E j \in Job : StartInTick(k, phase, queue \ {r}, j, r)
              \/ /\ phase = "interrupted"
                 /\ tick' = [tick EXCEPT ![k] =
                       [pc |-> phase, queue |-> queue \ {r}, job |-> NoJob]]
                 /\ UNCHANGED <<vars, dispatch, resumed>>

\* The tick awaits nothing, or only its own turn.
Resumes(k, pc) == tick[k].pc = pc /\ tick[k].job = NoJob

TickOpens(k) ==
    /\ Resumes(k, "opening")
    /\ StartNext(k, "prepared", AutoStartable(db))

TickContinues(k) ==
    /\ tick[k].queue # {}
    /\ tick[k].job = NoJob
    /\ StartNext(k, tick[k].pc, tick[k].queue)

TickResumesInterrupted(k) ==
    /\ Resumes(k, "prepared")
    /\ tick[k].queue = {}
    /\ \E held \in SUBSET {r \in Run : IsRestartInterrupted(db, r)} :
         StartNext(k, "interrupted", AutoContinuable(db, held))

TickPrepares(k) ==
    /\ Resumes(k, "interrupted")
    /\ tick[k].queue = {}
    /\ PrepareList(k)
    /\ GotoTick(k, "preparing")
    /\ UNCHANGED <<dispatch, resumed>>

TickStartsFresh(k) ==
    /\ Resumes(k, "preparing")
    /\ prep[k].pc = "idle"
    /\ StartNext(k, "fresh", prep[k].made)

TickSchedules(k) ==
    /\ Resumes(k, "fresh")
    /\ tick[k].queue = {}
    /\ GotoTick(k, "scheduled")
    /\ UNCHANGED <<vars, dispatch, resumed>>

-------------------------------------------------------------------------------
(* Steps of OrchestrationRuns that a tick may be waiting for.                *)

Awaits(k, j) == tick[k].job = j

\* The start that a tick awaits returns or throws.
StartReturns(k, j) ==
    /\ Awaits(k, j)
    /\ BeginWork(j)
    /\ tick' = [tick EXCEPT ![k].job = NoJob]
    /\ UNCHANGED <<dispatch, resumed>>

StartFails(k, j) ==
    /\ Awaits(k, j)
    /\ StartThrows(j)
    /\ GotoTick(k, "failing")
    /\ UNCHANGED <<dispatch, resumed>>

PrepareFails(k) ==
    /\ tick[k].pc = "preparing"
    /\ PrepareThrows(k)
    /\ GotoTick(k, "failing")
    /\ UNCHANGED <<dispatch, resumed>>

AgentActive(j) ==
    /\ AgentStep(j)
    /\ resumed' = [resumed EXCEPT ![job[j].run] = 0]
    /\ UNCHANGED <<dispatch, tick>>

\* The steps no tick waits for.
FreeStep ==
    /\ \/ \E p \in Preparer : PrepareSelect(p) \/ \E r \in Run : PrepareRecord(p, r)
       \/ \E p \in Preparer : (\A k \in Tick : k = p => tick[k].pc # "preparing") /\ PrepareThrows(p)
       \/ \E j \in Job : \/ CheckBlocked(j)
                         \/ /\ \A k \in Tick : ~Awaits(k, j)
                            /\ StartThrows(j) \/ BeginWork(j)
                         \/ PassStep(j) \/ EndStep(j) \/ MonitorStep(j)
       \/ \E r \in Run : JudgmentEnds(r) \/ CancelWrites(r)
       \/ UserStep
    /\ UNCHANGED dvars

-------------------------------------------------------------------------------
(* setAutoDispatchEnabled, and a restart, after which the saved setting holds. *)

SwitchOff ==
    /\ Toggle
    /\ dispatch' = [enabled |-> FALSE, inFlight |-> FALSE, timer |-> FALSE]
    /\ UNCHANGED <<vars, tick, resumed>>

SwitchOn ==
    /\ Toggle
    /\ dispatch' = [dispatch EXCEPT !.enabled = TRUE, !.timer = TRUE]
    /\ UNCHANGED <<vars, tick, resumed>>

DispatchRestart ==
    /\ Restart
    /\ dispatch' = [dispatch EXCEPT !.inFlight = FALSE, !.timer = dispatch.enabled]
    /\ tick' = [k \in Tick |-> IdleTick]
    /\ UNCHANGED resumed

-------------------------------------------------------------------------------
TickStep(k) ==
    \/ TickEnds(k)
    \/ TickForbidden(k)
    \/ TickThrows(k)
    \/ TickOpens(k)
    \/ TickContinues(k)
    \/ TickResumesInterrupted(k)
    \/ TickPrepares(k)
    \/ TickStartsFresh(k)
    \/ TickSchedules(k)
    \/ PrepareFails(k)
    \/ \E j \in Job : StartReturns(k, j) \/ StartFails(k, j)

TimerStep == TimerDropped \/ \E k \in Tick : TickBegins(k)

DispatchNext ==
    \/ TimerStep
    \/ \E k \in Tick : TickStep(k)
    \/ \E j \in Job : AgentActive(j)
    \/ FreeStep
    \/ SwitchOff
    \/ SwitchOn
    \/ DispatchRestart

DispatchSpec == DispatchInit /\ [][DispatchNext]_allvars

\* Timers go off, and what a tick awaits returns or throws: the steps of workers
\* and of preparations, and those of the tick itself.
DispatchFairness ==
    /\ WF_allvars(TimerStep)
    /\ \A k \in Tick : WF_allvars(TickStep(k))
    /\ \A p \in Preparer : WF_allvars(PrepareStep(p) /\ UNCHANGED dvars)
    /\ \A j \in Job : /\ WF_allvars(CheckBlocked(j) /\ UNCHANGED dvars)
                      /\ WF_allvars(PassStep(j) /\ UNCHANGED dvars)
                      /\ WF_allvars(EndStep(j) /\ UNCHANGED dvars)
                      /\ WF_allvars(StallWrites(j) /\ UNCHANGED dvars)
                      /\ WF_allvars(BudgetWrites(j) /\ UNCHANGED dvars)

FairDispatch == DispatchSpec /\ DispatchFairness

-------------------------------------------------------------------------------
DispatchTypeOK ==
    /\ TypeOK
    /\ dispatch \in [enabled : BOOLEAN, inFlight : BOOLEAN, timer : BOOLEAN]
    /\ tick \in [Tick -> TickRecord]
    /\ resumed \in [Run -> 0..AutoContinueLimit + 1]

\* Starts that a tick decided on from a snapshot, and preparations it awaited,
\* never put more tasks to work than max_concurrent_agents.
RunningWithinCap == Cardinality(TasksIn(db, "running")) <= MaxConcurrentAgents

\* A task has at most one run that is prepared or running: neither a fresh
\* preparation nor the resumption of an interrupted run doubles its work.
OneOpenRunPerTask ==
    LET open == RunsIn(db, "prepared") \cup RunsIn(db, "running") IN
    \A q, r \in open : TaskOf(db, q) = TaskOf(db, r) => q = r

\* A run that takes the desktop down before its agent does anything is resumed
\* at most RESTART_INTERRUPTED_AUTO_CONTINUE_LIMIT times: the count of attempts
\* survives the start and the crash that follow it.
NoCrashLoop == \A r \in Run : resumed[r] <= AutoContinueLimit

\* The loop never dies: as long as it is switched on it comes to another tick,
\* after errors, dropped timers, switching off and on, and restarts.
KeepsPolling ==
    dispatch.enabled ~> (~dispatch.enabled \/ \E k \in Tick : tick[k].pc = "opening")
===============================================================================
