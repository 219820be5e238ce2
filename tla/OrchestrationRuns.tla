--------------------------- MODULE OrchestrationRuns ----------------------------
(***************************************************************************)
(* The life of Local Task runs in one project runtime: runs are prepared,  *)
(* started, driven by a worker through one or more passes, watched by a    *)
(* stall monitor and a runtime-budget monitor, canceled by the user, and   *)
(* interrupted when the desktop restarts (orchestrationRunner.ts,          *)
(* orchestrationDispatch.ts, registerOrchestrationIpc.ts).                 *)
(*                                                                         *)
(* Every asynchronous function is a process with a program counter; a step *)
(* is what it does between two awaits.  The database survives a restart,   *)
(* everything else does not.                                               *)
(***************************************************************************)
EXTENDS OrchestrationStore

CONSTANTS
    Job,           \* bound: concurrent calls of startPreparedOrchestrationRun
    Preparer,      \* bound: concurrent calls of prepareAndRecordNextOrchestrationRuns
    MaxPasses,     \* closePolicy.maxPasses
    StallMonitor,  \* whether stall_timeout_ms is positive
    Command,       \* which of the user's commands are given: see UserCommand
    UserState      \* the task states the user's editor offers

UserCommand == {"prepare", "start", "cancel", "update"}

ASSUME RunsAssumption ==
    /\ MaxPasses \in Nat \ {0}
    /\ StallMonitor \in BOOLEAN
    /\ Command \subseteq UserCommand
    /\ UserState \subseteq TaskState

VARIABLES
    db,         \* the project store
    job,        \* job[j]: a started run, from the start call to the worker's end
    prep,       \* prep[p]: a preparation in progress
    canceling,  \* the runs whose cancel command awaits the abort of their thread
    judging     \* judging[r]: the proof judgment in flight for r, if any

vars == <<db, job, prep, canceling, judging>>
volatile == <<job, prep, canceling, judging>>

-------------------------------------------------------------------------------
(* Workers.  "loading" and "importing" are the awaits of the start call;     *)
(* "sending" awaits runtime.send, "collecting" the proof after it,           *)
(* "recovering" the proof in the catch block, "overrun" the proof in         *)
(* finishRuntimeBudgetExceeded; "reviewing" and "closing" await              *)
(* onFinishedRun, the latter at the end of the catch block.                  *)
WorkerPc == {"idle", "loading", "importing", "sending", "collecting",
             "recovering", "overrun", "reviewing", "closing"}

\* A monitor is off, armed, between its timeout and its write, or past both.
Monitor == {"off", "armed", "aborting", "fired"}

JobRecord == [pc : WorkerPc, run : Run \cup {NoRun}, proof : Proof,
              pass : 1..MaxPasses, stall : Monitor, budget : Monitor]

IdleJob == [pc |-> "idle", run |-> NoRun, proof |-> FreshProof,
            pass |-> 1, stall |-> "off", budget |-> "off"]

\* The worker returned, and neither of its monitors has work left.
IsFree(j) == job[j].pc = "idle" /\ job[j].run = NoRun

Overdue(m) == m \in {"aborting", "fired"}    \* monitor.stalled, monitor.elapsed
Stalled(j) == Overdue(job[j].stall)
TaskOfJob(j) == TaskOf(db, job[j].run)

\* The finally block: timers are stopped, callbacks already running are not.
Stop(m) == IF m = "aborting" THEN m ELSE "off"
Stopped(w) ==
    IF "aborting" \in {w.stall, w.budget}
    THEN [IdleJob EXCEPT !.run = w.run, !.stall = Stop(w.stall), !.budget = Stop(w.budget)]
    ELSE IdleJob

\* A monitor's callback is done; it may outlive the worker.
Settled(w) == IF w.pc = "idle" THEN Stopped(w) ELSE w

Goto(j, pc) == job' = [job EXCEPT ![j].pc = pc]
Return(j) == job' = [job EXCEPT ![j] = Stopped(@)]

\* Where an exception caught by the worker leads: a stalled worker is silent.
Catch(j) == IF Stalled(j) THEN Return(j) ELSE Goto(j, "recovering")

\* onFinishedRun: one judgment per run at a time, for the latest run of a card;
\* "strict" is requireCurrentReview.
StartJudgment(d, r) ==
    judging' = [judging EXCEPT ![r] =
        CASE @ # "none" -> @
          [] ~(TaskOf(d, r) \in BoardTask /\ IsLatestRun(d, r)) -> "none"
          [] d.card[TaskOf(d, r)].review = r -> "strict"
          [] OTHER -> "loose"]

\* Preparers.  "listed": the tasks were read, the claims were not; "recording":
\* tasks were selected, and the workspaces of those in queue are being made.
PrepRecord == [pc : {"idle", "listed", "recording"}, seen : [Task -> TaskState],
               queue : SUBSET Task, made : SUBSET Run]

IdlePrep == [pc |-> "idle", seen |-> [t \in Task |-> "todo"], queue |-> {}, made |-> {}]

Init ==
    /\ db = EmptyDatabase
    /\ job = [j \in Job |-> IdleJob]
    /\ prep = [p \in Preparer |-> IdlePrep]
    /\ canceling = {}
    /\ judging = [r \in Run |-> "none"]

-------------------------------------------------------------------------------
(* Preparation: prepareAndRecordOrchestrationRunsByProject, one project.     *)

PrepareList(p) ==
    /\ prep[p].pc = "idle"
    /\ prep' = [prep EXCEPT ![p] = [IdlePrep EXCEPT !.pc = "listed", !.seen = db.state]]
    /\ UNCHANGED <<db, job, canceling, judging>>

\* The claims are fresh, the tasks are as they were listed.
PrepareSelect(p) ==
    /\ prep[p].pc = "listed"
    /\ \E sel \in SUBSET Task :
         /\ IsSelection(sel, Task, prep[p].seen, Claims(db))
         /\ prep' = [prep EXCEPT ![p] =
                IF sel = {} THEN IdlePrep
                ELSE [@ EXCEPT !.pc = "recording", !.queue = sel]]
    /\ UNCHANGED <<db, job, canceling, judging>>

\* The next task in dispatch order gets its run; nothing is read again.
PrepareRecord(p, r) ==
    /\ prep[p].pc = "recording"
    /\ r \in RunsIn(db, "none")
    /\ \A q \in RunsIn(db, "none") : r <= q
    /\ \E t \in prep[p].queue :
         LET rest == prep[p].queue \ {t}
             made == prep[p].made \cup {r}
         IN  /\ \A u \in rest : DispatchesBefore(t, u)
             /\ db' = InsertRun(db, r, t)
             /\ prep' = [prep EXCEPT ![p] =
                    IF rest = {} THEN [IdlePrep EXCEPT !.made = made]
                    ELSE [prep[p] EXCEPT !.queue = rest, !.made = made]]
    /\ UNCHANGED <<job, canceling, judging>>

\* The workflow file, a workspace, a hook or an import fails.
PrepareThrows(p) ==
    /\ prep[p].pc # "idle"
    /\ prep' = [prep EXCEPT ![p] = IdlePrep]
    /\ UNCHANGED <<db, job, canceling, judging>>

-------------------------------------------------------------------------------
(* Starting: startPreparedOrchestrationRun.                                  *)

\* The status is checked once, here; the proof of the row is remembered.
StartRun(j, r) ==
    /\ IsFree(j)
    /\ IsStartable(db, r)
    /\ job' = [job EXCEPT ![j] =
          [IdleJob EXCEPT !.pc = "loading", !.run = r, !.proof = db.run[r].proof]]
    /\ UNCHANGED <<db, prep, canceling, judging>>

CheckBlocked(j) ==
    /\ job[j].pc = "loading"
    /\ ~BlockedByDependencies(TaskOfJob(j), Task, db.state)
    /\ Goto(j, "importing")
    /\ UNCHANGED <<db, prep, canceling, judging>>

\* The task is blocked, or the workflow or the imports fail.
StartThrows(j) ==
    /\ job[j].pc \in {"loading", "importing"}
    /\ job' = [job EXCEPT ![j] = IdleJob]
    /\ UNCHANGED <<db, prep, canceling, judging>>

\* Fault: the start forgets the recovery record of an interrupted run.
BeginAfresh(j) ==
    /\ job[j].pc = "importing"
    /\ LET running == UpdateRun(db, job[j].run, "running", FreshProof)
       IN  db' = UpdateTask(running, TaskOfJob(j), "in_progress")
    /\ job' = [job EXCEPT ![j] = [@ EXCEPT !.pc = "sending", !.proof = FreshProof]]
    /\ UNCHANGED <<prep, canceling, judging>>

\* The row is written from the remembered proof, whatever its status is now,
\* and runAndRecordCompletion begins.
BeginWork(j) ==
    /\ job[j].pc = "importing"
    /\ LET running == UpdateRun(db, job[j].run, "running", job[j].proof)
            active  == UpdateTask(running, TaskOfJob(j), "in_progress")
       IN  db' = BeginCardRun(active, job[j].run)
    /\ job' = [job EXCEPT ![j] =
          [@ EXCEPT !.pc = "sending",
                    !.proof = FreshProof,
                    !.stall = IF StallMonitor THEN "armed" ELSE "off",
                    !.budget = IF TaskOfJob(j) \in BoardTask THEN "armed" ELSE "off"]]
    /\ UNCHANGED <<prep, canceling, judging>>

-------------------------------------------------------------------------------
(* The worker: runAndRecordCompletion.                                       *)

Progress(d, r) == UpdateRun(d, r, "running", FreshProof)   \* recordRunningProgress

\* Fault: activity after the stall monitor fired still counts.
ActivityAnyway(j) ==
    /\ job[j].pc = "sending"
    /\ db' = Progress(db, job[j].run)
    /\ UNCHANGED volatile

\* onActivity during a send: the transcript's progress replaces the proof.
Activity(j) ==
    /\ job[j].pc = "sending"
    /\ ~Stalled(j)
    /\ db' = Progress(db, job[j].run)
    /\ UNCHANGED volatile

\* runtime.send returns or throws; after the budget's abort both are the same.
SendEnds(j, threw) ==
    /\ job[j].pc = "sending"
    /\ CASE Stalled(j) -> Return(j)
         [] ~Stalled(j) /\ Overdue(job[j].budget) -> Goto(j, "overrun")
         [] ~Stalled(j) /\ ~Overdue(job[j].budget) ->
              Goto(j, IF threw THEN "recovering" ELSE "collecting")
    /\ UNCHANGED <<db, prep, canceling, judging>>

\* The write that ends a run, the task's new state, and onFinishedRun.
Finish(j, status, taskState, pc) ==
    /\ \E verdict \in Verdict :
         db' = UpdateTask(FinishRun(db, job[j].run, status, FreshProof, verdict),
                          TaskOfJob(j), taskState)
    /\ Goto(j, pc)
    /\ StartJudgment(db', job[j].run)
    /\ UNCHANGED <<prep, canceling>>

\* Faults: the passes are counted but not limited, or limited but not counted.
ContinueUnlimited(j) ==
    /\ job[j].pc = "collecting"
    /\ db' = UpdateTask(Progress(db, job[j].run), TaskOfJob(j), "in_progress")
    /\ job' = [job EXCEPT ![j].pc = "sending", ![j].pass = @ + 1]
    /\ UNCHANGED <<prep, canceling, judging>>

ContinueUncounted(j) ==
    /\ job[j].pc = "collecting"
    /\ job[j].pass <= MaxPasses
    /\ db' = UpdateTask(Progress(db, job[j].run), TaskOfJob(j), "in_progress")
    /\ job' = [job EXCEPT ![j].pc = "sending"]
    /\ UNCHANGED <<prep, canceling, judging>>

\* Proof is missing and passes are left: the run goes on.
ContinuePass(j) ==
    /\ job[j].pc = "collecting"
    /\ job[j].pass < MaxPasses
    /\ db' = UpdateTask(Progress(db, job[j].run), TaskOfJob(j), "in_progress")
    /\ job' = [job EXCEPT ![j].pc = "sending", ![j].pass = @ + 1]
    /\ UNCHANGED <<prep, canceling, judging>>

\* orchestrationTaskStateAfterRun; passes that run out exhaust the budget.
StatesAfter(status) ==
    CASE status = "canceled" -> {"canceled"}
      [] status = "failed" -> {"terminal_blocker", "needs_info", "budget_exhausted"}
      [] status = "completed" -> {"needs_review", "needs_info", "budget_exhausted"}

FinishPass(j, status, taskState) ==
    /\ job[j].pc = "collecting"
    /\ taskState \in StatesAfter(status)
    /\ Finish(j, status, taskState, "reviewing")

CollectThrows(j) ==
    /\ job[j].pc = "collecting"
    /\ Catch(j)
    /\ UNCHANGED <<db, prep, canceling, judging>>

\* Fault: the catch block settles the task and forgets the run.
RecoverTaskOnly(j, status, taskState) ==
    /\ job[j].pc = "recovering"
    /\ taskState \in StatesAfter(status)
    /\ db' = UpdateTask(db, TaskOfJob(j), taskState)
    /\ Goto(j, "closing")
    /\ UNCHANGED <<prep, canceling, judging>>

\* The catch block: a recorded task_complete makes the failure a completion.
Recover(j, status, taskState) ==
    /\ job[j].pc = "recovering"
    /\ \/ status = "completed" /\ taskState \in {"needs_review", "budget_exhausted"}
       \/ status = "failed" /\ taskState \in StatesAfter("failed")
    /\ Finish(j, status, taskState, "closing")

\* finishRuntimeBudgetExceeded
FinishOverrun(j) ==
    /\ job[j].pc = "overrun"
    /\ Finish(j, "completed", "budget_exhausted", "reviewing")

\* Its collection of the proof is awaited outside the inner catch.
OverrunThrows(j) ==
    /\ job[j].pc = "overrun"
    /\ Catch(j)
    /\ UNCHANGED <<db, prep, canceling, judging>>

\* onFinishedRun resolves with the judgment of the run, if there is one.
Reviewed(j) ==
    /\ job[j].pc \in {"reviewing", "closing"}
    /\ judging[job[j].run] = "none"
    /\ Return(j)
    /\ UNCHANGED <<db, prep, canceling, judging>>

\* onFinishedRun rejects; inside the try block the finished run is recovered.
ReviewThrows(j) ==
    /\ \/ job[j].pc = "reviewing" /\ Catch(j)
       \/ job[j].pc = "closing" /\ Return(j)
    /\ judging' = [judging EXCEPT ![job[j].run] = "none"]
    /\ UNCHANGED <<db, prep, canceling>>

-------------------------------------------------------------------------------
(* The monitors of a worker, and the judgment of its proof.                  *)

StallFires(j) ==
    /\ job[j].stall = "armed"
    /\ job' = [job EXCEPT ![j].stall = "aborting"]
    /\ UNCHANGED <<db, prep, canceling, judging>>

\* onStalled, after the abort of the thread and the collection of the proof.
StallWrites(j) ==
    /\ job[j].stall = "aborting"
    /\ \E verdict \in Verdict :
         db' = UpdateTask(FinishRun(db, job[j].run, "stalled", FreshProof, verdict),
                          TaskOfJob(j), "terminal_blocker")
    /\ job' = [job EXCEPT ![j] = Settled([@ EXCEPT !.stall = "fired"])]
    /\ StartJudgment(db', job[j].run)
    /\ UNCHANGED <<prep, canceling>>

BudgetElapses(j) ==
    /\ job[j].budget = "armed"
    /\ job' = [job EXCEPT ![j].budget = "aborting"]
    /\ UNCHANGED <<db, prep, canceling, judging>>

\* onElapsed, after the abort: a last snapshot of the progress.
BudgetWrites(j) ==
    /\ job[j].budget = "aborting"
    /\ db' = Progress(db, job[j].run)
    /\ job' = [job EXCEPT ![j] = Settled([@ EXCEPT !.budget = "fired"])]
    /\ UNCHANGED <<prep, canceling, judging>>

\* reviewFinishedProjectBoardRun: the judge's verdict, or the fallback's.
JudgmentEnds(r) ==
    /\ judging[r] # "none"
    /\ \E verdict \in Verdict :
         db' = IF judging[r] = "strict" /\ db.card[TaskOf(db, r)].review # r
               THEN db ELSE ReviewProof(db, r, verdict)
    /\ judging' = [judging EXCEPT ![r] = "none"]
    /\ UNCHANGED <<job, prep, canceling>>

-------------------------------------------------------------------------------
(* The user's commands (registerOrchestrationIpc.ts) and the restart.        *)

UserPrepare(p) == "prepare" \in Command /\ PrepareList(p)

UserStart(j, r) == "start" \in Command /\ StartRun(j, r)

\* orchestration:cancel-run: a run has a thread once it was started.
CancelRun(r) ==
    /\ "cancel" \in Command
    /\ db.run[r].status \notin {"none", "prepared"}
    /\ canceling' = canceling \cup {r}
    /\ UNCHANGED <<db, job, prep, judging>>

CancelWrites(r) ==
    /\ r \in canceling
    /\ \E verdict \in Verdict :
         db' = FinishRun(db, r, "canceled", db.run[r].proof, verdict)
    /\ canceling' = canceling \ {r}
    /\ UNCHANGED <<job, prep, judging>>

\* orchestration:update-task
UserUpdateTask(t, s) ==
    /\ "update" \in Command
    /\ db' = UpdateTask(db, t, s)
    /\ UNCHANGED volatile

\* The desktop stops at any moment; opening the store again stalls its runs.
Restart ==
    /\ db' = StallActiveRuns(db)
    /\ job' = [j \in Job |-> IdleJob]
    /\ prep' = [p \in Preparer |-> IdlePrep]
    /\ canceling' = {}
    /\ judging' = [r \in Run |-> "none"]

-------------------------------------------------------------------------------
PrepareStep(p) ==
    \/ PrepareSelect(p)
    \/ \E r \in Run : PrepareRecord(p, r)
    \/ PrepareThrows(p)

StartStep(j) == CheckBlocked(j) \/ StartThrows(j) \/ BeginWork(j)

\* The agent does something, or was asked to go on.
AgentStep(j) == Activity(j) \/ ContinuePass(j)

PassStep(j) ==
    \/ \E threw \in BOOLEAN : SendEnds(j, threw)
    \/ \E status \in {"completed", "failed", "canceled"}, s \in TaskState :
          FinishPass(j, status, s)
    \/ CollectThrows(j)

EndStep(j) ==
    \/ \E status \in {"completed", "failed"}, s \in TaskState : Recover(j, status, s)
    \/ FinishOverrun(j)
    \/ OverrunThrows(j)
    \/ Reviewed(j)
    \/ ReviewThrows(j)

MonitorStep(j) ==
    StallFires(j) \/ StallWrites(j) \/ BudgetElapses(j) \/ BudgetWrites(j)

ProgramStep ==
    \/ \E p \in Preparer : PrepareStep(p)
    \/ \E j \in Job : \/ StartStep(j)
                      \/ AgentStep(j)
                      \/ PassStep(j)
                      \/ EndStep(j)
                      \/ MonitorStep(j)
    \/ \E r \in Run : JudgmentEnds(r) \/ CancelWrites(r)

UserStep ==
    \/ \E p \in Preparer : UserPrepare(p)
    \/ \E j \in Job, r \in Run : UserStart(j, r)
    \/ \E r \in Run : CancelRun(r)
    \/ \E t \in Task, s \in UserState : UserUpdateTask(t, s)

Next == ProgramStep \/ UserStep \/ Restart

Spec == Init /\ [][Next]_vars

\* What the runtime owes: an awaited call returns (the agent's send, the proof
\* collection, the judge and the abort all have timeouts of their own), and a
\* timeout that expired is handled.  Nothing is owed by the user, by a restart,
\* or by an agent that stays active.
Fairness ==
    /\ \A j \in Job : /\ WF_vars(StartStep(j))
                      /\ WF_vars(PassStep(j))
                      /\ WF_vars(EndStep(j))
                      /\ WF_vars(StallWrites(j))
                      /\ WF_vars(BudgetWrites(j))
    /\ \A r \in Run : WF_vars(JudgmentEnds(r)) /\ WF_vars(CancelWrites(r))

FairSpec == Spec /\ Fairness

-------------------------------------------------------------------------------
TypeOK ==
    /\ db \in Database
    /\ job \in [Job -> JobRecord]
    /\ prep \in [Preparer -> PrepRecord]
    /\ canceling \subseteq Run
    /\ judging \in [Run -> {"none", "loose", "strict"}]

\* The worker of j is going to write a final status for its run.
WillFinish(j) ==
    \/ /\ job[j].pc \in {"sending", "collecting", "recovering", "overrun"}
       /\ ~Stalled(j)
    \/ job[j].stall = "aborting"

\* A row says "running" only while some worker is going to finish it, so that
\* the slot it takes (listAutoStartablePreparedOrchestrationRuns) comes free.
RunningHasWorker ==
    \A r \in RunsIn(db, "running") : \E j \in Job : job[j].run = r /\ WillFinish(j)

\* A card that counts as done never belongs to a task that is open: what a run
\* writes after the card was closed does not reopen the task.
ClosedIsSettled ==
    \A t \in ClosedTasks(db) : db.state[t] \in {"done", "canceled"}

\* A task waits for at most one prepared run, whatever order the preparation's
\* reads and writes and the ends of other runs come in.
PreparedOnce ==
    \A q, r \in RunsIn(db, "prepared") : TaskOf(db, q) = TaskOf(db, r) => q = r

\* A run that is marked running stops being so.
RunsSettle ==
    \A r \in Run : (db.run[r].status = "running") ~> (db.run[r].status # "running")
===============================================================================
