--------------------------- MODULE OrchestrationStore ---------------------------
(***************************************************************************)
(* The part of the project store that Local Task runs are kept in, as      *)
(* functions from one content of the database to the next:                 *)
(* orchestrationRepository.ts for the rows of tasks and runs, and what the *)
(* project board adds to each write (projectBoardLinkedTaskRepository.ts,  *)
(* projectBoardCardProofReviewRepository.ts).  The store is synchronous:   *)
(* a function below is one indivisible call of the program.                *)
(*                                                                         *)
(* A run's proof of work is reduced to its restart-recovery record; the    *)
(* project board is reduced to the one card that a task may be linked to:  *)
(* whether it counts as closed and done, and which run it was reviewed     *)
(* for.                                                                    *)
(***************************************************************************)
EXTENDS OrchestrationScheduler

CONSTANTS
    Run,               \* bound: the run rows, numbered in order of insertion
    BoardTask,         \* the tasks linked to a project-board card
    NoTask             \* the task of a row that is not in use

ASSUME StoreAssumption ==
    /\ IsFiniteSet(Run)
    /\ Run \subseteq Nat \ {0}
    /\ BoardTask \subseteq Task
    /\ NoTask \notin Task

NoRun == 0

\* No code writes claimed, preparing or retry_queued; "none" is an unused row.
RunStatus == {"none", "prepared", "running", "completed", "failed", "canceled", "stalled"}

\* recovery: type "desktop-restart" is recorded; attempts: autoContinueAttempts.
Proof == [recovery : BOOLEAN, attempts : Nat]

\* A proof collected from the transcript: it has no recovery record.
FreshProof == [recovery |-> FALSE, attempts |-> 0]

Row == [status : RunStatus, task : Task \cup {NoTask}, proof : Proof]
Card == [closed : BOOLEAN, review : Run \cup {NoRun}]
Database == [run : [Run -> Row], state : [Task -> TaskState], card : [Task -> Card]]

\* Every task as createOrchestrationTask makes it, and no run.
EmptyDatabase ==
    [run   |-> [r \in Run |-> [status |-> "none", task |-> NoTask, proof |-> FreshProof]],
     state |-> [t \in Task |-> "todo"],
     card  |-> [t \in Task |-> [closed |-> FALSE, review |-> NoRun]]]

-------------------------------------------------------------------------------
TaskOf(d, r) == d.run[r].task
RunsIn(d, s) == {r \in Run : d.run[r].status = s}
TasksIn(d, s) == {TaskOf(d, r) : r \in RunsIn(d, s)}
ClosedTasks(d) == {t \in BoardTask : d.card[t].closed}

\* projectBoardTaskHasClosedDoneCard, of the task of a run.
IsFrozen(d, r) == TaskOf(d, r) \in ClosedTasks(d)

IsLatestRun(d, r) ==
    \A q \in Run : q > r => TaskOf(d, q) # TaskOf(d, r)

\* Faults: prepared runs, or running ones, are left out of the claims.
ClaimsOfRunning(d) == [claimed |-> {}, running |-> TasksIn(d, "running")]
ClaimsOfPrepared(d) == [claimed |-> TasksIn(d, "prepared"), running |-> {}]

\* getOrchestrationSchedulerRuntimeState, without the claims of other desktops.
Claims(d) == [claimed |-> TasksIn(d, "prepared"), running |-> TasksIn(d, "running")]

IsRestartInterrupted(d, r) ==
    d.run[r].status = "stalled" /\ d.run[r].proof.recovery

\* The statuses startPreparedOrchestrationRun accepts.
IsStartable(d, r) ==
    d.run[r].status \in {"prepared", "failed", "canceled", "stalled"}

\* recordPreparedOrchestrationRun
InsertRun(d, r, t) ==
    [d EXCEPT !.run[r] = [status |-> "prepared", task |-> t, proof |-> FreshProof]]

\* updateOrchestrationRun: dropped once the card of the task is closed.
UpdateRun(d, r, status, proof) ==
    IF IsFrozen(d, r) THEN d
    ELSE [d EXCEPT !.run[r].status = status, !.run[r].proof = proof]

\* applyProjectBoardCardProofReview: verdict is the task state it leads to.
ReviewProof(d, r, verdict) ==
    IF TaskOf(d, r) \in BoardTask /\ IsLatestRun(d, r)
    THEN [d EXCEPT !.state[TaskOf(d, r)] = verdict,
                   !.card[TaskOf(d, r)] = [closed |-> verdict = "done", review |-> r]]
    ELSE d

Verdict == {"done", "needs_review", "terminal_blocker", "needs_info"}

\* updateOrchestrationRun with finish: the proof of a board task is reviewed.
FinishRun(d, r, status, proof, verdict) ==
    IF IsFrozen(d, r) THEN d
    ELSE ReviewProof(UpdateRun(d, r, status, proof), r, verdict)

\* syncProjectBoardCardsForLinkedTasks: a canceled task closes its card as well.
SyncCards(d) ==
    [d EXCEPT !.card = [t \in Task |->
        [closed |-> \/ d.card[t].closed
                    \/ t \in BoardTask /\ d.state[t] \in {"done", "canceled"},
         review |-> d.card[t].review]]]

\* Fault: the closed card is not consulted.
UpdateTaskAnyway(d, t, s) == SyncCards([d EXCEPT !.state[t] = s])

\* updateOrchestrationTask: a closed card makes every new state "done".
UpdateTask(d, t, s) ==
    SyncCards([d EXCEPT !.state[t] = IF t \in ClosedTasks(d) THEN "done" ELSE s])

\* beginProjectBoardCardRun: an open card forgets its review.
BeginCardRun(d, r) ==
    IF TaskOf(d, r) \in BoardTask /\ ~IsFrozen(d, r)
    THEN [d EXCEPT !.card[TaskOf(d, r)].review = NoRun]
    ELSE d

\* recordRestartInterruptedAutoContinueAttempt
RecordAutoContinue(d, r) ==
    UpdateRun(d, r, d.run[r].status, [d.run[r].proof EXCEPT !.attempts = @ + 1])

\* stallActiveOrchestrationRuns, when the store is opened: every run that was
\* running stalls with a recovery record that keeps what the row had of one.
StallActiveRuns(d) ==
    LET active == RunsIn(d, "running") IN
    SyncCards(
      [d EXCEPT
        !.run = [r \in Run |->
            IF r \in active /\ ~IsFrozen(d, r)
            THEN [d.run[r] EXCEPT !.status = "stalled", !.proof.recovery = TRUE]
            ELSE d.run[r]],
        !.state = [t \in Task |->
            IF t \notin TasksIn(d, "running") THEN d.state[t]
            ELSE IF t \in ClosedTasks(d) THEN "done" ELSE "needs_info"]])
===============================================================================
