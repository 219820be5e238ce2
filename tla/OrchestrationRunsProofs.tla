------------------------- MODULE OrchestrationRunsProofs ------------------------
(***************************************************************************)
(* Type correctness of OrchestrationRuns, and the safety invariants that   *)
(* the runs of MCOrchestrationRuns check on small instances, for every     *)
(* value of the constants.  Each store operation and each helper on jobs   *)
(* has a lemma; the proof that a step preserves an invariant has one lemma *)
(* per group of actions, with one step per action, that cites the lemmas   *)
(* of the operations the action calls.                                     *)
(***************************************************************************)
EXTENDS OrchestrationRuns, TLAPS

(***************************************************************************)
(* Types of the store operations.  r may be NoRun, which no operation      *)
(* finds among the rows: a job that is free has no run.                    *)
(***************************************************************************)

LEMMA EmptyDatabaseType == EmptyDatabase \in Database
  BY DEF EmptyDatabase, Database, Row, Card, RunStatus, Proof, FreshProof, TaskState

LEMMA InsertRunType ==
  ASSUME NEW d \in Database, NEW r \in Run, NEW t \in Task
  PROVE  InsertRun(d, r, t) \in Database
<1>1. [status |-> "prepared", task |-> t, proof |-> FreshProof] \in Row
  BY DEF Row, RunStatus, Proof, FreshProof
<1>2. QED
  BY <1>1 DEF InsertRun, Database

LEMMA UpdateRunType ==
  ASSUME NEW d \in Database, NEW r, NEW s \in RunStatus, NEW p \in Proof
  PROVE  UpdateRun(d, r, s, p) \in Database
<1>1. ASSUME r \in Run
      PROVE  [d.run[r] EXCEPT !.status = s, !.proof = p] \in Row
  BY <1>1 DEF Database, Row
<1>2. QED
  BY <1>1 DEF UpdateRun, Database

LEMMA ReviewProofType ==
  ASSUME NEW d \in Database, NEW r \in Run \cup {NoRun}, NEW v \in Verdict
  PROVE  ReviewProof(d, r, v) \in Database
  BY DEF ReviewProof, Database, Card, Verdict, TaskState

LEMMA FinishRunType ==
  ASSUME NEW d \in Database, NEW r \in Run \cup {NoRun},
         NEW s \in RunStatus, NEW p \in Proof, NEW v \in Verdict
  PROVE  FinishRun(d, r, s, p, v) \in Database
  BY UpdateRunType, ReviewProofType DEF FinishRun

LEMMA SyncCardsType ==
  ASSUME NEW d \in Database
  PROVE  SyncCards(d) \in Database
  BY DEF SyncCards, Database, Card

LEMMA UpdateTaskType ==
  ASSUME NEW d \in Database, NEW t, NEW s \in TaskState
  PROVE  UpdateTask(d, t, s) \in Database
<1>1. [d EXCEPT !.state[t] = IF t \in ClosedTasks(d) THEN "done" ELSE s] \in Database
  BY DEF Database, TaskState
<1>2. QED
  BY <1>1, SyncCardsType DEF UpdateTask

LEMMA BeginCardRunType ==
  ASSUME NEW d \in Database, NEW r
  PROVE  BeginCardRun(d, r) \in Database
  BY DEF BeginCardRun, Database, Card

LEMMA StallActiveRunsType ==
  ASSUME NEW d \in Database
  PROVE  StallActiveRuns(d) \in Database
<1> DEFINE rows == [r \in Run |->
              IF r \in RunsIn(d, "running") /\ ~IsFrozen(d, r)
              THEN [d.run[r] EXCEPT !.status = "stalled", !.proof.recovery = TRUE]
              ELSE d.run[r]]
           states == [t \in Task |->
              IF t \notin TasksIn(d, "running") THEN d.state[t]
              ELSE IF t \in ClosedTasks(d) THEN "done" ELSE "needs_info"]
<1>1. rows \in [Run -> Row]
  <2>1. ASSUME NEW row \in Row
        PROVE  [row EXCEPT !.status = "stalled", !.proof.recovery = TRUE] \in Row
    BY DEF Row, RunStatus, Proof
  <2>2. \A r \in Run : d.run[r] \in Row
    BY DEF Database
  <2>3. ASSUME NEW r \in Run
        PROVE  rows[r] \in Row
    BY <2>1, <2>2
  <2>4. QED
    BY <2>3
<1>2. states \in [Task -> TaskState]
  BY DEF Database, TaskState
<1>3. [d EXCEPT !.run = rows, !.state = states] \in Database
  BY <1>1, <1>2 DEF Database
<1>4. QED
  BY <1>3, SyncCardsType DEF StallActiveRuns

(***************************************************************************)
(* Types of the jobs.                                                      *)
(***************************************************************************)
LEMMA IdleJobType == IdleJob \in JobRecord
  BY RunsAssumption DEF IdleJob, JobRecord, WorkerPc, Proof, FreshProof, Monitor

LEMMA StoppedType ==
  ASSUME NEW w \in JobRecord
  PROVE  Stopped(w) \in JobRecord
  BY IdleJobType DEF Stopped, Stop, JobRecord, Monitor

LEMMA SettledType ==
  ASSUME NEW w \in JobRecord
  PROVE  Settled(w) \in JobRecord
  BY StoppedType DEF Settled

LEMMA FreshProofType == FreshProof \in Proof
  BY DEF FreshProof, Proof

LEMMA StatesAfterType ==
  ASSUME NEW status \in {"completed", "failed", "canceled"},
         NEW s \in StatesAfter(status)
  PROVE  s \in TaskState
  BY DEF StatesAfter, TaskState

LEMMA GotoType ==
  ASSUME TypeOK, NEW j \in Job, NEW pc \in WorkerPc, Goto(j, pc)
  PROVE  job' \in [Job -> JobRecord]
  BY DEF TypeOK, Goto, JobRecord

LEMMA ReturnType ==
  ASSUME TypeOK, NEW j \in Job, Return(j)
  PROVE  job' \in [Job -> JobRecord]
  BY StoppedType DEF TypeOK, Return

LEMMA CatchType ==
  ASSUME TypeOK, NEW j \in Job, Catch(j)
  PROVE  job' \in [Job -> JobRecord]
  BY GotoType, ReturnType DEF Catch, WorkerPc

LEMMA StartJudgmentType ==
  ASSUME TypeOK, NEW d, NEW r, StartJudgment(d, r)
  PROVE  judging' \in [Run -> {"none", "loose", "strict"}]
  BY DEF TypeOK, StartJudgment

\* The writes that end a run: Finish, and those of the stall monitor.
LEMMA EndingType ==
  ASSUME TypeOK, NEW j \in Job, NEW status \in RunStatus, NEW s \in TaskState,
         NEW v \in Verdict
  PROVE  UpdateTask(FinishRun(db, job[j].run, status, FreshProof, v), TaskOfJob(j), s)
           \in Database
<1>1. job[j].run \in Run \cup {NoRun}
  BY DEF TypeOK, JobRecord
<1>2. FinishRun(db, job[j].run, status, FreshProof, v) \in Database
  BY <1>1, FinishRunType, FreshProofType DEF TypeOK
<1>3. QED
  BY <1>2, UpdateTaskType

LEMMA FinishType ==
  ASSUME TypeOK, NEW j \in Job, NEW status \in RunStatus, NEW s \in TaskState,
         NEW pc \in WorkerPc, Finish(j, status, s, pc)
  PROVE  TypeOK'
<1>1. db' \in Database
  BY EndingType DEF Finish
<1>2. job' \in [Job -> JobRecord]
  BY GotoType DEF Finish
<1>3. judging' \in [Run -> {"none", "loose", "strict"}]
  BY StartJudgmentType DEF Finish
<1>4. UNCHANGED <<prep, canceling>>
  BY DEF Finish
<1>5. QED
  BY <1>1, <1>2, <1>3, <1>4 DEF TypeOK

LEMMA ProgressType ==
  ASSUME NEW d \in Database, NEW r
  PROVE  Progress(d, r) \in Database
  BY UpdateRunType, FreshProofType DEF Progress, RunStatus

(***************************************************************************)
(* Type correctness.                                                       *)
(***************************************************************************)
LEMMA TypeInit == Init => TypeOK
<1>1. IdlePrep \in PrepRecord
  BY DEF IdlePrep, PrepRecord, TaskState
<1>2. QED
  BY <1>1, EmptyDatabaseType, IdleJobType DEF Init, TypeOK

LEMMA PrepareStepType ==
  ASSUME TypeOK, NEW p \in Preparer, PrepareList(p) \/ PrepareStep(p)
  PROVE  TypeOK'
<1>0. IdlePrep \in PrepRecord
  BY DEF IdlePrep, PrepRecord, TaskState
<1>1. CASE PrepareList(p)
  <2>1. [IdlePrep EXCEPT !.pc = "listed", !.seen = db.state] \in PrepRecord
    BY <1>0 DEF PrepRecord, TypeOK, Database
  <2>2. QED
    BY <1>1, <2>1 DEF PrepareList, TypeOK
<1>2. CASE PrepareSelect(p)
  <2>1. PICK sel \in SUBSET Task :
          prep' = [prep EXCEPT ![p] =
             IF sel = {} THEN IdlePrep
             ELSE [prep[p] EXCEPT !.pc = "recording", !.queue = sel]]
    BY <1>2 DEF PrepareSelect
  <2>2. [prep[p] EXCEPT !.pc = "recording", !.queue = sel] \in PrepRecord
    BY DEF TypeOK, PrepRecord
  <2>3. QED
    BY <1>0, <1>2, <2>1, <2>2 DEF PrepareSelect, TypeOK
<1>3. ASSUME NEW r \in Run, PrepareRecord(p, r)
      PROVE  TypeOK'
  <2>1. PICK t \in prep[p].queue :
          /\ db' = InsertRun(db, r, t)
          /\ prep' = [prep EXCEPT ![p] =
                IF prep[p].queue \ {t} = {}
                THEN [IdlePrep EXCEPT !.made = prep[p].made \cup {r}]
                ELSE [prep[p] EXCEPT !.queue = prep[p].queue \ {t},
                                     !.made = prep[p].made \cup {r}]]
    BY <1>3 DEF PrepareRecord
  <2>2. prep[p] \in PrepRecord /\ t \in Task
    BY DEF TypeOK, PrepRecord
  <2>3. /\ [IdlePrep EXCEPT !.made = prep[p].made \cup {r}] \in PrepRecord
        /\ [prep[p] EXCEPT !.queue = prep[p].queue \ {t},
                           !.made = prep[p].made \cup {r}] \in PrepRecord
    BY <1>0, <2>2 DEF PrepRecord
  <2>4. db' \in Database
    BY <2>1, <2>2, InsertRunType DEF TypeOK
  <2>5. QED
    BY <1>3, <2>1, <2>3, <2>4 DEF PrepareRecord, TypeOK
<1>4. CASE PrepareThrows(p)
  BY <1>0, <1>4 DEF PrepareThrows, TypeOK
<1>5. QED
  BY <1>1, <1>2, <1>3, <1>4 DEF PrepareStep

LEMMA StartStepType ==
  ASSUME TypeOK, NEW j \in Job, StartStep(j)
  PROVE  TypeOK'
<1>1. CASE CheckBlocked(j)
  BY <1>1, GotoType DEF CheckBlocked, TypeOK, WorkerPc
<1>2. CASE StartThrows(j)
  BY <1>2, IdleJobType DEF StartThrows, TypeOK
<1>3. CASE BeginWork(j)
  <2>1. job[j] \in JobRecord
    BY DEF TypeOK
  <2>2. UpdateRun(db, job[j].run, "running", job[j].proof) \in Database
    BY <2>1, UpdateRunType DEF TypeOK, JobRecord, RunStatus
  <2>3. db' \in Database
    BY <1>3, <2>2, UpdateTaskType, BeginCardRunType DEF BeginWork, TaskState
  <2>4. job' \in [Job -> JobRecord]
    BY <1>3, <2>1, FreshProofType DEF BeginWork, TypeOK, JobRecord, WorkerPc, Monitor
  <2>5. QED
    BY <1>3, <2>3, <2>4 DEF BeginWork, TypeOK
<1>4. QED
  BY <1>1, <1>2, <1>3 DEF StartStep

LEMMA AgentStepType ==
  ASSUME TypeOK, NEW j \in Job, AgentStep(j)
  PROVE  TypeOK'
<1>1. CASE Activity(j)
  BY <1>1, ProgressType DEF Activity, TypeOK, volatile
<1>2. CASE ContinuePass(j)
  <2>1. db' \in Database
    BY <1>2, ProgressType, UpdateTaskType DEF ContinuePass, TypeOK, TaskState
  <2>2. job' \in [Job -> JobRecord]
    BY <1>2, RunsAssumption DEF ContinuePass, TypeOK, JobRecord, WorkerPc
  <2>3. QED
    BY <1>2, <2>1, <2>2 DEF ContinuePass, TypeOK
<1>3. QED
  BY <1>1, <1>2 DEF AgentStep

LEMMA PassStepType ==
  ASSUME TypeOK, NEW j \in Job, PassStep(j)
  PROVE  TypeOK'
<1>1. ASSUME NEW threw \in BOOLEAN, SendEnds(j, threw)
      PROVE  TypeOK'
  <2>1. job' \in [Job -> JobRecord]
    BY <1>1, GotoType, ReturnType DEF SendEnds, WorkerPc
  <2>2. QED
    BY <1>1, <2>1 DEF SendEnds, TypeOK
<1>2. ASSUME NEW status \in {"completed", "failed", "canceled"}, NEW s \in TaskState,
             FinishPass(j, status, s)
      PROVE  TypeOK'
  BY <1>2, FinishType DEF FinishPass, RunStatus, WorkerPc
<1>3. CASE CollectThrows(j)
  BY <1>3, CatchType DEF CollectThrows, TypeOK
<1>4. QED
  BY <1>1, <1>2, <1>3 DEF PassStep

LEMMA EndStepType ==
  ASSUME TypeOK, NEW j \in Job, EndStep(j)
  PROVE  TypeOK'
<1>1. ASSUME NEW status \in {"completed", "failed"}, NEW s \in TaskState,
             Recover(j, status, s)
      PROVE  TypeOK'
  BY <1>1, FinishType DEF Recover, RunStatus, WorkerPc
<1>2. CASE FinishOverrun(j)
  BY <1>2, FinishType DEF FinishOverrun, RunStatus, WorkerPc, TaskState
<1>3. CASE Reviewed(j)
  BY <1>3, ReturnType DEF Reviewed, TypeOK
<1>4. CASE ReviewThrows(j)
  <2>1. job' \in [Job -> JobRecord]
    BY <1>4, CatchType, ReturnType DEF ReviewThrows
  <2>2. QED
    BY <1>4, <2>1 DEF ReviewThrows, TypeOK
<1>5. CASE OverrunThrows(j)
  BY <1>5, CatchType DEF OverrunThrows, TypeOK
<1>6. QED
  BY <1>1, <1>2, <1>3, <1>4, <1>5 DEF EndStep

LEMMA MonitorStepType ==
  ASSUME TypeOK, NEW j \in Job, MonitorStep(j)
  PROVE  TypeOK'
<1>0. job[j] \in JobRecord
  BY DEF TypeOK
<1>1. CASE StallFires(j)
  BY <1>1 DEF StallFires, TypeOK, JobRecord, Monitor
<1>2. CASE StallWrites(j)
  <2>1. db' \in Database
    BY <1>2, EndingType DEF StallWrites, RunStatus, TaskState
  <2>2. [job[j] EXCEPT !.stall = "fired"] \in JobRecord
    BY <1>0 DEF JobRecord, Monitor
  <2>3. job' \in [Job -> JobRecord]
    BY <1>2, <2>2, SettledType DEF StallWrites, TypeOK
  <2>4. QED
    BY <1>2, <2>1, <2>3, StartJudgmentType DEF StallWrites, TypeOK
<1>3. CASE BudgetElapses(j)
  BY <1>3 DEF BudgetElapses, TypeOK, JobRecord, Monitor
<1>4. CASE BudgetWrites(j)
  <2>1. [job[j] EXCEPT !.budget = "fired"] \in JobRecord
    BY <1>0 DEF JobRecord, Monitor
  <2>2. QED
    BY <1>4, <2>1, SettledType, ProgressType DEF BudgetWrites, TypeOK
<1>5. QED
  BY <1>1, <1>2, <1>3, <1>4 DEF MonitorStep

LEMMA ProgramEndType ==
  ASSUME TypeOK, NEW r \in Run, JudgmentEnds(r) \/ CancelWrites(r)
  PROVE  TypeOK'
<1>1. CASE JudgmentEnds(r)
  <2>1. db' \in Database
    BY <1>1, ReviewProofType DEF JudgmentEnds, TypeOK
  <2>2. QED
    BY <1>1, <2>1 DEF JudgmentEnds, TypeOK
<1>2. CASE CancelWrites(r)
  <2>1. db.run[r].proof \in Proof
    BY DEF TypeOK, Database, Row
  <2>2. db' \in Database
    BY <1>2, <2>1, FinishRunType DEF CancelWrites, TypeOK, RunStatus
  <2>3. QED
    BY <1>2, <2>2 DEF CancelWrites, TypeOK
<1>3. QED
  BY <1>1, <1>2

LEMMA StartRunType ==
  ASSUME TypeOK, NEW j \in Job, NEW r \in Run, StartRun(j, r)
  PROVE  TypeOK'
<1>1. db.run[r].proof \in Proof
  BY DEF TypeOK, Database, Row
<1>2. [IdleJob EXCEPT !.pc = "loading", !.run = r, !.proof = db.run[r].proof] \in JobRecord
  BY <1>1, IdleJobType DEF JobRecord, WorkerPc
<1>3. QED
  BY <1>2 DEF StartRun, TypeOK

LEMMA UserStepType ==
  ASSUME TypeOK, UserStep
  PROVE  TypeOK'
<1>1. ASSUME NEW p \in Preparer, UserPrepare(p)
      PROVE  TypeOK'
  BY <1>1, PrepareStepType DEF UserPrepare
<1>2. ASSUME NEW j \in Job, NEW r \in Run, UserStart(j, r)
      PROVE  TypeOK'
  BY <1>2, StartRunType DEF UserStart
<1>3. ASSUME NEW r \in Run, CancelRun(r)
      PROVE  TypeOK'
  BY <1>3 DEF CancelRun, TypeOK
<1>4. ASSUME NEW t \in Task, NEW s \in UserState, UserUpdateTask(t, s)
      PROVE  TypeOK'
  BY <1>4, UpdateTaskType, RunsAssumption DEF UserUpdateTask, TypeOK, volatile
<1>5. QED
  BY <1>1, <1>2, <1>3, <1>4 DEF UserStep

LEMMA RestartType ==
  ASSUME TypeOK, Restart
  PROVE  TypeOK'
<1>1. IdlePrep \in PrepRecord
  BY DEF IdlePrep, PrepRecord, TaskState
<1>2. QED
  BY <1>1, IdleJobType, StallActiveRunsType DEF Restart, TypeOK

LEMMA TypeStep == TypeOK /\ [Next]_vars => TypeOK'
<1> SUFFICES ASSUME TypeOK, [Next]_vars PROVE TypeOK'
  OBVIOUS
<1>1. CASE ProgramStep
  BY <1>1, PrepareStepType, StartStepType, AgentStepType, PassStepType,
     EndStepType, MonitorStepType, ProgramEndType DEF ProgramStep
<1>2. CASE UserStep
  BY <1>2, UserStepType
<1>3. CASE Restart
  BY <1>3, RestartType
<1>4. CASE UNCHANGED vars
  BY <1>4 DEF vars, TypeOK
<1>5. QED
  BY <1>1, <1>2, <1>3, <1>4 DEF Next

\* Every reachable state of the store, the workers, the preparations and the
\* pending reviews and cancels has the types of OrchestrationRuns.tla; among
\* other things a worker never counts a pass beyond closePolicy.maxPasses.
THEOREM TypeCorrect == Spec => []TypeOK
BY TypeInit, TypeStep, PTL DEF Spec

(***************************************************************************)
(* ClosedIsSettled is inductive once the types are known.  Closed(d) is    *)
(* its content for a database d.                                           *)
(***************************************************************************)
Closed(d) == \A t \in ClosedTasks(d) : d.state[t] \in {"done", "canceled"}

LEMMA UpdateRunClosed ==
  ASSUME NEW d \in Database, NEW r, NEW s, NEW p, Closed(d)
  PROVE  Closed(UpdateRun(d, r, s, p))
  BY DEF Closed, ClosedTasks, UpdateRun, Database

LEMMA ReviewProofClosed ==
  ASSUME NEW d \in Database, NEW r, NEW v \in Verdict, Closed(d)
  PROVE  Closed(ReviewProof(d, r, v))
<1>1. CASE TaskOf(d, r) \in BoardTask /\ IsLatestRun(d, r)
  <2>1. TaskOf(d, r) \in Task
    BY <1>1, StoreAssumption
  <2>2. \A t \in BoardTask : t \in Task
    BY StoreAssumption
  <2>3. QED
    BY <1>1, <2>1, <2>2 DEF Closed, ClosedTasks, ReviewProof, Database, Card
<1>2. CASE ~(TaskOf(d, r) \in BoardTask /\ IsLatestRun(d, r))
  BY <1>2 DEF ReviewProof
<1>3. QED
  BY <1>1, <1>2

LEMMA FinishRunClosed ==
  ASSUME NEW d \in Database, NEW r, NEW s \in RunStatus, NEW p \in Proof,
         NEW v \in Verdict, Closed(d)
  PROVE  Closed(FinishRun(d, r, s, p, v))
  BY UpdateRunType, UpdateRunClosed, ReviewProofClosed DEF FinishRun

\* What keeps a closed card's task settled is the test in updateOrchestrationTask.
LEMMA UpdateTaskClosed ==
  ASSUME NEW d \in Database, NEW t, NEW s \in TaskState, Closed(d)
  PROVE  Closed(UpdateTask(d, t, s))
<1>1. \A u \in BoardTask : u \in Task
  BY StoreAssumption
<1>2. QED
  BY <1>1 DEF Closed, ClosedTasks, UpdateTask, SyncCards, Database, Card

LEMMA BeginCardRunClosed ==
  ASSUME NEW d \in Database, NEW r, Closed(d)
  PROVE  Closed(BeginCardRun(d, r))
<1>1. \A u \in BoardTask : u \in Task
  BY StoreAssumption
<1>2. QED
  BY <1>1 DEF Closed, ClosedTasks, BeginCardRun, Database, Card

LEMMA StallActiveRunsClosed ==
  ASSUME NEW d \in Database, Closed(d)
  PROVE  Closed(StallActiveRuns(d))
<1>1. \A u \in BoardTask : u \in Task
  BY StoreAssumption
<1>2. QED
  BY <1>1 DEF Closed, ClosedTasks, StallActiveRuns, SyncCards, Database, Card

\* The write that ends a run (Finish, StallWrites) and the progress of a run.
LEMMA EndingClosed ==
  ASSUME TypeOK, Closed(db), NEW j \in Job, NEW status \in RunStatus,
         NEW s \in TaskState, NEW v \in Verdict
  PROVE  Closed(UpdateTask(FinishRun(db, job[j].run, status, FreshProof, v), TaskOfJob(j), s))
<1>1. job[j].run \in Run \cup {NoRun}
  BY DEF TypeOK, JobRecord
<1>2. FinishRun(db, job[j].run, status, FreshProof, v) \in Database
  BY <1>1, FinishRunType, FreshProofType DEF TypeOK
<1>3. QED
  BY <1>2, FinishRunClosed, FreshProofType, UpdateTaskClosed DEF TypeOK

LEMMA FinishClosed ==
  ASSUME TypeOK, Closed(db), NEW j \in Job, NEW status \in RunStatus,
         NEW s \in TaskState, NEW pc, Finish(j, status, s, pc)
  PROVE  Closed(db')
  BY EndingClosed DEF Finish

LEMMA ClosedStep ==
  ASSUME TypeOK, Closed(db), [Next]_vars
  PROVE  Closed(db')
<1>0. db \in Database
  BY DEF TypeOK
<1>1. ASSUME NEW p \in Preparer, PrepareStep(p) \/ UserPrepare(p)
      PROVE  Closed(db')
  <2>1. ASSUME NEW r \in Run, PrepareRecord(p, r)
        PROVE  Closed(db')
    BY <1>0, <2>1 DEF PrepareRecord, InsertRun, Closed, ClosedTasks, Database
  <2>2. QED
    BY <1>1, <2>1 DEF PrepareStep, PrepareSelect, PrepareThrows, UserPrepare, PrepareList
<1>2. ASSUME NEW j \in Job, StartStep(j) \/ AgentStep(j)
      PROVE  Closed(db')
  <2>1. CASE BeginWork(j)
    <3>1. job[j].proof \in Proof
      BY DEF TypeOK, JobRecord
    <3>2. UpdateRun(db, job[j].run, "running", job[j].proof) \in Database
      BY <1>0, <3>1, UpdateRunType DEF RunStatus
    <3>3. QED
      BY <1>0, <2>1, <3>2, UpdateRunClosed, UpdateTaskType, UpdateTaskClosed,
         BeginCardRunClosed DEF BeginWork, TaskState
  <2>2. Closed(Progress(db, job[j].run)) /\ Progress(db, job[j].run) \in Database
    BY <1>0, ProgressType, UpdateRunClosed DEF Progress
  <2>3. CASE ContinuePass(j)
    BY <2>2, <2>3, UpdateTaskClosed DEF ContinuePass, TaskState
  <2>4. QED
    BY <1>2, <2>1, <2>2, <2>3 DEF StartStep, AgentStep, CheckBlocked, StartThrows, Activity
<1>3. ASSUME NEW j \in Job, PassStep(j) \/ EndStep(j)
      PROVE  Closed(db')
  <2>1. ASSUME NEW status \in {"completed", "failed", "canceled"}, NEW s \in TaskState,
               FinishPass(j, status, s)
        PROVE  Closed(db')
    BY <2>1, FinishClosed DEF FinishPass, RunStatus
  <2>2. ASSUME NEW status \in {"completed", "failed"}, NEW s \in TaskState,
               Recover(j, status, s)
        PROVE  Closed(db')
    BY <2>2, FinishClosed DEF Recover, RunStatus
  <2>3. CASE FinishOverrun(j)
    BY <2>3, FinishClosed DEF FinishOverrun, RunStatus, TaskState
  <2>4. QED
    BY <1>3, <2>1, <2>2, <2>3
    DEF PassStep, EndStep, SendEnds, CollectThrows, OverrunThrows, Reviewed, ReviewThrows
<1>4. ASSUME NEW j \in Job, MonitorStep(j)
      PROVE  Closed(db')
  <2>1. CASE StallWrites(j)
    BY <2>1, EndingClosed DEF StallWrites, RunStatus, TaskState
  <2>2. CASE BudgetWrites(j)
    BY <1>0, <2>2, UpdateRunClosed DEF BudgetWrites, Progress
  <2>3. QED
    BY <1>4, <2>1, <2>2 DEF MonitorStep, StallFires, BudgetElapses
<1>5. ASSUME NEW r \in Run, JudgmentEnds(r) \/ CancelWrites(r)
      PROVE  Closed(db')
  <2>1. db.run[r].proof \in Proof
    BY <1>0 DEF Database, Row
  <2>2. QED
    BY <1>0, <1>5, <2>1, ReviewProofClosed, FinishRunClosed
    DEF JudgmentEnds, CancelWrites, RunStatus
<1>6. CASE UserStep
  <2>1. ASSUME NEW t \in Task, NEW s \in UserState, UserUpdateTask(t, s)
        PROVE  Closed(db')
    BY <1>0, <2>1, UpdateTaskClosed, RunsAssumption DEF UserUpdateTask
  <2>2. QED
    BY <1>1, <1>6, <2>1 DEF UserStep, UserStart, StartRun, CancelRun
<1>7. CASE Restart
  BY <1>0, <1>7, StallActiveRunsClosed DEF Restart
<1>8. CASE UNCHANGED vars
  BY <1>8 DEF vars
<1>9. QED
  BY <1>1, <1>2, <1>3, <1>4, <1>5, <1>6, <1>7, <1>8 DEF Next, ProgramStep

\* However the last writes of a run, the judgment of its proof, the user's edits
\* and a restart interleave, the task of a card that counts as done stays done
\* or canceled: updateOrchestrationTask is the only guard, and it is enough.
THEOREM ClosedCardsAreSettled == Spec => []ClosedIsSettled
<1>1. Init => Closed(db)
  BY StoreAssumption DEF Init, EmptyDatabase, Closed, ClosedTasks
<1>2. Init => ClosedIsSettled
  BY <1>1 DEF Closed, ClosedIsSettled
<1>3. TypeOK /\ ClosedIsSettled /\ [Next]_vars => ClosedIsSettled'
  <2> SUFFICES ASSUME TypeOK, ClosedIsSettled, [Next]_vars
               PROVE  ClosedIsSettled'
    OBVIOUS
  <2>1. Closed(db')
    BY ClosedStep DEF Closed, ClosedIsSettled
  <2>2. QED
    BY <2>1 DEF Closed, ClosedIsSettled, ClosedTasks
<1>4. QED
  BY <1>2, <1>3, TypeCorrect, PTL DEF Spec

(***************************************************************************)
(* RunningHasWorker holds without a project board and, with a stall        *)
(* monitor, for workers of one pass.  Its strengthening says of each job   *)
(* that it has no budget monitor, and no stall monitor before BeginWork.   *)
(***************************************************************************)
WillFinishRun(w) ==
    \/ /\ w.pc \in {"sending", "collecting", "recovering", "overrun"}
       /\ w.stall \notin {"aborting", "fired"}
    \/ w.stall = "aborting"

Unwatched(w) ==
    /\ w.budget = "off"
    /\ w.pc \in {"loading", "importing"} => w.stall = "off"
    /\ ~StallMonitor => w.stall = "off"

WorkerInv ==
    /\ \A j \in Job : Unwatched(job[j])
    /\ RunningHasWorker

IsRunning(d, r) == d.run[r].status = "running"

LEMMA WillFinishJob ==
  ASSUME NEW j \in Job
  PROVE  WillFinish(j) <=> WillFinishRun(job[j])
  BY DEF WillFinish, WillFinishRun, Stalled, Overdue

\* Job j becomes w: enough that every run that is running now was running and is
\* not one that j alone was to finish, or is one that w is to finish.
LEMMA JobBecomes ==
  ASSUME TypeOK, WorkerInv, NEW j \in Job, NEW w,
         job' = [job EXCEPT ![j] = w], Unwatched(w),
         \A r \in Run : IsRunning(db', r) =>
            \/ IsRunning(db, r) /\ (r # job[j].run \/ ~WillFinishRun(job[j]))
            \/ r = w.run /\ WillFinishRun(w)
  PROVE  WorkerInv'
<1>1. job' \in [Job -> {job[k] : k \in Job} \cup {w}]
  BY DEF TypeOK
<1>2. job'[j] = w /\ \A k \in Job \ {j} : job'[k] = job[k]
  BY DEF TypeOK
<1>3. \A k \in Job : Unwatched(job'[k])
  BY <1>2 DEF WorkerInv
<1>4. ASSUME NEW r \in Run, IsRunning(db', r)
      PROVE  \E k \in Job : job'[k].run = r /\ WillFinishRun(job'[k])
  <2>1. CASE r = w.run /\ WillFinishRun(w)
    BY <1>2, <2>1
  <2>2. CASE IsRunning(db, r) /\ (r # job[j].run \/ ~WillFinishRun(job[j]))
    <3>1. PICK k \in Job : job[k].run = r /\ WillFinish(k)
      BY <2>2 DEF WorkerInv, RunningHasWorker, RunsIn, IsRunning
    <3>2. k # j
      BY <2>2, <3>1, WillFinishJob
    <3>3. QED
      BY <1>2, <3>1, <3>2, WillFinishJob
  <2>3. QED
    BY <1>4, <2>1, <2>2
<1>5. RunningHasWorker'
  BY <1>4 DEF RunningHasWorker, RunsIn, IsRunning, WillFinish, WillFinishRun, Stalled, Overdue
<1>6. QED
  BY <1>3, <1>5 DEF WorkerInv, Unwatched

\* No job changes: enough that no run starts running.
LEMMA JobsKept ==
  ASSUME TypeOK, WorkerInv, job' = job,
         \A r \in Run : IsRunning(db', r) => IsRunning(db, r)
  PROVE  WorkerInv'
<1>1. ASSUME NEW r \in Run, IsRunning(db', r)
      PROVE  \E k \in Job : job'[k].run = r /\ WillFinishRun(job'[k])
  BY <1>1, WillFinishJob DEF WorkerInv, RunningHasWorker, RunsIn, IsRunning
<1>2. RunningHasWorker'
  BY <1>1 DEF RunningHasWorker, RunsIn, IsRunning, WillFinish, WillFinishRun, Stalled, Overdue
<1>3. QED
  BY <1>2 DEF WorkerInv, Unwatched

\* A worker that returns leaves what its stall monitor still has to write.
LEMMA StoppedUnwatched ==
  ASSUME NEW w \in JobRecord, Unwatched(w)
  PROVE  /\ Unwatched(Stopped(w))
         /\ w.stall = "aborting" =>
               Stopped(w).run = w.run /\ WillFinishRun(Stopped(w))
  BY IdleJobType DEF Stopped, Stop, Unwatched, WillFinishRun, IdleJob, JobRecord

LEMMA ReturnKeepsWorkers ==
  ASSUME TypeOK, WorkerInv, NEW j \in Job, Return(j), db' = db,
         WillFinishRun(job[j]) => job[j].stall = "aborting"
  PROVE  WorkerInv'
<1>1. job[j] \in JobRecord /\ Unwatched(job[j])
  BY DEF TypeOK, WorkerInv
<1>2. QED
  BY <1>1, StoppedUnwatched, JobBecomes DEF Return

LEMMA GotoKeepsWorkers ==
  ASSUME TypeOK, WorkerInv, NEW j \in Job, NEW pc, Goto(j, pc), db' = db,
         ~Stalled(j), pc \in {"collecting", "recovering", "overrun"}
  PROVE  WorkerInv'
<1>1. job[j] \in JobRecord /\ Unwatched(job[j])
  BY DEF TypeOK, WorkerInv
<1> DEFINE w == [job[j] EXCEPT !.pc = pc]
<1>2. Unwatched(w) /\ w.run = job[j].run /\ WillFinishRun(w)
  BY <1>1 DEF Unwatched, WillFinishRun, Stalled, Overdue, JobRecord
<1>3. job' = [job EXCEPT ![j] = w]
  BY DEF Goto
<1> HIDE DEF w
<1>4. QED
  BY <1>2, <1>3, JobBecomes

LEMMA CatchKeepsWorkers ==
  ASSUME TypeOK, WorkerInv, NEW j \in Job, Catch(j), db' = db
  PROVE  WorkerInv'
<1>1. CASE Stalled(j)
  BY <1>1, ReturnKeepsWorkers DEF Catch, WillFinishRun, Stalled, Overdue
<1>2. CASE ~Stalled(j)
  BY <1>2, GotoKeepsWorkers DEF Catch
<1>3. QED
  BY <1>1, <1>2

\* Without a project board a write to a run changes that row and no other.
LEMMA UpdateRunStatus ==
  ASSUME BoardTask = {}, NEW d \in Database, NEW r, NEW s, NEW p, NEW q \in Run
  PROVE  UpdateRun(d, r, s, p).run[q].status = IF q = r THEN s ELSE d.run[q].status
  BY DEF UpdateRun, IsFrozen, ClosedTasks, Database, Row

LEMMA FinishRunStatus ==
  ASSUME BoardTask = {}, NEW d \in Database, NEW r, NEW s \in RunStatus, NEW p \in Proof,
         NEW v, NEW q \in Run
  PROVE  FinishRun(d, r, s, p, v).run[q].status = IF q = r THEN s ELSE d.run[q].status
<1>1. FinishRun(d, r, s, p, v) = UpdateRun(d, r, s, p)
  BY DEF FinishRun, ReviewProof, UpdateRun, IsFrozen, ClosedTasks
<1>2. QED
  BY <1>1, UpdateRunStatus

\* No write to a task changes a run.
LEMMA UpdateTaskRuns ==
  ASSUME NEW d \in Database, NEW t, NEW s
  PROVE  UpdateTask(d, t, s).run = d.run
  BY DEF UpdateTask, SyncCards, Database

LEMMA BeginCardRunRuns ==
  ASSUME NEW d \in Database, NEW r
  PROVE  BeginCardRun(d, r).run = d.run
  BY DEF BeginCardRun, Database

LEMMA StallActiveRunsStatus ==
  ASSUME BoardTask = {}, NEW d \in Database, NEW q \in Run
  PROVE  ~IsRunning(StallActiveRuns(d), q)
  BY DEF StallActiveRuns, SyncCards, IsRunning, RunsIn, IsFrozen, ClosedTasks, Database, Row

LEMMA EndingStatus ==
  ASSUME BoardTask = {}, TypeOK, NEW j \in Job, NEW s \in RunStatus, NEW t \in TaskState,
         NEW v \in Verdict, NEW q \in Run
  PROVE  UpdateTask(FinishRun(db, job[j].run, s, FreshProof, v), TaskOfJob(j), t).run[q].status
           = IF q = job[j].run THEN s ELSE db.run[q].status
<1>1. job[j].run \in Run \cup {NoRun} /\ db \in Database
  BY DEF TypeOK, JobRecord
<1>2. FinishRun(db, job[j].run, s, FreshProof, v) \in Database
  BY <1>1, FinishRunType, FreshProofType
<1>3. QED
  BY <1>1, <1>2, UpdateTaskRuns, FinishRunStatus, FreshProofType

LEMMA FinishKeepsWorkers ==
  ASSUME BoardTask = {}, TypeOK, WorkerInv, NEW j \in Job,
         NEW s \in RunStatus \ {"running"}, NEW t \in TaskState,
         NEW pc \in {"reviewing", "closing"}, Finish(j, s, t, pc)
  PROVE  WorkerInv'
<1>1. job[j] \in JobRecord /\ Unwatched(job[j])
  BY DEF TypeOK, WorkerInv
<1> DEFINE w == [job[j] EXCEPT !.pc = pc]
<1>2. Unwatched(w)
  BY <1>1 DEF Unwatched, JobRecord
<1>3. job' = [job EXCEPT ![j] = w]
  BY DEF Finish, Goto
<1>4. \A q \in Run : IsRunning(db', q) => IsRunning(db, q) /\ q # job[j].run
  BY EndingStatus DEF Finish, IsRunning
<1> HIDE DEF w
<1>5. QED
  BY <1>2, <1>3, <1>4, JobBecomes

(***************************************************************************)
(* One lemma per group of actions.                                         *)
(***************************************************************************)
LEMMA StartRunKeepsWorkers ==
  ASSUME TypeOK, WorkerInv, NEW j \in Job, NEW r \in Run, StartRun(j, r)
  PROVE  WorkerInv'
<1> DEFINE w == [IdleJob EXCEPT !.pc = "loading", !.run = r, !.proof = db.run[r].proof]
<1>1. Unwatched(w) /\ job' = [job EXCEPT ![j] = w]
  BY DEF StartRun, Unwatched, IdleJob
<1>2. \A q \in Run : q # job[j].run
  BY StoreAssumption DEF StartRun, IsFree, NoRun
<1>3. db' = db
  BY DEF StartRun
<1> HIDE DEF w
<1>4. QED
  BY <1>1, <1>2, <1>3, JobBecomes

LEMMA StartStepKeepsWorkers ==
  ASSUME BoardTask = {}, TypeOK, WorkerInv, NEW j \in Job, StartStep(j)
  PROVE  WorkerInv'
<1>1. job[j] \in JobRecord /\ Unwatched(job[j])
  BY DEF TypeOK, WorkerInv
<1>2. job[j].pc \in {"loading", "importing"}
  BY DEF StartStep, CheckBlocked, StartThrows, BeginWork
<1>3. ~WillFinishRun(job[j])
  BY <1>1, <1>2 DEF Unwatched, WillFinishRun
<1>4. CASE CheckBlocked(j)
  <2> DEFINE w == [job[j] EXCEPT !.pc = "importing"]
  <2>1. Unwatched(w) /\ job' = [job EXCEPT ![j] = w] /\ db' = db
    BY <1>1, <1>2, <1>4 DEF CheckBlocked, Goto, Unwatched, JobRecord
  <2> HIDE DEF w
  <2>2. QED
    BY <1>3, <2>1, JobBecomes
<1>5. CASE StartThrows(j)
  <2>1. Unwatched(IdleJob) /\ job' = [job EXCEPT ![j] = IdleJob] /\ db' = db
    BY <1>5 DEF StartThrows, Unwatched, IdleJob
  <2>2. QED
    BY <1>3, <2>1, JobBecomes
<1>6. CASE BeginWork(j)
  <2> DEFINE w == [job[j] EXCEPT !.pc = "sending", !.proof = FreshProof,
                     !.stall = IF StallMonitor THEN "armed" ELSE "off",
                     !.budget = IF TaskOfJob(j) \in BoardTask THEN "armed" ELSE "off"]
             running == UpdateRun(db, job[j].run, "running", job[j].proof)
             active == UpdateTask(running, TaskOfJob(j), "in_progress")
  <2>1. Unwatched(w) /\ WillFinishRun(w) /\ w.run = job[j].run
    BY <1>1 DEF Unwatched, WillFinishRun, JobRecord
  <2>2. job' = [job EXCEPT ![j] = w] /\ db' = BeginCardRun(active, job[j].run)
    BY <1>6 DEF BeginWork
  <2>3. running \in Database
    BY <1>1, UpdateRunType DEF TypeOK, JobRecord, RunStatus
  <2>4. active \in Database
    BY <2>3, UpdateTaskType DEF TaskState
  <2>5. db'.run = running.run
    BY <2>2, <2>3, <2>4, UpdateTaskRuns, BeginCardRunRuns
  <2>6. \A q \in Run : IsRunning(db', q) => IsRunning(db, q) \/ q = job[j].run
    BY <2>5, UpdateRunStatus DEF IsRunning, TypeOK
  <2> HIDE DEF w, running, active
  <2>7. QED
    BY <1>3, <2>1, <2>2, <2>6, JobBecomes
<1>7. QED
  BY <1>4, <1>5, <1>6 DEF StartStep

LEMMA AgentStepKeepsWorkers ==
  ASSUME BoardTask = {}, StallMonitor => MaxPasses = 1,
         TypeOK, WorkerInv, NEW j \in Job, AgentStep(j)
  PROVE  WorkerInv'
<1>1. job[j] \in JobRecord /\ Unwatched(job[j]) /\ db \in Database
  BY DEF TypeOK, WorkerInv
<1>2. \A q \in Run : IsRunning(Progress(db, job[j].run), q) => IsRunning(db, q) \/ q = job[j].run
  BY <1>1, UpdateRunStatus DEF Progress, IsRunning
<1>3. CASE Activity(j)
  <2>1. job' = [job EXCEPT ![j] = job[j]] /\ db' = Progress(db, job[j].run)
    BY <1>3 DEF Activity, volatile, TypeOK
  <2>2. WillFinishRun(job[j])
    BY <1>3 DEF Activity, WillFinishRun, Stalled, Overdue
  <2>3. \A q \in Run : IsRunning(db', q) =>
            \/ IsRunning(db, q) /\ q # job[j].run
            \/ q = job[j].run
    BY <1>2, <2>1
  <2>4. QED
    BY <1>1, <2>1, <2>2, <2>3, JobBecomes
<1>4. CASE ContinuePass(j)
  <2>1. ~StallMonitor
    BY <1>1, <1>4 DEF ContinuePass, JobRecord
  <2> DEFINE w == [job[j] EXCEPT !.pc = "sending", !.pass = job[j].pass + 1]
  <2>2. Unwatched(w) /\ WillFinishRun(w) /\ w.run = job[j].run
    BY <1>1, <2>1 DEF Unwatched, WillFinishRun, JobRecord
  <2>3. job' = [job EXCEPT ![j] = w]
    BY <1>1, <1>4 DEF ContinuePass, TypeOK, JobRecord
  <2>4. db'.run = Progress(db, job[j].run).run
    BY <1>1, <1>4, ProgressType, UpdateTaskRuns DEF ContinuePass
  <2>5. \A q \in Run : IsRunning(db', q) => IsRunning(db, q) \/ q = job[j].run
    BY <1>2, <2>4 DEF IsRunning
  <2> HIDE DEF w
  <2>6. QED
    BY <2>2, <2>3, <2>5, JobBecomes
<1>5. QED
  BY <1>3, <1>4 DEF AgentStep

LEMMA PassStepKeepsWorkers ==
  ASSUME BoardTask = {}, TypeOK, WorkerInv, NEW j \in Job, PassStep(j)
  PROVE  WorkerInv'
<1>1. ASSUME NEW threw \in BOOLEAN, SendEnds(j, threw)
      PROVE  WorkerInv'
  <2>1. CASE Stalled(j)
    BY <1>1, <2>1, ReturnKeepsWorkers DEF SendEnds, WillFinishRun, Stalled, Overdue
  <2>2. CASE ~Stalled(j)
    <3>1. \E pc \in {"collecting", "recovering", "overrun"} : Goto(j, pc)
      BY <1>1, <2>2 DEF SendEnds
    <3>2. QED
      BY <1>1, <2>2, <3>1, GotoKeepsWorkers DEF SendEnds
  <2>3. QED
    BY <2>1, <2>2
<1>2. ASSUME NEW status \in {"completed", "failed", "canceled"}, NEW s \in TaskState,
             FinishPass(j, status, s)
      PROVE  WorkerInv'
  BY <1>2, FinishKeepsWorkers DEF FinishPass, RunStatus
<1>3. CASE CollectThrows(j)
  BY <1>3, CatchKeepsWorkers DEF CollectThrows
<1>4. QED
  BY <1>1, <1>2, <1>3 DEF PassStep

LEMMA EndStepKeepsWorkers ==
  ASSUME BoardTask = {}, TypeOK, WorkerInv, NEW j \in Job, EndStep(j)
  PROVE  WorkerInv'
<1>1. ASSUME NEW status \in {"completed", "failed"}, NEW s \in TaskState,
             Recover(j, status, s)
      PROVE  WorkerInv'
  BY <1>1, FinishKeepsWorkers DEF Recover, RunStatus
<1>2. CASE FinishOverrun(j)
  BY <1>2, FinishKeepsWorkers DEF FinishOverrun, RunStatus, TaskState
<1>3. CASE Reviewed(j)
  BY <1>3, ReturnKeepsWorkers DEF Reviewed, WillFinishRun
<1>4. CASE ReviewThrows(j)
  BY <1>4, ReturnKeepsWorkers, CatchKeepsWorkers DEF ReviewThrows, WillFinishRun
<1>5. CASE OverrunThrows(j)
  BY <1>5, CatchKeepsWorkers DEF OverrunThrows
<1>6. QED
  BY <1>1, <1>2, <1>3, <1>4, <1>5 DEF EndStep

LEMMA MonitorStepKeepsWorkers ==
  ASSUME BoardTask = {}, TypeOK, WorkerInv, NEW j \in Job, MonitorStep(j)
  PROVE  WorkerInv'
<1>1. job[j] \in JobRecord /\ Unwatched(job[j])
  BY DEF TypeOK, WorkerInv
<1>2. CASE StallFires(j)
  <2> DEFINE w == [job[j] EXCEPT !.stall = "aborting"]
  <2>1. Unwatched(w) /\ WillFinishRun(w) /\ w.run = job[j].run
    BY <1>1, <1>2 DEF StallFires, Unwatched, WillFinishRun, JobRecord
  <2>2. job' = [job EXCEPT ![j] = w] /\ db' = db
    BY <1>2 DEF StallFires
  <2> HIDE DEF w
  <2>3. QED
    BY <2>1, <2>2, JobBecomes
<1>3. CASE StallWrites(j)
  <2> DEFINE w == [job[j] EXCEPT !.stall = "fired"]
  <2>1. w \in JobRecord /\ Unwatched(w)
    BY <1>1, <1>3 DEF StallWrites, Unwatched, JobRecord, Monitor
  <2>2. Unwatched(Settled(w))
    BY <2>1, StoppedUnwatched DEF Settled
  <2>3. job' = [job EXCEPT ![j] = Settled(w)]
    BY <1>3 DEF StallWrites
  <2>4. \A q \in Run : IsRunning(db', q) => IsRunning(db, q) /\ q # job[j].run
    <3>1. PICK v \in Verdict :
            db' = UpdateTask(FinishRun(db, job[j].run, "stalled", FreshProof, v),
                             TaskOfJob(j), "terminal_blocker")
      BY <1>3 DEF StallWrites
    <3>2. "stalled" \in RunStatus /\ "terminal_blocker" \in TaskState
      BY DEF RunStatus, TaskState
    <3>3. \A q \in Run : db'.run[q].status
                           = IF q = job[j].run THEN "stalled" ELSE db.run[q].status
      BY <3>1, <3>2, EndingStatus
    <3>4. QED
      BY <3>3 DEF IsRunning
  <2> HIDE DEF w
  <2>5. QED
    BY <2>2, <2>3, <2>4, JobBecomes
<1>4. ~BudgetElapses(j) /\ ~BudgetWrites(j)
  BY <1>1 DEF BudgetElapses, BudgetWrites, Unwatched
<1>5. QED
  BY <1>2, <1>3, <1>4 DEF MonitorStep

LEMMA OtherStepKeepsWorkers ==
  ASSUME BoardTask = {}, TypeOK, WorkerInv
  PROVE  /\ \A p \in Preparer : PrepareStep(p) \/ UserPrepare(p) => WorkerInv'
         /\ \A r \in Run : JudgmentEnds(r) \/ CancelWrites(r) \/ CancelRun(r) => WorkerInv'
         /\ \A t \in Task, s \in UserState : UserUpdateTask(t, s) => WorkerInv'
         /\ Restart => WorkerInv'
<1>0. db \in Database
  BY DEF TypeOK
<1>1. ASSUME NEW p \in Preparer, PrepareStep(p) \/ UserPrepare(p)
      PROVE  WorkerInv'
  <2>1. ASSUME NEW r \in Run, PrepareRecord(p, r)
        PROVE  \A q \in Run : IsRunning(db', q) => IsRunning(db, q)
    BY <1>0, <2>1 DEF PrepareRecord, InsertRun, IsRunning, Database, Row
  <2>2. \A q \in Run : IsRunning(db', q) => IsRunning(db, q)
    BY <1>1, <2>1 DEF PrepareStep, PrepareSelect, PrepareThrows, UserPrepare, PrepareList
  <2>3. job' = job
    BY <1>1 DEF PrepareStep, PrepareSelect, PrepareThrows, PrepareRecord, UserPrepare, PrepareList
  <2>4. QED
    BY <2>2, <2>3, JobsKept
<1>2. ASSUME NEW r \in Run, JudgmentEnds(r) \/ CancelWrites(r) \/ CancelRun(r)
      PROVE  WorkerInv'
  <2>1. ASSUME CancelWrites(r)
        PROVE  \A q \in Run : IsRunning(db', q) => IsRunning(db, q)
    <3>1. db.run[r].proof \in Proof
      BY <1>0 DEF Database, Row
    <3>2. PICK v \in Verdict : db' = FinishRun(db, r, "canceled", db.run[r].proof, v)
      BY <2>1 DEF CancelWrites
    <3>3. "canceled" \in RunStatus
      BY DEF RunStatus
    <3>4. ASSUME NEW q \in Run
          PROVE  db'.run[q].status = IF q = r THEN "canceled" ELSE db.run[q].status
      BY <1>0, <3>1, <3>2, <3>3, FinishRunStatus
    <3>5. QED
      BY <3>4 DEF IsRunning
  <2>2. ASSUME JudgmentEnds(r)
        PROVE  db' = db
    BY <2>2 DEF JudgmentEnds, ReviewProof
  <2>3. job' = job
    BY <1>2 DEF JudgmentEnds, CancelWrites, CancelRun
  <2>4. QED
    BY <1>2, <2>1, <2>2, <2>3, JobsKept DEF CancelRun
<1>3. ASSUME NEW t \in Task, NEW s \in UserState, UserUpdateTask(t, s)
      PROVE  WorkerInv'
  BY <1>0, <1>3, UpdateTaskRuns, JobsKept DEF UserUpdateTask, volatile, IsRunning
<1>4. ASSUME Restart
      PROVE  WorkerInv'
  <2>1. \A q \in Run : ~IsRunning(db', q)
    BY <1>0, <1>4, StallActiveRunsStatus DEF Restart
  <2>2. \A j \in Job : Unwatched(job'[j])
    BY <1>4 DEF Restart, Unwatched, IdleJob
  <2>3. QED
    BY <2>1, <2>2 DEF WorkerInv, Unwatched, RunningHasWorker, RunsIn, IsRunning
<1>5. QED
  BY <1>1, <1>2, <1>3, <1>4

LEMMA WorkerStep ==
  ASSUME BoardTask = {}, StallMonitor => MaxPasses = 1, TypeOK, WorkerInv, [Next]_vars
  PROVE  WorkerInv'
<1>1. CASE ProgramStep
  BY <1>1, StartStepKeepsWorkers, AgentStepKeepsWorkers, PassStepKeepsWorkers,
     EndStepKeepsWorkers, MonitorStepKeepsWorkers, OtherStepKeepsWorkers DEF ProgramStep
<1>2. CASE UserStep
  BY <1>2, StartRunKeepsWorkers, OtherStepKeepsWorkers DEF UserStep, UserStart
<1>3. CASE Restart
  BY <1>3, OtherStepKeepsWorkers
<1>4. CASE UNCHANGED vars
  BY <1>4, JobsKept DEF vars
<1>5. QED
  BY <1>1, <1>2, <1>3, <1>4 DEF Next

\* A row that says "running" always has a worker that is still going to write
\* its end, whatever the number of workers of a run, when a worker that stalls
\* has no second pass to go on with: one that does is marked as running once more, and
\* ends its next pass without a write.
THEOREM RunsAreAttended ==
  ASSUME BoardTask = {}, StallMonitor => MaxPasses = 1
  PROVE  Spec => []RunningHasWorker
<1>1. Init => WorkerInv
  BY DEF Init, WorkerInv, Unwatched, IdleJob, EmptyDatabase, RunningHasWorker, RunsIn
<1>2. TypeOK /\ WorkerInv /\ [Next]_vars => WorkerInv'
  BY WorkerStep
<1>3. WorkerInv => RunningHasWorker
  BY DEF WorkerInv
<1>4. QED
  BY <1>1, <1>2, <1>3, TypeCorrect, PTL DEF Spec

(***************************************************************************)
(* PreparedOnce holds while preparations do not overlap.  Its              *)
(* strengthening says that a selected task has no prepared run yet.        *)
(***************************************************************************)
PreparedInv ==
    /\ PreparedOnce
    /\ \A p \in Preparer : prep[p].pc = "recording" =>
          prep[p].queue \cap TasksIn(db, "prepared") = {}

\* Every prepared run of e is a prepared run of d, of the same task.
NoNewPrepared(d, e) ==
    \A r \in Run : e.run[r].status = "prepared" =>
        d.run[r].status = "prepared" /\ e.run[r].task = d.run[r].task

LEMMA UpdateRunPrepared ==
  ASSUME NEW d \in Database, NEW r, NEW s, NEW p, s # "prepared"
  PROVE  NoNewPrepared(d, UpdateRun(d, r, s, p))
  BY DEF NoNewPrepared, UpdateRun, Database, Row

LEMMA ReviewProofPrepared ==
  ASSUME NEW d \in Database, NEW r, NEW v
  PROVE  NoNewPrepared(d, ReviewProof(d, r, v))
  BY DEF NoNewPrepared, ReviewProof, Database

LEMMA FinishRunPrepared ==
  ASSUME NEW d \in Database, NEW r, NEW s \in RunStatus, NEW p \in Proof, NEW v,
         s # "prepared"
  PROVE  NoNewPrepared(d, FinishRun(d, r, s, p, v))
<1> DEFINE e == UpdateRun(d, r, s, p)
<1>1. e \in Database /\ NoNewPrepared(d, e)
  BY UpdateRunType, UpdateRunPrepared
<1>2. NoNewPrepared(e, ReviewProof(e, r, v))
  BY <1>1, ReviewProofPrepared
<1>3. FinishRun(d, r, s, p, v) = IF IsFrozen(d, r) THEN d ELSE ReviewProof(e, r, v)
  BY DEF FinishRun
<1> HIDE DEF e
<1>4. QED
  BY <1>1, <1>2, <1>3 DEF NoNewPrepared

LEMMA UpdateTaskPrepared ==
  ASSUME NEW d \in Database, NEW e \in Database, NEW t, NEW s, NoNewPrepared(d, e)
  PROVE  NoNewPrepared(d, UpdateTask(e, t, s))
  BY UpdateTaskRuns DEF NoNewPrepared

LEMMA StallActiveRunsPrepared ==
  ASSUME NEW d \in Database
  PROVE  NoNewPrepared(d, StallActiveRuns(d))
  BY DEF NoNewPrepared, StallActiveRuns, SyncCards, Database, Row

LEMMA EndingPrepared ==
  ASSUME TypeOK, NEW j \in Job, NEW s \in RunStatus, NEW t \in TaskState, NEW v \in Verdict,
         s # "prepared"
  PROVE  NoNewPrepared(db, UpdateTask(FinishRun(db, job[j].run, s, FreshProof, v), TaskOfJob(j), t))
<1>1. job[j].run \in Run \cup {NoRun} /\ db \in Database
  BY DEF TypeOK, JobRecord
<1>2. FinishRun(db, job[j].run, s, FreshProof, v) \in Database
  BY <1>1, FinishRunType, FreshProofType
<1>3. QED
  BY <1>1, <1>2, FinishRunPrepared, FreshProofType, UpdateTaskPrepared

LEMMA FinishPrepared ==
  ASSUME TypeOK, NEW j \in Job, NEW s \in RunStatus \ {"prepared"}, NEW t \in TaskState,
         NEW pc, Finish(j, s, t, pc)
  PROVE  NoNewPrepared(db, db') /\ prep' = prep
  BY EndingPrepared DEF Finish

\* No step but a preparation's own makes a run prepared.
LEMMA WorkerPrepares ==
  ASSUME TypeOK, NEW j \in Job,
         StartStep(j) \/ AgentStep(j) \/ PassStep(j) \/ EndStep(j) \/ MonitorStep(j)
  PROVE  NoNewPrepared(db, db') /\ prep' = prep
<1>1. db \in Database /\ NoNewPrepared(db, db)
  BY DEF TypeOK, NoNewPrepared
<1>2. /\ Progress(db, job[j].run) \in Database
      /\ NoNewPrepared(db, Progress(db, job[j].run))
  BY <1>1, ProgressType, UpdateRunPrepared DEF Progress
<1>3. CASE BeginWork(j)
  <2> DEFINE running == UpdateRun(db, job[j].run, "running", job[j].proof)
             active == UpdateTask(running, TaskOfJob(j), "in_progress")
  <2>1. running \in Database
    BY <1>1, UpdateRunType DEF TypeOK, JobRecord, RunStatus
  <2>2. active \in Database /\ NoNewPrepared(db, active)
    BY <1>1, <2>1, UpdateTaskType, UpdateRunPrepared, UpdateTaskPrepared DEF TaskState
  <2>3. db' = BeginCardRun(active, job[j].run) /\ prep' = prep
    BY <1>3 DEF BeginWork
  <2> HIDE DEF running, active
  <2>4. QED
    BY <2>2, <2>3, BeginCardRunRuns DEF NoNewPrepared
<1>4. CASE ContinuePass(j)
  BY <1>1, <1>2, <1>4, UpdateTaskPrepared DEF ContinuePass
<1>5. CASE Activity(j)
  BY <1>2, <1>5 DEF Activity, volatile
<1>6. ASSUME NEW status \in {"completed", "failed", "canceled"}, NEW s \in TaskState,
             FinishPass(j, status, s) \/ Recover(j, status, s)
      PROVE  NoNewPrepared(db, db') /\ prep' = prep
  BY <1>6, FinishPrepared DEF FinishPass, Recover, RunStatus
<1>7. CASE FinishOverrun(j)
  BY <1>7, FinishPrepared DEF FinishOverrun, RunStatus, TaskState
<1>8. CASE StallWrites(j)
  <2>1. PICK v \in Verdict :
          db' = UpdateTask(FinishRun(db, job[j].run, "stalled", FreshProof, v),
                           TaskOfJob(j), "terminal_blocker")
    BY <1>8 DEF StallWrites
  <2>2. "stalled" \in RunStatus /\ "terminal_blocker" \in TaskState
    BY DEF RunStatus, TaskState
  <2>3. QED
    BY <1>8, <2>1, <2>2, EndingPrepared DEF StallWrites
<1>9. CASE BudgetWrites(j)
  BY <1>2, <1>9 DEF BudgetWrites
<1>10. CASE CheckBlocked(j) \/ StartThrows(j) \/ CollectThrows(j) \/ OverrunThrows(j)
              \/ Reviewed(j) \/ ReviewThrows(j) \/ StallFires(j) \/ BudgetElapses(j)
  BY <1>1, <1>10 DEF CheckBlocked, StartThrows, CollectThrows, OverrunThrows, Reviewed,
                     ReviewThrows, StallFires, BudgetElapses
<1>11. ASSUME NEW threw \in BOOLEAN, SendEnds(j, threw)
       PROVE  NoNewPrepared(db, db') /\ prep' = prep
  BY <1>1, <1>11 DEF SendEnds
<1>12. QED
  BY <1>3, <1>4, <1>5, <1>6, <1>7, <1>8, <1>9, <1>10, <1>11
  DEF StartStep, AgentStep, PassStep, EndStep, MonitorStep

LEMMA OthersPrepare ==
  ASSUME TypeOK
  PROVE  /\ \A r \in Run : JudgmentEnds(r) \/ CancelWrites(r) \/ CancelRun(r)
               => NoNewPrepared(db, db') /\ prep' = prep
         /\ \A j \in Job, r \in Run : UserStart(j, r)
               => NoNewPrepared(db, db') /\ prep' = prep
         /\ \A t \in Task, s \in UserState : UserUpdateTask(t, s)
               => NoNewPrepared(db, db') /\ prep' = prep
<1>1. db \in Database /\ NoNewPrepared(db, db)
  BY DEF TypeOK, NoNewPrepared
<1>2. ASSUME NEW r \in Run, JudgmentEnds(r)
      PROVE  NoNewPrepared(db, db') /\ prep' = prep
  BY <1>1, <1>2, ReviewProofPrepared DEF JudgmentEnds
<1>3. ASSUME NEW r \in Run, CancelWrites(r)
      PROVE  NoNewPrepared(db, db') /\ prep' = prep
  <2>1. db.run[r].proof \in Proof
    BY <1>1 DEF Database, Row
  <2>2. PICK v \in Verdict : db' = FinishRun(db, r, "canceled", db.run[r].proof, v)
    BY <1>3 DEF CancelWrites
  <2>3. "canceled" \in RunStatus
    BY DEF RunStatus
  <2>4. QED
    BY <1>1, <1>3, <2>1, <2>2, <2>3, FinishRunPrepared DEF CancelWrites
<1>4. ASSUME NEW r \in Run, CancelRun(r)
      PROVE  NoNewPrepared(db, db') /\ prep' = prep
  BY <1>1, <1>4 DEF CancelRun
<1>5. ASSUME NEW j \in Job, NEW r \in Run, UserStart(j, r)
      PROVE  NoNewPrepared(db, db') /\ prep' = prep
  BY <1>1, <1>5 DEF UserStart, StartRun
<1>6. ASSUME NEW t \in Task, NEW s \in UserState, UserUpdateTask(t, s)
      PROVE  NoNewPrepared(db, db') /\ prep' = prep
  BY <1>1, <1>6, UpdateTaskPrepared DEF UserUpdateTask, volatile
<1>7. QED
  BY <1>2, <1>3, <1>4, <1>5, <1>6

LEMMA PreparedKept ==
  ASSUME TypeOK, PreparedInv, NoNewPrepared(db, db'),
         \A p \in Preparer : prep'[p] = prep[p] \/ prep'[p].pc # "recording"
  PROVE  PreparedInv'
  BY DEF PreparedInv, PreparedOnce, NoNewPrepared, RunsIn, TasksIn, TaskOf

\* A selected task is neither prepared nor running.
LEMMA SelectedIsUnclaimed ==
  ASSUME NEW pool, NEW states, NEW claims, NEW sel, IsSelection(sel, pool, states, claims)
  PROVE  sel \cap claims.claimed = {}
  BY DEF IsSelection, SkipReason

LEMMA PreparationKeepsPrepared ==
  ASSUME \A p, q \in Preparer : p = q,
         TypeOK, PreparedInv, NEW p \in Preparer, PrepareStep(p) \/ UserPrepare(p)
  PROVE  PreparedInv'
<1>0. NoNewPrepared(db, db) /\ IdlePrep.pc = "idle" /\ IdlePrep \in PrepRecord
  BY DEF NoNewPrepared, IdlePrep, PrepRecord, TaskState
<1>1. CASE PrepareThrows(p) \/ UserPrepare(p)
  <2>1. db' = db /\ \A q \in Preparer : prep'[q] = prep[q] \/ prep'[q].pc # "recording"
    <3>1. ASSUME NEW row \in PrepRecord, row.pc # "recording", prep' = [prep EXCEPT ![p] = row]
          PROVE  \A q \in Preparer : prep'[q] = prep[q] \/ prep'[q].pc # "recording"
      BY <3>1 DEF TypeOK
    <3>2. CASE PrepareThrows(p)
      BY <1>0, <3>1, <3>2 DEF PrepareThrows
    <3>3. CASE UserPrepare(p)
      <4> DEFINE row == [IdlePrep EXCEPT !.pc = "listed", !.seen = db.state]
      <4>1. row \in PrepRecord /\ row.pc # "recording"
        BY <1>0 DEF PrepRecord, TypeOK, Database
      <4>2. db' = db /\ prep' = [prep EXCEPT ![p] = row]
        BY <3>3 DEF UserPrepare, PrepareList
      <4> HIDE DEF row
      <4>3. QED
        BY <3>1, <4>1, <4>2
    <3>4. QED
      BY <1>1, <3>2, <3>3
  <2>2. QED
    BY <1>0, <2>1, PreparedKept
<1>2. CASE PrepareSelect(p)
  <2>1. PICK sel \in SUBSET Task :
          /\ IsSelection(sel, Task, prep[p].seen, Claims(db))
          /\ prep' = [prep EXCEPT ![p] =
                IF sel = {} THEN IdlePrep
                ELSE [prep[p] EXCEPT !.pc = "recording", !.queue = sel]]
    BY <1>2 DEF PrepareSelect
  <2>2. sel \cap TasksIn(db, "prepared") = {}
    BY <2>1, SelectedIsUnclaimed DEF Claims
  <2>3. db' = db
    BY <1>2 DEF PrepareSelect
  <2>4. prep[p] \in PrepRecord
    BY DEF TypeOK
  <2>5. \A q \in Preparer : prep'[q].pc = "recording" =>
            prep'[q].queue \cap TasksIn(db, "prepared") = {}
    BY <1>0, <2>1, <2>2, <2>4 DEF TypeOK, PrepRecord
  <2>6. QED
    BY <2>3, <2>5 DEF PreparedInv, PreparedOnce, TasksIn, RunsIn, TaskOf
<1>3. ASSUME NEW r \in Run, PrepareRecord(p, r)
      PROVE  PreparedInv'
  <2>1. PICK t \in prep[p].queue :
          /\ db' = InsertRun(db, r, t)
          /\ prep' = [prep EXCEPT ![p] =
                IF prep[p].queue \ {t} = {}
                THEN [IdlePrep EXCEPT !.made = prep[p].made \cup {r}]
                ELSE [prep[p] EXCEPT !.queue = prep[p].queue \ {t},
                                     !.made = prep[p].made \cup {r}]]
    BY <1>3 DEF PrepareRecord
  <2>2. t \notin TasksIn(db, "prepared")
    BY <1>3, <2>1 DEF PrepareRecord, PreparedInv
  <2>3. \A q \in Run : db'.run[q] =
            IF q = r THEN [status |-> "prepared", task |-> t, proof |-> FreshProof]
            ELSE db.run[q]
    BY <2>1 DEF InsertRun, TypeOK, Database
  <2>4. PreparedOnce'
    BY <2>2, <2>3 DEF PreparedInv, PreparedOnce, RunsIn, TasksIn, TaskOf
  <2>5. prep[p] \in PrepRecord /\ prep[p].pc = "recording"
    BY <1>3 DEF TypeOK, PrepareRecord
  <2>6. TasksIn(db', "prepared") \subseteq TasksIn(db, "prepared") \cup {t}
    BY <2>3 DEF TasksIn, RunsIn, TaskOf
  <2>7. \A q \in Preparer : prep'[q].pc = "recording" =>
            prep'[q].queue \cap TasksIn(db', "prepared") = {}
    <3>1. prep[p].queue \cap TasksIn(db, "prepared") = {}
      BY <2>5 DEF PreparedInv
    <3>2. prep'[p].pc = "recording" => prep'[p].queue = prep[p].queue \ {t}
      BY <1>0, <2>1, <2>5 DEF TypeOK, PrepRecord
    <3>3. QED
      BY <2>6, <3>1, <3>2
  <2>8. QED
    BY <2>4, <2>7 DEF PreparedInv, TasksIn, RunsIn, TaskOf
<1>4. QED
  BY <1>1, <1>2, <1>3 DEF PrepareStep

LEMMA PreparedStep ==
  ASSUME \A p, q \in Preparer : p = q, TypeOK, PreparedInv, [Next]_vars
  PROVE  PreparedInv'
<1>1. CASE \E p \in Preparer : PrepareStep(p) \/ UserPrepare(p)
  BY <1>1, PreparationKeepsPrepared
<1>2. CASE ProgramStep /\ ~(\E p \in Preparer : PrepareStep(p))
  BY <1>2, WorkerPrepares, OthersPrepare, PreparedKept DEF ProgramStep
<1>3. CASE UserStep /\ ~(\E p \in Preparer : UserPrepare(p))
  BY <1>3, OthersPrepare, PreparedKept DEF UserStep
<1>4. CASE Restart
  <2>1. NoNewPrepared(db, db')
    BY <1>4, StallActiveRunsPrepared DEF Restart, TypeOK
  <2>2. \A p \in Preparer : prep'[p].pc # "recording"
    BY <1>4 DEF Restart, IdlePrep
  <2>3. QED
    BY <2>1, <2>2, PreparedKept
<1>5. CASE UNCHANGED vars
  BY <1>5, PreparedKept DEF vars, NoNewPrepared
<1>6. QED
  BY <1>1, <1>2, <1>3, <1>4, <1>5 DEF Next, ProgramStep, UserStep

\* However runs end, restart and are edited while a preparation awaits its
\* workspaces, no task comes to wait for two prepared runs, as long as one
\* preparation is in progress at a time.  The assumption is needed: two
\* preparations that read the claims before either records a run prepare a
\* task twice.
THEOREM TasksArePreparedOnce ==
  ASSUME \A p, q \in Preparer : p = q
  PROVE  Spec => []PreparedOnce
<1>1. Init => PreparedInv
  BY DEF Init, PreparedInv, PreparedOnce, EmptyDatabase, IdlePrep, RunsIn, TasksIn
<1>2. TypeOK /\ PreparedInv /\ [Next]_vars => PreparedInv'
  BY PreparedStep
<1>3. PreparedInv => PreparedOnce
  BY DEF PreparedInv
<1>4. QED
  BY <1>1, <1>2, <1>3, TypeCorrect, PTL DEF Spec
===============================================================================
