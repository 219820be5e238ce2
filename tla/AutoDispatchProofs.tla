--------------------------- MODULE AutoDispatchProofs ---------------------------
(***************************************************************************)
(* The auto-dispatch loop, for every value of the constants.  Its steps    *)
(* are steps of OrchestrationRuns, a preparation that the loop asks for,   *)
(* or a start that the loop makes: so what was proved of the runs holds    *)
(* with the loop in charge as well.  The second half proves what only the  *)
(* loop can promise: an interrupted run is not resumed for ever, the slots *)
(* are never overdrawn, and no task is worked on twice.                    *)
(***************************************************************************)
EXTENDS AutoDispatch, OrchestrationRunsProofs, SchedulerProofs

(***************************************************************************)
(* The steps of the loop as steps of the runs.                             *)
(***************************************************************************)
\* A tick starts r in job j: the database becomes d first.
LoopStart(j, r, d) ==
    /\ IsFree(j)
    /\ IsStartable(db, r)
    /\ db' = d
    /\ job' = [job EXCEPT ![j] =
          [IdleJob EXCEPT !.pc = "loading", !.run = r, !.proof = d.run[r].proof]]
    /\ UNCHANGED <<prep, canceling, judging>>

Resumption(j, r) == IsRestartInterrupted(db, r) /\ LoopStart(j, r, RecordAutoContinue(db, r))

RunsStep ==
    \/ [Next]_vars
    \/ \E p \in Preparer : PrepareList(p)
    \/ \E j \in Job, r \in Run : LoopStart(j, r, db) \/ Resumption(j, r)

LEMMA AutoStartableRuns == AutoStartable(db) \subseteq Run
  BY DEF AutoStartable, RunsIn

LEMMA AutoContinuableRuns ==
  ASSUME NEW held
  PROVE  AutoContinuable(db, held) \subseteq Run
  BY DEF AutoContinuable

LEMMA StartInTickStep ==
  ASSUME NEW k, NEW phase, NEW rest, NEW j \in Job, NEW r \in Run,
         StartInTick(k, phase, rest, j, r)
  PROVE  UNCHANGED vars \/ LoopStart(j, r, db) \/ Resumption(j, r)
<1>1. CASE phase = "interrupted"
  BY <1>1 DEF StartInTick, LoopStart, Resumption, vars
<1>2. CASE phase # "interrupted"
  BY <1>2 DEF StartInTick, LoopStart, vars
<1>3. QED
  BY <1>1, <1>2

LEMMA StartNextStep ==
  ASSUME NEW k, NEW phase, NEW queue \in SUBSET Run, StartNext(k, phase, queue)
  PROVE  RunsStep
<1>1. CASE UNCHANGED vars
  BY <1>1 DEF RunsStep
<1>2. ASSUME NEW r \in queue, NEW j \in Job, StartInTick(k, phase, queue \ {r}, j, r)
      PROVE  RunsStep
  BY <1>2, StartInTickStep DEF RunsStep
<1>3. QED
  BY <1>1, <1>2 DEF StartNext

LEMMA TickStepStep ==
  ASSUME DispatchTypeOK, NEW k \in Tick, TickStep(k)
  PROVE  RunsStep
<1>0. k \in Preparer /\ tick[k] \in TickRecord /\ prep[k] \in PrepRecord
  BY DispatchAssumption DEF DispatchTypeOK, TypeOK
<1>1. CASE TickEnds(k) \/ TickForbidden(k) \/ TickThrows(k) \/ TickSchedules(k)
  BY <1>1 DEF TickEnds, TickForbidden, TickThrows, TickSchedules, RunsStep
<1>2. CASE TickOpens(k)
  BY <1>2, StartNextStep, AutoStartableRuns DEF TickOpens
<1>3. CASE TickContinues(k)
  <2>1. tick[k].queue \in SUBSET Run
    BY <1>0 DEF TickRecord
  <2>2. QED
    BY <1>3, <2>1, StartNextStep DEF TickContinues
<1>4. CASE TickResumesInterrupted(k)
  BY <1>4, StartNextStep, AutoContinuableRuns DEF TickResumesInterrupted
<1>5. CASE TickPrepares(k)
  BY <1>0, <1>5 DEF TickPrepares, RunsStep
<1>6. CASE TickStartsFresh(k)
  <2>1. prep[k].made \in SUBSET Run
    BY <1>0 DEF PrepRecord
  <2>2. QED
    BY <1>6, <2>1, StartNextStep DEF TickStartsFresh
<1>7. CASE PrepareFails(k)
  BY <1>0, <1>7 DEF PrepareFails, RunsStep, Next, ProgramStep, PrepareStep
<1>8. ASSUME NEW j \in Job, StartReturns(k, j) \/ StartFails(k, j)
      PROVE  RunsStep
  BY <1>8 DEF StartReturns, StartFails, RunsStep, Next, ProgramStep, StartStep
<1>9. QED
  BY <1>1, <1>2, <1>3, <1>4, <1>5, <1>6, <1>7, <1>8 DEF TickStep

LEMMA DispatchStep ==
  ASSUME DispatchTypeOK, [DispatchNext]_allvars
  PROVE  RunsStep
<1>1. CASE TimerStep \/ SwitchOff \/ SwitchOn
  BY <1>1 DEF TimerStep, TimerDropped, TickBegins, SwitchOff, SwitchOn, RunsStep
<1>2. ASSUME NEW k \in Tick, TickStep(k)
      PROVE  RunsStep
  BY <1>2, TickStepStep
<1>3. ASSUME NEW j \in Job, AgentActive(j)
      PROVE  RunsStep
  BY <1>3 DEF AgentActive, RunsStep, Next, ProgramStep
<1>4. CASE FreeStep
  BY <1>4 DEF FreeStep, RunsStep, Next, ProgramStep, PrepareStep, StartStep
<1>5. CASE DispatchRestart
  BY <1>5 DEF DispatchRestart, RunsStep, Next
<1>6. CASE UNCHANGED allvars
  BY <1>6 DEF allvars, vars, RunsStep
<1>7. QED
  BY <1>1, <1>2, <1>3, <1>4, <1>5, <1>6 DEF DispatchNext

(***************************************************************************)
(* Types.                                                                  *)
(***************************************************************************)
LEMMA RecordAutoContinueType ==
  ASSUME NEW d \in Database, NEW r \in Run
  PROVE  RecordAutoContinue(d, r) \in Database
<1>1. d.run[r] \in Row
  BY DEF Database
<1>2. [d.run[r].proof EXCEPT !.attempts = @ + 1] \in Proof /\ d.run[r].status \in RunStatus
  BY <1>1 DEF Row, Proof
<1>3. QED
  BY <1>2, UpdateRunType DEF RecordAutoContinue

LEMMA LoopStartType ==
  ASSUME TypeOK, NEW j \in Job, NEW r \in Run, NEW d \in Database, LoopStart(j, r, d)
  PROVE  TypeOK'
<1>1. d.run[r].proof \in Proof
  BY DEF Database, Row
<1>2. [IdleJob EXCEPT !.pc = "loading", !.run = r, !.proof = d.run[r].proof] \in JobRecord
  BY <1>1, IdleJobType DEF JobRecord, WorkerPc
<1>3. QED
  BY <1>2 DEF LoopStart, TypeOK

LEMMA RunsStepType ==
  ASSUME TypeOK, RunsStep
  PROVE  TypeOK'
<1>1. db \in Database
  BY DEF TypeOK
<1>2. ASSUME NEW j \in Job, NEW r \in Run, LoopStart(j, r, db) \/ Resumption(j, r)
      PROVE  TypeOK'
  BY <1>1, <1>2, LoopStartType, RecordAutoContinueType DEF Resumption
<1>3. QED
  BY <1>2, TypeStep, PrepareStepType DEF RunsStep

LoopTypes ==
    /\ dispatch \in [enabled : BOOLEAN, inFlight : BOOLEAN, timer : BOOLEAN]
    /\ tick \in [Tick -> TickRecord]
    /\ resumed \in [Run -> 0..AutoContinueLimit + 1]

LEMMA GotoTickType ==
  ASSUME LoopTypes, NEW k \in Tick, NEW pc \in TickPc, GotoTick(k, pc)
  PROVE  tick' \in [Tick -> TickRecord]
  BY DEF LoopTypes, GotoTick, IdleTick, TickRecord

LEMMA StartNextType ==
  ASSUME LoopTypes, NEW k \in Tick, NEW phase \in TickPc, NEW queue \in SUBSET Run,
         StartNext(k, phase, queue)
  PROVE  LoopTypes'
<1>1. "failing" \in TickPc
  BY DEF TickPc
<1>2. ASSUME GotoTick(k, phase) \/ GotoTick(k, "failing"), UNCHANGED <<dispatch, resumed>>
      PROVE  LoopTypes'
  BY <1>1, <1>2, GotoTickType DEF LoopTypes
<1>3. ASSUME NEW r \in queue, NEW j \in Job \cup {NoJob},
             tick' = [tick EXCEPT ![k] = [pc |-> phase, queue |-> queue \ {r}, job |-> j]]
      PROVE  tick' \in [Tick -> TickRecord]
  BY <1>3 DEF LoopTypes, TickRecord
<1>4. ASSUME NEW r \in Run
      PROVE  [resumed EXCEPT ![r] = Bump(@)] \in [Run -> 0..AutoContinueLimit + 1]
  BY DispatchAssumption DEF LoopTypes, Bump
<1>5. ASSUME NEW r \in queue, NEW j \in Job, StartInTick(k, phase, queue \ {r}, j, r)
      PROVE  LoopTypes'
  BY <1>2, <1>3, <1>4, <1>5 DEF StartInTick, LoopTypes
<1>6. QED
  BY <1>2, <1>3, <1>5 DEF StartNext, LoopTypes

LEMMA TickStepType ==
  ASSUME DispatchTypeOK, NEW k \in Tick, TickStep(k)
  PROVE  LoopTypes'
<1>0. k \in Preparer /\ tick[k] \in TickRecord /\ prep[k] \in PrepRecord /\ LoopTypes
  BY DispatchAssumption DEF DispatchTypeOK, TypeOK, LoopTypes
<1>1. {"idle", "failing", "prepared", "interrupted", "preparing", "fresh", "scheduled"} \subseteq TickPc
  BY DEF TickPc
<1>2. [Schedule(dispatch) EXCEPT !.inFlight = FALSE]
        \in [enabled : BOOLEAN, inFlight : BOOLEAN, timer : BOOLEAN]
  BY <1>0 DEF LoopTypes, Schedule
<1>3. CASE TickEnds(k) \/ TickForbidden(k)
  BY <1>0, <1>1, <1>2, <1>3, GotoTickType DEF TickEnds, TickForbidden, LoopTypes
<1>4. CASE TickThrows(k) \/ TickPrepares(k) \/ TickSchedules(k) \/ PrepareFails(k)
  BY <1>0, <1>1, <1>4, GotoTickType DEF TickThrows, TickPrepares, TickSchedules, PrepareFails, LoopTypes
<1>5. CASE TickOpens(k)
  BY <1>0, <1>1, <1>5, StartNextType, AutoStartableRuns DEF TickOpens
<1>6. CASE TickContinues(k)
  <2>1. tick[k].queue \in SUBSET Run /\ tick[k].pc \in TickPc
    BY <1>0 DEF TickRecord
  <2>2. QED
    BY <1>0, <1>6, <2>1, StartNextType DEF TickContinues
<1>7. CASE TickResumesInterrupted(k)
  BY <1>0, <1>1, <1>7, StartNextType, AutoContinuableRuns DEF TickResumesInterrupted
<1>8. CASE TickStartsFresh(k)
  <2>1. prep[k].made \in SUBSET Run
    BY <1>0 DEF PrepRecord
  <2>2. QED
    BY <1>0, <1>1, <1>8, <2>1, StartNextType DEF TickStartsFresh
<1>9. ASSUME NEW j \in Job, StartReturns(k, j) \/ StartFails(k, j)
      PROVE  LoopTypes'
  <2>1. CASE StartReturns(k, j)
    BY <1>0, <2>1 DEF StartReturns, LoopTypes, TickRecord
  <2>2. CASE StartFails(k, j)
    BY <1>0, <1>1, <2>2, GotoTickType DEF StartFails, LoopTypes
  <2>3. QED
    BY <1>9, <2>1, <2>2
<1>10. QED
  BY <1>3, <1>4, <1>5, <1>6, <1>7, <1>8, <1>9 DEF TickStep

LEMMA DispatchTypeStep ==
  ASSUME DispatchTypeOK, [DispatchNext]_allvars
  PROVE  DispatchTypeOK'
<1>0. TypeOK /\ LoopTypes
  BY DEF DispatchTypeOK, LoopTypes
<1>1. TypeOK'
  BY <1>0, DispatchStep, RunsStepType
<1>2. LoopTypes'
  <2>1. CASE TimerStep \/ SwitchOff \/ SwitchOn
    <3>1. "opening" \in TickPc
      BY DEF TickPc
    <3>2. ASSUME NEW k \in Tick, TickBegins(k)
          PROVE  LoopTypes'
      BY <1>0, <3>1, <3>2, GotoTickType DEF TickBegins, LoopTypes
    <3>3. CASE TimerDropped \/ SwitchOn
      BY <1>0, <3>3 DEF TimerDropped, SwitchOn, LoopTypes
    <3>4. CASE SwitchOff
      BY <1>0, <3>4 DEF SwitchOff, LoopTypes
    <3>5. QED
      BY <2>1, <3>2, <3>3, <3>4 DEF TimerStep
  <2>2. CASE \E k \in Tick : TickStep(k)
    BY <2>2, TickStepType
  <2>3. ASSUME NEW j \in Job, AgentActive(j)
        PROVE  LoopTypes'
    <3>1. 0 \in 0..AutoContinueLimit + 1
      BY DispatchAssumption
    <3>2. QED
      BY <1>0, <2>3, <3>1 DEF AgentActive, LoopTypes
  <2>4. CASE FreeStep \/ UNCHANGED allvars
    BY <1>0, <2>4 DEF FreeStep, allvars, dvars, LoopTypes
  <2>5. CASE DispatchRestart
    <3>1. IdleTick \in TickRecord
      BY DEF IdleTick, TickRecord, TickPc
    <3>2. QED
      BY <1>0, <2>5, <3>1 DEF DispatchRestart, LoopTypes
  <2>6. QED
    BY <2>1, <2>2, <2>3, <2>4, <2>5 DEF DispatchNext
<1>3. QED
  BY <1>1, <1>2 DEF DispatchTypeOK, LoopTypes

LEMMA DispatchInitType == DispatchInit => DispatchTypeOK
  BY TypeInit, DispatchAssumption
  DEF DispatchInit, DispatchTypeOK, IdleTick, TickRecord, TickPc

\* Every reachable state of the loop has its types, and those of the runs it
\* starts: an awaited start is a job, a queue holds runs, and the observer of
\* resumptions stays within its bound.
THEOREM DispatchTypeCorrect == DispatchSpec => []DispatchTypeOK
<1>1. DispatchInit => DispatchTypeOK
  BY DispatchInitType
<1>2. DispatchTypeOK /\ [DispatchNext]_allvars => DispatchTypeOK'
  BY DispatchTypeStep
<1>3. QED
  BY <1>1, <1>2, PTL DEF DispatchSpec

(***************************************************************************)
(* What was proved of the runs holds with the loop in charge: its starts   *)
(* change a job that is free, and at most the count in one row's proof.    *)
(***************************************************************************)
LEMMA RunsStepClosed ==
  ASSUME TypeOK, Closed(db), RunsStep
  PROVE  Closed(db')
<1>1. ASSUME NEW j \in Job, NEW r \in Run, LoopStart(j, r, db) \/ Resumption(j, r)
      PROVE  Closed(db')
  BY <1>1, UpdateRunClosed DEF LoopStart, Resumption, RecordAutoContinue, TypeOK
<1>2. ASSUME NEW p \in Preparer, PrepareList(p)
      PROVE  Closed(db')
  BY <1>2 DEF PrepareList
<1>3. QED
  BY <1>1, <1>2, ClosedStep DEF RunsStep

\* A card that counts as done stays settled whatever the loop starts, resumes
\* and prepares while it is switched off and on.
THEOREM LoopKeepsCardsSettled == DispatchSpec => []ClosedIsSettled
<1>1. DispatchInit => ClosedIsSettled
  BY StoreAssumption DEF DispatchInit, Init, EmptyDatabase, ClosedIsSettled, ClosedTasks
<1>2. DispatchTypeOK /\ ClosedIsSettled /\ [DispatchNext]_allvars => ClosedIsSettled'
  <2> SUFFICES ASSUME DispatchTypeOK, ClosedIsSettled, [DispatchNext]_allvars
               PROVE  ClosedIsSettled'
    OBVIOUS
  <2>1. TypeOK /\ RunsStep /\ Closed(db)
    BY DispatchStep DEF DispatchTypeOK, Closed, ClosedIsSettled
  <2>2. Closed(db')
    BY <2>1, RunsStepClosed
  <2>3. QED
    BY <2>2 DEF Closed, ClosedIsSettled, ClosedTasks
<1>3. QED
  BY <1>1, <1>2, DispatchTypeCorrect, PTL DEF DispatchSpec

LEMMA LoopStartKeepsWorkers ==
  ASSUME TypeOK, WorkerInv, NEW j \in Job, NEW r \in Run, NEW d, LoopStart(j, r, d),
         \A q \in Run : IsRunning(d, q) => IsRunning(db, q)
  PROVE  WorkerInv'
<1> DEFINE w == [IdleJob EXCEPT !.pc = "loading", !.run = r, !.proof = d.run[r].proof]
<1>1. Unwatched(w) /\ job' = [job EXCEPT ![j] = w]
  BY DEF LoopStart, Unwatched, IdleJob
<1>2. \A q \in Run : q # job[j].run
  BY StoreAssumption DEF LoopStart, IsFree, NoRun
<1>3. db' = d
  BY DEF LoopStart
<1> HIDE DEF w
<1>4. QED
  BY <1>1, <1>2, <1>3, JobBecomes

LEMMA RunsStepKeepsWorkers ==
  ASSUME BoardTask = {}, StallMonitor => MaxPasses = 1, TypeOK, WorkerInv, RunsStep
  PROVE  WorkerInv'
<1>0. db \in Database
  BY DEF TypeOK
<1>1. ASSUME NEW j \in Job, NEW r \in Run, LoopStart(j, r, db)
      PROVE  WorkerInv'
  BY <1>1, LoopStartKeepsWorkers
<1>2. ASSUME NEW j \in Job, NEW r \in Run, Resumption(j, r)
      PROVE  WorkerInv'
  <2>1. \A q \in Run : IsRunning(RecordAutoContinue(db, r), q) => IsRunning(db, q)
    BY <1>0, UpdateRunStatus DEF RecordAutoContinue, IsRunning
  <2>2. QED
    BY <1>2, <2>1, LoopStartKeepsWorkers DEF Resumption
<1>3. ASSUME NEW p \in Preparer, PrepareList(p)
      PROVE  WorkerInv'
  BY <1>3, JobsKept DEF PrepareList
<1>4. QED
  BY <1>1, <1>2, <1>3, WorkerStep DEF RunsStep

\* A row that says "running" keeps a worker that will write its end, also when
\* it is the loop that starts and resumes runs.
THEOREM LoopRunsAreAttended ==
  ASSUME BoardTask = {}, StallMonitor => MaxPasses = 1
  PROVE  DispatchSpec => []RunningHasWorker
<1>1. DispatchInit => WorkerInv
  BY DEF DispatchInit, Init, WorkerInv, Unwatched, IdleJob, EmptyDatabase, RunningHasWorker, RunsIn
<1>2. DispatchTypeOK /\ WorkerInv /\ [DispatchNext]_allvars => WorkerInv'
  BY DispatchStep, RunsStepKeepsWorkers DEF DispatchTypeOK
<1>3. WorkerInv => RunningHasWorker
  BY DEF WorkerInv
<1>4. QED
  BY <1>1, <1>2, <1>3, DispatchTypeCorrect, PTL DEF DispatchSpec

LEMMA RunsStepKeepsPrepared ==
  ASSUME \A p, q \in Preparer : p = q, TypeOK, PreparedInv, RunsStep
  PROVE  PreparedInv'
<1>0. db \in Database /\ NoNewPrepared(db, db)
  BY DEF TypeOK, NoNewPrepared
<1>1. ASSUME NEW j \in Job, NEW r \in Run, LoopStart(j, r, db)
      PROVE  PreparedInv'
  BY <1>0, <1>1, PreparedKept DEF LoopStart
<1>2. ASSUME NEW j \in Job, NEW r \in Run, Resumption(j, r)
      PROVE  PreparedInv'
  <2>1. db.run[r].status # "prepared" /\ prep' = prep /\ db' = RecordAutoContinue(db, r)
    BY <1>2 DEF Resumption, LoopStart, IsRestartInterrupted
  <2>2. NoNewPrepared(db, db')
    BY <1>0, <2>1, UpdateRunPrepared DEF RecordAutoContinue
  <2>3. QED
    BY <2>1, <2>2, PreparedKept
<1>3. ASSUME NEW p \in Preparer, PrepareList(p)
      PROVE  PreparedInv'
  <2>1. db' = db /\ \A q \in Preparer : prep'[q] = prep[q] \/ prep'[q].pc # "recording"
    BY <1>3 DEF PrepareList, TypeOK, IdlePrep
  <2>2. QED
    BY <1>0, <2>1, PreparedKept
<1>4. QED
  BY <1>1, <1>2, <1>3, PreparedStep DEF RunsStep

\* ... and no task comes to wait for two prepared runs, as long as there is one
\* preparer: the one tick of the loop, or the user.
THEOREM LoopPreparesOnce ==
  ASSUME \A p, q \in Preparer : p = q
  PROVE  DispatchSpec => []PreparedOnce
<1>1. DispatchInit => PreparedInv
  BY DEF DispatchInit, Init, PreparedInv, PreparedOnce, EmptyDatabase, IdlePrep, RunsIn, TasksIn
<1>2. DispatchTypeOK /\ PreparedInv /\ [DispatchNext]_allvars => PreparedInv'
  BY DispatchStep, RunsStepKeepsPrepared DEF DispatchTypeOK
<1>3. PreparedInv => PreparedOnce
  BY DEF PreparedInv
<1>4. QED
  BY <1>1, <1>2, <1>3, DispatchTypeCorrect, PTL DEF DispatchSpec

(***************************************************************************)
(* What the steps do to the rows when there is no project board: a step    *)
(* writes the row of one run at most.                                      *)
(***************************************************************************)
Final == {"completed", "failed", "canceled", "stalled"}

RowWritten(d, e, r, s, p) ==
    \A q \in Run : e.run[q] = IF q = r THEN [status |-> s, task |-> d.run[q].task, proof |-> p]
                              ELSE d.run[q]

WritesRow(r, S, p) == \E s \in S : RowWritten(db, db', r, s, p)
KeepsRows == \A q \in Run : db'.run[q] = db.run[q]
KeepsStatesBut(t) == \A u \in Task : u # t => db'.state[u] = db.state[u]

Starting(w) == w.pc \in {"loading", "importing"}
Started(w) == w.run # NoRun /\ ~Starting(w)

\* The worker's agent is at work and nothing has written the end of the run.
Working(w) == w.pc \in {"sending", "collecting"} /\ ~Overdue(w.stall)

\* A step of the worker of j, once it was started.
JobMove(j) ==
    /\ ~Starting(job[j]) /\ ~Starting(job'[j])
    /\ job'[j].run \in {job[j].run, NoRun}
    /\ Unwatched(job'[j])
    /\ \A i \in Job \ {j} : job'[i] = job[i]

WorkerMove(j) ==
    /\ JobMove(j)
    /\ UNCHANGED <<prep, canceling>>
    /\ KeepsStatesBut(TaskOfJob(j))
    /\ \/ KeepsRows /\ (Working(job'[j]) => Working(job[j]))
       \/ WritesRow(job[j].run, Final, FreshProof) /\ ~Working(job'[j])

AgentMove(j) ==
    /\ JobMove(j)
    /\ UNCHANGED <<prep, canceling>>
    /\ KeepsStatesBut(TaskOfJob(j))
    /\ WritesRow(job[j].run, {"running"}, FreshProof)
    /\ StallMonitor => MaxPasses > 1 \/ Working(job[j])
    /\ ~StallMonitor => Working(job[j])

LEMMA UpdateRunRows ==
  ASSUME BoardTask = {}, NEW d \in Database, NEW r, NEW s, NEW p
  PROVE  /\ RowWritten(d, UpdateRun(d, r, s, p), r, s, p)
         /\ UpdateRun(d, r, s, p).state = d.state
  BY DEF RowWritten, UpdateRun, IsFrozen, ClosedTasks, Database, Row

LEMMA FinishRunRows ==
  ASSUME BoardTask = {}, NEW d, NEW r, NEW s, NEW p, NEW v
  PROVE  FinishRun(d, r, s, p, v) = UpdateRun(d, r, s, p)
  BY DEF FinishRun, ReviewProof, UpdateRun, IsFrozen, ClosedTasks

LEMMA UpdateTaskStates ==
  ASSUME BoardTask = {}, NEW d \in Database, NEW t, NEW s
  PROVE  UpdateTask(d, t, s).state = [d.state EXCEPT ![t] = s]
  BY DEF UpdateTask, SyncCards, ClosedTasks, Database

LEMMA BeginCardRunRows ==
  ASSUME BoardTask = {}, NEW d, NEW r
  PROVE  BeginCardRun(d, r) = d
  BY DEF BeginCardRun

\* A write to run r and then to task t, as the end of a run and its start make them.
LEMMA RunThenTask ==
  ASSUME BoardTask = {}, TypeOK, NEW r, NEW s \in RunStatus, NEW p \in Proof,
         NEW t, NEW u \in TaskState, db' = UpdateTask(UpdateRun(db, r, s, p), t, u)
  PROVE  RowWritten(db, db', r, s, p) /\ KeepsStatesBut(t)
<1>1. db \in Database /\ UpdateRun(db, r, s, p) \in Database
  BY UpdateRunType DEF TypeOK
<1>2. db'.run = UpdateRun(db, r, s, p).run
  BY <1>1, UpdateTaskRuns
<1>3. db'.state = [db.state EXCEPT ![t] = u]
  <2> DEFINE e == UpdateRun(db, r, s, p)
  <2>1. e \in Database /\ e.state = db.state /\ db' = UpdateTask(e, t, u)
    BY <1>1, UpdateRunRows
  <2> HIDE DEF e
  <2>2. QED
    BY <2>1, UpdateTaskStates
<1>4. RowWritten(db, UpdateRun(db, r, s, p), r, s, p)
  BY <1>1, UpdateRunRows
<1>5. db.state \in [Task -> TaskState]
  BY <1>1 DEF Database
<1>6. QED
  BY <1>2, <1>3, <1>4, <1>5 DEF RowWritten, KeepsStatesBut

LEMMA ProgressRows ==
  ASSUME BoardTask = {}, TypeOK, NEW r, db' = Progress(db, r)
  PROVE  RowWritten(db, db', r, "running", FreshProof) /\ \A t : KeepsStatesBut(t)
<1>1. db \in Database
  BY DEF TypeOK
<1>2. QED
  BY <1>1, UpdateRunRows DEF Progress, KeepsStatesBut

(***************************************************************************)
(* The steps of a worker.                                                  *)
(***************************************************************************)
LEMMA BecomesMove ==
  ASSUME TypeOK, NEW j \in Job, NEW w, job' = [job EXCEPT ![j] = w],
         ~Starting(job[j]), ~Starting(w), w.run \in {job[j].run, NoRun}, Unwatched(w)
  PROVE  JobMove(j) /\ job'[j] = w
  BY DEF TypeOK, JobMove

LEMMA GotoMove ==
  ASSUME TypeOK, NEW j \in Job, Unwatched(job[j]), ~Starting(job[j]),
         NEW pc \in WorkerPc \ {"loading", "importing"}, Goto(j, pc)
  PROVE  JobMove(j) /\ job'[j] = [job[j] EXCEPT !.pc = pc]
<1> DEFINE w == [job[j] EXCEPT !.pc = pc]
<1>1. job[j] \in JobRecord
  BY DEF TypeOK
<1>2. ~Starting(w) /\ w.run = job[j].run /\ Unwatched(w)
  BY <1>1 DEF Starting, Unwatched, JobRecord
<1>3. job' = [job EXCEPT ![j] = w]
  BY DEF Goto
<1> HIDE DEF w
<1>4. JobMove(j) /\ job'[j] = w
  BY <1>2, <1>3, BecomesMove
<1>5. QED
  BY <1>4 DEF w

LEMMA StoppedMove ==
  ASSUME NEW w \in JobRecord, Unwatched(w)
  PROVE  /\ ~Starting(Stopped(w)) /\ ~Working(Stopped(w))
         /\ Stopped(w).run \in {w.run, NoRun}
         /\ Unwatched(Stopped(w))
  BY DEF Stopped, Stop, Unwatched, Starting, Working, IdleJob, JobRecord

LEMMA ReturnMove ==
  ASSUME TypeOK, NEW j \in Job, Unwatched(job[j]), ~Starting(job[j]), Return(j)
  PROVE  JobMove(j) /\ ~Working(job'[j])
<1>1. job[j] \in JobRecord
  BY DEF TypeOK
<1>2. QED
  BY <1>1, StoppedMove, BecomesMove DEF Return

LEMMA CatchMove ==
  ASSUME TypeOK, NEW j \in Job, Unwatched(job[j]), ~Starting(job[j]), Catch(j)
  PROVE  JobMove(j) /\ ~Working(job'[j])
<1>1. CASE Stalled(j)
  BY <1>1, ReturnMove DEF Catch
<1>2. CASE ~Stalled(j)
  <2>1. JobMove(j) /\ job'[j] = [job[j] EXCEPT !.pc = "recovering"]
    BY <1>2, GotoMove DEF Catch, WorkerPc
  <2>2. job[j] \in JobRecord
    BY DEF TypeOK
  <2>3. QED
    BY <2>1, <2>2 DEF Working, JobRecord
<1>3. QED
  BY <1>1, <1>2

LEMMA FinishMove ==
  ASSUME BoardTask = {}, TypeOK, NEW j \in Job, Unwatched(job[j]), ~Starting(job[j]),
         NEW s \in Final, NEW t \in TaskState, NEW pc \in {"reviewing", "closing"},
         Finish(j, s, t, pc)
  PROVE  WorkerMove(j)
<1>1. JobMove(j) /\ job'[j] = [job[j] EXCEPT !.pc = pc]
  BY GotoMove DEF Finish, WorkerPc
<1>2. ~Working(job'[j])
  BY <1>1 DEF Working, TypeOK, JobRecord
<1>3. db' = UpdateTask(UpdateRun(db, job[j].run, s, FreshProof), TaskOfJob(j), t)
  BY FinishRunRows DEF Finish
<1>4. RowWritten(db, db', job[j].run, s, FreshProof) /\ KeepsStatesBut(TaskOfJob(j))
  BY <1>3, RunThenTask, FreshProofType DEF Final, RunStatus
<1>5. QED
  BY <1>1, <1>2, <1>4 DEF WorkerMove, WritesRow, Finish

\* Job j moves and the store is not written.
LEMMA StoreKept ==
  ASSUME NEW j \in Job, JobMove(j), UNCHANGED <<db, prep, canceling>>,
         Working(job'[j]) => Working(job[j])
  PROVE  WorkerMove(j)
  BY DEF WorkerMove, KeepsRows, KeepsStatesBut

LEMMA PassMove ==
  ASSUME BoardTask = {}, TypeOK, NEW j \in Job, Unwatched(job[j]), PassStep(j)
  PROVE  WorkerMove(j)
<1>0. ~Starting(job[j]) /\ job[j] \in JobRecord
  BY DEF PassStep, SendEnds, FinishPass, CollectThrows, Starting, TypeOK
<1>1. ASSUME NEW threw \in BOOLEAN, SendEnds(j, threw)
      PROVE  WorkerMove(j)
  <2>1. CASE Stalled(j)
    BY <1>0, <1>1, <2>1, ReturnMove, StoreKept DEF SendEnds
  <2>2. CASE ~Stalled(j)
    <3>1. PICK pc \in {"overrun", "recovering", "collecting"} : Goto(j, pc)
      BY <1>1, <2>2 DEF SendEnds
    <3>2. JobMove(j)
      BY <1>0, <3>1, GotoMove DEF WorkerPc
    <3>3. Working(job[j])
      BY <1>1, <2>2 DEF Working, SendEnds, Stalled
    <3>4. QED
      BY <1>1, <3>2, <3>3, StoreKept DEF SendEnds
  <2>3. QED
    BY <2>1, <2>2
<1>2. ASSUME NEW status \in {"completed", "failed", "canceled"}, NEW s \in TaskState,
             FinishPass(j, status, s)
      PROVE  WorkerMove(j)
  BY <1>0, <1>2, FinishMove DEF FinishPass, Final
<1>3. CASE CollectThrows(j)
  BY <1>0, <1>3, CatchMove, StoreKept DEF CollectThrows
<1>4. QED
  BY <1>1, <1>2, <1>3 DEF PassStep

LEMMA EndMove ==
  ASSUME BoardTask = {}, TypeOK, NEW j \in Job, Unwatched(job[j]), EndStep(j)
  PROVE  WorkerMove(j)
<1>0. ~Starting(job[j])
  BY DEF EndStep, Recover, FinishOverrun, OverrunThrows, Reviewed, ReviewThrows, Starting
<1>1. ASSUME NEW status \in {"completed", "failed"}, NEW s \in TaskState,
             Recover(j, status, s)
      PROVE  WorkerMove(j)
  BY <1>0, <1>1, FinishMove DEF Recover, Final
<1>2. CASE FinishOverrun(j)
  BY <1>0, <1>2, FinishMove DEF FinishOverrun, Final, TaskState
<1>3. CASE Reviewed(j)
  BY <1>0, <1>3, ReturnMove, StoreKept DEF Reviewed
<1>4. CASE ReviewThrows(j)
  BY <1>0, <1>4, ReturnMove, CatchMove, StoreKept DEF ReviewThrows
<1>5. CASE OverrunThrows(j)
  BY <1>0, <1>5, CatchMove, StoreKept DEF OverrunThrows
<1>6. QED
  BY <1>1, <1>2, <1>3, <1>4, <1>5 DEF EndStep

LEMMA MonitorMove ==
  ASSUME BoardTask = {}, TypeOK, NEW j \in Job, Unwatched(job[j]), MonitorStep(j)
  PROVE  WorkerMove(j)
<1>0. job[j] \in JobRecord
  BY DEF TypeOK
<1>1. CASE StallFires(j)
  <2> DEFINE w == [job[j] EXCEPT !.stall = "aborting"]
  <2>1. ~Starting(job[j]) /\ ~Starting(w) /\ w.run = job[j].run /\ Unwatched(w) /\ ~Working(w)
    BY <1>0, <1>1 DEF StallFires, Starting, Unwatched, Working, Overdue, JobRecord
  <2>2. job' = [job EXCEPT ![j] = w]
    BY <1>1 DEF StallFires
  <2> HIDE DEF w
  <2>3. JobMove(j) /\ ~Working(job'[j])
    BY <2>1, <2>2, BecomesMove
  <2>4. QED
    BY <1>1, <2>3, StoreKept DEF StallFires
<1>2. CASE StallWrites(j)
  <2> DEFINE v == [job[j] EXCEPT !.stall = "fired"]
             w == Settled(v)
  <2>1. v \in JobRecord /\ Unwatched(v) /\ ~Starting(job[j]) /\ ~Starting(v) /\ ~Working(v)
          /\ v.run = job[j].run
    BY <1>0, <1>2 DEF StallWrites, Starting, Unwatched, Working, Overdue, JobRecord, Monitor
  <2>2. job' = [job EXCEPT ![j] = w]
    BY <1>2 DEF StallWrites
  <2> HIDE DEF v
  <2>3. ~Starting(w) /\ ~Working(w) /\ w.run \in {job[j].run, NoRun} /\ Unwatched(w)
    BY <2>1, StoppedMove DEF Settled
  <2> HIDE DEF w
  <2>4. JobMove(j) /\ ~Working(job'[j])
    BY <2>1, <2>2, <2>3, BecomesMove
  <2>5. db' = UpdateTask(UpdateRun(db, job[j].run, "stalled", FreshProof), TaskOfJob(j),
                         "terminal_blocker")
    BY <1>2, FinishRunRows DEF StallWrites
  <2>6. "stalled" \in RunStatus /\ "terminal_blocker" \in TaskState /\ "stalled" \in Final
    BY DEF RunStatus, TaskState, Final
  <2>7. RowWritten(db, db', job[j].run, "stalled", FreshProof) /\ KeepsStatesBut(TaskOfJob(j))
    BY <2>5, <2>6, RunThenTask, FreshProofType
  <2>8. QED
    BY <1>2, <2>4, <2>6, <2>7 DEF WorkerMove, WritesRow, StallWrites
<1>3. ~BudgetElapses(j) /\ ~BudgetWrites(j)
  BY DEF BudgetElapses, BudgetWrites, Unwatched
<1>4. QED
  BY <1>1, <1>2, <1>3 DEF MonitorStep

LEMMA AgentStepMove ==
  ASSUME BoardTask = {}, TypeOK, NEW j \in Job, Unwatched(job[j]), AgentStep(j)
  PROVE  AgentMove(j)
<1>0. job[j] \in JobRecord /\ ~Starting(job[j])
  BY DEF TypeOK, AgentStep, Activity, ContinuePass, Starting
<1>1. CASE Activity(j)
  <2>1. JobMove(j)
    BY <1>0, <1>1 DEF Activity, volatile, JobMove
  <2>2. WritesRow(job[j].run, {"running"}, FreshProof) /\ KeepsStatesBut(TaskOfJob(j))
    BY <1>1, ProgressRows DEF Activity, WritesRow
  <2>3. Working(job[j])
    BY <1>1 DEF Activity, Working, Stalled
  <2>4. QED
    BY <1>1, <2>1, <2>2, <2>3 DEF AgentMove, Activity, volatile
<1>2. CASE ContinuePass(j)
  <2> DEFINE w == [job[j] EXCEPT !.pc = "sending", !.pass = @ + 1]
  <2>1. ~Starting(w) /\ w.run = job[j].run /\ Unwatched(w)
    BY <1>0 DEF Starting, Unwatched, JobRecord
  <2>2. job' = [job EXCEPT ![j] = w]
    BY <1>2 DEF ContinuePass
  <2>3. JobMove(j)
    <3> HIDE DEF w
    <3>1. QED
      BY <1>0, <2>1, <2>2, BecomesMove
  <2>4. "running" \in RunStatus /\ "in_progress" \in TaskState
    BY DEF RunStatus, TaskState
  <2>5. RowWritten(db, db', job[j].run, "running", FreshProof) /\ KeepsStatesBut(TaskOfJob(j))
    BY <1>2, <2>4, RunThenTask, FreshProofType DEF ContinuePass, Progress
  <2>6. MaxPasses > 1
    BY <1>0, <1>2, RunsAssumption DEF ContinuePass, JobRecord
  <2>7. ~StallMonitor => Working(job[j])
    BY <1>2 DEF ContinuePass, Working, Overdue, Unwatched
  <2>8. QED
    BY <1>2, <2>3, <2>5, <2>6, <2>7 DEF AgentMove, WritesRow, ContinuePass
<1>3. QED
  BY <1>1, <1>2 DEF AgentStep

(***************************************************************************)
(* What a tick awaits.  There is one tick at a time, unless the user       *)
(* switches the loop off and on while a tick is in flight; and without the *)
(* user's own starts, every start in progress is one that a tick awaits.   *)
(***************************************************************************)
StartPhase == {"prepared", "interrupted", "fresh"}

OneTick ==
    /\ \A k, l \in Tick : tick[k].pc # "idle" /\ tick[l].pc # "idle" => k = l
    /\ ~Toggle => \A k \in Tick : tick[k].pc # "idle" => dispatch.inFlight

AwaitInv ==
    /\ \A j \in Job : Unwatched(job[j])
    /\ \A k \in Tick : tick[k].job # NoJob =>
          tick[k].pc \in StartPhase /\ Starting(job[tick[k].job])
    /\ \A k \in Tick : tick[k].pc \notin StartPhase => tick[k].queue = {}
    /\ \A j \in Job : Starting(job[j]) => \E k \in Tick : tick[k].job = j

TickInv == OneTick /\ AwaitInv

(***************************************************************************)
(* The moves of the loop: its steps as far as the rows, the jobs, the      *)
(* preparations, the ticks and the observer are concerned.                 *)
(***************************************************************************)
\* Only the states of tasks, and the cancels in progress, may change.
Quiet ==
    /\ KeepsRows
    /\ \A r \in canceling' :
          \/ r \in canceling
          \/ "cancel" \in Command /\ r \in Run /\ db.run[r].status \notin {"none", "prepared"}
    /\ "update" \notin Command => db'.state = db.state
    /\ UNCHANGED <<job, prep, tick, resumed>>

\* Tick k awaits nothing and goes on to another phase, with nothing to start.
Turn(k) ==
    /\ tick[k].job = NoJob
    /\ tick[k].pc \in StartPhase => tick[k].queue = {} \/ tick'[k].pc = "failing"
    /\ tick[k].pc = "preparing" => prep[k].pc = "idle"
    /\ \E pc \in TickPc \ {"preparing"} : GotoTick(k, pc)
    /\ UNCHANGED <<vars, resumed>>

\* The runs that tick k is about to start, and the phase it does it in.
Loads(k, phase, queue) ==
    /\ tick[k].job = NoJob
    /\ \/ /\ tick[k].pc = "opening" /\ phase = "prepared"
          /\ queue = AutoStartable(db)
       \/ /\ phase = tick[k].pc /\ queue = tick[k].queue
       \/ /\ tick[k].pc = "prepared" /\ phase = "interrupted"
          /\ \E held : queue = AutoContinuable(db, held)
       \/ /\ tick[k].pc = "preparing" /\ phase = "fresh"
          /\ prep[k].pc = "idle"
          /\ queue = prep[k].made

Starts(k, phase, queue, j, r) ==
    /\ IF phase = "interrupted"
       THEN Resumption(j, r) /\ resumed' = [resumed EXCEPT ![r] = Bump(@)]
       ELSE LoopStart(j, r, db) /\ resumed' = resumed
    /\ tick' = [tick EXCEPT ![k] = [pc |-> phase, queue |-> queue \ {r}, job |-> j]]

Skips(k, queue, r) ==
    /\ tick' = [tick EXCEPT ![k] = [pc |-> "interrupted", queue |-> queue \ {r}, job |-> NoJob]]
    /\ UNCHANGED <<vars, resumed>>

\* The worker that a tick starts is the one of the run.
LEMMA StartedRun ==
  ASSUME TypeOK, NEW k, NEW phase, NEW queue, NEW j \in Job, NEW r, Starts(k, phase, queue, j, r)
  PROVE  job'[j].run = r
<1>1. \A p : [IdleJob EXCEPT !.pc = "loading", !.run = r, !.proof = p].run = r
  BY DEF IdleJob
<1>2. DOMAIN job = Job
  BY DEF TypeOK
<1>3. ASSUME NEW d, LoopStart(j, r, d)
      PROVE  job'[j].run = r
  BY <1>1, <1>2, <1>3 DEF LoopStart
<1>4. QED
  BY <1>3 DEF Starts, Resumption

TakesNext(k) ==
    \E phase \in StartPhase, queue \in SUBSET Run :
        /\ Loads(k, phase, queue)
        /\ \E r \in queue : \/ \E j \in Job : Starts(k, phase, queue, j, r)
                            \/ phase = "interrupted" /\ Skips(k, queue, r)

TickMove(k) ==
    \/ Turn(k)
    \/ TakesNext(k)
    \/ TickPrepares(k)
    \/ \E j \in Job : StartReturns(k, j) \/ StartFails(k, j)
    \/ PrepareFails(k)

JobsMove(j) ==
    \/ CheckBlocked(j) /\ UNCHANGED dvars
    \/ WorkerMove(j) /\ UNCHANGED dvars
    \/ AgentMove(j) /\ tick' = tick /\ resumed' = [resumed EXCEPT ![job[j].run] = 0]

PreparerMove(p) ==
    /\ \/ PrepareSelect(p)
       \/ \E r \in Run : PrepareRecord(p, r)
       \/ PrepareThrows(p)
       \/ UserPrepare(p)
    /\ UNCHANGED dvars

LoopMove ==
    \/ Quiet
    \/ \E k \in Tick : TickMove(k)
    \/ \E j \in Job : JobsMove(j)
    \/ \E p \in Preparer : PreparerMove(p)
    \/ \E r \in Run : CancelWrites(r) /\ UNCHANGED dvars
    \/ DispatchRestart

LEMMA StartNextMove ==
  ASSUME NEW k \in Tick, NEW phase \in StartPhase, NEW queue \in SUBSET Run,
         StartNext(k, phase, queue), Loads(k, phase, queue),
         tick[k].pc \in StartPhase => tick[k].queue = {} \/ queue # {},
         tick[k] \in TickRecord, tick \in [Tick -> TickRecord]
  PROVE  TickMove(k)
<1>0. phase \in TickPc \ {"preparing"} /\ "failing" \in TickPc \ {"preparing"}
  BY DEF StartPhase, TickPc
<1>1. CASE queue = {}
  BY <1>0, <1>1 DEF StartNext, TickMove, Turn, Loads, StartPhase
<1>2. ASSUME NEW r \in queue, NEW j \in Job, StartInTick(k, phase, queue \ {r}, j, r)
      PROVE  TickMove(k)
  <2>1. CASE IsStartable(db, r) /\ (phase = "interrupted" => IsRestartInterrupted(db, r))
    <3>1. Starts(k, phase, queue, j, r)
      BY <1>2, <2>1 DEF StartInTick, Starts, LoopStart, Resumption
    <3>2. QED
      BY <1>2, <3>1 DEF TickMove, TakesNext
  <2>2. CASE ~(IsStartable(db, r) /\ (phase = "interrupted" => IsRestartInterrupted(db, r)))
    <3>1. GotoTick(k, "failing") /\ UNCHANGED <<vars, resumed>>
      BY <1>2, <2>2 DEF StartInTick
    <3>2. tick'[k].pc = "failing"
      BY <3>1 DEF GotoTick, IdleTick
    <3>3. QED
      BY <1>0, <3>1, <3>2 DEF TickMove, Turn, Loads, StartPhase
  <2>3. QED
    BY <2>1, <2>2
<1>3. ASSUME NEW r \in queue, phase = "interrupted",
             tick' = [tick EXCEPT ![k] = [pc |-> phase, queue |-> queue \ {r}, job |-> NoJob]],
             UNCHANGED <<vars, dispatch, resumed>>
      PROVE  TickMove(k)
  <2>1. Skips(k, queue, r)
    BY <1>3 DEF Skips
  <2>2. QED
    BY <1>3, <2>1 DEF TickMove, TakesNext
<1>4. QED
  BY <1>1, <1>2, <1>3 DEF StartNext

LEMMA TickStepMove ==
  ASSUME DispatchTypeOK, AwaitInv, NEW k \in Tick, TickStep(k)
  PROVE  TickMove(k)
<1>0. /\ tick[k] \in TickRecord /\ tick \in [Tick -> TickRecord] /\ k \in Preparer
      /\ prep[k] \in PrepRecord
  BY DispatchAssumption DEF DispatchTypeOK, TypeOK
<1>1. {"idle", "failing", "scheduled"} \subseteq TickPc \ {"preparing"}
  BY DEF TickPc
<1>2. CASE TickEnds(k) \/ TickForbidden(k) \/ TickThrows(k) \/ TickSchedules(k)
  <2>1. /\ tick[k].job = NoJob /\ (tick[k].pc \in StartPhase => tick[k].queue = {})
        /\ tick[k].pc # "preparing"
    BY <1>2 DEF TickEnds, TickForbidden, TickThrows, TickSchedules, AwaitInv, StartPhase, Resumes
  <2>2. QED
    BY <1>1, <1>2, <2>1 DEF TickEnds, TickForbidden, TickThrows, TickSchedules, TickMove, Turn
<1>3. CASE TickOpens(k)
  <2>1. Loads(k, "prepared", AutoStartable(db)) /\ tick[k].pc \notin StartPhase
    BY <1>3 DEF TickOpens, Loads, Resumes, StartPhase
  <2>2. QED
    BY <1>0, <1>3, <2>1, StartNextMove, AutoStartableRuns DEF TickOpens, StartPhase
<1>4. CASE TickContinues(k)
  <2>1. tick[k].pc \in StartPhase
    BY <1>4 DEF TickContinues, AwaitInv
  <2>2. tick[k].queue \in SUBSET Run
    BY <1>0 DEF TickRecord
  <2>3. Loads(k, tick[k].pc, tick[k].queue)
    BY <1>4 DEF TickContinues, Loads
  <2>4. QED
    BY <1>0, <1>4, <2>1, <2>2, <2>3, StartNextMove DEF TickContinues
<1>5. CASE TickResumesInterrupted(k)
  <2>1. PICK held : StartNext(k, "interrupted", AutoContinuable(db, held))
    BY <1>5 DEF TickResumesInterrupted
  <2>2. Loads(k, "interrupted", AutoContinuable(db, held)) /\ tick[k].queue = {}
    BY <1>5 DEF TickResumesInterrupted, Loads, Resumes
  <2>3. QED
    BY <1>0, <2>1, <2>2, StartNextMove, AutoContinuableRuns DEF StartPhase
<1>6. CASE TickStartsFresh(k)
  <2>1. prep[k].made \in SUBSET Run
    BY <1>0 DEF PrepRecord
  <2>2. Loads(k, "fresh", prep[k].made) /\ tick[k].pc \notin StartPhase
    BY <1>6 DEF TickStartsFresh, Loads, Resumes, StartPhase
  <2>3. QED
    BY <1>0, <1>6, <2>1, <2>2, StartNextMove DEF TickStartsFresh, StartPhase
<1>7. QED
  BY <1>2, <1>3, <1>4, <1>5, <1>6 DEF TickStep, TickMove

\* No start is in progress that no tick awaits.
LEMMA FreeStepMove ==
  ASSUME BoardTask = {}, "start" \notin Command, DispatchTypeOK, AwaitInv, FreeStep
  PROVE  LoopMove
<1>0. TypeOK /\ db \in Database /\ \A j \in Job : Unwatched(job[j])
  BY DEF DispatchTypeOK, TypeOK, AwaitInv
<1>1. ASSUME NEW j \in Job, \A k \in Tick : ~Awaits(k, j), StartThrows(j) \/ BeginWork(j)
      PROVE  FALSE
  BY <1>1 DEF AwaitInv, Awaits, Starting, StartThrows, BeginWork
<1>2. ASSUME NEW j \in Job, CheckBlocked(j) \/ PassStep(j) \/ EndStep(j) \/ MonitorStep(j)
      PROVE  LoopMove
  BY <1>0, <1>2, PassMove, EndMove, MonitorMove DEF FreeStep, LoopMove, JobsMove
<1>3. ASSUME NEW r \in Run, JudgmentEnds(r)
      PROVE  LoopMove
  <2>1. db' = db
    BY <1>3 DEF JudgmentEnds, ReviewProof
  <2>2. QED
    BY <1>3, <2>1 DEF JudgmentEnds, FreeStep, dvars, LoopMove, Quiet, KeepsRows
<1>4. CASE UserStep
  <2>1. ASSUME NEW r \in Run, CancelRun(r)
        PROVE  LoopMove
    BY <2>1 DEF CancelRun, FreeStep, dvars, LoopMove, Quiet, KeepsRows
  <2>2. ASSUME NEW t \in Task, NEW s \in UserState, UserUpdateTask(t, s)
        PROVE  LoopMove
    BY <1>0, <2>2, UpdateTaskRuns
    DEF UserUpdateTask, volatile, FreeStep, dvars, LoopMove, Quiet, KeepsRows
  <2>3. ASSUME NEW p \in Preparer, UserPrepare(p)
        PROVE  LoopMove
    BY <2>3 DEF FreeStep, LoopMove, PreparerMove
  <2>4. QED
    BY <1>4, <2>1, <2>2, <2>3 DEF UserStep, UserStart
<1>5. ASSUME NEW p \in Preparer,
             PrepareSelect(p) \/ PrepareThrows(p) \/ \E r \in Run : PrepareRecord(p, r)
      PROVE  LoopMove
  BY <1>5 DEF FreeStep, LoopMove, PreparerMove
<1>6. ASSUME NEW r \in Run, CancelWrites(r)
      PROVE  LoopMove
  BY <1>6 DEF FreeStep, LoopMove
<1>7. QED
  BY <1>1, <1>2, <1>3, <1>4, <1>5, <1>6 DEF FreeStep

LEMMA LoopMoves ==
  ASSUME BoardTask = {}, "start" \notin Command, DispatchTypeOK, AwaitInv,
         [DispatchNext]_allvars
  PROVE  LoopMove
<1>1. CASE \E k \in Tick : TickBegins(k)
  <2>1. PICK k \in Tick : TickBegins(k)
    BY <1>1
  <2>2. "opening" \in TickPc \ {"preparing"} /\ tick[k].job = NoJob
    BY <2>1 DEF TickPc, TickBegins, AwaitInv, StartPhase
  <2>3. Turn(k)
    BY <2>1, <2>2 DEF TickBegins, Turn, StartPhase
  <2>4. QED
    BY <2>3 DEF LoopMove, TickMove
<1>2. CASE TimerDropped \/ SwitchOff \/ SwitchOn \/ UNCHANGED allvars
  BY <1>2 DEF TimerDropped, SwitchOff, SwitchOn, allvars, vars, dvars, LoopMove, Quiet, KeepsRows
<1>3. CASE \E k \in Tick : TickStep(k)
  BY <1>3, TickStepMove DEF LoopMove
<1>4. ASSUME NEW j \in Job, AgentActive(j)
      PROVE  LoopMove
  <2>1. AgentMove(j)
    BY <1>4, AgentStepMove DEF AgentActive, DispatchTypeOK, AwaitInv
  <2>2. QED
    BY <1>4, <2>1 DEF AgentActive, LoopMove, JobsMove
<1>5. CASE FreeStep
  BY <1>5, FreeStepMove
<1>6. CASE DispatchRestart
  BY <1>6 DEF LoopMove
<1>7. QED
  BY <1>1, <1>2, <1>3, <1>4, <1>5, <1>6 DEF DispatchNext, TimerStep

(***************************************************************************)
(* One tick at a time, and what it awaits.                                 *)
(***************************************************************************)
LEMMA AwaitInit == DispatchInit => OneTick /\ AwaitInv
  BY DEF DispatchInit, Init, OneTick, AwaitInv, IdleTick, IdleJob, Unwatched, Starting, StartPhase

\* A step of tick k leaves the others alone, and lets go of inFlight at its end.
LEMMA TickActs ==
  ASSUME DispatchTypeOK, AwaitInv, NEW k \in Tick, TickStep(k)
  PROVE  /\ tick[k].pc # "idle"
         /\ \A l \in Tick \ {k} : tick'[l] = tick[l]
         /\ dispatch' = dispatch \/ tick'[k].pc = "idle"
<1>0. tick \in [Tick -> TickRecord]
  BY DEF DispatchTypeOK
<1>1. ASSUME NEW phase, NEW queue, StartNext(k, phase, queue)
      PROVE  /\ \A l \in Tick \ {k} : tick'[l] = tick[l]
             /\ dispatch' = dispatch
  BY <1>0, <1>1 DEF StartNext, StartInTick, GotoTick
<1>2. CASE TickEnds(k) \/ TickForbidden(k)
  BY <1>0, <1>2 DEF TickEnds, TickForbidden, GotoTick, IdleTick
<1>3. CASE TickThrows(k) \/ TickPrepares(k) \/ TickSchedules(k) \/ PrepareFails(k)
  BY <1>0, <1>3 DEF TickThrows, TickPrepares, TickSchedules, PrepareFails, Resumes, GotoTick
<1>4. CASE TickOpens(k) \/ TickResumesInterrupted(k) \/ TickStartsFresh(k)
  BY <1>1, <1>4 DEF TickOpens, TickResumesInterrupted, TickStartsFresh, Resumes
<1>5. CASE TickContinues(k)
  BY <1>1, <1>5 DEF TickContinues, AwaitInv, StartPhase
<1>6. ASSUME NEW j \in Job, StartReturns(k, j) \/ StartFails(k, j)
      PROVE  /\ tick[k].pc # "idle"
             /\ \A l \in Tick \ {k} : tick'[l] = tick[l]
             /\ dispatch' = dispatch \/ tick'[k].pc = "idle"
  BY <1>0, <1>6, DispatchAssumption
  DEF StartReturns, StartFails, Awaits, GotoTick, AwaitInv, StartPhase
<1>7. QED
  BY <1>2, <1>3, <1>4, <1>5, <1>6 DEF TickStep

LEMMA OneTickStep ==
  ASSUME ~Toggle \/ \A k, l \in Tick : k = l,
         DispatchTypeOK, OneTick, AwaitInv, [DispatchNext]_allvars
  PROVE  OneTick'
<1>0. tick \in [Tick -> TickRecord]
        /\ dispatch \in [enabled : BOOLEAN, inFlight : BOOLEAN, timer : BOOLEAN]
  BY DEF DispatchTypeOK
<1>1. ASSUME NEW k \in Tick, TickStep(k)
      PROVE  OneTick'
  <2>1. tick[k].pc # "idle"
    BY <1>1, TickActs
  <2>2. \A l \in Tick \ {k} : tick'[l] = tick[l]
    BY <1>0, <1>1, TickActs
  <2>3. dispatch' = dispatch \/ tick'[k].pc = "idle"
    BY <1>0, <1>1, TickActs
  <2>4. QED
    BY <2>1, <2>2, <2>3 DEF OneTick
<1>2. ASSUME NEW k \in Tick, TickBegins(k)
      PROVE  OneTick'
  <2>1. tick' = [tick EXCEPT ![k] = [IdleTick EXCEPT !.pc = "opening"]] /\ dispatch'.inFlight
    BY <1>0, <1>2 DEF TickBegins, GotoTick
  <2>2. \A l \in Tick \ {k} : tick'[l].pc = tick[l].pc
    BY <1>0, <2>1
  <2>3. ASSUME NEW l \in Tick \ {k}
        PROVE  tick[l].pc = "idle"
    BY <1>2, <2>3 DEF TickBegins, OneTick
  <2>4. QED
    BY <2>1, <2>2, <2>3 DEF OneTick
<1>3. CASE TimerDropped \/ SwitchOn
  BY <1>0, <1>3 DEF TimerDropped, SwitchOn, OneTick
<1>4. CASE SwitchOff
  BY <1>4 DEF SwitchOff, OneTick
<1>5. CASE (\E j \in Job : AgentActive(j)) \/ FreeStep \/ UNCHANGED allvars
  BY <1>5 DEF AgentActive, FreeStep, allvars, dvars, OneTick
<1>6. CASE DispatchRestart
  BY <1>6 DEF DispatchRestart, IdleTick, OneTick
<1>7. QED
  BY <1>1, <1>2, <1>3, <1>4, <1>5, <1>6 DEF DispatchNext, TimerStep

TickBecomes(k, pc, queue, j) ==
    tick' = [tick EXCEPT ![k] = [pc |-> pc, queue |-> queue, job |-> j]]

LEMMA GotoIs ==
  ASSUME NEW k, NEW pc, GotoTick(k, pc)
  PROVE  tick' = [tick EXCEPT ![k] = [pc |-> pc, queue |-> {}, job |-> NoJob]]
<1>1. [IdleTick EXCEPT !.pc = pc] = [pc |-> pc, queue |-> {}, job |-> NoJob]
  BY DEF IdleTick
<1>2. QED
  BY <1>1 DEF GotoTick

(***************************************************************************)
(* A start begins its work.                                                *)
(***************************************************************************)
BeginMove(j) ==
    /\ Starting(job[j]) /\ ~Starting(job'[j])
    /\ job'[j].run = job[j].run
    /\ Unwatched(job'[j])
    /\ \A i \in Job \ {j} : job'[i] = job[i]
    /\ UNCHANGED <<prep, canceling>>
    /\ RowWritten(db, db', job[j].run, "running", job[j].proof)
    /\ KeepsStatesBut(TaskOfJob(j))

LEMMA BeginWorkMove ==
  ASSUME BoardTask = {}, TypeOK, NEW j \in Job, BeginWork(j)
  PROVE  BeginMove(j)
<1>0. job[j] \in JobRecord /\ job \in [Job -> JobRecord]
  BY DEF TypeOK
<1> DEFINE w == [job[j] EXCEPT !.pc = "sending", !.proof = FreshProof,
                   !.stall = IF StallMonitor THEN "armed" ELSE "off",
                   !.budget = IF TaskOfJob(j) \in BoardTask THEN "armed" ELSE "off"]
<1>1. Starting(job[j]) /\ ~Starting(w) /\ w.run = job[j].run /\ Unwatched(w)
  BY <1>0 DEF BeginWork, Starting, Unwatched, JobRecord
<1>2. job' = [job EXCEPT ![j] = w]
  BY DEF BeginWork
<1>3. db' = UpdateTask(UpdateRun(db, job[j].run, "running", job[j].proof),
                       TaskOfJob(j), "in_progress")
  BY BeginCardRunRows DEF BeginWork
<1>4. "running" \in RunStatus /\ "in_progress" \in TaskState /\ job[j].proof \in Proof
  BY <1>0 DEF RunStatus, TaskState, JobRecord
<1>5. RowWritten(db, db', job[j].run, "running", job[j].proof) /\ KeepsStatesBut(TaskOfJob(j))
  BY <1>3, <1>4, RunThenTask
<1> HIDE DEF w
<1>6. QED
  BY <1>0, <1>1, <1>2, <1>5 DEF BeginMove, BeginWork

\* A start that throws leaves a free job.
LEMMA ThrowsMove ==
  ASSUME TypeOK, NEW j \in Job, StartThrows(j)
  PROVE  /\ Starting(job[j]) /\ job'[j] = IdleJob
         /\ \A i \in Job \ {j} : job'[i] = job[i]
         /\ UNCHANGED <<db, prep, canceling>>
  BY DEF TypeOK, StartThrows, Starting

LEMMA AwaitStep ==
  ASSUME BoardTask = {}, DispatchTypeOK, OneTick, AwaitInv, LoopMove
  PROVE  AwaitInv'
<1>0. /\ tick \in [Tick -> TickRecord] /\ job \in [Job -> JobRecord] /\ NoJob \notin Job
      /\ \A k \in Tick : tick[k] \in TickRecord
  BY DispatchAssumption DEF DispatchTypeOK, TypeOK
\* Tick k comes to pc, with rest to start and job i to await.
<1>1. ASSUME NEW k \in Tick, NEW pc \in TickPc, NEW rest, NEW i \in Job \cup {NoJob},
             tick' = [tick EXCEPT ![k] = [pc |-> pc, queue |-> rest, job |-> i]],
             pc \notin StartPhase => rest = {},
             i # NoJob => pc \in StartPhase /\ Starting(job'[i]),
             \A l \in Tick \ {k} : tick[l].job # NoJob => Starting(job'[tick[l].job]),
             \A j \in Job : Starting(job'[j]) => j = i \/ (Starting(job[j]) /\ tick[k].job # j),
             \A j \in Job : Unwatched(job'[j])
      PROVE  AwaitInv'
  <2>1. tick'[k] = [pc |-> pc, queue |-> rest, job |-> i] /\ \A l \in Tick \ {k} : tick'[l] = tick[l]
    BY <1>0, <1>1
  <2>2. \A l \in Tick : tick'[l].job # NoJob => tick'[l].pc \in StartPhase /\ Starting(job'[tick'[l].job])
    BY <1>1, <2>1 DEF AwaitInv
  <2>3. \A l \in Tick : tick'[l].pc \notin StartPhase => tick'[l].queue = {}
    BY <1>1, <2>1 DEF AwaitInv
  <2>4. \A j \in Job : Starting(job'[j]) => \E l \in Tick : tick'[l].job = j
    BY <1>1, <2>1 DEF AwaitInv
  <2>5. QED
    BY <1>1, <2>2, <2>3, <2>4 DEF AwaitInv, Starting, Unwatched
<1>2. CASE Quiet
  BY <1>2 DEF Quiet, AwaitInv, Starting, Unwatched
<1>3. ASSUME NEW k \in Tick, NEW pc \in TickPc, GotoTick(k, pc), job' = job,
             tick[k].job = NoJob
      PROVE  AwaitInv'
  <2>1. tick' = [tick EXCEPT ![k] = [pc |-> pc, queue |-> {}, job |-> NoJob]]
    BY <1>3, GotoIs
  <2>2. \A j \in Job : Starting(job'[j]) => j = NoJob \/ (Starting(job[j]) /\ tick[k].job # j)
    BY <1>0, <1>3
  <2>3. \A j \in Job : Unwatched(job'[j])
    BY <1>3 DEF AwaitInv
  <2>4. \A l \in Tick \ {k} : tick[l].job # NoJob => Starting(job'[tick[l].job])
    BY <1>3 DEF AwaitInv
  <2>5. QED
    BY <1>1, <2>1, <2>2, <2>3, <2>4
<1>4. ASSUME NEW k \in Tick, Turn(k)
      PROVE  AwaitInv'
  BY <1>3, <1>4 DEF Turn, vars
<1>5. ASSUME NEW k \in Tick, TickPrepares(k)
      PROVE  AwaitInv'
  BY <1>3, <1>5 DEF TickPrepares, PrepareList, Resumes, TickPc
<1>6. ASSUME NEW k \in Tick, PrepareFails(k)
      PROVE  AwaitInv'
  BY <1>3, <1>6 DEF PrepareFails, PrepareThrows, AwaitInv, StartPhase, TickPc
<1>7. ASSUME NEW k \in Tick, NEW phase \in StartPhase, NEW queue, NEW r \in queue, NEW j \in Job,
             Loads(k, phase, queue), Starts(k, phase, queue, j, r)
      PROVE  AwaitInv'
  <2>1. phase \in TickPc /\ tick[k].job = NoJob
    BY <1>7 DEF StartPhase, TickPc, Loads
  <2>2. PICK p : job' = [job EXCEPT ![j] = [IdleJob EXCEPT !.pc = "loading", !.run = r, !.proof = p]]
    BY <1>7 DEF Starts, Resumption, LoopStart
  <2>3. IsFree(j)
    BY <1>7 DEF Starts, Resumption, LoopStart
  <2>4. ~Starting(job[j]) /\ Starting(job'[j]) /\ Unwatched(job'[j])
          /\ \A i \in Job \ {j} : job'[i] = job[i]
    BY <1>0, <2>2, <2>3 DEF IsFree, Starting, Unwatched, IdleJob
  <2>5. \A l \in Tick \ {k} : tick[l].job # NoJob => Starting(job'[tick[l].job])
    BY <1>0, <2>4 DEF AwaitInv, TickRecord
  <2>6. \A i \in Job : Unwatched(job'[i])
    BY <2>4 DEF AwaitInv
  <2>7. \A i \in Job : Starting(job'[i]) => i = j \/ (Starting(job[i]) /\ tick[k].job # i)
    BY <1>0, <2>1, <2>4
  <2> DEFINE rest == queue \ {r}
  <2>8. tick' = [tick EXCEPT ![k] = [pc |-> phase, queue |-> rest, job |-> j]]
    BY <1>7 DEF Starts
  <2>9. phase \notin StartPhase => rest = {}
    OBVIOUS
  <2>10. j # NoJob => phase \in StartPhase /\ Starting(job'[j])
    BY <2>4
  <2> HIDE DEF rest
  <2>11. QED
    BY <1>1, <2>1, <2>5, <2>6, <2>7, <2>8, <2>9, <2>10
<1>8. ASSUME NEW k \in Tick, NEW queue, NEW r \in queue, Loads(k, "interrupted", queue),
             Skips(k, queue, r)
      PROVE  AwaitInv'
  <2>1. "interrupted" \in TickPc \cap StartPhase /\ tick[k].job = NoJob /\ job' = job
          /\ tick' = [tick EXCEPT ![k] =
                [pc |-> "interrupted", queue |-> queue \ {r}, job |-> NoJob]]
    BY <1>8 DEF StartPhase, TickPc, Loads, Skips, vars
  <2>2. \A i \in Job : Starting(job'[i]) => i = NoJob \/ (Starting(job[i]) /\ tick[k].job # i)
    BY <1>0, <2>1
  <2>3. \A i \in Job : Unwatched(job'[i])
    BY <2>1 DEF AwaitInv
  <2>4. \A l \in Tick \ {k} : tick[l].job # NoJob => Starting(job'[tick[l].job])
    BY <2>1 DEF AwaitInv
  <2>5. QED
    BY <1>1, <2>1, <2>2, <2>3, <2>4
\* The start that tick k awaits ends, and no other tick awaits it.
<1>9. ASSUME NEW k \in Tick, NEW j \in Job, StartReturns(k, j) \/ StartFails(k, j)
      PROVE  AwaitInv'
  <2>0. ~Starting(IdleJob) /\ Unwatched(IdleJob)
    BY DEF IdleJob, Starting, Unwatched
  <2>1. /\ tick[k].job = j
        /\ \A i \in Job \ {j} : job'[i] = job[i]
        /\ ~Starting(job'[j]) /\ Unwatched(job'[j])
    BY <1>9, <2>0, BeginWorkMove, ThrowsMove
    DEF StartReturns, StartFails, Awaits, BeginMove, DispatchTypeOK
  <2>2. \A l \in Tick \ {k} : tick[l].job # j
    BY <1>0, <2>1 DEF OneTick, AwaitInv, StartPhase
  <2>3. \A l \in Tick \ {k} : tick[l].job # NoJob => Starting(job'[tick[l].job])
    BY <1>0, <2>1, <2>2 DEF AwaitInv, TickRecord
  <2>4. \A i \in Job : Unwatched(job'[i])
    BY <2>1 DEF AwaitInv
  <2>5. \A i \in Job : Starting(job'[i]) => i = NoJob \/ (Starting(job[i]) /\ tick[k].job # i)
    BY <2>1
  <2>6. PICK pc \in TickPc, rest \in SUBSET Run :
          /\ tick' = [tick EXCEPT ![k] = [pc |-> pc, queue |-> rest, job |-> NoJob]]
          /\ pc \notin StartPhase => rest = {}
    <3>1. CASE StartReturns(k, j)
      <4>1. tick[k] = [pc |-> tick[k].pc, queue |-> tick[k].queue, job |-> tick[k].job]
              /\ tick[k].pc \in TickPc /\ tick[k].queue \in SUBSET Run
        BY <1>0 DEF TickRecord
      <4>2. tick' = [tick EXCEPT ![k] = [pc |-> tick[k].pc, queue |-> tick[k].queue, job |-> NoJob]]
        <5>1. tick' = [tick EXCEPT ![k] = [tick[k] EXCEPT !.job = NoJob]]
          BY <3>1 DEF StartReturns
        <5>2. [tick[k] EXCEPT !.job = NoJob] = [pc |-> tick[k].pc, queue |-> tick[k].queue, job |-> NoJob]
          BY <1>0 DEF TickRecord
        <5>3. QED
          BY <5>1, <5>2
      <4>3. QED
        BY <4>1, <4>2 DEF AwaitInv
    <3>2. CASE StartFails(k, j)
      BY <3>2, GotoIs DEF StartFails, TickPc
    <3>3. QED
      BY <1>9, <3>1, <3>2
  <2>7. QED
    BY <1>1, <2>3, <2>4, <2>5, <2>6
<1>10. ASSUME NEW j \in Job, JobsMove(j)
       PROVE  AwaitInv'
  <2>1. tick' = tick
    BY <1>10 DEF JobsMove, dvars
  <2>2. \A i \in Job : Unwatched(job'[i]) /\ (Starting(job'[i]) <=> Starting(job[i]))
    <3>1. CASE CheckBlocked(j)
      <4>1. job' = [job EXCEPT ![j].pc = "importing"] /\ job[j].pc = "loading"
        BY <3>1 DEF CheckBlocked, Goto
      <4>2. \A i \in Job : job[i] \in JobRecord
        BY <1>0
      <4>3. QED
        BY <1>0, <4>1, <4>2 DEF AwaitInv, Unwatched, Starting, JobRecord
    <3>2. CASE WorkerMove(j) \/ AgentMove(j)
      BY <3>2 DEF WorkerMove, AgentMove, JobMove, AwaitInv
    <3>3. QED
      BY <1>10, <3>1, <3>2 DEF JobsMove
  <2>3. QED
    BY <1>0, <2>1, <2>2 DEF AwaitInv, Starting, Unwatched, TickRecord
<1>11. CASE (\E p \in Preparer : PreparerMove(p)) \/ (\E r \in Run : CancelWrites(r) /\ UNCHANGED dvars)
  <2>1. job' = job /\ tick' = tick
    BY <1>11 DEF PreparerMove, PrepareSelect, PrepareRecord, PrepareThrows, UserPrepare, PrepareList,
       CancelWrites, dvars
  <2>2. QED
    BY <2>1 DEF AwaitInv, Starting, Unwatched
<1>12. CASE DispatchRestart
  BY <1>12 DEF DispatchRestart, Restart, AwaitInv, IdleTick, IdleJob, Starting, Unwatched, StartPhase
<1>13. QED
  BY <1>2, <1>4, <1>5, <1>6, <1>7, <1>8, <1>9, <1>10, <1>11, <1>12
  DEF LoopMove, TickMove, TakesNext

(***************************************************************************)
(* Rows that were started once, or canceled, are not prepared again; and   *)
(* a run that the loop queues because it is prepared stays so until the    *)
(* loop starts it.                                                         *)
(***************************************************************************)
IsSettled(d, r) == d.run[r].status \notin {"none", "prepared"}

SettledInv ==
    /\ \A j \in Job : Started(job[j]) => IsSettled(db, job[j].run)
    /\ \A r \in canceling : IsSettled(db, r)

QueueInv ==
    \A k \in Tick :
       /\ tick[k].pc \in {"prepared", "fresh"} => tick[k].queue \subseteq RunsIn(db, "prepared")
       /\ tick[k].pc = "preparing" => prep[k].made \subseteq RunsIn(db, "prepared")
       /\ tick[k].job # NoJob => job[tick[k].job].run \notin tick[k].queue

\* No row but those in R leaves its preparation, and none returns to it.
Disturbs(R) ==
    \A q \in Run : /\ IsSettled(db, q) => IsSettled(db', q)
                   /\ q \notin R /\ db.run[q].status = "prepared" => db'.run[q].status = "prepared"

LEMMA RowFields ==
  ASSUME NEW d, NEW e, NEW r, NEW s, NEW p, RowWritten(d, e, r, s, p), NEW q \in Run
  PROVE  /\ e.run[q].status = IF q = r THEN s ELSE d.run[q].status
         /\ e.run[q].task = d.run[q].task
         /\ e.run[q].proof = IF q = r THEN p ELSE d.run[q].proof
<1>1. e.run[q] = IF q = r THEN [status |-> s, task |-> d.run[q].task, proof |-> p] ELSE d.run[q]
  BY DEF RowWritten
<1>2. CASE q = r
  BY <1>1, <1>2
<1>3. CASE q # r
  BY <1>1, <1>3
<1>4. QED
  BY <1>2, <1>3

LEMMA WrittenDisturbs ==
  ASSUME NEW r, NEW s \in Final \cup {"running"}, NEW p, RowWritten(db, db', r, s, p)
  PROVE  /\ Disturbs({r})
         /\ (r \in Run => IsSettled(db, r)) => Disturbs({})
<1>1. ASSUME NEW q \in Run
      PROVE  /\ IsSettled(db, q) => IsSettled(db', q)
             /\ q # r /\ db.run[q].status = "prepared" => db'.run[q].status = "prepared"
             /\ q = r => IsSettled(db', q)
  BY RowFields DEF IsSettled, Final
<1>2. QED
  BY <1>1 DEF Disturbs, IsSettled

LEMMA CancelRows ==
  ASSUME BoardTask = {}, TypeOK, NEW r \in Run, CancelWrites(r)
  PROVE  RowWritten(db, db', r, "canceled", db.run[r].proof) /\ db'.state = db.state
<1>1. db \in Database
  BY DEF TypeOK
<1>2. db' = UpdateRun(db, r, "canceled", db.run[r].proof)
  BY FinishRunRows DEF CancelWrites
<1>3. QED
  BY <1>1, <1>2, UpdateRunRows

LEMMA ResumptionRows ==
  ASSUME BoardTask = {}, TypeOK, NEW j \in Job, NEW r \in Run, Resumption(j, r)
  PROVE  /\ RowWritten(db, db', r, db.run[r].status,
                       [db.run[r].proof EXCEPT !.attempts = @ + 1])
         /\ db'.state = db.state
<1>1. db \in Database
  BY DEF TypeOK
<1>2. db' = RecordAutoContinue(db, r)
  BY DEF Resumption, LoopStart
<1>3. QED
  BY <1>1, <1>2, UpdateRunRows DEF RecordAutoContinue

LEMMA InsertRows ==
  ASSUME TypeOK, NEW p \in Preparer, NEW r \in Run, PrepareRecord(p, r)
  PROVE  \E t \in prep[p].queue :
           /\ \A q \in Run : db'.run[q] =
                 IF q = r THEN [status |-> "prepared", task |-> t, proof |-> FreshProof]
                 ELSE db.run[q]
           /\ db'.state = db.state
           /\ prep' = [prep EXCEPT ![p] =
                IF prep[p].queue \ {t} = {}
                THEN [IdlePrep EXCEPT !.made = prep[p].made \cup {r}]
                ELSE [prep[p] EXCEPT !.queue = prep[p].queue \ {t},
                                     !.made = prep[p].made \cup {r}]]
<1>1. db \in Database
  BY DEF TypeOK
<1>2. PICK t \in prep[p].queue :
        /\ db' = InsertRun(db, r, t)
        /\ prep' = [prep EXCEPT ![p] =
             IF prep[p].queue \ {t} = {}
             THEN [IdlePrep EXCEPT !.made = prep[p].made \cup {r}]
             ELSE [prep[p] EXCEPT !.queue = prep[p].queue \ {t},
                                  !.made = prep[p].made \cup {r}]]
  BY DEF PrepareRecord
<1>3. /\ \A q \in Run : db'.run[q] =
            IF q = r THEN [status |-> "prepared", task |-> t, proof |-> FreshProof]
            ELSE db.run[q]
      /\ db'.state = db.state
  BY <1>1, <1>2 DEF InsertRun, Database
<1>4. QED
  BY <1>2, <1>3

LEMMA InsertedRow ==
  ASSUME TypeOK, NEW p \in Preparer, NEW r \in Run, PrepareRecord(p, r)
  PROVE  /\ \A q \in Run : q # r => db'.run[q] = db.run[q]
         /\ db'.run[r].status = "prepared"
<1>1. PICK t : \A q \in Run : db'.run[q] =
                 IF q = r THEN [status |-> "prepared", task |-> t, proof |-> FreshProof]
                 ELSE db.run[q]
  <2>1. db \in Database
    BY DEF TypeOK
  <2>2. PICK t : db' = InsertRun(db, r, t)
    BY DEF PrepareRecord
  <2>3. QED
    BY <2>1, <2>2 DEF InsertRun, Database
<1>2. QED
  BY <1>1

LEMMA RestartRows ==
  ASSUME BoardTask = {}, TypeOK, Restart
  PROVE  /\ \A q \in Run : db'.run[q] =
               IF db.run[q].status = "running"
               THEN [status |-> "stalled", task |-> db.run[q].task,
                     proof |-> [db.run[q].proof EXCEPT !.recovery = TRUE]]
               ELSE db.run[q]
         /\ \A t \in Task : db'.state[t] =
               IF t \in TasksIn(db, "running") THEN "needs_info" ELSE db.state[t]
<1>1. db \in Database
  BY DEF TypeOK
<1>2. QED
  <2>1. db' = StallActiveRuns(db)
    BY DEF Restart
  <2>2. ASSUME NEW q \in Run
        PROVE  db'.run[q] = IF db.run[q].status = "running"
                            THEN [db.run[q] EXCEPT !.status = "stalled", !.proof.recovery = TRUE]
                            ELSE db.run[q]
    BY <1>1, <2>1 DEF StallActiveRuns, SyncCards, RunsIn, IsFrozen, ClosedTasks, Database
  <2>3. ASSUME NEW q \in Run
        PROVE  [db.run[q] EXCEPT !.status = "stalled", !.proof.recovery = TRUE]
                 = [status |-> "stalled", task |-> db.run[q].task,
                    proof |-> [db.run[q].proof EXCEPT !.recovery = TRUE]]
    <3>1. db.run[q] \in Row
      BY <1>1 DEF Database
    <3>2. ASSUME NEW row \in Row
          PROVE  [row EXCEPT !.status = "stalled", !.proof.recovery = TRUE]
                   = [status |-> "stalled", task |-> row.task,
                      proof |-> [row.proof EXCEPT !.recovery = TRUE]]
      <4> DEFINE half == [row EXCEPT !.status = "stalled"]
                 proof == [row.proof EXCEPT !.recovery = TRUE]
      <4>1. half = [status |-> "stalled", task |-> row.task, proof |-> row.proof]
        BY DEF Row
      <4>2. [half EXCEPT !.proof.recovery = TRUE] = [half EXCEPT !.proof = proof]
        BY <4>1
      <4>3. [half EXCEPT !.proof = proof] = [status |-> "stalled", task |-> row.task, proof |-> proof]
        <5> HIDE DEF proof, half
        <5>1. QED
          BY <4>1
      <4>4. QED
        BY <4>2, <4>3
    <3>3. QED
      BY <3>1, <3>2
  <2>4. ASSUME NEW t \in Task
        PROVE  db'.state[t] = IF t \in TasksIn(db, "running") THEN "needs_info" ELSE db.state[t]
    BY <1>1, <2>1 DEF StallActiveRuns, SyncCards, ClosedTasks, Database
  <2>5. QED
    BY <2>2, <2>3, <2>4

LEMMA RestartFields ==
  ASSUME BoardTask = {}, TypeOK, Restart, NEW q \in Run
  PROVE  /\ db'.run[q].status = IF db.run[q].status = "running" THEN "stalled" ELSE db.run[q].status
         /\ db'.run[q].task = db.run[q].task
         /\ db'.run[q].proof.attempts = db.run[q].proof.attempts
         /\ db.run[q].status # "running" => db'.run[q] = db.run[q]
<1>1. db.run[q] \in Row
  BY DEF TypeOK, Database
<1>2. CASE db.run[q].status = "running"
  <2> DEFINE proof == [db.run[q].proof EXCEPT !.recovery = TRUE]
  <2>1. db'.run[q] = [status |-> "stalled", task |-> db.run[q].task, proof |-> proof]
    BY <1>2, RestartRows
  <2>2. proof.attempts = db.run[q].proof.attempts
    BY <1>1 DEF Row, Proof
  <2> HIDE DEF proof
  <2>3. QED
    BY <1>2, <2>1, <2>2
<1>3. CASE db.run[q].status # "running"
  BY <1>3, RestartRows
<1>4. QED
  BY <1>2, <1>3

LEMMA StartsDisturbs ==
  ASSUME BoardTask = {}, TypeOK, NEW k, NEW phase, NEW queue \in SUBSET Run, NEW r \in queue,
         NEW j \in Job, Starts(k, phase, queue, j, r)
  PROVE  Disturbs({})
<1>1. CASE db' = db
  BY <1>1 DEF Disturbs, IsSettled
<1>2. CASE Resumption(j, r)
  <2>1. RowWritten(db, db', r, db.run[r].status, [db.run[r].proof EXCEPT !.attempts = @ + 1])
    BY <1>2, ResumptionRows
  <2>2. \A q \in Run : db'.run[q].status = db.run[q].status
    BY <2>1, RowFields
  <2>3. QED
    BY <2>2 DEF Disturbs, IsSettled
<1>3. QED
  BY <1>1, <1>2 DEF Starts, LoopStart

LEMMA TicksDisturb ==
  ASSUME BoardTask = {}, TypeOK, NEW k \in Tick, TickMove(k)
  PROVE  Disturbs({}) \/ \E j \in Job : StartReturns(k, j) /\ Disturbs({job[j].run})
<1>1. ASSUME NEW j \in Job, StartReturns(k, j)
      PROVE  Disturbs({job[j].run})
  BY <1>1, BeginWorkMove, WrittenDisturbs DEF StartReturns, BeginMove
<1>2. CASE Turn(k) \/ TickPrepares(k) \/ PrepareFails(k) \/ \E j \in Job : StartFails(k, j)
  BY <1>2 DEF Turn, TickPrepares, PrepareList, PrepareFails, PrepareThrows, StartFails, StartThrows,
     vars, Disturbs, IsSettled
<1>3. ASSUME NEW queue, NEW r, Skips(k, queue, r)
      PROVE  Disturbs({})
  BY <1>3 DEF Skips, vars, Disturbs, IsSettled
<1>4. QED
  BY <1>1, <1>2, <1>3, StartsDisturbs DEF TickMove, TakesNext

LEMMA JobsDisturb ==
  ASSUME SettledInv, NEW j \in Job, JobsMove(j)
  PROVE  Disturbs({})
<1>1. CASE CheckBlocked(j)
  BY <1>1 DEF CheckBlocked, Disturbs, IsSettled
<1>2. CASE WorkerMove(j) \/ AgentMove(j)
  <2>1. job[j].run \in Run => IsSettled(db, job[j].run)
    <3>1. ASSUME job[j].run \in Run
          PROVE  Started(job[j])
      BY <1>2, <3>1, StoreAssumption DEF WorkerMove, AgentMove, JobMove, Started, NoRun
    <3>2. QED
      BY <3>1 DEF SettledInv
  <2>2. CASE KeepsRows
    BY <2>2 DEF KeepsRows, Disturbs, IsSettled
  <2>3. CASE WritesRow(job[j].run, Final \cup {"running"}, FreshProof)
    BY <2>1, <2>3, WrittenDisturbs DEF WritesRow
  <2>4. QED
    BY <1>2, <2>2, <2>3 DEF WorkerMove, AgentMove, WritesRow
<1>3. QED
  BY <1>1, <1>2 DEF JobsMove

LEMMA PreparersDisturb ==
  ASSUME TypeOK, NEW p \in Preparer, PreparerMove(p)
  PROVE  Disturbs({})
<1>1. ASSUME NEW r \in Run, PrepareRecord(p, r)
      PROVE  Disturbs({})
  <2>1. db.run[r].status = "none"
    BY <1>1 DEF PrepareRecord, RunsIn
  <2>2. QED
    BY <1>1, <2>1, InsertedRow DEF Disturbs, IsSettled
<1>2. CASE PrepareSelect(p) \/ PrepareThrows(p) \/ UserPrepare(p)
  BY <1>2 DEF PrepareSelect, PrepareThrows, UserPrepare, PrepareList, Disturbs, IsSettled
<1>3. QED
  BY <1>1, <1>2 DEF PreparerMove

LEMMA CancelDisturbs ==
  ASSUME BoardTask = {}, TypeOK, SettledInv, NEW r \in Run, CancelWrites(r)
  PROVE  Disturbs({})
<1>1. IsSettled(db, r)
  BY DEF CancelWrites, SettledInv
<1>2. QED
  BY <1>1, CancelRows, WrittenDisturbs DEF Final

LEMMA RowsDisturbed ==
  ASSUME BoardTask = {}, TypeOK, SettledInv, LoopMove
  PROVE  Disturbs({}) \/ \E k \in Tick, j \in Job : StartReturns(k, j) /\ Disturbs({job[j].run})
<1>1. CASE Quiet
  BY <1>1 DEF Quiet, KeepsRows, Disturbs, IsSettled
<1>2. CASE DispatchRestart
  <2>1. \A q \in Run : db'.run[q].status = IF db.run[q].status = "running" THEN "stalled"
                                          ELSE db.run[q].status
    BY <1>2, RestartFields DEF DispatchRestart
  <2>2. QED
    BY <2>1 DEF Disturbs, IsSettled
<1>3. QED
  BY <1>1, <1>2, TicksDisturb, JobsDisturb, PreparersDisturb, CancelDisturbs DEF LoopMove

\* What a worker, and a cancel, works on was started before.
LEMMA SettledStep ==
  ASSUME BoardTask = {}, DispatchTypeOK, AwaitInv, SettledInv, LoopMove
  PROVE  SettledInv'
<1>0. /\ TypeOK /\ job \in [Job -> JobRecord]
      /\ \A j \in Job : job[j].run \in Run \cup {NoRun}
      /\ canceling \subseteq Run
  BY DEF DispatchTypeOK, TypeOK, JobRecord
<1>1. \A q \in Run : IsSettled(db, q) => IsSettled(db', q)
  BY <1>0, RowsDisturbed DEF Disturbs
<1>2. ASSUME \A r \in canceling' : r \in Run /\ IsSettled(db, r),
             \A j \in Job : Started(job'[j]) => \/ Started(job[j]) /\ job'[j].run = job[j].run
                                               \/ IsSettled(db', job'[j].run)
      PROVE  SettledInv'
  <2>1. \A j \in Job : Started(job'[j]) => IsSettled(db', job'[j].run)
    BY <1>0, <1>1, <1>2 DEF SettledInv, Started
  <2>2. \A r \in canceling' : IsSettled(db', r)
    BY <1>1, <1>2
  <2>3. QED
    BY <2>1, <2>2 DEF SettledInv, Started, Starting, IsSettled
<1>3. ASSUME canceling' \subseteq canceling, job' = job
      PROVE  SettledInv'
  BY <1>0, <1>2, <1>3 DEF SettledInv
<1>4. CASE Quiet
  BY <1>0, <1>2, <1>4 DEF Quiet, SettledInv, IsSettled
<1>5. ASSUME NEW k \in Tick, TickMove(k)
      PROVE  SettledInv'
  <2>1. ASSUME NEW j \in Job, StartReturns(k, j)
        PROVE  SettledInv'
    <3>1. BeginMove(j)
      BY <1>0, <2>1, BeginWorkMove DEF StartReturns
    <3>2. job'[j].run \in Run => IsSettled(db', job'[j].run)
      BY <3>1, RowFields DEF BeginMove, IsSettled
    <3>3. job'[j].run \in Run \cup {NoRun} /\ canceling' = canceling
      BY <1>0, <3>1 DEF BeginMove
    <3>4. \A i \in Job \ {j} : job'[i] = job[i]
      BY <3>1 DEF BeginMove
    <3>5. QED
      BY <1>0, <1>2, <3>2, <3>3, <3>4 DEF SettledInv, Started
  <2>2. ASSUME NEW j \in Job, StartFails(k, j)
        PROVE  SettledInv'
    <3>1. /\ job'[j].run = NoRun /\ UNCHANGED canceling
          /\ \A i \in Job \ {j} : job'[i] = job[i]
      BY <1>0, <2>2, ThrowsMove DEF StartFails, IdleJob
    <3>2. QED
      BY <1>0, <1>2, <3>1 DEF SettledInv, Started
  <2>3. ASSUME NEW phase, NEW queue \in SUBSET Run, NEW r \in queue, NEW j \in Job,
               Starts(k, phase, queue, j, r)
        PROVE  SettledInv'
    <3>1. PICK p : job' = [job EXCEPT ![j] = [IdleJob EXCEPT !.pc = "loading", !.run = r, !.proof = p]]
      BY <2>3 DEF Starts, Resumption, LoopStart
    <3>2. Starting(job'[j]) /\ \A i \in Job \ {j} : job'[i] = job[i]
      BY <1>0, <3>1 DEF Starting, IdleJob
    <3>3. canceling' = canceling
      BY <2>3 DEF Starts, Resumption, LoopStart
    <3>4. QED
      BY <1>0, <1>2, <3>2, <3>3 DEF SettledInv, Started
  <2>4. CASE Turn(k) \/ TickPrepares(k) \/ PrepareFails(k) \/ \E queue, r : Skips(k, queue, r)
    BY <1>3, <2>4 DEF Turn, TickPrepares, PrepareList, PrepareFails, PrepareThrows, Skips, vars
  <2>5. QED
    BY <1>5, <2>1, <2>2, <2>3, <2>4 DEF TickMove, TakesNext
<1>6. ASSUME NEW j \in Job, JobsMove(j)
      PROVE  SettledInv'
  <2>1. CASE CheckBlocked(j)
    <3>1. /\ Starting(job'[j]) /\ UNCHANGED canceling
          /\ \A i \in Job \ {j} : job'[i] = job[i]
      BY <1>0, <2>1 DEF CheckBlocked, Goto, Starting, JobRecord
    <3>2. QED
      BY <1>0, <1>2, <3>1 DEF SettledInv, Started
  <2>2. CASE WorkerMove(j) \/ AgentMove(j)
    <3>1. JobMove(j) /\ UNCHANGED canceling
      BY <2>2 DEF WorkerMove, AgentMove
    <3>2. QED
      BY <1>0, <1>2, <3>1 DEF SettledInv, JobMove, Started
  <2>3. QED
    BY <1>6, <2>1, <2>2 DEF JobsMove
<1>7. CASE (\E p \in Preparer : PreparerMove(p)) \/ (\E r \in Run : CancelWrites(r))
  BY <1>3, <1>7 DEF PreparerMove, PrepareSelect, PrepareRecord, PrepareThrows, UserPrepare, PrepareList,
     CancelWrites
<1>8. CASE DispatchRestart
  <2>1. canceling' = {} /\ \A j \in Job : ~Started(job'[j])
    BY <1>8 DEF DispatchRestart, Restart, IdleJob, Started
  <2>2. QED
    BY <1>2, <2>1
<1>9. QED
  BY <1>4, <1>5, <1>6, <1>7, <1>8 DEF LoopMove

LEMMA LoadedPrepared ==
  ASSUME QueueInv, NEW k \in Tick, NEW phase \in {"prepared", "fresh"}, NEW queue,
         Loads(k, phase, queue)
  PROVE  queue \subseteq RunsIn(db, "prepared")
<1>1. AutoStartable(db) \subseteq RunsIn(db, "prepared")
  BY DEF AutoStartable
<1>2. QED
  BY <1>1 DEF Loads, QueueInv

\* What a preparer has made, after its steps.
LEMMA PreparerMade ==
  ASSUME TypeOK, NEW p \in Preparer, PreparerMove(p)
  PROVE  /\ \A q \in Preparer \ {p} : prep'[q] = prep[q]
         /\ \/ \E r \in Run : PrepareRecord(p, r) /\ prep'[p].made = prep[p].made \cup {r}
            \/ prep'[p].made \subseteq prep[p].made /\ db' = db
         /\ UNCHANGED <<job, canceling, dvars>>
<1>0. prep \in [Preparer -> PrepRecord] /\ prep[p] \in PrepRecord
  BY DEF TypeOK
<1> DEFINE Becomes(w) == prep' = [prep EXCEPT ![p] = w]
<1>1. ASSUME NEW w, Becomes(w)
      PROVE  prep'[p] = w /\ \A q \in Preparer \ {p} : prep'[q] = prep[q]
  BY <1>0, <1>1
<1> HIDE DEF Becomes
<1>2. ASSUME NEW r \in Run, PrepareRecord(p, r)
      PROVE  prep'[p].made = prep[p].made \cup {r} /\ \A q \in Preparer \ {p} : prep'[q] = prep[q]
  <2> DEFINE some == prep[p].made \cup {r}
  <2>1. PICK t : Becomes(IF prep[p].queue \ {t} = {} THEN [IdlePrep EXCEPT !.made = some]
                         ELSE [prep[p] EXCEPT !.queue = prep[p].queue \ {t}, !.made = some])
    BY <1>2, InsertRows DEF Becomes
  <2> HIDE DEF some
  <2>2. [IdlePrep EXCEPT !.made = some].made = some
    BY DEF IdlePrep
  <2>3. [prep[p] EXCEPT !.queue = prep[p].queue \ {t}, !.made = some].made = some
    BY <1>0 DEF PrepRecord
  <2>4. QED
    BY <1>1, <2>1, <2>2, <2>3 DEF some
<1>3. ASSUME PrepareSelect(p) \/ PrepareThrows(p) \/ UserPrepare(p)
      PROVE  prep'[p].made \subseteq prep[p].made /\ \A q \in Preparer \ {p} : prep'[q] = prep[q]
  <2>1. CASE PrepareSelect(p)
    <3>1. PICK sel : Becomes(IF sel = {} THEN IdlePrep
                             ELSE [prep[p] EXCEPT !.pc = "recording", !.queue = sel])
      BY <2>1 DEF PrepareSelect, Becomes
    <3>2. IdlePrep.made = {}
      BY DEF IdlePrep
    <3>3. [prep[p] EXCEPT !.pc = "recording", !.queue = sel].made = prep[p].made
      BY <1>0 DEF PrepRecord
    <3>4. QED
      BY <1>1, <3>1, <3>2, <3>3
  <2>2. CASE PrepareThrows(p) \/ UserPrepare(p)
    <3>1. PICK w \in {IdlePrep, [IdlePrep EXCEPT !.pc = "listed", !.seen = db.state]} : Becomes(w)
      BY <2>2 DEF PrepareThrows, UserPrepare, PrepareList, Becomes
    <3>2. w.made = {}
      <4>1. IdlePrep.made = {}
        BY DEF IdlePrep
      <4>2. [IdlePrep EXCEPT !.pc = "listed", !.seen = db.state].made = IdlePrep.made
        BY DEF IdlePrep
      <4>3. QED
        BY <3>1, <4>1, <4>2
    <3>3. QED
      BY <1>1, <3>1, <3>2
  <2>3. QED
    BY <1>3, <2>1, <2>2
<1>4. CASE PrepareSelect(p) \/ PrepareThrows(p) \/ UserPrepare(p)
  BY <1>3, <1>4 DEF PreparerMove, PrepareSelect, PrepareThrows, UserPrepare, PrepareList
<1>5. CASE \E r \in Run : PrepareRecord(p, r)
  BY <1>2, <1>5 DEF PreparerMove, PrepareRecord
<1>6. QED
  BY <1>4, <1>5 DEF PreparerMove

LEMMA JobDropped ==
  ASSUME DispatchTypeOK, NEW k \in Tick, tick' = [tick EXCEPT ![k].job = NoJob]
  PROVE  tick' = [tick EXCEPT ![k] = [pc |-> tick[k].pc, queue |-> tick[k].queue, job |-> NoJob]]
<1>1. tick' = [tick EXCEPT ![k] = [tick[k] EXCEPT !.job = NoJob]]
  OBVIOUS
<1>2. [tick[k] EXCEPT !.job = NoJob] = [pc |-> tick[k].pc, queue |-> tick[k].queue, job |-> NoJob]
  BY DEF DispatchTypeOK, TickRecord
<1>3. QED
  BY <1>1, <1>2

LEMMA QueueStep ==
  ASSUME BoardTask = {}, DispatchTypeOK, OneTick, AwaitInv, SettledInv, QueueInv, LoopMove
  PROVE  QueueInv'
<1>0. /\ TypeOK /\ job \in [Job -> JobRecord] /\ Tick \subseteq Preparer /\ NoJob \notin Job
      /\ prep \in [Preparer -> PrepRecord]
      /\ tick \in [Tick -> TickRecord] /\ \A k \in Tick : tick[k] \in TickRecord
  BY DispatchAssumption DEF DispatchTypeOK, TypeOK
\* Enough: what the queues and preparations hold was prepared, and still is.
<1>1. ASSUME NEW R, Disturbs(R),
             \A k \in Tick :
               /\ tick'[k].pc \in {"prepared", "fresh"} =>
                     tick'[k].queue \subseteq RunsIn(db, "prepared") \ R
               /\ tick'[k].pc = "preparing" => \A r \in prep'[k].made :
                     r \in RunsIn(db, "prepared") \ R \/ r \in RunsIn(db', "prepared")
               /\ tick'[k].job # NoJob => job'[tick'[k].job].run \notin tick'[k].queue
      PROVE  QueueInv'
  BY <1>1 DEF QueueInv, Disturbs, RunsIn
\* Tick k comes to pc, with rest to start; the other ticks are idle.
<1>2. ASSUME NEW k \in Tick, NEW pc, NEW rest, NEW i \in Job \cup {NoJob},
             TickBecomes(k, pc, rest, i),
             NEW R, Disturbs(R),
             pc \in {"prepared", "fresh"} => rest \subseteq RunsIn(db, "prepared") \ R,
             pc = "preparing" => prep'[k].made = {},
             i # NoJob => job'[i].run \notin rest,
             tick[k].pc = "idle" => R = {} /\ prep' = prep /\ job' = job
      PROVE  QueueInv'
  <2>1. tick'[k] = [pc |-> pc, queue |-> rest, job |-> i] /\ \A l \in Tick \ {k} : tick'[l] = tick[l]
    BY <1>0, <1>2 DEF TickBecomes
  <2>2. \A l \in Tick : tick[l].pc = "idle" => tick[l].queue = {} /\ tick[l].job = NoJob
    BY DEF AwaitInv, StartPhase
  <2>3. tick[k].pc # "idle" => \A l \in Tick \ {k} : tick[l].pc = "idle"
    BY DEF OneTick
  <2>4. QED
    BY <1>1, <1>2, <2>1, <2>2, <2>3 DEF QueueInv
<1>3. ASSUME NEW k \in Tick, TickMove(k)
      PROVE  QueueInv'
  <2>1. ASSUME NEW pc \in TickPc \ {"preparing"}, GotoTick(k, pc), UNCHANGED vars
        PROVE  QueueInv'
    <3>1. TickBecomes(k, pc, {}, NoJob)
      BY <2>1, GotoIs DEF TickBecomes
    <3>2. Disturbs({}) /\ UNCHANGED <<job, prep>>
      BY <2>1 DEF vars, Disturbs, IsSettled
    <3>3. QED
      BY <1>2, <3>1, <3>2
  <2>2. CASE TickPrepares(k)
    <3>1. TickBecomes(k, "preparing", {}, NoJob)
      BY <2>2, GotoIs DEF TickPrepares, TickBecomes
    <3>2. Disturbs({}) /\ prep'[k].made = {} /\ tick[k].pc # "idle"
      BY <1>0, <2>2 DEF TickPrepares, PrepareList, Resumes, IdlePrep, Disturbs, IsSettled, PrepRecord
    <3>3. QED
      BY <1>2, <3>1, <3>2
  <2>3. ASSUME PrepareFails(k) \/ \E j \in Job : StartFails(k, j)
        PROVE  QueueInv'
    <3>1. TickBecomes(k, "failing", {}, NoJob)
      BY <2>3, GotoIs DEF PrepareFails, StartFails, TickBecomes
    <3>2. Disturbs({}) /\ tick[k].pc # "idle"
      BY <1>0, <2>3 DEF PrepareFails, PrepareThrows, StartFails, StartThrows, Awaits, AwaitInv, StartPhase,
         Disturbs, IsSettled
    <3>3. QED
      BY <1>2, <3>1, <3>2
  <2>4. ASSUME NEW j \in Job, StartReturns(k, j)
        PROVE  QueueInv'
    <3>1. tick[k].job = j /\ tick[k].pc \in StartPhase /\ tick[k].pc # "preparing" /\ tick[k].pc # "idle"
      BY <1>0, <2>4 DEF StartReturns, Awaits, AwaitInv, StartPhase
    <3>2. TickBecomes(k, tick[k].pc, tick[k].queue, NoJob)
      BY <1>0, <2>4, JobDropped DEF StartReturns, TickBecomes
    <3>3. Disturbs({job[j].run})
      BY <1>0, <2>4, BeginWorkMove, WrittenDisturbs DEF StartReturns, BeginMove
    <3>4. tick[k].pc \in {"prepared", "fresh"} =>
             tick[k].queue \subseteq RunsIn(db, "prepared") \ {job[j].run}
      BY <1>0, <3>1 DEF QueueInv
    <3>5. QED
      BY <1>2, <3>1, <3>2, <3>3, <3>4
  <2>5. ASSUME NEW phase \in StartPhase, NEW queue \in SUBSET Run, NEW r \in queue,
               Loads(k, phase, queue), NEW i \in Job \cup {NoJob},
               TickBecomes(k, phase, queue \ {r}, i),
               Disturbs({}), i # NoJob => job'[i].run = r
        PROVE  QueueInv'
    <3>1. tick[k].pc # "idle" /\ phase # "preparing"
      BY <2>5 DEF Loads, StartPhase
    <3>2. phase \in {"prepared", "fresh"} => queue \ {r} \subseteq RunsIn(db, "prepared") \ {}
      BY <2>5, LoadedPrepared
    <3>3. QED
      BY <1>2, <2>5, <3>1, <3>2
  <2>6. ASSUME NEW phase \in StartPhase, NEW queue \in SUBSET Run, NEW r \in queue, NEW j \in Job,
               Loads(k, phase, queue), Starts(k, phase, queue, j, r)
        PROVE  QueueInv'
    <3>1. job'[j].run = r
      BY <1>0, <2>6, StartedRun DEF DispatchTypeOK
    <3>2. Disturbs({})
      BY <1>0, <2>6, StartsDisturbs
    <3>3. QED
      BY <2>5, <2>6, <3>1, <3>2 DEF Starts, TickBecomes
  <2>7. ASSUME NEW queue \in SUBSET Run, NEW r \in queue,
               Loads(k, "interrupted", queue), Skips(k, queue, r)
        PROVE  QueueInv'
    <3>1. Disturbs({}) /\ "interrupted" \in StartPhase
      BY <2>7 DEF Skips, vars, Disturbs, IsSettled, StartPhase
    <3>2. QED
      BY <2>5, <2>7, <3>1 DEF Skips, TickBecomes
  <2>8. QED
    BY <1>3, <2>1, <2>2, <2>3, <2>4, <2>6, <2>7 DEF TickMove, TakesNext, Turn
<1>4. ASSUME UNCHANGED tick, Disturbs({}),
             \A k \in Tick : tick[k].job # NoJob =>
                job'[tick[k].job].run = job[tick[k].job].run,
             \A k \in Tick : \A r \in prep'[k].made :
                r \in prep[k].made \/ r \in RunsIn(db', "prepared")
      PROVE  QueueInv'
  BY <1>1, <1>4 DEF QueueInv
<1>5. CASE Quiet
  <2>1. Disturbs({})
    BY <1>5 DEF Quiet, KeepsRows, Disturbs, IsSettled
  <2>2. QED
    BY <1>4, <1>5, <2>1 DEF Quiet
<1>6. ASSUME NEW j \in Job, JobsMove(j)
      PROVE  QueueInv'
  <2>1. Disturbs({})
    BY <1>0, <1>6, JobsDisturb
  <2>2. UNCHANGED <<tick, prep>>
    BY <1>6 DEF JobsMove, CheckBlocked, WorkerMove, AgentMove, dvars
  <2>3. \A i \in Job : Starting(job[i]) => job'[i].run = job[i].run
    BY <1>0, <1>6 DEF JobsMove, CheckBlocked, Goto, WorkerMove, AgentMove, JobMove, JobRecord
  <2>4. QED
    BY <1>0, <1>4, <2>1, <2>2, <2>3 DEF AwaitInv, TickRecord
<1>7. ASSUME NEW p \in Preparer, PreparerMove(p)
      PROVE  QueueInv'
  <2>1. UNCHANGED <<tick, job>>
    BY <1>0, <1>7, PreparerMade DEF dvars
  <2>2. Disturbs({})
    BY <1>0, <1>7, PreparersDisturb
  <2>3. ASSUME NEW r \in Run, PrepareRecord(p, r)
        PROVE  r \in RunsIn(db', "prepared")
    <3>1. PICK t : db'.run[r] = [status |-> "prepared", task |-> t, proof |-> FreshProof]
      BY <1>0, <2>3, InsertRows
    <3>2. QED
      BY <3>1 DEF RunsIn
  <2>4. \A k \in Tick : \A r \in prep'[k].made :
            r \in prep[k].made \/ r \in RunsIn(db', "prepared")
    BY <1>0, <1>7, <2>3, PreparerMade
  <2>5. QED
    BY <1>4, <2>1, <2>2, <2>4
<1>8. ASSUME NEW r \in Run, CancelWrites(r), UNCHANGED dvars
      PROVE  QueueInv'
  <2>1. Disturbs({})
    BY <1>0, <1>8, CancelDisturbs
  <2>2. QED
    BY <1>4, <1>8, <2>1 DEF CancelWrites, dvars
<1>9. CASE DispatchRestart
  BY <1>9 DEF DispatchRestart, IdleTick, QueueInv
<1>10. QED
  BY <1>3, <1>5, <1>6, <1>7, <1>8, <1>9 DEF LoopMove

(***************************************************************************)
(* NoCrashLoop.  The observer counts resumptions; the loop counts attempts *)
(* in the proof of work, which the start and the progress of a run replace.*)
(* The invariant says that, wherever a run is on its way from one crash to *)
(* the next, its attempts are at least the resumptions: in its row, and in *)
(* the copy that a start carries until it begins to work.                  *)
(***************************************************************************)
Attempts(d, r) == d.run[r].proof.attempts
IsCounted(d, r) == d.run[r].status = "running" \/ IsRestartInterrupted(d, r)

CrashInv ==
    /\ \A r \in Run : ~IsSettled(db, r) => resumed[r] = 0
    /\ \A r \in Run : IsCounted(db, r) => resumed[r] <= Attempts(db, r)
    /\ \A j \in Job : Starting(job[j]) =>
          job[j].run \in Run /\ resumed[job[j].run] <= job[j].proof.attempts
    /\ \A k \in Tick : tick[k].pc = "interrupted" => \A r \in tick[k].queue :
          IsRestartInterrupted(db, r) => Attempts(db, r) < AutoContinueLimit
    /\ NoCrashLoop

LEMMA LoadedContinuable ==
  ASSUME CrashInv, NEW k \in Tick, NEW queue, Loads(k, "interrupted", queue),
         NEW r \in queue, IsRestartInterrupted(db, r)
  PROVE  Attempts(db, r) < AutoContinueLimit
<1>1. ASSUME NEW held, r \in AutoContinuable(db, held)
      PROVE  Attempts(db, r) < AutoContinueLimit
  BY <1>1 DEF AutoContinuable, Attempts
<1>2. QED
  BY <1>1 DEF Loads, CrashInv

\* The starts in progress are those of before, with the proofs they carry.
StartsKept ==
    \A j \in Job : Starting(job'[j]) =>
        Starting(job[j]) /\ job'[j].run = job[j].run /\ job'[j].proof = job[j].proof

\* What is queued for resumption had attempts left before the step.
QueuesKept ==
    \A k \in Tick : tick'[k].pc = "interrupted" => \A r \in tick'[k].queue :
        r \in Run /\ (IsRestartInterrupted(db, r) => Attempts(db, r) < AutoContinueLimit)

LEMMA CrashTypes ==
  ASSUME DispatchTypeOK
  PROVE  /\ TypeOK /\ job \in [Job -> JobRecord] /\ NoJob \notin Job
         /\ \A q \in Run : db.run[q] \in Row /\ Attempts(db, q) \in Nat
         /\ \A j \in Job : job[j].proof.attempts \in Nat /\ job[j].run \in Run \cup {NoRun}
         /\ tick \in [Tick -> TickRecord]
         /\ \A k \in Tick : tick[k] \in TickRecord /\ tick[k].queue \in SUBSET Run
         /\ AutoContinueLimit \in Nat
         /\ resumed \in [Run -> 0..AutoContinueLimit + 1]
         /\ \A q \in Run : resumed[q] \in Nat
<1>1. TypeOK /\ db \in Database /\ job \in [Job -> JobRecord] /\ tick \in [Tick -> TickRecord]
        /\ AutoContinueLimit \in Nat /\ resumed \in [Run -> 0..AutoContinueLimit + 1]
        /\ NoJob \notin Job
  BY DispatchAssumption DEF DispatchTypeOK, TypeOK
<1>2. \A q \in Run : db.run[q] \in Row /\ Attempts(db, q) \in Nat
  BY <1>1 DEF Database, Row, Proof, Attempts
<1>3. \A j \in Job : job[j].proof.attempts \in Nat /\ job[j].run \in Run \cup {NoRun}
  BY <1>1 DEF JobRecord, Proof
<1>4. \A k \in Tick : tick[k] \in TickRecord /\ tick[k].queue \in SUBSET Run
  BY <1>1 DEF TickRecord
<1>5. \A q \in Run : resumed[q] \in Nat
  BY <1>1
<1>6. QED
  BY <1>1, <1>2, <1>3, <1>4, <1>5

\* The steps that resume nothing and interrupt nothing.
LEMMA CrashKept ==
  ASSUME DispatchTypeOK, CrashInv, StartsKept, QueuesKept,
         \A q \in Run : resumed'[q] \in {0, resumed[q]},
         \A q \in Run :
            \/ db'.run[q] = db.run[q]
            \/ IsSettled(db', q) /\ ~IsCounted(db', q)
            \/ ~IsSettled(db, q) /\ ~IsCounted(db', q)
            \/ db'.run[q].status = "running" /\ resumed'[q] <= Attempts(db', q)
  PROVE  CrashInv'
<1>0. /\ \A q \in Run : resumed[q] \in Nat /\ Attempts(db, q) \in Nat
      /\ \A j \in Job : job[j].proof.attempts \in Nat
      /\ AutoContinueLimit \in Nat
  BY CrashTypes
<1>1. ASSUME NEW q \in Run
      PROVE  /\ ~IsSettled(db', q) => resumed'[q] = 0
             /\ IsCounted(db', q) => resumed'[q] <= Attempts(db', q)
             /\ resumed'[q] <= AutoContinueLimit
             /\ IsRestartInterrupted(db', q) =>
                   IsRestartInterrupted(db, q) /\ Attempts(db', q) = Attempts(db, q)
  <2>1. CASE db'.run[q] = db.run[q]
    BY <1>0, <2>1 DEF CrashInv, NoCrashLoop, IsSettled, IsCounted, IsRestartInterrupted, Attempts
  <2>2. CASE db'.run[q].status = "running" /\ resumed'[q] <= Attempts(db', q)
    BY <1>0, <2>2 DEF CrashInv, NoCrashLoop, IsSettled, IsRestartInterrupted
  <2>3. CASE IsSettled(db', q) /\ ~IsCounted(db', q)
    BY <1>0, <2>3 DEF CrashInv, NoCrashLoop, IsCounted
  <2>4. CASE ~IsSettled(db, q) /\ ~IsCounted(db', q)
    BY <1>0, <2>4 DEF CrashInv, NoCrashLoop, IsCounted
  <2>5. QED
    BY <2>1, <2>2, <2>3, <2>4
<1>2. ASSUME NEW j \in Job, Starting(job'[j])
      PROVE  job'[j].run \in Run /\ resumed'[job'[j].run] <= job'[j].proof.attempts
  <2>1. /\ Starting(job[j]) /\ job'[j].run = job[j].run /\ job'[j].proof = job[j].proof
    BY <1>2 DEF StartsKept
  <2>2. job[j].run \in Run /\ resumed[job[j].run] <= job[j].proof.attempts
    BY <2>1 DEF CrashInv
  <2>3. QED
    BY <1>0, <2>1, <2>2
<1>3. ASSUME NEW k \in Tick, tick'[k].pc = "interrupted", NEW r \in tick'[k].queue,
             IsRestartInterrupted(db', r)
      PROVE  Attempts(db', r) < AutoContinueLimit
  BY <1>1, <1>3 DEF QueuesKept
<1>4. QED
  BY <1>1, <1>2, <1>3
  DEF CrashInv, NoCrashLoop, IsSettled, IsCounted, IsRestartInterrupted, Starting, Attempts

LEMMA QueuesKeptStep ==
  ASSUME DispatchTypeOK, CrashInv, LoopMove
  PROVE  QueuesKept
<1>0. /\ tick \in [Tick -> TickRecord]
      /\ \A k \in Tick : tick[k] \in TickRecord /\ tick[k].queue \in SUBSET Run
  BY CrashTypes
<1>1. ASSUME tick' = tick
      PROVE  QueuesKept
  BY <1>0, <1>1 DEF QueuesKept, CrashInv
<1>2. ASSUME NEW k \in Tick, NEW pc, NEW rest, NEW i, TickBecomes(k, pc, rest, i),
             pc = "interrupted" => \A r \in rest :
                r \in Run /\ (IsRestartInterrupted(db, r) => Attempts(db, r) < AutoContinueLimit)
      PROVE  QueuesKept
  <2>1. tick'[k] = [pc |-> pc, queue |-> rest, job |-> i] /\ \A l \in Tick \ {k} : tick'[l] = tick[l]
    BY <1>0, <1>2 DEF TickBecomes
  <2>2. QED
    BY <1>0, <1>2, <2>1 DEF QueuesKept, CrashInv
<1>3. ASSUME NEW k \in Tick, NEW pc, GotoTick(k, pc)
      PROVE  QueuesKept
  BY <1>2, <1>3, GotoIs DEF TickBecomes
<1>4. ASSUME NEW k \in Tick, NEW j \in Job, StartReturns(k, j)
      PROVE  QueuesKept
  <2>1. TickBecomes(k, tick[k].pc, tick[k].queue, NoJob)
    BY <1>4, JobDropped DEF StartReturns, TickBecomes
  <2>2. QED
    BY <1>0, <1>2, <2>1 DEF CrashInv
<1>5. ASSUME NEW k \in Tick, NEW phase, NEW queue \in SUBSET Run, NEW r \in queue, NEW i,
             Loads(k, phase, queue), TickBecomes(k, phase, queue \ {r}, i)
      PROVE  QueuesKept
  BY <1>2, <1>5, LoadedContinuable
<1>6. ASSUME NEW k \in Tick, TickMove(k)
      PROVE  QueuesKept
  BY <1>3, <1>4, <1>5, <1>6
  DEF TickMove, Turn, TakesNext, Starts, Skips, TickPrepares, PrepareFails, StartFails, TickBecomes
<1>7. CASE DispatchRestart
  BY <1>7 DEF DispatchRestart, IdleTick, QueuesKept
<1>8. QED
  BY <1>1, <1>6, <1>7 DEF LoopMove, Quiet, JobsMove, PreparerMove, dvars

LEMMA CrashStep ==
  ASSUME BoardTask = {}, DispatchTypeOK, OneTick, AwaitInv, SettledInv, QueueInv, CrashInv, LoopMove
  PROVE  CrashInv'
<1>0. /\ TypeOK /\ job \in [Job -> JobRecord] /\ NoJob \notin Job
      /\ \A q \in Run : db.run[q] \in Row /\ Attempts(db, q) \in Nat
      /\ \A j \in Job : job[j].proof.attempts \in Nat /\ job[j].run \in Run \cup {NoRun}
      /\ tick \in [Tick -> TickRecord] /\ \A k \in Tick : tick[k] \in TickRecord
      /\ AutoContinueLimit \in Nat
      /\ \A q \in Run : resumed[q] \in Nat
      /\ resumed \in [Run -> 0..AutoContinueLimit + 1]
  BY CrashTypes
<1>00. QueuesKept
  BY QueuesKeptStep
\* No row changes.
<1>1. ASSUME StartsKept, KeepsRows, resumed' = resumed
      PROVE  CrashInv'
  BY <1>00, <1>1, CrashKept DEF KeepsRows
\* The row of r is written, and r is finished or running.
<1>2. ASSUME StartsKept, NEW r, NEW s \in Final \cup {"running"}, NEW p,
             RowWritten(db, db', r, s, p),
             \A q \in Run : resumed'[q] \in {0, resumed[q]},
             s = "stalled" => ~p.recovery,
             s = "running" /\ r \in Run => resumed'[r] <= p.attempts
      PROVE  CrashInv'
  <2>1. ASSUME NEW q \in Run
        PROVE  \/ db'.run[q] = db.run[q]
               \/ IsSettled(db', q) /\ ~IsCounted(db', q)
               \/ db'.run[q].status = "running" /\ resumed'[q] <= Attempts(db', q)
    <3>1. CASE q = r
      <4>1. db'.run[q].status = s /\ db'.run[q].proof = p
        BY <1>2, <3>1, RowFields
      <4>2. QED
        BY <1>2, <3>1, <4>1 DEF Final, IsSettled, IsCounted, IsRestartInterrupted, Attempts
    <3>2. CASE q # r
      BY <1>2, <3>2 DEF RowWritten
    <3>3. QED
      BY <3>1, <3>2
  <2>2. QED
    BY <1>00, <1>2, <2>1, CrashKept
<1>3. ASSUME job' = job
      PROVE  StartsKept
  BY <1>3 DEF StartsKept
<1>4. CASE Quiet
  BY <1>1, <1>3, <1>4 DEF Quiet
<1>5. ASSUME NEW k \in Tick, TickMove(k)
      PROVE  CrashInv'
  <2>1. CASE Turn(k) \/ TickPrepares(k) \/ PrepareFails(k) \/ \E queue, r : Skips(k, queue, r)
    BY <1>1, <1>3, <2>1 DEF Turn, TickPrepares, PrepareList, PrepareFails, PrepareThrows, Skips, vars, KeepsRows
  <2>2. ASSUME NEW j \in Job, StartReturns(k, j)
        PROVE  CrashInv'
    <3>1. BeginMove(j)
      BY <1>0, <2>2, BeginWorkMove DEF StartReturns
    <3>2. StartsKept
      BY <3>1 DEF BeginMove, StartsKept
    <3>3. job[j].run \in Run /\ resumed[job[j].run] <= job[j].proof.attempts
      BY <3>1 DEF BeginMove, CrashInv
    <3>4. QED
      BY <1>2, <2>2, <3>1, <3>2, <3>3 DEF BeginMove, StartReturns
  <2>3. ASSUME NEW j \in Job, StartFails(k, j)
        PROVE  CrashInv'
    <3>1. StartsKept /\ KeepsRows
      BY <1>0, <2>3, ThrowsMove DEF StartFails, StartsKept, KeepsRows, IdleJob, Starting
    <3>2. QED
      BY <1>1, <2>3, <3>1 DEF StartFails
  <2>4. ASSUME NEW phase \in StartPhase, NEW queue \in SUBSET Run, NEW r \in queue, NEW j \in Job,
               Loads(k, phase, queue), Starts(k, phase, queue, j, r)
        PROVE  CrashInv'
    <3>1. PICK p : job' = [job EXCEPT ![j] =
              [IdleJob EXCEPT !.pc = "loading", !.run = r, !.proof = p]] /\ p = db'.run[r].proof
      BY <2>4 DEF Starts, Resumption, LoopStart
    <3>2. /\ job'[j].run = r /\ job'[j].proof = p
          /\ \A i \in Job \ {j} : job'[i] = job[i]
      BY <1>0, <3>1 DEF IdleJob
    <3>3. \A i \in Job \ {j} : ~Starting(job[i])
      <4>1. \A l \in Tick : tick[l].job = NoJob
        <5>1. tick[k].job = NoJob /\ tick[k].pc # "idle"
          BY <2>4 DEF Loads, StartPhase
        <5>2. QED
          BY <5>1 DEF OneTick, AwaitInv, StartPhase
      <4>2. QED
        BY <1>0, <4>1 DEF AwaitInv
    <3>4. CASE phase # "interrupted"
      <4>1. r \in RunsIn(db, "prepared") /\ db' = db /\ resumed' = resumed
        BY <2>4, <3>4, LoadedPrepared DEF StartPhase, Starts, LoopStart
      <4>2. resumed[r] = 0 /\ p.attempts \in Nat
        BY <1>0, <3>1, <4>1 DEF CrashInv, RunsIn, IsSettled, Attempts
      <4>3. \A i \in Job : Starting(job'[i]) =>
               job'[i].run \in Run /\ resumed'[job'[i].run] <= job'[i].proof.attempts
        BY <3>2, <3>3, <4>1, <4>2
      <4>4. QED
        BY <1>00, <4>1, <4>3
        DEF CrashInv, NoCrashLoop, QueuesKept, IsSettled, IsCounted, IsRestartInterrupted, Starting, Attempts
    <3>5. CASE phase = "interrupted"
      <4>1. Resumption(j, r) /\ resumed' = [resumed EXCEPT ![r] = Bump(@)]
        BY <2>4, <3>5 DEF Starts
      <4>2. IsRestartInterrupted(db, r) /\ IsSettled(db, r) /\ IsCounted(db, r)
        BY <4>1 DEF Resumption, IsRestartInterrupted, IsSettled, IsCounted
      <4>3. resumed[r] <= Attempts(db, r) /\ Attempts(db, r) < AutoContinueLimit
        BY <2>4, <3>5, <4>2, LoadedContinuable DEF CrashInv
      <4>4. resumed'[r] = resumed[r] + 1 /\ \A q \in Run \ {r} : resumed'[q] = resumed[q]
        BY <1>0, <4>1, <4>3 DEF Bump
      <4> DEFINE more == [db.run[r].proof EXCEPT !.attempts = @ + 1]
      <4>5. RowWritten(db, db', r, db.run[r].status, more)
        BY <1>0, <4>1, ResumptionRows
      <4>6. more.attempts = Attempts(db, r) + 1
        BY <1>0 DEF Attempts, Row, Proof
      <4> HIDE DEF more
      <4>7. /\ db'.run[r].proof = more /\ db'.run[r].status = db.run[r].status
            /\ \A q \in Run \ {r} : db'.run[q] = db.run[q]
        <5>1. db'.run[r].proof = more /\ db'.run[r].status = db.run[r].status
          BY <2>4, <4>5, RowFields
        <5>2. \A q \in Run \ {r} : db'.run[q] = db.run[q]
          BY <4>5 DEF RowWritten
        <5>3. QED
          BY <5>1, <5>2
      <4>8. ASSUME NEW q \in Run
            PROVE  /\ ~IsSettled(db', q) => resumed'[q] = 0
                   /\ IsCounted(db', q) => resumed'[q] <= Attempts(db', q)
                   /\ resumed'[q] <= AutoContinueLimit
        <5>1. CASE q = r
          BY <1>0, <4>2, <4>3, <4>4, <4>6, <4>7, <5>1 DEF IsSettled, Attempts
        <5>2. CASE q # r
          BY <1>0, <4>4, <4>7, <5>2
          DEF CrashInv, NoCrashLoop, IsSettled, IsCounted, IsRestartInterrupted, Attempts
        <5>3. QED
          BY <5>1, <5>2
      <4>9. \A i \in Job : Starting(job'[i]) =>
               job'[i].run \in Run /\ resumed'[job'[i].run] <= job'[i].proof.attempts
        <5>1. p.attempts = Attempts(db, r) + 1
          BY <3>1, <4>6, <4>7
        <5>2. QED
          BY <1>0, <3>2, <3>3, <4>3, <4>4, <5>1
      <4>10. \A l \in Tick : tick'[l].pc = "interrupted" => r \notin tick'[l].queue
        <5>1. tick'[k].queue = queue \ {r} /\ \A l \in Tick \ {k} : tick'[l] = tick[l]
          BY <1>0, <2>4 DEF Starts
        <5>2. \A l \in Tick \ {k} : tick[l].pc = "idle"
          BY <2>4 DEF Loads, StartPhase, OneTick
        <5>3. QED
          BY <5>1, <5>2
      <4>11. \A l \in Tick : tick'[l].pc = "interrupted" => \A q \in tick'[l].queue :
                IsRestartInterrupted(db', q) => Attempts(db', q) < AutoContinueLimit
        BY <1>00, <4>7, <4>10 DEF QueuesKept, IsRestartInterrupted, Attempts
      <4>12. QED
        BY <4>8, <4>9, <4>11
        DEF CrashInv, NoCrashLoop, IsSettled, IsCounted, IsRestartInterrupted, Starting, Attempts
    <3>6. QED
      BY <3>4, <3>5
  <2>5. QED
    BY <1>5, <2>1, <2>2, <2>3, <2>4 DEF TickMove, TakesNext
<1>6. ASSUME NEW j \in Job, JobsMove(j)
      PROVE  CrashInv'
  <2>1. CASE CheckBlocked(j) /\ UNCHANGED dvars
    <3>1. StartsKept
      BY <1>0, <2>1 DEF CheckBlocked, Goto, StartsKept, Starting, JobRecord
    <3>2. QED
      BY <1>1, <2>1, <3>1 DEF CheckBlocked, KeepsRows, dvars
  <2>2. CASE WorkerMove(j) /\ UNCHANGED dvars
    <3>1. StartsKept
      BY <2>2 DEF WorkerMove, JobMove, StartsKept
    <3>2. CASE KeepsRows
      BY <1>1, <2>2, <3>1, <3>2 DEF dvars
    <3>3. ASSUME NEW s \in Final, RowWritten(db, db', job[j].run, s, FreshProof)
          PROVE  CrashInv'
      <4>1. FreshProof.recovery = FALSE /\ s # "running" /\ s \in Final \cup {"running"}
        BY DEF FreshProof, Final
      <4>2. \A q \in Run : resumed'[q] \in {0, resumed[q]}
        BY <2>2 DEF dvars
      <4>3. QED
        BY <1>2, <3>1, <3>3, <4>1, <4>2
    <3>4. QED
      BY <2>2, <3>2, <3>3 DEF WorkerMove, WritesRow
  <2>3. CASE AgentMove(j) /\ tick' = tick /\ resumed' = [resumed EXCEPT ![job[j].run] = 0]
    <3>1. StartsKept
      BY <2>3 DEF AgentMove, JobMove, StartsKept
    <3>2. RowWritten(db, db', job[j].run, "running", FreshProof)
      BY <2>3 DEF AgentMove, WritesRow
    <3>3. /\ \A q \in Run : resumed'[q] \in {0, resumed[q]}
          /\ job[j].run \in Run => resumed'[job[j].run] = 0
      BY <1>0, <2>3
    <3>4. FreshProof.recovery = FALSE /\ FreshProof.attempts = 0
      BY DEF FreshProof
    <3>5. job[j].run \in Run => resumed'[job[j].run] <= FreshProof.attempts
      BY <3>3, <3>4
    <3>6. QED
      BY <1>2, <3>1, <3>2, <3>3, <3>4, <3>5
  <2>4. QED
    BY <1>6, <2>1, <2>2, <2>3 DEF JobsMove
<1>7. ASSUME NEW p \in Preparer, PreparerMove(p)
      PROVE  CrashInv'
  <2>1. StartsKept /\ resumed' = resumed
    BY <1>0, <1>3, <1>7, PreparerMade DEF dvars
  <2>2. ASSUME NEW r \in Run, PrepareRecord(p, r)
        PROVE  CrashInv'
    <3>1. ~IsSettled(db, r)
      BY <2>2 DEF PrepareRecord, RunsIn, IsSettled
    <3>2. db'.run[r].status = "prepared" /\ \A q \in Run \ {r} : db'.run[q] = db.run[q]
      <4>1. PICK t \in prep[p].queue : db' = InsertRun(db, r, t)
        BY <2>2 DEF PrepareRecord
      <4>2. db'.run = [db.run EXCEPT ![r] = [status |-> "prepared", task |-> t, proof |-> FreshProof]]
        BY <4>1 DEF InsertRun
      <4>3. QED
        BY <1>0, <4>2 DEF TypeOK, Database
    <3>3. ~IsCounted(db', r)
      BY <3>2 DEF IsCounted, IsRestartInterrupted
    <3>4. ASSUME NEW q \in Run
          PROVE  \/ db'.run[q] = db.run[q]
                 \/ ~IsSettled(db, q) /\ ~IsCounted(db', q)
      <4>1. CASE q = r
        BY <3>1, <3>3, <4>1
      <4>2. CASE q # r
        <5>1. q \in Run \ {r}
          BY <4>2
        <5>2. db'.run[q] = db.run[q]
          BY <3>2, <5>1
        <5>3. QED
          BY <5>2
      <4>3. QED
        BY <4>1, <4>2
    <3>5. QED
      BY <1>00, <2>1, <3>4, CrashKept
  <2>3. CASE db' = db
    BY <1>1, <2>1, <2>3 DEF KeepsRows
  <2>4. QED
    BY <1>0, <1>7, <2>2, <2>3, PreparerMade
<1>8. ASSUME NEW r \in Run, CancelWrites(r), UNCHANGED dvars
      PROVE  CrashInv'
  <2>1. StartsKept /\ resumed' = resumed
    BY <1>3, <1>8 DEF CancelWrites, dvars
  <2>2. RowWritten(db, db', r, "canceled", db.run[r].proof)
    BY <1>0, <1>8, CancelRows
  <2>3. QED
    BY <1>2, <2>1, <2>2 DEF Final
<1>9. CASE DispatchRestart
  <2>1. \A j \in Job : ~Starting(job'[j])
    BY <1>9 DEF DispatchRestart, Restart, IdleJob, Starting
  <2>2. \A k \in Tick : tick'[k].pc # "interrupted"
    BY <1>9 DEF DispatchRestart, IdleTick
  <2>3. ASSUME NEW q \in Run
        PROVE  /\ ~IsSettled(db', q) => ~IsSettled(db, q)
               /\ IsCounted(db', q) => IsCounted(db, q)
               /\ Attempts(db', q) = Attempts(db, q)
    <3>1. /\ db'.run[q].status = IF db.run[q].status = "running" THEN "stalled" ELSE db.run[q].status
          /\ db'.run[q].proof.attempts = db.run[q].proof.attempts
          /\ db.run[q].status # "running" => db'.run[q] = db.run[q]
      BY <1>0, <1>9, RestartFields DEF DispatchRestart
    <3>2. QED
      BY <3>1 DEF IsSettled, IsCounted, IsRestartInterrupted, Attempts
  <2>4. resumed' = resumed
    BY <1>9 DEF DispatchRestart
  <2>5. QED
    BY <2>1, <2>2, <2>3, <2>4
    DEF CrashInv, NoCrashLoop, IsSettled, IsCounted, IsRestartInterrupted, Starting, Attempts
<1>10. QED
  BY <1>4, <1>5, <1>6, <1>7, <1>8, <1>9 DEF LoopMove

LoopInv == OneTick /\ AwaitInv /\ SettledInv /\ QueueInv

LEMMA LoopInvInit == DispatchInit => LoopInv /\ DispatchTypeOK
<1>1. DispatchInit => OneTick /\ AwaitInv
  BY AwaitInit
<1>2. DispatchInit => SettledInv /\ QueueInv
  BY DEF DispatchInit, Init, SettledInv, QueueInv, Started, IdleJob, IdleTick
<1>3. DispatchInit => DispatchTypeOK
  BY DispatchInitType
<1>4. QED
  BY <1>1, <1>2, <1>3 DEF LoopInv

LEMMA LoopInvStep ==
  ASSUME BoardTask = {}, "start" \notin Command, ~Toggle \/ \A k, l \in Tick : k = l,
         DispatchTypeOK, LoopInv, [DispatchNext]_allvars
  PROVE  LoopInv' /\ DispatchTypeOK' /\ LoopMove
<1>1. LoopMove
  BY LoopMoves DEF LoopInv
<1>2. OneTick'
  BY OneTickStep DEF LoopInv
<1>3. AwaitInv' /\ SettledInv' /\ QueueInv'
  BY <1>1, AwaitStep, SettledStep, QueueStep DEF LoopInv
<1>4. DispatchTypeOK'
  BY DispatchTypeStep
<1>5. QED
  BY <1>1, <1>2, <1>3, <1>4 DEF LoopInv

\* A run that takes the desktop down before its agent does anything is resumed
\* at most AutoContinueLimit times (RESTART_INTERRUPTED_AUTO_CONTINUE_LIMIT),
\* for tasks without a board card, runs that only the loop starts, and ticks
\* that do not overlap.
THEOREM CrashLoopsEnd ==
  ASSUME BoardTask = {}, "start" \notin Command, ~Toggle \/ \A k, l \in Tick : k = l
  PROVE  DispatchSpec => []NoCrashLoop
<1>1. DispatchInit => DispatchTypeOK /\ LoopInv /\ CrashInv
  <2>1. DispatchInit => CrashInv
    BY DispatchAssumption
    DEF DispatchInit, Init, EmptyDatabase, CrashInv, NoCrashLoop, IsSettled, IsCounted,
        IsRestartInterrupted, Starting, Attempts, IdleJob, IdleTick
  <2>2. QED
    BY <2>1, LoopInvInit
<1>2. ASSUME DispatchTypeOK, LoopInv, CrashInv, [DispatchNext]_allvars
      PROVE  DispatchTypeOK' /\ LoopInv' /\ CrashInv'
  <2>1. DispatchTypeOK' /\ LoopInv' /\ LoopMove
    BY <1>2, LoopInvStep
  <2>2. CrashInv'
    BY <1>2, <2>1, CrashStep DEF LoopInv
  <2>3. QED
    BY <2>1, <2>2
<1>3. CrashInv => NoCrashLoop
  BY DEF CrashInv
<1>4. QED
  BY <1>1, <1>2, <1>3, PTL DEF DispatchSpec

(***************************************************************************)
(* RunningWithinCap.  What a tick may start is bounded when it decides: by *)
(* the scheduler for prepared and fresh runs, by the rank among those that *)
(* a restart interrupted for the others.                                   *)
(***************************************************************************)
IsUsed(d, r) == r \in Run /\ d.run[r].status # "none"
HasTask(d, r) == r \in Run /\ TaskOf(d, r) \in Task
TasksOf(d, R) == {TaskOf(d, r) : r \in R}

LEMMA TasksOfFinite ==
  ASSUME NEW d, NEW R \in SUBSET Run
  PROVE  /\ IsFiniteSet(R) /\ Cardinality(R) \in Nat
         /\ IsFiniteSet(TasksOf(d, R)) /\ Cardinality(TasksOf(d, R)) \in Nat
         /\ Cardinality(TasksOf(d, R)) <= Cardinality(R)
<1> DEFINE f == [r \in R |-> TaskOf(d, r)]
<1>1. IsFiniteSet(R) /\ Cardinality(R) \in Nat
  BY FS_Subset, FS_CardinalityType, StoreAssumption
<1>2. f \in Surjection(R, TasksOf(d, R))
  BY DEF Surjection, TasksOf
<1>3. IsFiniteSet(TasksOf(d, R)) /\ Cardinality(TasksOf(d, R)) <= Cardinality(R)
  <2> HIDE DEF f
  <2>1. QED
    BY <1>1, <1>2, FS_Surjection
<1>4. QED
  BY <1>1, <1>3, FS_CardinalityType

LEMMA InterruptedRank ==
  ASSUME NEW d, NEW q, NEW r, HasTask(d, q), HasTask(d, r), q # r
  PROVE  /\ InterruptedBefore(d, q, r) \/ InterruptedBefore(d, r, q)
         /\ ~(InterruptedBefore(d, q, r) /\ InterruptedBefore(d, r, q))
  BY TaskColumns, StoreAssumption DEF HasTask, InterruptedBefore

LEMMA InterruptedTransitive ==
  ASSUME NEW d, NEW p, NEW q, NEW r, HasTask(d, p), HasTask(d, q), HasTask(d, r),
         InterruptedBefore(d, p, q), InterruptedBefore(d, q, r)
  PROVE  InterruptedBefore(d, p, r)
  BY TaskColumns, StoreAssumption DEF HasTask, InterruptedBefore

LEMMA InterruptedIrreflexive ==
  ASSUME NEW d, NEW r, HasTask(d, r)
  PROVE  ~InterruptedBefore(d, r, r)
  BY TaskColumns, StoreAssumption DEF HasTask, InterruptedBefore

LEMMA LastInterrupted ==
  ASSUME NEW d, NEW S, \A r \in S : HasTask(d, r), S # {}
  PROVE  \E m \in S : \A u \in S \ {m} : InterruptedBefore(d, u, m)
<1> DEFINE Succ(t) == {u \in S : InterruptedBefore(d, t, u)}
           F == {Succ(t) : t \in S}
<1>1. IsFiniteSet(S)
  BY FS_Subset, StoreAssumption DEF HasTask
<1>2. F \subseteq SUBSET S /\ F # {}
  OBVIOUS
<1>3. PICK U \in F : \A V \in F : V \subseteq U => V = U
  <2> HIDE DEF F
  <2>1. QED
    BY <1>1, <1>2, SmallestSubset
<1>4. PICK t \in S : U = Succ(t)
  BY <1>3
<1>5. ASSUME NEW u \in S \ {t}
      PROVE  InterruptedBefore(d, u, t)
  <2> SUFFICES ASSUME InterruptedBefore(d, t, u) PROVE FALSE
    BY InterruptedRank
  <2>1. Succ(u) \subseteq Succ(t)
    BY InterruptedTransitive
  <2>2. Succ(u) = Succ(t)
    BY <1>3, <1>4, <2>1
  <2>3. u \in Succ(t) /\ u \notin Succ(u)
    BY InterruptedIrreflexive
  <2>4. QED
    BY <2>2, <2>3
<1>6. QED
  BY <1>5

\* Resuming all that may be continued keeps the running tasks within the limit.
LEMMA ContinuableFits ==
  ASSUME NEW d, NEW held, \A r \in Run : IsUsed(d, r) => HasTask(d, r),
         AutoContinuable(d, held) # {}
  PROVE  Cardinality(TasksIn(d, "running") \cup TasksOf(d, AutoContinuable(d, held)))
           <= MaxConcurrentAgents
<1> DEFINE open == {r \in Run \ held : /\ IsRestartInterrupted(d, r)
                                       /\ TaskOf(d, r) \notin Claims(d).claimed \cup Claims(d).running
                                       /\ d.run[r].proof.attempts < AutoContinueLimit}
           ahead(r) == {q \in open : InterruptedBefore(d, q, r)}
           chosen == AutoContinuable(d, held)
<1>1. chosen = {r \in open : Cardinality(ahead(r)) < FreeSlots(Claims(d).running)}
  BY DEF AutoContinuable
<1>2. \A r \in open : HasTask(d, r)
  BY DEF IsRestartInterrupted, IsUsed
<1>3. Claims(d).running = TasksIn(d, "running") /\ TasksIn(d, "running") = TasksOf(d, RunsIn(d, "running"))
  BY DEF Claims, TasksIn, TasksOf
<1>4. IsFiniteSet(TasksIn(d, "running")) /\ Cardinality(TasksIn(d, "running")) \in Nat
  BY <1>3, TasksOfFinite DEF RunsIn
<1> HIDE DEF chosen, open
<1>5. chosen \in SUBSET Run /\ chosen \subseteq open /\ open \in SUBSET Run
  BY <1>1 DEF open
<1>6. PICK m \in chosen : \A u \in chosen \ {m} : InterruptedBefore(d, u, m)
  BY <1>2, <1>5, LastInterrupted DEF chosen
<1>7. /\ IsFiniteSet(chosen) /\ Cardinality(chosen) \in Nat
      /\ IsFiniteSet(ahead(m)) /\ Cardinality(ahead(m)) \in Nat
  <2>1. ahead(m) \in SUBSET Run
    BY <1>5
  <2>2. QED
    BY <1>5, <2>1, TasksOfFinite
<1>8. Cardinality(chosen \ {m}) = Cardinality(chosen) - 1
  BY <1>6, <1>7, FS_RemoveElement
<1>9. chosen \ {m} \subseteq ahead(m)
  BY <1>5, <1>6
<1>10. Cardinality(chosen \ {m}) <= Cardinality(ahead(m))
  BY <1>7, <1>9, FS_Subset
<1>11. Cardinality(ahead(m)) < FreeSlots(Claims(d).running)
  BY <1>1, <1>6
<1>12. Cardinality(chosen) + Cardinality(TasksIn(d, "running")) <= MaxConcurrentAgents
  <2>1. /\ FreeSlots(TasksIn(d, "running")) \in Nat
        /\ FreeSlots(TasksIn(d, "running")) > 0 =>
             FreeSlots(TasksIn(d, "running")) + Cardinality(TasksIn(d, "running")) = MaxConcurrentAgents
    BY <1>4, FreeSlotsBound
  <2>2. QED
    BY <1>3, <1>4, <1>7, <1>8, <1>10, <1>11, <2>1, WorkflowAssumption
<1>13. /\ IsFiniteSet(TasksOf(d, chosen)) /\ Cardinality(TasksOf(d, chosen)) \in Nat
       /\ Cardinality(TasksOf(d, chosen)) <= Cardinality(chosen)
  BY <1>5, TasksOfFinite
<1>14. /\ Cardinality(TasksIn(d, "running") \cup TasksOf(d, chosen)) \in Nat
       /\ Cardinality(TasksIn(d, "running") \cup TasksOf(d, chosen))
            <= Cardinality(TasksIn(d, "running")) + Cardinality(TasksOf(d, chosen))
  BY <1>4, <1>13, UnionBound
<1>15. QED
  BY <1>4, <1>7, <1>12, <1>13, <1>14, WorkflowAssumption DEF chosen

\* Starting all prepared runs that may be started keeps them within it, too.
LEMMA StartableFits ==
  ASSUME NEW d, AutoStartable(d) # {}
  PROVE  Cardinality(TasksIn(d, "running") \cup TasksOf(d, AutoStartable(d))) <= MaxConcurrentAgents
<1> DEFINE claims == [claimed |-> Task \ TasksIn(d, "prepared"), running |-> TasksIn(d, "running")]
           chosen == CHOOSE sel \in SUBSET Task : IsSelection(sel, Task, d.state, claims)
<1>1. chosen \in SUBSET Task /\ IsSelection(chosen, Task, d.state, claims)
  <2> DEFINE P(sel) == IsSelection(sel, Task, d.state, claims)
  <2>1. \E sel \in SUBSET Task : P(sel)
    BY SelectionExists
  <2>2. QED
    <3> HIDE DEF P
    <3>1. (CHOOSE sel \in SUBSET Task : P(sel)) \in SUBSET Task /\ P(CHOOSE sel \in SUBSET Task : P(sel))
      BY <2>1
    <3>2. QED
      BY <3>1 DEF P
<1>2. TasksOf(d, AutoStartable(d)) \subseteq chosen
  BY DEF AutoStartable, TasksOf
<1>3. AutoStartable(d) \in SUBSET Run /\ RunsIn(d, "running") \in SUBSET Run
  BY DEF AutoStartable, RunsIn
<1>4. IsFiniteSet(TasksIn(d, "running")) /\ claims.running = TasksIn(d, "running")
  BY <1>3, TasksOfFinite DEF TasksIn, TasksOf
<1>5. chosen # {}
  BY <1>2 DEF TasksOf
<1> HIDE DEF chosen, claims
<1>6. Cardinality(chosen \cup TasksIn(d, "running")) <= MaxConcurrentAgents
  BY <1>1, <1>4, <1>5, SelectionWithinGlobalLimit
<1>7. IsFiniteSet(chosen) /\ IsFiniteSet(chosen \cup TasksIn(d, "running"))
        /\ Cardinality(chosen \cup TasksIn(d, "running")) \in Nat
  BY <1>1, <1>4, FS_Subset, TaskAssumption, UnionBound
<1>8. TasksIn(d, "running") \cup TasksOf(d, AutoStartable(d)) \subseteq chosen \cup TasksIn(d, "running")
  BY <1>2
<1>9. QED
  BY <1>6, <1>7, <1>8, FS_Subset, FS_CardinalityType, WorkflowAssumption

(***************************************************************************)
(* Rows that are in use stay so and keep their tasks; what is queued, made *)
(* or about to begin is in use.                                            *)
(***************************************************************************)
UsedInv ==
    /\ \A r \in Run : IsUsed(db, r) => HasTask(db, r)
    /\ \A j \in Job : Starting(job[j]) => IsUsed(db, job[j].run)
    /\ \A k \in Tick : \A r \in tick[k].queue : IsUsed(db, r)
    /\ \A p \in Preparer :
          /\ \A r \in prep[p].made : IsUsed(db, r)
          /\ prep[p].pc # "recording" => prep[p].queue = {}
          /\ prep[p].pc = "listed" => prep[p].made = {}

RowsUsed ==
    \A q \in Run :
       /\ IsUsed(db, q) => IsUsed(db', q) /\ TaskOf(db', q) = TaskOf(db, q)
       /\ ~IsUsed(db, q) => ~IsUsed(db', q) \/ TaskOf(db', q) \in Task

LEMMA WrittenUsed ==
  ASSUME NEW r, NEW s \in RunStatus \ {"none"}, NEW p, RowWritten(db, db', r, s, p),
         r \in Run => IsUsed(db, r)
  PROVE  RowsUsed
<1>1. ASSUME NEW q \in Run
      PROVE  /\ IsUsed(db, q) => IsUsed(db', q) /\ TaskOf(db', q) = TaskOf(db, q)
             /\ ~IsUsed(db, q) => ~IsUsed(db', q)
  <2>1. db'.run[q].status = (IF q = r THEN s ELSE db.run[q].status) /\ db'.run[q].task = db.run[q].task
    BY RowFields
  <2>2. QED
    BY <2>1 DEF IsUsed, TaskOf
<1>2. QED
  BY <1>1 DEF RowsUsed

LEMMA JobRunUsed ==
  ASSUME TypeOK, SettledInv, UsedInv, NEW j \in Job, job[j].run \in Run
  PROVE  IsUsed(db, job[j].run)
<1>1. job[j].run # NoRun
  BY StoreAssumption DEF NoRun
<1>2. QED
  BY <1>1 DEF SettledInv, UsedInv, Started, IsUsed, IsSettled

LEMMA RowsUsedStep ==
  ASSUME BoardTask = {}, DispatchTypeOK, SettledInv, UsedInv, LoopMove
  PROVE  RowsUsed
<1>0. TypeOK /\ db \in Database /\ prep \in [Preparer -> PrepRecord]
  BY DEF DispatchTypeOK, TypeOK
<1>1. CASE KeepsRows
  BY <1>1 DEF KeepsRows, RowsUsed, IsUsed, TaskOf
<1>2. ASSUME NEW k \in Tick, TickMove(k)
      PROVE  RowsUsed
  <2>1. ASSUME NEW j \in Job, StartReturns(k, j)
        PROVE  RowsUsed
    <3>1. RowWritten(db, db', job[j].run, "running", job[j].proof)
      BY <1>0, <2>1, BeginWorkMove DEF StartReturns, BeginMove
    <3>2. QED
      BY <1>0, <3>1, JobRunUsed, WrittenUsed DEF RunStatus
  <2>2. ASSUME NEW phase, NEW queue \in SUBSET Run, NEW r \in queue, NEW j \in Job,
               Starts(k, phase, queue, j, r)
        PROVE  RowsUsed
    <3>1. CASE phase = "interrupted"
      <4>1. RowWritten(db, db', r, db.run[r].status, [db.run[r].proof EXCEPT !.attempts = @ + 1])
        BY <1>0, <2>2, <3>1, ResumptionRows DEF Starts
      <4>2. IsUsed(db, r) /\ db.run[r].status \in RunStatus \ {"none"}
        BY <2>2, <3>1 DEF Starts, Resumption, IsRestartInterrupted, IsUsed, RunStatus
      <4>3. QED
        BY <4>1, <4>2, WrittenUsed
    <3>2. CASE phase # "interrupted"
      BY <1>1, <2>2, <3>2 DEF Starts, LoopStart, KeepsRows
    <3>3. QED
      BY <3>1, <3>2
  <2>3. ASSUME UNCHANGED db
        PROVE  RowsUsed
    BY <1>1, <2>3 DEF KeepsRows
  <2>4. QED
    BY <1>2, <2>1, <2>2, <2>3
    DEF TickMove, TakesNext, Turn, TickPrepares, PrepareList, PrepareFails, PrepareThrows, Skips,
        StartFails, StartThrows, vars
<1>3. ASSUME NEW j \in Job, JobsMove(j)
      PROVE  RowsUsed
  <2>1. ASSUME NEW s \in Final \cup {"running"}, RowWritten(db, db', job[j].run, s, FreshProof)
        PROVE  RowsUsed
    BY <1>0, <2>1, JobRunUsed, WrittenUsed DEF RunStatus, Final
  <2>2. CASE CheckBlocked(j)
    BY <1>1, <2>2 DEF CheckBlocked, KeepsRows
  <2>3. QED
    BY <1>1, <1>3, <2>1, <2>2 DEF JobsMove, WorkerMove, AgentMove, WritesRow
<1>4. ASSUME NEW p \in Preparer, PreparerMove(p)
      PROVE  RowsUsed
  <2>1. ASSUME NEW r \in Run, PrepareRecord(p, r)
        PROVE  RowsUsed
    <3>1. PICK t \in prep[p].queue : \A q \in Run : db'.run[q] =
              IF q = r THEN [status |-> "prepared", task |-> t, proof |-> FreshProof] ELSE db.run[q]
      <4>1. PICK t \in prep[p].queue : db' = InsertRun(db, r, t)
        BY <2>1 DEF PrepareRecord
      <4>2. db'.run = [db.run EXCEPT ![r] = [status |-> "prepared", task |-> t, proof |-> FreshProof]]
        BY <4>1 DEF InsertRun
      <4>3. QED
        BY <1>0, <4>2 DEF Database
    <3>2. t \in Task
      BY <1>0 DEF PrepRecord
    <3>3. db'.run[r].task = t /\ ~IsUsed(db, r) /\ \A q \in Run \ {r} : db'.run[q] = db.run[q]
      BY <2>1, <3>1 DEF PrepareRecord, RunsIn, IsUsed
    <3>4. QED
      BY <3>2, <3>3 DEF RowsUsed, IsUsed, TaskOf
  <2>2. QED
    BY <1>0, <1>1, <1>4, <2>1, PreparerMade DEF KeepsRows
<1>5. ASSUME NEW r \in Run, CancelWrites(r)
      PROVE  RowsUsed
  <2>1. RowWritten(db, db', r, "canceled", db.run[r].proof)
    BY <1>0, <1>5, CancelRows
  <2>2. IsUsed(db, r)
    BY <1>5 DEF CancelWrites, SettledInv, IsSettled, IsUsed
  <2>3. QED
    BY <2>1, <2>2, WrittenUsed DEF RunStatus
<1>6. CASE DispatchRestart
  <2>1. ASSUME NEW q \in Run
        PROVE  /\ IsUsed(db, q) => IsUsed(db', q) /\ TaskOf(db', q) = TaskOf(db, q)
               /\ ~IsUsed(db, q) => ~IsUsed(db', q)
    <3>1. /\ db'.run[q].status = IF db.run[q].status = "running" THEN "stalled" ELSE db.run[q].status
          /\ db'.run[q].task = db.run[q].task
      BY <1>0, <1>6, RestartFields DEF DispatchRestart
    <3>2. QED
      BY <3>1 DEF IsUsed, TaskOf
  <2>2. QED
    BY <2>1 DEF RowsUsed
<1>7. QED
  BY <1>1, <1>2, <1>3, <1>4, <1>5, <1>6 DEF LoopMove, Quiet

\* A set that holds the queues and whatever a tick may load holds them after a step.
LEMMA QueuesWithin ==
  ASSUME DispatchTypeOK, LoopMove, NEW S,
         \A k \in Tick : tick[k].queue \subseteq S,
         \A k \in Tick, phase \in StartPhase, queue \in SUBSET Run :
             Loads(k, phase, queue) => queue \subseteq S
  PROVE  \A k \in Tick : tick'[k].queue \subseteq S
<1>0. tick \in [Tick -> TickRecord] /\ \A k \in Tick : tick[k].queue \in SUBSET Run
  BY CrashTypes
<1>1. ASSUME tick' = tick
      PROVE  \A k \in Tick : tick'[k].queue \subseteq S
  BY <1>1
<1>2. ASSUME NEW k \in Tick, NEW pc, NEW rest, NEW i, TickBecomes(k, pc, rest, i), rest \subseteq S
      PROVE  \A l \in Tick : tick'[l].queue \subseteq S
  BY <1>0, <1>2 DEF TickBecomes
<1>3. ASSUME NEW k \in Tick, NEW pc, GotoTick(k, pc)
      PROVE  \A l \in Tick : tick'[l].queue \subseteq S
  BY <1>2, <1>3, GotoIs DEF TickBecomes
<1>4. ASSUME NEW k \in Tick, NEW j \in Job, StartReturns(k, j)
      PROVE  \A l \in Tick : tick'[l].queue \subseteq S
  <2>1. TickBecomes(k, tick[k].pc, tick[k].queue, NoJob)
    BY <1>4, JobDropped DEF StartReturns, TickBecomes
  <2>2. QED
    BY <1>2, <2>1
<1>5. ASSUME NEW k \in Tick, NEW phase \in StartPhase, NEW queue \in SUBSET Run, NEW r \in queue, NEW i,
             Loads(k, phase, queue), TickBecomes(k, phase, queue \ {r}, i)
      PROVE  \A l \in Tick : tick'[l].queue \subseteq S
  <2>1. queue \ {r} \subseteq S
    BY <1>5
  <2>2. QED
    BY <1>2, <1>5, <2>1
<1>6. ASSUME NEW k \in Tick, TickMove(k)
      PROVE  \A l \in Tick : tick'[l].queue \subseteq S
  BY <1>3, <1>4, <1>5, <1>6
  DEF TickMove, Turn, TakesNext, Starts, Skips, TickPrepares, PrepareFails, StartFails, TickBecomes
<1>7. CASE DispatchRestart
  BY <1>7 DEF DispatchRestart, IdleTick
<1>8. QED
  BY <1>1, <1>6, <1>7 DEF LoopMove, Quiet, JobsMove, PreparerMove, dvars

LEMMA LoadedUsed ==
  ASSUME UsedInv, NEW k \in Tick, Tick \subseteq Preparer, NEW phase, NEW queue, Loads(k, phase, queue)
  PROVE  queue \subseteq {r \in Run : IsUsed(db, r)}
<1>1. CASE queue = AutoStartable(db)
  BY <1>1 DEF AutoStartable, RunsIn, IsUsed
<1>2. CASE \E held : queue = AutoContinuable(db, held)
  BY <1>2 DEF AutoContinuable, IsRestartInterrupted, IsUsed
<1>3. CASE queue = tick[k].queue \/ queue = prep[k].made
  BY <1>3 DEF UsedInv, IsUsed
<1>4. QED
  BY <1>1, <1>2, <1>3 DEF Loads

\* Who is starting was starting, or is being started by a tick.
LEMMA StartsFrom ==
  ASSUME DispatchTypeOK, LoopMove, NEW j \in Job, Starting(job'[j])
  PROVE  \/ Starting(job[j]) /\ job'[j].run = job[j].run
         \/ \E k \in Tick, phase \in StartPhase, queue \in SUBSET Run : \E r \in queue :
              Loads(k, phase, queue) /\ Starts(k, phase, queue, j, r) /\ job'[j].run = r
<1>0. job \in [Job -> JobRecord] /\ TypeOK
  BY DEF DispatchTypeOK, TypeOK
<1>1. CASE job' = job
  BY <1>1
<1>2. ASSUME NEW k \in Tick, TickMove(k)
      PROVE  \/ Starting(job[j]) /\ job'[j].run = job[j].run
             \/ \E phase \in StartPhase, queue \in SUBSET Run : \E r \in queue :
                  Loads(k, phase, queue) /\ Starts(k, phase, queue, j, r) /\ job'[j].run = r
  <2>1. ASSUME NEW phase \in StartPhase, NEW queue \in SUBSET Run, NEW r \in queue, NEW i \in Job,
               Loads(k, phase, queue), Starts(k, phase, queue, i, r)
        PROVE  \/ Starting(job[j]) /\ job'[j].run = job[j].run
               \/ i = j /\ job'[j].run = r
    <3>1. PICK p : job' = [job EXCEPT ![i] = [IdleJob EXCEPT !.pc = "loading", !.run = r, !.proof = p]]
      BY <2>1 DEF Starts, Resumption, LoopStart
    <3>2. job'[i].run = r /\ \A l \in Job \ {i} : job'[l] = job[l]
      BY <1>0, <3>1 DEF IdleJob
    <3>3. CASE i = j
      BY <3>2, <3>3
    <3>4. CASE i # j
      BY <3>2, <3>4
    <3>5. QED
      BY <3>3, <3>4
  <2>2. ASSUME NEW i \in Job, StartReturns(k, i)
        PROVE  Starting(job[j]) /\ job'[j].run = job[j].run
    BY <1>0, <2>2, BeginWorkMove DEF StartReturns, BeginWork, Starting, JobRecord
  <2>3. ASSUME NEW i \in Job, StartFails(k, i)
        PROVE  Starting(job[j]) /\ job'[j].run = job[j].run
    BY <1>0, <2>3, ThrowsMove DEF StartFails, Starting, IdleJob
  <2>4. CASE UNCHANGED job
    BY <2>4
  <2>5. QED
    BY <1>2, <2>1, <2>2, <2>3, <2>4
    DEF TickMove, TakesNext, Turn, TickPrepares, PrepareList, PrepareFails, PrepareThrows, Skips, vars
<1>3. ASSUME NEW i \in Job, JobsMove(i)
      PROVE  Starting(job[j]) /\ job'[j].run = job[j].run
  <2>1. CASE CheckBlocked(i)
    BY <1>0, <2>1 DEF CheckBlocked, Goto, Starting, JobRecord
  <2>2. CASE JobMove(i)
    BY <2>2 DEF JobMove
  <2>3. QED
    BY <1>3, <2>1, <2>2 DEF JobsMove, WorkerMove, AgentMove
<1>4. CASE DispatchRestart
  BY <1>4 DEF DispatchRestart, Restart, IdleJob, Starting
<1>5. QED
  BY <1>0, <1>1, <1>2, <1>3, <1>4, PreparerMade DEF LoopMove, Quiet, CancelWrites

LEMMA PrepUsedStep ==
  ASSUME DispatchTypeOK, UsedInv, RowsUsed, LoopMove
  PROVE  \A p \in Preparer :
           /\ \A r \in prep'[p].made : IsUsed(db', r)
           /\ prep'[p].pc # "recording" => prep'[p].queue = {}
           /\ prep'[p].pc = "listed" => prep'[p].made = {}
<1>0. /\ TypeOK /\ prep \in [Preparer -> PrepRecord] /\ db \in Database /\ Tick \subseteq Preparer
      /\ \A p \in Preparer : prep[p].made \in SUBSET Run
  BY DispatchAssumption DEF DispatchTypeOK, TypeOK, PrepRecord
<1> DEFINE Fine(w) == /\ \A r \in w.made : IsUsed(db', r)
                      /\ w.pc # "recording" => w.queue = {}
                      /\ w.pc = "listed" => w.made = {}
<1>1. \A p \in Preparer : Fine(prep[p])
  BY <1>0 DEF UsedInv, RowsUsed
<1>2. ASSUME NEW p \in Preparer, NEW w, prep' = [prep EXCEPT ![p] = w], Fine(w)
      PROVE  \A q \in Preparer : Fine(prep'[q])
  BY <1>0, <1>1, <1>2
<1>3. Fine(IdlePrep)
  BY DEF IdlePrep
<1>4. ASSUME NEW p \in Preparer, PrepareList(p)
      PROVE  \A q \in Preparer : Fine(prep'[q])
  <2>1. Fine([IdlePrep EXCEPT !.pc = "listed", !.seen = db.state])
    BY DEF IdlePrep
  <2>2. QED
    BY <1>2, <1>4, <2>1 DEF PrepareList
<1>5. ASSUME NEW p \in Preparer, PrepareSelect(p)
      PROVE  \A q \in Preparer : Fine(prep'[q])
  <2>1. PICK sel \in SUBSET Task : prep' = [prep EXCEPT ![p] =
            IF sel = {} THEN IdlePrep ELSE [prep[p] EXCEPT !.pc = "recording", !.queue = sel]]
    BY <1>0, <1>5 DEF PrepareSelect
  <2>2. Fine([prep[p] EXCEPT !.pc = "recording", !.queue = sel])
    BY <1>0, <1>1 DEF PrepRecord
  <2>3. QED
    <3> HIDE DEF Fine
    <3>1. QED
      BY <1>2, <1>3, <2>1, <2>2
<1>6. ASSUME NEW p \in Preparer, NEW r \in Run, PrepareRecord(p, r)
      PROVE  \A q \in Preparer : Fine(prep'[q])
  <2>1. PICK t \in prep[p].queue :
          /\ db' = InsertRun(db, r, t)
          /\ prep' = [prep EXCEPT ![p] =
               IF prep[p].queue \ {t} = {}
               THEN [IdlePrep EXCEPT !.made = prep[p].made \cup {r}]
               ELSE [prep[p] EXCEPT !.queue = prep[p].queue \ {t},
                                    !.made = prep[p].made \cup {r}]]
    BY <1>6 DEF PrepareRecord
  <2>2. IsUsed(db', r)
    BY <1>0, <2>1 DEF InsertRun, Database, IsUsed
  <2>3. Fine([IdlePrep EXCEPT !.made = prep[p].made \cup {r}])
    BY <1>1, <2>2 DEF IdlePrep
  <2>4. Fine([prep[p] EXCEPT !.queue = prep[p].queue \ {t}, !.made = prep[p].made \cup {r}])
    BY <1>0, <1>1, <1>6, <2>2 DEF PrepareRecord, PrepRecord
  <2>5. QED
    <3> HIDE DEF Fine
    <3>1. QED
      BY <1>2, <2>1, <2>3, <2>4
<1>7. ASSUME NEW p \in Preparer, PrepareThrows(p)
      PROVE  \A q \in Preparer : Fine(prep'[q])
  BY <1>2, <1>3, <1>7 DEF PrepareThrows
<1>8. ASSUME prep' = prep
      PROVE  \A q \in Preparer : Fine(prep'[q])
  BY <1>1, <1>8
<1>9. ASSUME DispatchRestart
      PROVE  \A q \in Preparer : Fine(prep'[q])
  BY <1>3, <1>9 DEF DispatchRestart, Restart
<1>10. ASSUME NEW k \in Tick, TickMove(k)
       PROVE  \A q \in Preparer : Fine(prep'[q])
  <2>1. k \in Preparer
    BY <1>0
  <2>2. CASE TickPrepares(k)
    BY <1>4, <2>1, <2>2 DEF TickPrepares
  <2>3. CASE PrepareFails(k)
    BY <1>7, <2>1, <2>3 DEF PrepareFails
  <2>4. CASE \E j \in Job : StartReturns(k, j)
    BY <1>8, <2>4 DEF StartReturns, BeginWork
  <2>5. CASE Turn(k) \/ \E j \in Job : StartFails(k, j)
    BY <1>8, <2>5 DEF Turn, StartFails, StartThrows, vars
  <2>6. CASE TakesNext(k)
    <3>1. UNCHANGED prep
      BY <2>6 DEF TakesNext, Skips, Starts, Resumption, LoopStart, vars
    <3>2. QED
      BY <1>8, <3>1
  <2>7. QED
    BY <1>10, <2>2, <2>3, <2>4, <2>5, <2>6 DEF TickMove
<1>11. ASSUME NEW j \in Job, JobsMove(j)
       PROVE  \A q \in Preparer : Fine(prep'[q])
  BY <1>8, <1>11 DEF JobsMove, CheckBlocked, WorkerMove, AgentMove
<1>12. ASSUME NEW p \in Preparer, PreparerMove(p)
       PROVE  \A q \in Preparer : Fine(prep'[q])
  BY <1>4, <1>5, <1>6, <1>7, <1>12 DEF PreparerMove, UserPrepare
<1>13. \A q \in Preparer : Fine(prep'[q])
  <2> HIDE DEF Fine
  <2>1. Quiet => prep' = prep
    BY DEF Quiet
  <2>2. \A r \in Run : CancelWrites(r) => prep' = prep
    BY DEF CancelWrites
  <2>3. QED
    BY <1>8, <1>9, <1>10, <1>11, <1>12, <2>1, <2>2 DEF LoopMove
<1>14. QED
  BY <1>13

LEMMA UsedStep ==
  ASSUME BoardTask = {}, DispatchTypeOK, SettledInv, UsedInv, LoopMove
  PROVE  UsedInv'
<1>0. Tick \subseteq Preparer
  BY DispatchAssumption
<1>1. RowsUsed
  BY RowsUsedStep
<1>2. ASSUME NEW r \in Run, IsUsed(db', r)
      PROVE  HasTask(db', r)
  BY <1>1, <1>2 DEF RowsUsed, UsedInv, HasTask
<1>3. ASSUME NEW j \in Job, Starting(job'[j])
      PROVE  IsUsed(db', job'[j].run)
  <2>1. IsUsed(db, job'[j].run)
    <3>1. CASE Starting(job[j]) /\ job'[j].run = job[j].run
      BY <3>1 DEF UsedInv
    <3>2. ASSUME NEW k \in Tick, NEW phase, NEW queue, NEW r \in queue,
                 Loads(k, phase, queue), job'[j].run = r
          PROVE  IsUsed(db, job'[j].run)
      BY <1>0, <3>2, LoadedUsed
    <3>3. QED
      BY <1>3, <3>1, <3>2, StartsFrom
  <2>2. QED
    BY <1>1, <2>1 DEF RowsUsed, IsUsed
<1>4. ASSUME NEW k \in Tick, NEW r \in tick'[k].queue
      PROVE  IsUsed(db', r)
  <2> DEFINE S == {q \in Run : IsUsed(db, q)}
  <2>1. \A l \in Tick : tick[l].queue \subseteq S
    BY DEF UsedInv, IsUsed
  <2>2. \A l \in Tick, phase \in StartPhase, queue \in SUBSET Run : Loads(l, phase, queue) => queue \subseteq S
    BY <1>0, LoadedUsed
  <2>3. r \in S
    <3> HIDE DEF S
    <3>1. QED
      BY <2>1, <2>2, QueuesWithin
  <2>4. QED
    BY <1>1, <2>3 DEF RowsUsed
<1>5. QED
  BY <1>1, <1>2, <1>3, <1>4, PrepUsedStep DEF UsedInv, Starting, IsUsed, HasTask, TaskOf

(***************************************************************************)
(* Whose row is whose.  Jobs work on different runs, and what a job is     *)
(* working on is running: so the progress of an agent takes no new slot.   *)
(***************************************************************************)
DistinctInv ==
    \A i, j \in Job : job[i].run = job[j].run /\ job[i].run # NoRun => i = j
OwnerInv ==
    /\ canceling = {}
    /\ DistinctInv
    /\ \A j \in Job : Started(job[j]) =>
          /\ ~IsRestartInterrupted(db, job[j].run)
          /\ Working(job[j]) => job[j].run \in RunsIn(db, "running")

LEMMA DistinctKept ==
  ASSUME DistinctInv, NEW j \in Job,
         \A i \in Job \ {j} : job'[i] = job[i] /\ (job[i].run = job'[j].run => job'[j].run = NoRun)
  PROVE  DistinctInv'
<1>1. ASSUME NEW i \in Job, NEW l \in Job, job'[i].run = job'[l].run, job'[i].run # NoRun, i # l
      PROVE  FALSE
  <2>1. CASE i = j
    BY <1>1, <2>1
  <2>2. CASE l = j
    BY <1>1, <2>2
  <2>3. CASE i # j /\ l # j
    BY <1>1, <2>3 DEF DistinctInv
  <2>4. QED
    BY <2>1, <2>2, <2>3
<1>2. QED
  BY <1>1 DEF DistinctInv

\* A run that a tick starts is held by no job.
LEMMA StartIsNew ==
  ASSUME DispatchTypeOK, OneTick, AwaitInv, SettledInv, QueueInv, OwnerInv,
         NEW k \in Tick, NEW phase \in StartPhase, NEW queue \in SUBSET Run, NEW r \in queue,
         NEW j \in Job, Loads(k, phase, queue), Starts(k, phase, queue, j, r)
  PROVE  \A i \in Job : ~Starting(job[i]) /\ job[i].run # r
<1>0. /\ job \in [Job -> JobRecord] /\ NoJob \notin Job
      /\ r \in Run /\ r # NoRun
  BY DispatchAssumption, StoreAssumption DEF DispatchTypeOK, TypeOK, NoRun
<1>1. \A l \in Tick : tick[l].job = NoJob
  <2>1. tick[k].job = NoJob /\ tick[k].pc # "idle"
    BY DEF Loads, StartPhase
  <2>2. QED
    BY <2>1 DEF OneTick, AwaitInv, StartPhase
<1>2. \A i \in Job : ~Starting(job[i])
  BY <1>0, <1>1 DEF AwaitInv
<1>3. ASSUME NEW i \in Job, job[i].run = r
      PROVE  FALSE
  <2>1. Started(job[i])
    BY <1>0, <1>2, <1>3 DEF Started
  <2>2. IsSettled(db, r) /\ ~IsRestartInterrupted(db, r)
    BY <1>3, <2>1 DEF SettledInv, OwnerInv
  <2>3. CASE phase = "interrupted"
    BY <2>2, <2>3 DEF Starts, Resumption
  <2>4. CASE phase # "interrupted"
    <3>1. r \in RunsIn(db, "prepared")
      BY <2>4, LoadedPrepared DEF StartPhase
    <3>2. QED
      BY <2>2, <3>1 DEF RunsIn, IsSettled
  <2>5. QED
    BY <2>3, <2>4
<1>4. QED
  BY <1>2, <1>3

LEMMA OwnerStep ==
  ASSUME BoardTask = {}, "cancel" \notin Command,
         DispatchTypeOK, OneTick, AwaitInv, SettledInv, QueueInv, UsedInv, OwnerInv, LoopMove
  PROVE  OwnerInv'
<1>0. /\ TypeOK /\ job \in [Job -> JobRecord] /\ db \in Database
      /\ \A j \in Job : job[j].run \in Run \cup {NoRun}
      /\ canceling = {} /\ DistinctInv /\ NoRun \notin Run
  BY StoreAssumption DEF DispatchTypeOK, TypeOK, JobRecord, OwnerInv, NoRun
\* The rows of the jobs are kept.
<1>1. ASSUME canceling' = {}, DistinctInv',
             \A j \in Job : Started(job'[j]) =>
                /\ Started(job[j]) /\ job'[j].run = job[j].run
                /\ job[j].run \in Run => db'.run[job[j].run] = db.run[job[j].run]
                /\ Working(job'[j]) => Working(job[j])
      PROVE  OwnerInv'
  <2>1. ASSUME NEW j \in Job, Started(job'[j])
        PROVE  /\ ~IsRestartInterrupted(db', job'[j].run)
               /\ Working(job'[j]) => job'[j].run \in RunsIn(db', "running")
    <3>1. Started(job[j]) /\ job[j].run \in Run
      BY <1>0, <1>1, <2>1 DEF Started
    <3>2. db'.run[job[j].run] = db.run[job[j].run]
      BY <1>1, <2>1, <3>1
    <3>3. QED
      BY <1>1, <2>1, <3>1, <3>2 DEF OwnerInv, IsRestartInterrupted, RunsIn
  <2>2. QED
    BY <1>1, <2>1 DEF OwnerInv, Started, Starting, Working, IsRestartInterrupted, RunsIn
\* Job j, which may just have begun, writes the row of its run.
<1>2. ASSUME NEW j \in Job, NEW s \in Final \cup {"running"}, NEW p,
             p.recovery = FALSE \/ s = "running",
             RowWritten(db, db', job[j].run, s, p),
             \A i \in Job \ {j} : job'[i] = job[i],
             job'[j].run \in {job[j].run, NoRun},
             Working(job'[j]) => s = "running",
             canceling' = {}
      PROVE  OwnerInv'
  <2>1. \A q \in Run : /\ db'.run[q].status = IF q = job[j].run THEN s ELSE db.run[q].status
                       /\ db'.run[q].proof = IF q = job[j].run THEN p ELSE db.run[q].proof
    BY <1>2, RowFields
  <2>2. DistinctInv'
    BY <1>0, <1>2, DistinctKept DEF DistinctInv
  <2>3. ASSUME NEW i \in Job, Started(job'[i])
        PROVE  /\ ~IsRestartInterrupted(db', job'[i].run)
               /\ Working(job'[i]) => job'[i].run \in RunsIn(db', "running")
    <3>1. CASE i = j
      <4>1. job'[j].run = job[j].run /\ job[j].run \in Run
        BY <1>0, <1>2, <2>3, <3>1 DEF Started
      <4>2. db'.run[job[j].run].status = s /\ db'.run[job[j].run].proof = p
        BY <2>1, <4>1
      <4>3. QED
        BY <1>2, <3>1, <4>1, <4>2 DEF IsRestartInterrupted, RunsIn
    <3>2. CASE i # j
      <4>1. Started(job[i]) /\ job[i].run \in Run /\ job'[i] = job[i]
        BY <1>0, <1>2, <2>3, <3>2 DEF Started
      <4>2. job[i].run # job[j].run
        BY <1>0, <3>2, <4>1 DEF DistinctInv
      <4>3. QED
        BY <2>1, <4>1, <4>2 DEF OwnerInv, IsRestartInterrupted, RunsIn
    <3>3. QED
      BY <3>1, <3>2
  <2>4. QED
    BY <1>2, <2>2, <2>3 DEF OwnerInv, Started, Starting, Working, IsRestartInterrupted, RunsIn
<1>4. ASSUME KeepsRows, job' = job, canceling' = {}
      PROVE  OwnerInv'
  <2>1. DistinctInv'
    BY <1>0, <1>4 DEF DistinctInv
  <2>2. QED
    BY <1>1, <1>4, <2>1 DEF KeepsRows
<1>5. CASE Quiet
  BY <1>0, <1>4, <1>5 DEF Quiet
<1>6. ASSUME NEW k \in Tick, TickMove(k)
      PROVE  OwnerInv'
  <2>1. CASE Turn(k) \/ TickPrepares(k) \/ PrepareFails(k) \/ \E queue, r : Skips(k, queue, r)
    BY <1>0, <1>4, <2>1 DEF Turn, TickPrepares, PrepareList, PrepareFails, PrepareThrows, Skips, vars, KeepsRows
  <2>2. ASSUME NEW j \in Job, StartReturns(k, j)
        PROVE  OwnerInv'
    <3>1. BeginMove(j)
      BY <1>0, <2>2, BeginWorkMove DEF StartReturns
    <3>2. canceling' = {} /\ job'[j].run \in {job[j].run, NoRun}
      BY <1>0, <3>1 DEF BeginMove
    <3>3. QED
      BY <1>2, <3>1, <3>2 DEF BeginMove
  <2>3. ASSUME NEW j \in Job, StartFails(k, j)
        PROVE  OwnerInv'
    <3>1. /\ job'[j] = IdleJob /\ UNCHANGED <<db, canceling>>
          /\ \A i \in Job \ {j} : job'[i] = job[i]
      BY <1>0, <2>3, ThrowsMove DEF StartFails
    <3>2. job'[j].run = NoRun /\ ~Started(job'[j])
      BY <3>1 DEF IdleJob, Started
    <3>3. DistinctInv'
      BY <1>0, <3>1, <3>2, DistinctKept
    <3>4. QED
      BY <1>0, <1>1, <3>1, <3>2, <3>3
  <2>4. ASSUME NEW phase \in StartPhase, NEW queue \in SUBSET Run, NEW r \in queue, NEW j \in Job,
               Loads(k, phase, queue), Starts(k, phase, queue, j, r)
        PROVE  OwnerInv'
    <3>1. PICK p : job' = [job EXCEPT ![j] = [IdleJob EXCEPT !.pc = "loading", !.run = r, !.proof = p]]
      BY <2>4 DEF Starts, Resumption, LoopStart
    <3>2. /\ job'[j].run = r /\ Starting(job'[j])
          /\ \A i \in Job \ {j} : job'[i] = job[i]
      BY <1>0, <3>1 DEF Starting, IdleJob
    <3>3. \A i \in Job : ~Starting(job[i]) /\ job[i].run # r
      BY <2>4, StartIsNew
    <3>4. DistinctInv'
      BY <1>0, <3>2, <3>3, DistinctKept
    <3>5. \A q \in Run \ {r} : db'.run[q] = db.run[q]
      <4>1. CASE phase = "interrupted"
        BY <1>0, <2>4, <4>1, ResumptionRows DEF Starts, RowWritten
      <4>2. CASE phase # "interrupted"
        BY <2>4, <4>2 DEF Starts, LoopStart
      <4>3. QED
        BY <4>1, <4>2
    <3>6. canceling' = {}
      BY <1>0, <2>4 DEF Starts, Resumption, LoopStart
    <3>7. ASSUME NEW i \in Job, Started(job'[i])
          PROVE  /\ Started(job[i]) /\ job'[i].run = job[i].run
                 /\ job[i].run \in Run => db'.run[job[i].run] = db.run[job[i].run]
                 /\ Working(job'[i]) => Working(job[i])
      <4>1. i # j
        BY <3>2, <3>7 DEF Started
      <4>2. QED
        BY <3>2, <3>3, <3>5, <3>7, <4>1
    <3>8. QED
      BY <1>1, <3>4, <3>6, <3>7
  <2>5. QED
    BY <1>6, <2>1, <2>2, <2>3, <2>4 DEF TickMove, TakesNext
<1>7. ASSUME NEW j \in Job, JobsMove(j)
      PROVE  OwnerInv'
  <2>1. CASE CheckBlocked(j)
    <3>1. /\ ~Started(job'[j]) /\ job'[j].run = job[j].run
          /\ UNCHANGED <<db, canceling>>
          /\ \A i \in Job \ {j} : job'[i] = job[i]
      BY <1>0, <2>1 DEF CheckBlocked, Goto, Started, Starting, JobRecord
    <3>2. DistinctInv'
      BY <1>0, <3>1, DistinctKept DEF DistinctInv
    <3>3. QED
      BY <1>0, <1>1, <3>1, <3>2
  <2>2. CASE WorkerMove(j)
    <3>1. JobMove(j) /\ canceling' = {}
      BY <1>0, <2>2 DEF WorkerMove
    <3>2. CASE KeepsRows /\ (Working(job'[j]) => Working(job[j]))
      <4>1. DistinctInv'
        BY <1>0, <3>1, DistinctKept DEF JobMove, DistinctInv
      <4>2. ASSUME NEW i \in Job, Started(job'[i])
            PROVE  /\ Started(job[i]) /\ job'[i].run = job[i].run
                   /\ job[i].run \in Run => db'.run[job[i].run] = db.run[job[i].run]
                   /\ Working(job'[i]) => Working(job[i])
        BY <3>1, <3>2, <4>2 DEF KeepsRows, JobMove, Started
      <4>3. QED
        BY <1>1, <3>1, <4>1, <4>2
    <3>3. ASSUME NEW s \in Final, RowWritten(db, db', job[j].run, s, FreshProof), ~Working(job'[j])
          PROVE  OwnerInv'
      <4>1. s \in Final \cup {"running"} /\ FreshProof.recovery = FALSE
        BY DEF FreshProof
      <4>2. QED
        BY <1>2, <3>1, <3>3, <4>1 DEF JobMove
    <3>4. QED
      BY <2>2, <3>2, <3>3 DEF WorkerMove, WritesRow
  <2>3. CASE AgentMove(j)
    <3>1. JobMove(j) /\ canceling' = {} /\ RowWritten(db, db', job[j].run, "running", FreshProof)
      BY <1>0, <2>3 DEF AgentMove, WritesRow
    <3>2. QED
      BY <1>2, <3>1 DEF JobMove
  <2>4. QED
    BY <1>7, <2>1, <2>2, <2>3 DEF JobsMove
<1>8. ASSUME NEW p \in Preparer, PreparerMove(p)
      PROVE  OwnerInv'
  <2>1. job' = job /\ canceling' = {}
    BY <1>0, <1>8, PreparerMade
  <2>2. ASSUME NEW r \in Run, PrepareRecord(p, r)
        PROVE  OwnerInv'
    <3>1. db.run[r].status = "none"
      BY <2>2 DEF PrepareRecord, RunsIn
    <3>2. \A q \in Run \ {r} : db'.run[q] = db.run[q]
      BY <1>0, <2>2 DEF PrepareRecord, InsertRun, Database
    <3>3. DistinctInv'
      BY <1>0, <2>1 DEF DistinctInv
    <3>4. ASSUME NEW i \in Job, Started(job[i])
          PROVE  job[i].run # r
      BY <3>1, <3>4 DEF SettledInv, IsSettled
    <3>5. QED
      BY <1>1, <2>1, <3>2, <3>3, <3>4
  <2>3. CASE db' = db
    BY <1>4, <2>1, <2>3 DEF KeepsRows
  <2>4. QED
    BY <1>0, <1>8, <2>2, <2>3, PreparerMade
<1>9. CASE DispatchRestart
  <2>1. canceling' = {} /\ \A j \in Job : job'[j].run = NoRun /\ ~Started(job'[j])
    BY <1>9 DEF DispatchRestart, Restart, IdleJob, Started
  <2>2. DistinctInv'
    BY <2>1 DEF DistinctInv
  <2>3. QED
    BY <1>1, <2>1, <2>2
<1>10. QED
  BY <1>0, <1>5, <1>6, <1>7, <1>8, <1>9 DEF LoopMove, CancelWrites

(***************************************************************************)
(* The slots that are taken or promised: by running tasks, by the runs a   *)
(* tick is going to start, and by the tasks it is having prepared.  They   *)
(* are promised when the tick decides, and nothing but a decision of the   *)
(* tick, which counts what is running at that moment, adds to them.        *)
(***************************************************************************)
RunsDue ==
    {r \in Run : \E k \in Tick : \/ r \in tick[k].queue
                                 \/ tick[k].job # NoJob /\ job[tick[k].job].run = r
                                 \/ tick[k].pc = "preparing" /\ r \in prep[k].made}
TasksDue == {t \in Task : \E k \in Tick : tick[k].pc = "preparing" /\ t \in prep[k].queue}
Busy == TasksOf(db, RunsIn(db, "running") \cup RunsDue) \cup TasksDue
SlotInv == Cardinality(Busy) <= MaxConcurrentAgents

LEMMA BusyFinite == IsFiniteSet(Busy) /\ Cardinality(Busy) \in Nat
<1>1. RunsIn(db, "running") \cup RunsDue \in SUBSET Run
  BY DEF RunsIn, RunsDue
<1>2. IsFiniteSet(TasksDue)
  BY FS_Subset, TaskAssumption DEF TasksDue
<1>3. QED
  BY <1>1, <1>2, TasksOfFinite, UnionBound DEF Busy

LEMMA SlotsCap == SlotInv => RunningWithinCap
<1>1. TasksIn(db, "running") \subseteq Busy
  BY DEF Busy, TasksIn, TasksOf
<1>2. Cardinality(TasksIn(db, "running")) \in Nat /\ Cardinality(TasksIn(db, "running")) <= Cardinality(Busy)
  BY <1>1, BusyFinite, FS_Subset, FS_CardinalityType
<1>3. QED
  BY <1>2, BusyFinite, WorkflowAssumption DEF SlotInv, RunningWithinCap

LEMMA BusyWithin ==
  ASSUME NEW B, IsFiniteSet(B), Cardinality(B) <= MaxConcurrentAgents, Busy' \subseteq B
  PROVE  SlotInv'
<1>1. Cardinality(B) \in Nat /\ Cardinality(Busy') \in Nat /\ Cardinality(Busy') <= Cardinality(B)
  BY FS_Subset, FS_CardinalityType
<1>2. QED
  BY <1>1, WorkflowAssumption DEF SlotInv

LEMMA BusyRunsUsed ==
  ASSUME DispatchTypeOK, SettledInv, UsedInv, NEW r \in RunsIn(db, "running") \cup RunsDue
  PROVE  IsUsed(db, r)
<1>1. CASE r \in RunsIn(db, "running")
  BY <1>1 DEF RunsIn, IsUsed
<1>2. ASSUME NEW k \in Tick, tick[k].job # NoJob, job[tick[k].job].run = r, r \in Run
      PROVE  IsUsed(db, r)
  <2>1. tick[k].job \in Job
    BY <1>2 DEF DispatchTypeOK, TickRecord
  <2>2. Starting(job[tick[k].job]) \/ Started(job[tick[k].job])
    BY <1>2, StoreAssumption DEF Started, NoRun
  <2>3. QED
    BY <1>2, <2>1, <2>2 DEF UsedInv, SettledInv, IsUsed, IsSettled
<1>3. QED
  BY <1>1, <1>2, DispatchAssumption DEF RunsDue, UsedInv

LEMMA BusyShrinks ==
  ASSUME DispatchTypeOK, SettledInv, UsedInv, RowsUsed, SlotInv,
         RunsIn(db', "running") \cup RunsDue' \subseteq RunsIn(db, "running") \cup RunsDue,
         TasksDue' \subseteq TasksDue
  PROVE  SlotInv'
<1>1. TasksOf(db', RunsIn(db', "running") \cup RunsDue') \subseteq TasksOf(db, RunsIn(db, "running") \cup RunsDue)
  <2>1. \A r \in RunsIn(db, "running") \cup RunsDue : r \in Run /\ IsUsed(db, r)
    BY BusyRunsUsed DEF IsUsed
  <2>2. QED
    BY <2>1 DEF RowsUsed, TasksOf
<1>2. Busy' \subseteq Busy
  BY <1>1 DEF Busy
<1>3. QED
  BY <1>2, BusyFinite, BusyWithin DEF SlotInv

\* Only the start that a tick awaits makes a run running.
LEMMA RunningFrom ==
  ASSUME BoardTask = {}, StallMonitor => MaxPasses = 1,
         DispatchTypeOK, OwnerInv, LoopMove
  PROVE  \/ RunsIn(db', "running") \subseteq RunsIn(db, "running")
         \/ \E k \in Tick, j \in Job : StartReturns(k, j) /\
              RunsIn(db', "running") \subseteq RunsIn(db, "running") \cup {job[j].run}
<1>0. /\ TypeOK /\ job \in [Job -> JobRecord] /\ db \in Database
      /\ \A j \in Job : job[j].run \in Run \cup {NoRun}
      /\ canceling = {} /\ NoRun \notin Run
  BY StoreAssumption DEF DispatchTypeOK, TypeOK, JobRecord, OwnerInv, NoRun
<1>1. ASSUME \A q \in Run : db'.run[q].status = "running" => db.run[q].status = "running"
      PROVE  RunsIn(db', "running") \subseteq RunsIn(db, "running")
  BY <1>1 DEF RunsIn
<1>2. ASSUME KeepsRows
      PROVE  RunsIn(db', "running") \subseteq RunsIn(db, "running")
  BY <1>1, <1>2 DEF KeepsRows
<1>3. ASSUME NEW k \in Tick, TickMove(k)
      PROVE  \/ RunsIn(db', "running") \subseteq RunsIn(db, "running")
             \/ \E j \in Job : StartReturns(k, j) /\
                  RunsIn(db', "running") \subseteq RunsIn(db, "running") \cup {job[j].run}
  <2>1. ASSUME NEW j \in Job, StartReturns(k, j)
        PROVE  RunsIn(db', "running") \subseteq RunsIn(db, "running") \cup {job[j].run}
    <3>1. RowWritten(db, db', job[j].run, "running", job[j].proof)
      BY <1>0, <2>1, BeginWorkMove DEF StartReturns, BeginMove
    <3>2. \A q \in Run : db'.run[q].status = IF q = job[j].run THEN "running" ELSE db.run[q].status
      BY <3>1, RowFields
    <3>3. QED
      BY <3>2 DEF RunsIn
  <2>2. ASSUME NEW phase, NEW queue \in SUBSET Run, NEW r \in queue, NEW j \in Job,
               Starts(k, phase, queue, j, r)
        PROVE  RunsIn(db', "running") \subseteq RunsIn(db, "running")
    <3>1. CASE phase = "interrupted"
      <4>1. RowWritten(db, db', r, db.run[r].status, [db.run[r].proof EXCEPT !.attempts = @ + 1])
        BY <1>0, <2>2, <3>1, ResumptionRows DEF Starts
      <4>2. \A q \in Run : db'.run[q].status = IF q = r THEN db.run[r].status ELSE db.run[q].status
        BY <4>1, RowFields
      <4>3. QED
        BY <1>1, <4>2
    <3>2. CASE phase # "interrupted"
      BY <1>2, <2>2, <3>2 DEF Starts, LoopStart, KeepsRows
    <3>3. QED
      BY <3>1, <3>2
  <2>3. ASSUME UNCHANGED db
        PROVE  RunsIn(db', "running") \subseteq RunsIn(db, "running")
    BY <1>2, <2>3 DEF KeepsRows
  <2>4. QED
    BY <1>3, <2>1, <2>2, <2>3
    DEF TickMove, TakesNext, Turn, TickPrepares, PrepareList, PrepareFails, PrepareThrows, Skips,
        StartFails, StartThrows, vars
<1>4. ASSUME NEW j \in Job, JobsMove(j)
      PROVE  RunsIn(db', "running") \subseteq RunsIn(db, "running")
  <2>1. ASSUME NEW s, RowWritten(db, db', job[j].run, s, FreshProof),
               s = "running" /\ job[j].run \in Run => db.run[job[j].run].status = "running"
        PROVE  RunsIn(db', "running") \subseteq RunsIn(db, "running")
    <3>1. \A q \in Run : db'.run[q].status = IF q = job[j].run THEN s ELSE db.run[q].status
      BY <2>1, RowFields
    <3>2. QED
      BY <1>1, <2>1, <3>1
  <2>2. CASE AgentMove(j)
    <3>1. RowWritten(db, db', job[j].run, "running", FreshProof)
      BY <2>2 DEF AgentMove, WritesRow
    <3>2. Working(job[j]) /\ ~Starting(job[j])
      BY <2>2, RunsAssumption DEF AgentMove, JobMove
    <3>3. job[j].run \in Run => db.run[job[j].run].status = "running"
      BY <1>0, <3>2 DEF OwnerInv, Started, RunsIn
    <3>4. QED
      BY <2>1, <3>1, <3>3
  <2>3. CASE WorkerMove(j)
    BY <1>2, <2>1, <2>3 DEF WorkerMove, WritesRow, Final
  <2>4. CASE CheckBlocked(j)
    BY <1>2, <2>4 DEF CheckBlocked, KeepsRows
  <2>5. QED
    BY <1>4, <2>2, <2>3, <2>4 DEF JobsMove
<1>5. ASSUME NEW p \in Preparer, PreparerMove(p)
      PROVE  RunsIn(db', "running") \subseteq RunsIn(db, "running")
  <2>1. ASSUME NEW r \in Run, PrepareRecord(p, r)
        PROVE  RunsIn(db', "running") \subseteq RunsIn(db, "running")
    BY <1>0, <2>1 DEF PrepareRecord, InsertRun, Database, RunsIn
  <2>2. QED
    BY <1>0, <1>2, <1>5, <2>1, PreparerMade DEF KeepsRows
<1>6. ASSUME DispatchRestart
      PROVE  RunsIn(db', "running") \subseteq RunsIn(db, "running")
  BY <1>0, <1>1, <1>6, RestartFields DEF DispatchRestart
<1>7. QED
  BY <1>0, <1>2, <1>3, <1>4, <1>5, <1>6 DEF LoopMove, Quiet, CancelWrites

\* A tick that loads runs to start promises the slots of their tasks, no more.
LEMMA LoadedFits ==
  ASSUME DispatchTypeOK, UsedInv, SlotInv, NEW k \in Tick, NEW phase \in StartPhase,
         NEW queue \in SUBSET Run, NEW r \in queue, Loads(k, phase, queue)
  PROVE  Cardinality(TasksOf(db, RunsIn(db, "running") \cup queue)) <= MaxConcurrentAgents
<1> DEFINE S == TasksOf(db, RunsIn(db, "running") \cup queue)
<1>1. /\ S = TasksIn(db, "running") \cup TasksOf(db, queue)
      /\ IsFiniteSet(S) /\ Cardinality(S) \in Nat
  <2>1. RunsIn(db, "running") \cup queue \in SUBSET Run
    BY DEF RunsIn
  <2>2. QED
    BY <2>1, TasksOfFinite DEF TasksIn, TasksOf
<1>2. CASE queue = AutoStartable(db)
  BY <1>1, <1>2, StartableFits
<1>3. CASE \E held : queue = AutoContinuable(db, held)
  <2>1. PICK held : queue = AutoContinuable(db, held)
    BY <1>3
  <2>2. QED
    BY <1>1, <2>1, ContinuableFits DEF UsedInv
<1>4. CASE queue \subseteq RunsDue
  <2>1. S \subseteq Busy
    BY <1>4 DEF Busy, TasksOf
  <2> HIDE DEF S
  <2>2. Cardinality(S) <= Cardinality(Busy)
    BY <2>1, BusyFinite, FS_Subset
  <2>3. Cardinality(S) <= MaxConcurrentAgents
    BY <1>1, <2>2, BusyFinite, WorkflowAssumption DEF SlotInv
  <2>4. QED
    BY <2>3 DEF S
<1>5. queue = tick[k].queue \/ (queue = prep[k].made /\ tick[k].pc = "preparing") => queue \subseteq RunsDue
  BY DEF RunsDue
<1>6. QED
  BY <1>2, <1>3, <1>4, <1>5 DEF Loads

LEMMA IdleTicks ==
  ASSUME OneTick, AwaitInv, NEW k \in Tick, tick[k].pc # "idle", NEW l \in Tick \ {k}
  PROVE  tick[l].pc = "idle" /\ tick[l].queue = {} /\ tick[l].job = NoJob
  BY DEF OneTick, AwaitInv, StartPhase

\* After the tick took a run from what it loaded, that is all it promises.
LEMMA LoadedDue ==
  ASSUME DispatchTypeOK, OneTick, AwaitInv, NEW k \in Tick, NEW phase \in StartPhase,
         NEW queue \in SUBSET Run, NEW r \in queue, NEW i,
         Loads(k, phase, queue), TickBecomes(k, phase, queue \ {r}, i),
         i = NoJob \/ job'[i].run = r
  PROVE  RunsDue' \subseteq queue /\ TasksDue' = {}
<1>1. tick \in [Tick -> TickRecord]
  BY DEF DispatchTypeOK
<1>2. tick[k].pc # "idle"
  BY DEF Loads, StartPhase
<1>3. /\ tick'[k] = [pc |-> phase, queue |-> queue \ {r}, job |-> i]
      /\ \A l \in Tick \ {k} : tick'[l].pc = "idle" /\ tick'[l].queue = {} /\ tick'[l].job = NoJob
  BY <1>1, <1>2, IdleTicks DEF TickBecomes
<1>4. phase # "preparing"
  BY DEF StartPhase
<1>5. \A l \in Tick : tick'[l].pc # "preparing"
  BY <1>3, <1>4
<1>6. TasksDue' = {}
  BY <1>5 DEF TasksDue
<1>7. ASSUME NEW q \in RunsDue'
      PROVE  q \in queue
  <2>1. PICK l \in Tick : \/ q \in tick'[l].queue
                          \/ tick'[l].job # NoJob /\ job'[tick'[l].job].run = q
                          \/ tick'[l].pc = "preparing" /\ q \in prep'[l].made
    BY <1>7 DEF RunsDue
  <2>2. l = k
    BY <1>3, <1>5, <2>1
  <2>3. QED
    BY <1>3, <1>5, <2>1, <2>2
<1>8. QED
  BY <1>6, <1>7

LEMMA SlotLoads ==
  ASSUME BoardTask = {}, DispatchTypeOK, OneTick, AwaitInv, UsedInv, RowsUsed, SlotInv,
         NEW k \in Tick, NEW phase \in StartPhase,
         NEW queue \in SUBSET Run, NEW r \in queue, NEW i,
         Loads(k, phase, queue), TickBecomes(k, phase, queue \ {r}, i),
         i = NoJob \/ job'[i].run = r,
         RunsIn(db', "running") \subseteq RunsIn(db, "running")
  PROVE  SlotInv'
<1>0. Tick \subseteq Preparer
  BY DispatchAssumption
<1>1. RunsDue' \subseteq queue /\ TasksDue' = {}
  BY LoadedDue
<1> DEFINE S == TasksOf(db, RunsIn(db, "running") \cup queue)
<1>2. Cardinality(S) <= MaxConcurrentAgents
  BY LoadedFits
<1>3. IsFiniteSet(S)
  <2>1. RunsIn(db, "running") \cup queue \in SUBSET Run
    BY DEF RunsIn
  <2>2. QED
    BY <2>1, TasksOfFinite
<1>4. \A q \in RunsIn(db, "running") \cup queue : q \in Run /\ IsUsed(db, q)
  BY <1>0, LoadedUsed DEF RunsIn, IsUsed
<1>5. \A q \in RunsIn(db, "running") \cup queue : TaskOf(db', q) = TaskOf(db, q)
  BY <1>4 DEF RowsUsed
<1>6. Busy' \subseteq S
  BY <1>1, <1>5 DEF Busy, TasksOf
<1>7. QED
  <2> HIDE DEF S
  <2>1. QED
    BY <1>2, <1>3, <1>6, BusyWithin

\* Nothing is due but what was, when no tick and no preparation gains a run.
LEMMA DueKept ==
  ASSUME \A k \in Tick :
           /\ tick'[k].queue \subseteq tick[k].queue
           /\ tick'[k].job # NoJob => /\ tick'[k].job = tick[k].job
                                      /\ job'[tick[k].job].run \in {job[tick[k].job].run, NoRun}
           /\ tick'[k].pc = "preparing" =>
                /\ prep'[k].made = {} \/ (tick[k].pc = "preparing" /\ prep'[k].made \subseteq prep[k].made)
                /\ prep'[k].queue = {} \/ (tick[k].pc = "preparing" /\ prep'[k].queue \subseteq prep[k].queue)
  PROVE  RunsDue' \subseteq RunsDue /\ TasksDue' \subseteq TasksDue
<1>1. ASSUME NEW r \in RunsDue'
      PROVE  r \in RunsDue
  <2>1. PICK k \in Tick : \/ r \in tick'[k].queue
                          \/ tick'[k].job # NoJob /\ job'[tick'[k].job].run = r
                          \/ tick'[k].pc = "preparing" /\ r \in prep'[k].made
    BY <1>1 DEF RunsDue
  <2>2. r \in Run /\ r # NoRun
    BY <1>1, StoreAssumption DEF RunsDue, NoRun
  <2>3. QED
    BY <2>1, <2>2 DEF RunsDue
<1>2. ASSUME NEW t \in TasksDue'
      PROVE  t \in TasksDue
  <2>1. PICK k \in Tick : tick'[k].pc = "preparing" /\ t \in prep'[k].queue
    BY <1>2 DEF TasksDue
  <2>2. QED
    BY <1>2, <2>1 DEF TasksDue
<1>3. QED
  BY <1>1, <1>2

\* A preparation that a tick asked for promises what it selects.
LEMMA SelectSlots ==
  ASSUME DispatchTypeOK, OneTick, AwaitInv, UsedInv, SlotInv,
         NEW k \in Tick, tick[k].pc = "preparing", PrepareSelect(k), UNCHANGED dvars
  PROVE  SlotInv'
<1>0. /\ prep \in [Preparer -> PrepRecord] /\ k \in Preparer /\ db' = db /\ job' = job /\ tick' = tick
  BY DispatchAssumption DEF DispatchTypeOK, TypeOK, PrepareSelect, dvars
<1>1. PICK sel \in SUBSET Task :
        /\ IsSelection(sel, Task, prep[k].seen, Claims(db))
        /\ prep' = [prep EXCEPT ![k] =
              IF sel = {} THEN IdlePrep ELSE [prep[k] EXCEPT !.pc = "recording", !.queue = sel]]
  BY <1>0 DEF PrepareSelect
<1>2. prep[k].made = {} /\ prep[k].queue = {}
  BY <1>0 DEF PrepareSelect, UsedInv
<1>3. prep'[k].made = {} /\ prep'[k].queue = sel
  BY <1>0, <1>1, <1>2 DEF IdlePrep, PrepRecord
<1>4. \A l \in Tick : tick[l].queue = {} /\ tick[l].job = NoJob
  BY IdleTicks DEF AwaitInv, StartPhase
<1>5. \A l \in Tick : tick[l].pc = "preparing" => l = k
  BY DEF OneTick
<1>6. RunsDue' = {} /\ TasksDue' = sel
  BY <1>0, <1>3, <1>4, <1>5 DEF RunsDue, TasksDue
<1>7. Busy' = TasksIn(db, "running") \cup sel
  BY <1>0, <1>6 DEF Busy, TasksIn, TasksOf
<1>8. /\ IsFiniteSet(TasksIn(db, "running"))
      /\ Claims(db).running = TasksIn(db, "running")
  <2>1. RunsIn(db, "running") \in SUBSET Run
    BY DEF RunsIn
  <2>2. QED
    BY <2>1, TasksOfFinite DEF Claims, TasksIn, TasksOf
<1>9. CASE sel = {}
  <2>1. Busy' \subseteq Busy
    BY <1>7, <1>9 DEF Busy, TasksIn, TasksOf
  <2>2. QED
    BY <2>1, BusyFinite, BusyWithin DEF SlotInv
<1>10. CASE sel # {}
  <2>1. Cardinality(sel \cup Claims(db).running) <= MaxConcurrentAgents
    BY <1>1, <1>8, <1>10, SelectionWithinGlobalLimit
  <2>2. Busy' = sel \cup Claims(db).running
    BY <1>7, <1>8
  <2>3. QED
    BY <2>1, <2>2 DEF SlotInv
<1>11. QED
  BY <1>9, <1>10

\* A run that is recorded takes the slot that its task was promised.
LEMMA RecordSlots ==
  ASSUME DispatchTypeOK, SettledInv, UsedInv, RowsUsed, SlotInv,
         NEW p \in Preparer, NEW r \in Run, PrepareRecord(p, r), UNCHANGED dvars
  PROVE  SlotInv'
<1>0. /\ prep \in [Preparer -> PrepRecord] /\ db \in Database /\ job' = job /\ tick' = tick
  BY DEF DispatchTypeOK, TypeOK, PrepareRecord, dvars
<1>1. PICK t \in prep[p].queue :
        /\ db' = InsertRun(db, r, t)
        /\ prep' = [prep EXCEPT ![p] =
             IF prep[p].queue \ {t} = {}
             THEN [IdlePrep EXCEPT !.made = prep[p].made \cup {r}]
             ELSE [prep[p] EXCEPT !.queue = prep[p].queue \ {t},
                                  !.made = prep[p].made \cup {r}]]
  BY DEF PrepareRecord
<1>2. /\ prep'[p].made = prep[p].made \cup {r} /\ prep'[p].queue \subseteq prep[p].queue
      /\ \A q \in Preparer \ {p} : prep'[q] = prep[q]
  BY <1>0, <1>1 DEF IdlePrep, PrepRecord
<1>3. /\ TaskOf(db', r) = t /\ t \in Task
      /\ RunsIn(db', "running") \subseteq RunsIn(db, "running")
  BY <1>0, <1>1 DEF InsertRun, Database, TaskOf, RunsIn, PrepRecord
<1>4. TasksDue' \subseteq TasksDue
  BY <1>0, <1>2, DispatchAssumption DEF TasksDue
<1>5. \A q \in RunsDue' : q \in RunsDue \/ (q = r /\ p \in Tick /\ tick[p].pc = "preparing")
  <2>1. ASSUME NEW q \in RunsDue', q # r
        PROVE  q \in RunsDue
    <3>1. PICK k \in Tick : \/ q \in tick[k].queue
                            \/ tick[k].job # NoJob /\ job[tick[k].job].run = q
                            \/ tick[k].pc = "preparing" /\ q \in prep'[k].made
      BY <1>0, <2>1 DEF RunsDue
    <3>2. q \in prep'[k].made => q \in prep[k].made
      BY <1>2, <2>1, DispatchAssumption
    <3>3. QED
      BY <2>1, <3>1, <3>2 DEF RunsDue
  <2>2. ASSUME r \in RunsDue', r \notin RunsDue
        PROVE  p \in Tick /\ tick[p].pc = "preparing"
    <3>1. PICK k \in Tick : \/ r \in tick[k].queue
                            \/ tick[k].job # NoJob /\ job[tick[k].job].run = r
                            \/ tick[k].pc = "preparing" /\ r \in prep'[k].made
      BY <1>0, <2>2 DEF RunsDue
    <3>2. k # p => prep'[k] = prep[k]
      BY <1>2, DispatchAssumption
    <3>3. QED
      BY <2>2, <3>1, <3>2 DEF RunsDue
  <2>3. QED
    BY <2>1, <2>2
<1>6. p \in Tick /\ tick[p].pc = "preparing" => t \in TasksDue
  BY <1>1, <1>3 DEF TasksDue
<1>7. \A q \in RunsIn(db, "running") \cup RunsDue : q \in Run /\ TaskOf(db', q) = TaskOf(db, q)
  BY BusyRunsUsed DEF RowsUsed, IsUsed
<1>8. \A q \in RunsIn(db', "running") \cup RunsDue' : TaskOf(db', q) \in Busy
  BY <1>3, <1>5, <1>6, <1>7 DEF Busy, TasksOf
<1>9. Busy' \subseteq Busy
  <2>1. TasksOf(db', RunsIn(db', "running") \cup RunsDue') \subseteq Busy
    BY <1>8 DEF TasksOf
  <2>2. QED
    BY <1>4, <2>1 DEF Busy
<1>10. QED
  BY <1>9, BusyFinite, BusyWithin DEF SlotInv

LEMMA SlotStep ==
  ASSUME BoardTask = {}, StallMonitor => MaxPasses = 1,
         DispatchTypeOK, OneTick, AwaitInv, SettledInv, QueueInv, UsedInv, OwnerInv, SlotInv,
         LoopMove
  PROVE  SlotInv'
<1>0. /\ TypeOK /\ job \in [Job -> JobRecord] /\ db \in Database /\ prep \in [Preparer -> PrepRecord]
      /\ tick \in [Tick -> TickRecord] /\ Tick \subseteq Preparer /\ NoJob \notin Job
      /\ canceling = {}
  BY DispatchAssumption DEF DispatchTypeOK, TypeOK, OwnerInv
<1>1. RowsUsed
  BY RowsUsedStep
\* No new run is running, and nothing else is due.
<1>2. ASSUME RunsIn(db', "running") \subseteq RunsIn(db, "running"),
             RunsDue' \subseteq RunsDue, TasksDue' \subseteq TasksDue
      PROVE  SlotInv'
  BY <1>1, <1>2, BusyShrinks
<1>4. ASSUME NEW k \in Tick, NEW j \in Job, StartReturns(k, j)
      PROVE  SlotInv'
  <2>1. /\ \A l \in Tick : /\ tick'[l].pc = tick[l].pc /\ tick'[l].queue = tick[l].queue
                           /\ tick'[l].job # NoJob => tick'[l].job = tick[l].job
        /\ prep' = prep /\ \A i \in Job : job'[i].run = job[i].run
    <3>1. TickBecomes(k, tick[k].pc, tick[k].queue, NoJob)
      BY <1>4, JobDropped DEF StartReturns, TickBecomes
    <3>2. prep' = prep /\ \A i \in Job : job'[i].run = job[i].run
      BY <1>0, <1>4, BeginWorkMove DEF StartReturns, BeginMove
    <3>3. QED
      BY <1>0, <3>1, <3>2 DEF TickBecomes
  <2>2. RunsDue' \subseteq RunsDue /\ TasksDue' \subseteq TasksDue
    <3>1. \A l \in Tick : tick'[l].job # NoJob => tick[l].job \in Job
      BY <1>0, <2>1 DEF TickRecord
    <3>2. QED
      BY <2>1, <3>1, DueKept
  <2>3. RunsIn(db', "running") \subseteq RunsIn(db, "running") \cup {job[j].run}
    <3>1. RowWritten(db, db', job[j].run, "running", job[j].proof)
      BY <1>0, <1>4, BeginWorkMove DEF StartReturns, BeginMove
    <3>2. \A q \in Run : db'.run[q].status = IF q = job[j].run THEN "running" ELSE db.run[q].status
      BY <3>1, RowFields
    <3>3. QED
      BY <3>2 DEF RunsIn
  <2>4. job[j].run \in RunsDue
    <3>1. tick[k].job = j /\ j # NoJob /\ Starting(job[j])
      BY <1>0, <1>4 DEF StartReturns, Awaits, BeginWork, Starting
    <3>2. job[j].run \in Run
      BY <3>1 DEF UsedInv, IsUsed
    <3>3. QED
      BY <3>1, <3>2 DEF RunsDue
  <2>5. QED
    BY <1>1, <2>2, <2>3, <2>4, BusyShrinks
<1>5. SUFFICES ASSUME \A k \in Tick, j \in Job : ~StartReturns(k, j)
      PROVE  SlotInv'
  BY <1>4
<1>6. RunsIn(db', "running") \subseteq RunsIn(db, "running")
  BY <1>5, RunningFrom
<1>7. ASSUME \A k \in Tick :
               /\ tick'[k].queue \subseteq tick[k].queue
               /\ tick'[k].job # NoJob =>
                    /\ tick'[k].job = tick[k].job
                    /\ job'[tick[k].job].run \in {job[tick[k].job].run, NoRun}
               /\ tick'[k].pc = "preparing" =>
                    /\ prep'[k].made = {} \/ (tick[k].pc = "preparing" /\ prep'[k].made \subseteq prep[k].made)
                    /\ prep'[k].queue = {} \/ (tick[k].pc = "preparing" /\ prep'[k].queue \subseteq prep[k].queue)
      PROVE  SlotInv'
  BY <1>2, <1>6, <1>7, DueKept
<1>8. CASE Quiet
  <2>1. UNCHANGED <<job, prep, tick>>
    BY <1>8 DEF Quiet
  <2>2. QED
    BY <1>7, <2>1
<1>9. ASSUME NEW k \in Tick, TickMove(k)
      PROVE  SlotInv'
  <2>1. ASSUME NEW phase \in StartPhase, NEW queue \in SUBSET Run, NEW r \in queue,
               Loads(k, phase, queue), NEW j \in Job, Starts(k, phase, queue, j, r)
        PROVE  SlotInv'
    <3>1. TickBecomes(k, phase, queue \ {r}, j)
      BY <2>1 DEF Starts, TickBecomes
    <3>2. job'[j].run = r
      BY <1>0, <2>1, StartedRun DEF DispatchTypeOK
    <3>3. QED
      BY <1>1, <1>6, <2>1, <3>1, <3>2, SlotLoads
  <2>2. ASSUME NEW queue \in SUBSET Run, NEW r \in queue, Loads(k, "interrupted", queue), Skips(k, queue, r)
        PROVE  SlotInv'
    <3>1. TickBecomes(k, "interrupted", queue \ {r}, NoJob) /\ "interrupted" \in StartPhase
      BY <2>2 DEF Skips, TickBecomes, StartPhase
    <3>2. QED
      BY <1>1, <1>6, <2>2, <3>1, SlotLoads
  <2>3. ASSUME NEW pc \in TickPc, GotoTick(k, pc),
               \A i \in Job : job'[i].run \in {job[i].run, NoRun},
               pc = "preparing" => prep'[k].made = {} /\ prep'[k].queue = {},
               \A l \in Preparer \ {k} : prep'[l] = prep[l]
        PROVE  SlotInv'
    <3>1. /\ tick'[k] = [pc |-> pc, queue |-> {}, job |-> NoJob]
          /\ \A l \in Tick \ {k} : tick'[l] = tick[l]
      <4>1. tick' = [tick EXCEPT ![k] = [pc |-> pc, queue |-> {}, job |-> NoJob]]
        BY <2>3, GotoIs
      <4>2. QED
        BY <1>0, <4>1
    <3>2. \A l \in Tick : tick[l].job # NoJob => tick[l].job \in Job
      BY <1>0 DEF TickRecord
    <3>3. ASSUME NEW l \in Tick
          PROVE  /\ tick'[l].queue \subseteq tick[l].queue
                 /\ tick'[l].job # NoJob =>
                      /\ tick'[l].job = tick[l].job
                      /\ job'[tick[l].job].run \in {job[tick[l].job].run, NoRun}
                 /\ tick'[l].pc = "preparing" =>
                      /\ prep'[l].made = {} \/ (tick[l].pc = "preparing" /\ prep'[l].made \subseteq prep[l].made)
                      /\ prep'[l].queue = {} \/ (tick[l].pc = "preparing" /\ prep'[l].queue \subseteq prep[l].queue)
      <4>1. CASE l = k
        BY <2>3, <3>1, <4>1
      <4>2. CASE l # k
        <5>1. tick'[l] = tick[l] /\ prep'[l] = prep[l]
          BY <1>0, <2>3, <3>1, <4>2
        <5>2. QED
          BY <2>3, <3>2, <5>1
      <4>3. QED
        BY <4>1, <4>2
    <3>4. QED
      BY <1>7, <3>3
  <2>4. CASE Turn(k)
    <3>1. PICK pc \in TickPc \ {"preparing"} : GotoTick(k, pc)
      BY <2>4 DEF Turn
    <3>2. job' = job /\ prep' = prep
      BY <2>4 DEF Turn, vars
    <3>3. QED
      BY <2>3, <3>1, <3>2
  <2>5. CASE TickPrepares(k)
    <3>1. GotoTick(k, "preparing") /\ "preparing" \in TickPc /\ job' = job
      BY <2>5 DEF TickPrepares, PrepareList, TickPc
    <3>2. /\ prep'[k].made = {} /\ prep'[k].queue = {}
          /\ \A l \in Preparer \ {k} : prep'[l] = prep[l]
      BY <1>0, <2>5 DEF TickPrepares, PrepareList, IdlePrep
    <3>3. QED
      BY <2>3, <3>1, <3>2
  <2>6. ASSUME NEW j \in Job, StartFails(k, j)
        PROVE  SlotInv'
    <3>1. GotoTick(k, "failing") /\ "failing" \in TickPc /\ prep' = prep
      BY <2>6 DEF StartFails, StartThrows, TickPc
    <3>2. \A i \in Job : job'[i].run \in {job[i].run, NoRun}
      BY <1>0, <2>6, ThrowsMove DEF StartFails, IdleJob
    <3>3. QED
      BY <2>3, <3>1, <3>2
  <2>7. CASE PrepareFails(k)
    <3>1. GotoTick(k, "failing") /\ "failing" \in TickPc /\ job' = job
      BY <2>7 DEF PrepareFails, PrepareThrows, TickPc
    <3>2. \A l \in Preparer \ {k} : prep'[l] = prep[l]
      BY <1>0, <2>7 DEF PrepareFails, PrepareThrows
    <3>3. QED
      BY <2>3, <3>1, <3>2
  <2>8. QED
    BY <1>5, <1>9, <2>1, <2>2, <2>4, <2>5, <2>6, <2>7 DEF TickMove, TakesNext
\* Steps that leave the ticks alone.
<1>10. ASSUME tick' = tick, \A i \in Job : job'[i].run \in {job[i].run, NoRun},
              \A k \in Tick : tick[k].pc = "preparing" =>
                 /\ prep'[k].made \subseteq prep[k].made
                 /\ prep'[k].queue \subseteq prep[k].queue
       PROVE  SlotInv'
  <2>1. \A l \in Tick : tick[l].job # NoJob => tick[l].job \in Job
    BY <1>0 DEF TickRecord
  <2>2. QED
    BY <1>7, <1>10, <2>1
<1>11. ASSUME NEW j \in Job, JobsMove(j)
       PROVE  SlotInv'
  <2>1. tick' = tick /\ prep' = prep
    BY <1>11 DEF JobsMove, CheckBlocked, WorkerMove, AgentMove, dvars
  <2>2. \A i \in Job : job'[i].run \in {job[i].run, NoRun}
    <3>1. CASE CheckBlocked(j)
      BY <1>0, <3>1 DEF CheckBlocked, Goto, JobRecord
    <3>2. CASE JobMove(j)
      BY <3>2 DEF JobMove
    <3>3. QED
      BY <1>11, <3>1, <3>2 DEF JobsMove, WorkerMove, AgentMove
  <2>3. QED
    BY <1>10, <2>1, <2>2
<1>12. ASSUME NEW p \in Preparer, PreparerMove(p)
       PROVE  SlotInv'
  <2>1. tick' = tick /\ job' = job
    BY <1>0, <1>12, PreparerMade DEF dvars
  <2>2. ASSUME NEW w, prep' = [prep EXCEPT ![p] = w], w.made = {}, w.queue = {}
        PROVE  SlotInv'
    <3>1. \A k \in Tick : prep'[k].made \subseteq prep[k].made /\ prep'[k].queue \subseteq prep[k].queue
      BY <1>0, <2>2
    <3>2. QED
      BY <1>10, <2>1, <3>1
  <2>3. CASE PrepareThrows(p)
    <3>1. prep' = [prep EXCEPT ![p] = IdlePrep]
      BY <2>3 DEF PrepareThrows
    <3>2. IdlePrep.made = {} /\ IdlePrep.queue = {}
      BY DEF IdlePrep
    <3>3. QED
      BY <2>2, <3>1, <3>2
  <2>4. CASE UserPrepare(p)
    <3> DEFINE w == [IdlePrep EXCEPT !.pc = "listed", !.seen = db.state]
    <3>1. prep' = [prep EXCEPT ![p] = w]
      BY <2>4 DEF UserPrepare, PrepareList
    <3>2. w.made = {} /\ w.queue = {}
      BY DEF IdlePrep
    <3>3. QED
      <4> HIDE DEF w
      <4>1. QED
        BY <2>2, <3>1, <3>2
  <2>5. ASSUME NEW r \in Run, PrepareRecord(p, r)
        PROVE  SlotInv'
    BY <1>1, <1>12, <2>5, RecordSlots DEF PreparerMove
  <2>6. CASE PrepareSelect(p)
    <3>1. CASE p \in Tick /\ tick[p].pc = "preparing"
      BY <1>12, <2>6, <3>1, SelectSlots DEF PreparerMove
    <3>2. CASE ~(p \in Tick /\ tick[p].pc = "preparing")
      <4>1. \A k \in Tick : tick[k].pc = "preparing" => prep'[k] = prep[k]
        BY <1>0, <2>6, <3>2 DEF PrepareSelect
      <4>2. QED
        BY <1>10, <2>1, <4>1
    <3>3. QED
      BY <3>1, <3>2
  <2>7. QED
    BY <1>12, <2>3, <2>4, <2>5, <2>6 DEF PreparerMove
<1>13. CASE DispatchRestart
  <2>1. \A k \in Tick : tick'[k] = IdleTick
    BY <1>13 DEF DispatchRestart
  <2>2. QED
    BY <1>7, <2>1 DEF IdleTick
<1>14. QED
  BY <1>0, <1>8, <1>9, <1>11, <1>12, <1>13 DEF LoopMove, CancelWrites

LEMMA SlotInit == DispatchInit => UsedInv /\ OwnerInv /\ SlotInv
<1> SUFFICES ASSUME DispatchInit PROVE UsedInv /\ OwnerInv /\ SlotInv
  OBVIOUS
<1>1. /\ \A r \in Run : db.run[r].status = "none"
      /\ \A j \in Job : job[j].run = NoRun /\ ~Starting(job[j]) /\ ~Started(job[j])
      /\ \A k \in Tick : tick[k].queue = {} /\ tick[k].job = NoJob /\ tick[k].pc = "idle"
      /\ \A p \in Preparer : prep[p].made = {} /\ prep[p].queue = {}
      /\ canceling = {}
  BY DEF DispatchInit, Init, EmptyDatabase, IdleJob, IdleTick, IdlePrep, Starting, Started
<1>2. UsedInv
  BY <1>1 DEF UsedInv, IsUsed
<1>3. OwnerInv
  BY <1>1 DEF OwnerInv, DistinctInv
<1>4. Busy = {}
  BY <1>1 DEF Busy, RunsDue, TasksDue, TasksOf, RunsIn
<1>5. SlotInv
  BY <1>4, FS_EmptySet, WorkflowAssumption DEF SlotInv
<1>6. QED
  BY <1>2, <1>3, <1>5

\* Never more tasks at work than max_concurrent_agents, although a tick decides
\* on a snapshot and starts its runs one after the other, and a preparation
\* takes its time: for tasks without a board card, runs that only the loop
\* starts and nobody cancels, ticks that do not overlap, and a stall monitor
\* only where a worker makes one pass.
THEOREM SlotsAreNotOverdrawn ==
  ASSUME BoardTask = {}, {"start", "cancel"} \cap Command = {},
         ~Toggle \/ \A k, l \in Tick : k = l, StallMonitor => MaxPasses = 1
  PROVE  DispatchSpec => []RunningWithinCap
<1> DEFINE SlotsInv == LoopInv /\ UsedInv /\ OwnerInv /\ SlotInv
<1>1. DispatchInit => DispatchTypeOK /\ SlotsInv
  BY LoopInvInit, SlotInit
<1>2. ASSUME DispatchTypeOK, SlotsInv, [DispatchNext]_allvars
      PROVE  DispatchTypeOK' /\ SlotsInv'
  <2>1. DispatchTypeOK' /\ LoopInv' /\ LoopMove
    BY <1>2, LoopInvStep
  <2>2. UsedInv'
    BY <1>2, <2>1, UsedStep DEF LoopInv
  <2>3. OwnerInv'
    BY <1>2, <2>1, OwnerStep DEF LoopInv
  <2>4. SlotInv'
    BY <1>2, <2>1, SlotStep DEF LoopInv
  <2>5. QED
    BY <2>1, <2>2, <2>3, <2>4
<1>3. SlotsInv => RunningWithinCap
  BY SlotsCap
<1>4. QED
  <2> HIDE DEF SlotsInv
  <2>1. QED
    BY <1>1, <1>2, <1>3, PTL DEF DispatchSpec

(***************************************************************************)
(* OneOpenRunPerTask.  A run comes to be open when a preparation records   *)
(* it or when it is resumed; both were decided on when no run of its task  *)
(* was open, and nothing opens a run of that task in between.              *)
(***************************************************************************)
Open == RunsIn(db, "prepared") \cup RunsIn(db, "running")

\* What tick k is going to start, and what it is starting.
Due(k) == {r \in Run : \/ r \in tick[k].queue
                       \/ tick[k].job # NoJob /\ job[tick[k].job].run = r}

\* Only a tick prepares, and it waits for what it asked for.
PreppingInv ==
    \A p \in Preparer : prep[p].pc # "idle" => p \in Tick /\ tick[p].pc = "preparing"

\* A run that is started because it is prepared is still prepared.
StartingInv ==
    \A k \in Tick : tick[k].pc \in {"prepared", "fresh"} /\ tick[k].job # NoJob =>
        job[tick[k].job].run \in RunsIn(db, "prepared")

OpenInv ==
    /\ OneOpenRunPerTask
    /\ \A p \in Preparer : \A r \in Open : TaskOf(db, r) \notin prep[p].queue
    /\ \A k \in Tick : tick[k].pc = "interrupted" => \A r \in Due(k), q \in Open \cup Due(k) :
          TaskOf(db, q) = TaskOf(db, r) => q = r

LEMMA PreparedFrom ==
  ASSUME BoardTask = {}, DispatchTypeOK, LoopMove
  PROVE  \/ RunsIn(db', "prepared") \subseteq RunsIn(db, "prepared")
         \/ \E p \in Preparer, r \in Run : PrepareRecord(p, r) /\ UNCHANGED dvars /\
              RunsIn(db', "prepared") \subseteq RunsIn(db, "prepared") \cup {r}
<1>0. TypeOK /\ job \in [Job -> JobRecord] /\ db \in Database
  BY DEF DispatchTypeOK, TypeOK
<1> DEFINE Kept == RunsIn(db', "prepared") \subseteq RunsIn(db, "prepared")
<1>1. ASSUME \A q \in Run : db'.run[q].status = "prepared" => db.run[q].status = "prepared"
      PROVE  Kept
  BY <1>1 DEF RunsIn
<1>2. ASSUME KeepsRows
      PROVE  Kept
  BY <1>1, <1>2 DEF KeepsRows
<1>3. ASSUME NEW r, NEW s \in Final \cup {"running"}, NEW p, RowWritten(db, db', r, s, p)
      PROVE  Kept
  <2>1. \A q \in Run : db'.run[q].status = IF q = r THEN s ELSE db.run[q].status
    BY <1>3, RowFields
  <2>2. QED
    BY <1>1, <2>1 DEF Final
<1>4. ASSUME NEW k \in Tick, TickMove(k)
      PROVE  Kept
  <2>1. ASSUME NEW j \in Job, StartReturns(k, j)
        PROVE  Kept
    BY <1>0, <1>3, <2>1, BeginWorkMove DEF StartReturns, BeginMove
  <2>2. ASSUME NEW phase, NEW queue \in SUBSET Run, NEW r \in queue, NEW j \in Job,
               Starts(k, phase, queue, j, r)
        PROVE  Kept
    <3>1. CASE phase = "interrupted"
      <4>1. RowWritten(db, db', r, db.run[r].status, [db.run[r].proof EXCEPT !.attempts = @ + 1])
        BY <1>0, <2>2, <3>1, ResumptionRows DEF Starts
      <4>2. \A q \in Run : db'.run[q].status = IF q = r THEN db.run[r].status ELSE db.run[q].status
        BY <4>1, RowFields
      <4>3. QED
        BY <1>1, <4>2
    <3>2. CASE phase # "interrupted"
      BY <1>2, <2>2, <3>2 DEF Starts, LoopStart, KeepsRows
    <3>3. QED
      BY <3>1, <3>2
  <2>3. ASSUME UNCHANGED db
        PROVE  Kept
    BY <1>2, <2>3 DEF KeepsRows
  <2>4. QED
    BY <1>4, <2>1, <2>2, <2>3
    DEF TickMove, TakesNext, Turn, TickPrepares, PrepareList, PrepareFails, PrepareThrows, Skips,
        StartFails, StartThrows, vars
<1>5. ASSUME NEW j \in Job, JobsMove(j)
      PROVE  Kept
  <2>1. CASE CheckBlocked(j)
    BY <1>2, <2>1 DEF CheckBlocked, KeepsRows
  <2>2. CASE WorkerMove(j) \/ AgentMove(j)
    BY <1>2, <1>3, <2>2 DEF WorkerMove, AgentMove, WritesRow
  <2>3. QED
    BY <1>5, <2>1, <2>2 DEF JobsMove
<1>6. ASSUME NEW p \in Preparer, PreparerMove(p)
      PROVE  Kept \/ \E r \in Run : PrepareRecord(p, r) /\ UNCHANGED dvars /\
                       RunsIn(db', "prepared") \subseteq RunsIn(db, "prepared") \cup {r}
  <2>1. ASSUME NEW r \in Run, PrepareRecord(p, r)
        PROVE  RunsIn(db', "prepared") \subseteq RunsIn(db, "prepared") \cup {r}
    <3>1. \A q \in Run : q # r => db'.run[q] = db.run[q]
      BY <1>0, <2>1, InsertedRow
    <3>2. QED
      BY <3>1 DEF RunsIn
  <2>2. QED
    BY <1>0, <1>2, <1>6, <2>1, PreparerMade DEF KeepsRows, PreparerMove
<1>7. ASSUME NEW r \in Run, CancelWrites(r)
      PROVE  Kept
  BY <1>0, <1>3, <1>7, CancelRows DEF Final
<1>8. ASSUME DispatchRestart
      PROVE  Kept
  BY <1>0, <1>1, <1>8, RestartFields DEF DispatchRestart
<1>9. QED
  BY <1>2, <1>4, <1>5, <1>6, <1>7, <1>8 DEF LoopMove, Quiet

LEMMA PreppingStep ==
  ASSUME "prepare" \notin Command, DispatchTypeOK, AwaitInv, PreppingInv, LoopMove
  PROVE  PreppingInv'
<1>0. /\ TypeOK /\ prep \in [Preparer -> PrepRecord] /\ tick \in [Tick -> TickRecord]
      /\ Tick \subseteq Preparer
  BY DispatchAssumption DEF DispatchTypeOK, TypeOK
<1>1. ASSUME prep' = prep, tick' = tick
      PROVE  PreppingInv'
  BY <1>1 DEF PreppingInv
\* Tick k was not preparing, or its preparation is over.
<1>2. ASSUME NEW k \in Tick, NEW pc, NEW queue, NEW i, TickBecomes(k, pc, queue, i), prep' = prep,
             tick[k].pc = "preparing" => prep[k].pc = "idle"
      PROVE  PreppingInv'
  <2>1. \A l \in Tick \ {k} : tick'[l] = tick[l]
    BY <1>0, <1>2 DEF TickBecomes
  <2>2. QED
    BY <1>2, <2>1 DEF PreppingInv
<1>3. ASSUME NEW k \in Tick, TickMove(k)
      PROVE  PreppingInv'
  <2>1. CASE Turn(k)
    BY <1>2, <2>1, GotoIs DEF Turn, TickBecomes, vars
  <2>2. ASSUME NEW phase \in StartPhase, NEW queue, Loads(k, phase, queue)
        PROVE  tick[k].pc = "preparing" => prep[k].pc = "idle"
    BY <2>2 DEF Loads, StartPhase
  <2>3. CASE TakesNext(k)
    <3>1. PICK phase \in StartPhase, queue \in SUBSET Run :
            /\ Loads(k, phase, queue)
            /\ \E r \in queue : \/ \E j \in Job : Starts(k, phase, queue, j, r)
                                \/ phase = "interrupted" /\ Skips(k, queue, r)
      BY <2>3 DEF TakesNext
    <3>2. tick[k].pc = "preparing" => prep[k].pc = "idle"
      BY <2>2, <3>1
    <3>3. prep' = prep /\ \E pc, rest, i : TickBecomes(k, pc, rest, i)
      BY <3>1 DEF Starts, Resumption, LoopStart, Skips, TickBecomes, vars
    <3>4. QED
      BY <1>2, <3>2, <3>3
  <2>4. CASE TickPrepares(k)
    <3>1. /\ tick'[k].pc = "preparing"
          /\ \A l \in Tick \ {k} : tick'[l] = tick[l]
          /\ \A p \in Preparer \ {k} : prep'[p] = prep[p]
      <4>1. TickBecomes(k, "preparing", {}, NoJob)
        BY <2>4, GotoIs DEF TickPrepares, TickBecomes
      <4>2. QED
        BY <1>0, <2>4, <4>1 DEF TickPrepares, PrepareList, TickBecomes
    <3>2. QED
      BY <3>1 DEF PreppingInv
  <2>5. CASE PrepareFails(k)
    <3>1. /\ prep'[k].pc = "idle"
          /\ \A l \in Tick \ {k} : tick'[l] = tick[l]
          /\ \A p \in Preparer \ {k} : prep'[p] = prep[p]
      <4>1. TickBecomes(k, "failing", {}, NoJob)
        BY <2>5, GotoIs DEF PrepareFails, TickBecomes
      <4>2. QED
        BY <1>0, <2>5, <4>1 DEF PrepareFails, PrepareThrows, TickBecomes, IdlePrep
    <3>2. QED
      BY <3>1 DEF PreppingInv
  <2>6. ASSUME NEW j \in Job, StartFails(k, j) \/ StartReturns(k, j)
        PROVE  PreppingInv'
    <3>1. tick[k].pc # "preparing"
      BY <1>0, <2>6, DispatchAssumption DEF StartFails, StartReturns, Awaits, AwaitInv, StartPhase
    <3>2. \E pc, queue, i : TickBecomes(k, pc, queue, i)
      BY <2>6, GotoIs, JobDropped DEF StartFails, StartReturns, TickBecomes
    <3>3. prep' = prep
      BY <2>6 DEF StartFails, StartThrows, StartReturns, BeginWork
    <3>4. QED
      BY <1>2, <3>1, <3>2, <3>3
  <2>7. QED
    BY <1>3, <2>1, <2>3, <2>4, <2>5, <2>6 DEF TickMove
<1>4. ASSUME NEW p \in Preparer, PreparerMove(p)
      PROVE  PreppingInv'
  <2>1. tick' = tick /\ \A q \in Preparer \ {p} : prep'[q] = prep[q]
    BY <1>0, <1>4, PreparerMade DEF dvars
  <2>2. prep[p].pc # "idle"
    BY <1>4 DEF PreparerMove, PrepareSelect, PrepareRecord, PrepareThrows, UserPrepare
  <2>3. QED
    BY <2>1, <2>2 DEF PreppingInv
<1>5. CASE DispatchRestart
  BY <1>5 DEF DispatchRestart, Restart, IdlePrep, PreppingInv
<1>6. QED
  BY <1>1, <1>3, <1>4, <1>5
  DEF LoopMove, Quiet, JobsMove, CheckBlocked, WorkerMove, AgentMove, CancelWrites, dvars

LEMMA StartingStep ==
  ASSUME BoardTask = {}, DispatchTypeOK, OneTick, AwaitInv, SettledInv, QueueInv, StartingInv, LoopMove
  PROVE  StartingInv'
<1>0. /\ TypeOK /\ job \in [Job -> JobRecord] /\ tick \in [Tick -> TickRecord] /\ NoJob \notin Job
      /\ \A k \in Tick : tick[k].job \in Job \cup {NoJob}
  BY DispatchAssumption DEF DispatchTypeOK, TypeOK, TickRecord
\* The starts in progress were in progress, and no prepared row is written.
<1>1. ASSUME Disturbs({}),
             \A k \in Tick : tick'[k].job # NoJob =>
                tick'[k] = tick[k] /\ job'[tick[k].job].run = job[tick[k].job].run
      PROVE  StartingInv'
  BY <1>1 DEF StartingInv, Disturbs, RunsIn
<1>2. ASSUME NEW k \in Tick, TickMove(k)
      PROVE  StartingInv'
  <2>1. ASSUME NEW j \in Job, StartReturns(k, j)
        PROVE  StartingInv'
    <3>1. tick[k].pc # "idle"
      BY <1>0, <2>1 DEF StartReturns, Awaits, AwaitInv, StartPhase
    <3>2. \A l \in Tick \ {k} : tick[l].job = NoJob
      BY <3>1, IdleTicks
    <3>3. TickBecomes(k, tick[k].pc, tick[k].queue, NoJob)
      BY <2>1, JobDropped DEF StartReturns, TickBecomes
    <3>4. \A l \in Tick : tick'[l].job = NoJob
      BY <1>0, <3>2, <3>3 DEF TickBecomes
    <3>5. QED
      BY <3>4 DEF StartingInv
  <2>2. ASSUME NEW phase \in StartPhase, NEW queue \in SUBSET Run, NEW r \in queue,
               Loads(k, phase, queue), NEW j \in Job, Starts(k, phase, queue, j, r)
        PROVE  StartingInv'
    <3>1. tick[k].pc # "idle"
      BY <2>2 DEF Loads, StartPhase
    <3>2. \A l \in Tick \ {k} : tick[l].job = NoJob
      BY <3>1, IdleTicks
    <3>3. /\ tick'[k] = [pc |-> phase, queue |-> queue \ {r}, job |-> j]
          /\ \A l \in Tick \ {k} : tick'[l] = tick[l]
      BY <1>0, <2>2 DEF Starts
    <3>4. job'[j].run = r
      BY <1>0, <2>2, StartedRun DEF DispatchTypeOK
    <3>5. phase \in {"prepared", "fresh"} => r \in RunsIn(db, "prepared") /\ db' = db
      BY <2>2, LoadedPrepared DEF Starts, LoopStart
    <3>6. QED
      BY <3>2, <3>3, <3>4, <3>5 DEF StartingInv, RunsIn
  <2>3. ASSUME NEW pc, NEW queue, TickBecomes(k, pc, queue, NoJob), UNCHANGED db,
               tick[k].pc # "idle" \/ UNCHANGED job
        PROVE  StartingInv'
    <3>1. /\ tick'[k].job = NoJob
          /\ \A l \in Tick \ {k} : tick'[l] = tick[l]
      BY <1>0, <2>3 DEF TickBecomes
    <3>2. \A l \in Tick \ {k} : tick[l].job # NoJob => UNCHANGED job
      BY <2>3, IdleTicks
    <3>3. Disturbs({})
      BY <2>3 DEF Disturbs, IsSettled
    <3>4. QED
      BY <1>1, <3>1, <3>2, <3>3
  <2>4. CASE Turn(k) \/ TickPrepares(k) \/ PrepareFails(k)
    <3>1. \E pc : TickBecomes(k, pc, {}, NoJob)
      BY <2>4, GotoIs DEF Turn, TickPrepares, PrepareFails, TickBecomes
    <3>2. UNCHANGED <<db, job>>
      BY <2>4 DEF Turn, TickPrepares, PrepareList, PrepareFails, PrepareThrows, vars
    <3>3. QED
      BY <2>3, <3>1, <3>2
  <2>5. ASSUME NEW queue, NEW r, Skips(k, queue, r)
        PROVE  StartingInv'
    BY <2>3, <2>5 DEF Skips, TickBecomes, vars
  <2>6. ASSUME NEW j \in Job, StartFails(k, j)
        PROVE  StartingInv'
    <3>1. TickBecomes(k, "failing", {}, NoJob)
      BY <2>6, GotoIs DEF StartFails, TickBecomes
    <3>2. tick[k].pc # "idle" /\ UNCHANGED db
      BY <1>0, <2>6 DEF StartFails, StartThrows, Awaits, AwaitInv, StartPhase
    <3>3. QED
      BY <2>3, <3>1, <3>2
  <2>7. QED
    BY <1>2, <2>1, <2>2, <2>4, <2>5, <2>6 DEF TickMove, TakesNext
<1>3. CASE Quiet
  <2>1. Disturbs({})
    BY <1>3 DEF Quiet, KeepsRows, Disturbs, IsSettled
  <2>2. QED
    BY <1>1, <1>3, <2>1 DEF Quiet
<1>4. ASSUME NEW j \in Job, JobsMove(j)
      PROVE  StartingInv'
  <2>1. Disturbs({}) /\ tick' = tick
    BY <1>0, <1>4, JobsDisturb DEF JobsMove, dvars
  <2>2. \A i \in Job : Starting(job[i]) => job'[i].run = job[i].run
    BY <1>0, <1>4 DEF JobsMove, CheckBlocked, Goto, WorkerMove, AgentMove, JobMove, JobRecord
  <2>3. QED
    BY <1>0, <1>1, <2>1, <2>2 DEF AwaitInv
<1>5. ASSUME NEW p \in Preparer, PreparerMove(p)
      PROVE  StartingInv'
  BY <1>0, <1>1, <1>5, PreparersDisturb, PreparerMade DEF dvars
<1>6. ASSUME NEW r \in Run, CancelWrites(r), UNCHANGED dvars
      PROVE  StartingInv'
  BY <1>0, <1>1, <1>6, CancelDisturbs DEF CancelWrites, dvars
<1>7. CASE DispatchRestart
  BY <1>7 DEF DispatchRestart, IdleTick, StartingInv
<1>8. QED
  BY <1>2, <1>3, <1>4, <1>5, <1>6, <1>7 DEF LoopMove

\* What a preparation is about to record was so before, or is selected now.
LEMMA PrepQueues ==
  ASSUME DispatchTypeOK, LoopMove
  PROVE  \/ \A p \in Preparer : prep'[p].queue \subseteq prep[p].queue
         \/ \E p \in Preparer, sel \in SUBSET Task :
              /\ IsSelection(sel, Task, prep[p].seen, Claims(db))
              /\ prep'[p].queue = sel
              /\ \A q \in Preparer \ {p} : prep'[q] = prep[q]
              /\ UNCHANGED <<db, job, dvars>>
<1>0. /\ TypeOK /\ prep \in [Preparer -> PrepRecord] /\ Tick \subseteq Preparer
      /\ \A p \in Preparer : prep[p] \in PrepRecord
  BY DispatchAssumption DEF DispatchTypeOK, TypeOK
<1> DEFINE Kept == \A p \in Preparer : prep'[p].queue \subseteq prep[p].queue
<1>1. ASSUME NEW p \in Preparer, NEW w, prep' = [prep EXCEPT ![p] = w], w.queue \subseteq prep[p].queue
      PROVE  Kept
  BY <1>0, <1>1
<1>2. IdlePrep.queue = {} /\ [IdlePrep EXCEPT !.pc = "listed", !.seen = db.state].queue = {}
  BY DEF IdlePrep
<1>3. ASSUME NEW p \in Preparer, PrepareList(p) \/ PrepareThrows(p)
      PROVE  Kept
  <2>1. PICK w \in {IdlePrep, [IdlePrep EXCEPT !.pc = "listed", !.seen = db.state]} :
          prep' = [prep EXCEPT ![p] = w]
    BY <1>3 DEF PrepareList, PrepareThrows
  <2>2. w.queue = {}
    BY <1>2, <2>1
  <2>3. QED
    BY <1>1, <2>1, <2>2
<1>4. ASSUME NEW p \in Preparer, NEW r \in Run, PrepareRecord(p, r)
      PROVE  Kept
  <2> DEFINE some == prep[p].made \cup {r}
  <2>1. PICK t \in prep[p].queue : prep' = [prep EXCEPT ![p] =
          IF prep[p].queue \ {t} = {} THEN [IdlePrep EXCEPT !.made = some]
          ELSE [prep[p] EXCEPT !.queue = prep[p].queue \ {t}, !.made = some]]
    BY <1>4 DEF PrepareRecord
  <2> HIDE DEF some
  <2>2. [IdlePrep EXCEPT !.made = some].queue = {}
    BY DEF IdlePrep
  <2>3. [prep[p] EXCEPT !.queue = prep[p].queue \ {t}, !.made = some].queue = prep[p].queue \ {t}
    BY <1>0 DEF PrepRecord
  <2>4. QED
    BY <1>1, <2>1, <2>2, <2>3
<1>5. ASSUME NEW p \in Preparer, PrepareSelect(p), UNCHANGED dvars
      PROVE  \E sel \in SUBSET Task :
              /\ IsSelection(sel, Task, prep[p].seen, Claims(db))
              /\ prep'[p].queue = sel
              /\ \A q \in Preparer \ {p} : prep'[q] = prep[q]
              /\ UNCHANGED <<db, job, dvars>>
  <2>1. PICK sel \in SUBSET Task :
          /\ IsSelection(sel, Task, prep[p].seen, Claims(db))
          /\ prep' = [prep EXCEPT ![p] =
                IF sel = {} THEN IdlePrep ELSE [prep[p] EXCEPT !.pc = "recording", !.queue = sel]]
    BY <1>0, <1>5 DEF PrepareSelect
  <2>2. [prep[p] EXCEPT !.pc = "recording", !.queue = sel].queue = sel
    BY <1>0 DEF PrepRecord
  <2>3. prep'[p].queue = sel /\ \A q \in Preparer \ {p} : prep'[q] = prep[q]
    BY <1>0, <1>2, <2>1, <2>2
  <2>4. QED
    BY <1>5, <2>1, <2>3 DEF PrepareSelect
<1>6. ASSUME UNCHANGED prep
      PROVE  Kept
  BY <1>6
<1>7. ASSUME DispatchRestart
      PROVE  Kept
  BY <1>2, <1>7 DEF DispatchRestart, Restart
<1> HIDE DEF Kept
<1>8. ASSUME NEW p \in Preparer, PreparerMove(p)
      PROVE  Kept \/ \E sel \in SUBSET Task :
              /\ IsSelection(sel, Task, prep[p].seen, Claims(db))
              /\ prep'[p].queue = sel
              /\ \A q \in Preparer \ {p} : prep'[q] = prep[q]
              /\ UNCHANGED <<db, job, dvars>>
  BY <1>3, <1>4, <1>5, <1>8 DEF PreparerMove, UserPrepare
<1>9. ASSUME NEW k \in Tick, TickMove(k)
      PROVE  Kept
  <2>1. CASE TickPrepares(k) \/ PrepareFails(k)
    BY <1>0, <1>3, <2>1 DEF TickPrepares, PrepareFails
  <2>2. CASE Turn(k) \/ TakesNext(k)
    <3>1. UNCHANGED prep
      BY <2>2 DEF TakesNext, Turn, Skips, Starts, Resumption, LoopStart, vars
    <3>2. QED
      BY <1>6, <3>1
  <2>3. CASE \E j \in Job : StartReturns(k, j) \/ StartFails(k, j)
    BY <1>6, <2>3 DEF StartFails, StartThrows, StartReturns, BeginWork
  <2>4. QED
    BY <1>9, <2>1, <2>2, <2>3 DEF TickMove
<1>10. Kept \/ \E p \in Preparer : PreparerMove(p)
  BY <1>6, <1>7, <1>9
  DEF LoopMove, Quiet, JobsMove, CheckBlocked, WorkerMove, AgentMove, CancelWrites
<1>11. QED
  BY <1>8, <1>10 DEF Kept

\* What a tick that resumes interrupted runs is going to start.
LEMMA DueFrom ==
  ASSUME BoardTask = {}, DispatchTypeOK, AwaitInv, LoopMove, NEW k \in Tick, tick'[k].pc = "interrupted"
  PROVE  \/ tick[k].pc = "interrupted" /\ Due(k)' \subseteq Due(k)
         \/ \E held : Due(k)' \subseteq AutoContinuable(db, held)
         \/ Due(k)' = {}
<1>0. /\ TypeOK /\ job \in [Job -> JobRecord] /\ tick \in [Tick -> TickRecord] /\ NoJob \notin Job
      /\ NoRun \notin Run /\ \A l \in Tick : tick[l].job \in Job \cup {NoJob}
  BY DispatchAssumption, StoreAssumption DEF DispatchTypeOK, TypeOK, TickRecord, NoRun
<1>1. ASSUME tick'[k] = tick[k],
             tick[k].job # NoJob => job'[tick[k].job].run \in {job[tick[k].job].run, NoRun}
      PROVE  tick[k].pc = "interrupted" /\ Due(k)' \subseteq Due(k)
  BY <1>0, <1>1 DEF Due
<1>2. ASSUME NEW l \in Tick, TickMove(l), l # k
      PROVE  tick[k].pc = "interrupted" /\ Due(k)' \subseteq Due(k)
  <2>1. tick'[k] = tick[k]
    <3>1. \E w : tick' = [tick EXCEPT ![l] = w]
      BY <1>2, GotoIs, JobDropped
      DEF TickMove, TakesNext, Turn, TickPrepares, PrepareFails, Skips, Starts, StartFails, StartReturns
    <3>2. QED
      BY <1>0, <1>2, <3>1
  <2>2. ASSUME tick[k].job # NoJob
        PROVE  job'[tick[k].job].run \in {job[tick[k].job].run, NoRun}
    <3>1. tick[k].job \in Job /\ Starting(job[tick[k].job])
      BY <1>0, <2>2 DEF AwaitInv
    <3>2. ASSUME NEW j \in Job, NEW r, NEW d, LoopStart(j, r, d)
          PROVE  j # tick[k].job /\ job'[tick[k].job] = job[tick[k].job]
      BY <1>0, <3>1, <3>2 DEF LoopStart, IsFree, Starting
    <3>3. ASSUME NEW j \in Job, StartFails(l, j) \/ StartReturns(l, j)
          PROVE  job'[tick[k].job].run \in {job[tick[k].job].run, NoRun}
      <4>1. CASE StartReturns(l, j)
        <5>1. BeginMove(j)
          BY <1>0, <4>1, BeginWorkMove DEF StartReturns
        <5>2. QED
          BY <3>1, <5>1 DEF BeginMove
      <4>2. CASE StartFails(l, j)
        <5>1. job'[j] = IdleJob /\ \A i \in Job \ {j} : job'[i] = job[i]
          BY <1>0, <4>2, ThrowsMove DEF StartFails
        <5>2. QED
          BY <3>1, <5>1 DEF IdleJob
      <4>3. QED
        BY <3>3, <4>1, <4>2
    <3>4. QED
      BY <1>2, <3>2, <3>3
      DEF TickMove, TakesNext, Turn, TickPrepares, PrepareList, PrepareFails, PrepareThrows, Skips,
          Starts, Resumption, vars
  <2>3. QED
    BY <1>1, <2>1, <2>2
<1>3. ASSUME TickMove(k)
      PROVE  \/ tick[k].pc = "interrupted" /\ Due(k)' \subseteq Due(k)
             \/ \E held : Due(k)' \subseteq AutoContinuable(db, held)
             \/ Due(k)' = {}
  <2>1. ASSUME NEW pc, GotoTick(k, pc)
        PROVE  Due(k)' = {}
    <3>1. tick' = [tick EXCEPT ![k] = [pc |-> pc, queue |-> {}, job |-> NoJob]]
      BY <2>1, GotoIs
    <3>2. tick'[k] = [pc |-> pc, queue |-> {}, job |-> NoJob]
      BY <1>0, <3>1
    <3>3. QED
      BY <3>2 DEF Due
  <2>2. ASSUME NEW phase \in StartPhase, NEW queue \in SUBSET Run, NEW r \in queue, NEW i,
               Loads(k, phase, queue), TickBecomes(k, phase, queue \ {r}, i),
               i = NoJob \/ job'[i].run = r
        PROVE  \/ tick[k].pc = "interrupted" /\ Due(k)' \subseteq Due(k)
               \/ \E held : Due(k)' \subseteq AutoContinuable(db, held)
    <3>1. tick'[k] = [pc |-> phase, queue |-> queue \ {r}, job |-> i]
      BY <1>0, <2>2 DEF TickBecomes
    <3>2. phase = "interrupted" /\ Due(k)' \subseteq queue
      BY <2>2, <3>1 DEF Due
    <3>3. CASE phase = tick[k].pc /\ queue = tick[k].queue
      BY <3>2, <3>3 DEF Due
    <3>4. CASE \E held : queue = AutoContinuable(db, held)
      BY <3>2, <3>4
    <3>5. QED
      BY <2>2, <3>2, <3>3, <3>4 DEF Loads
  <2>3. ASSUME NEW j \in Job, StartReturns(k, j)
        PROVE  tick[k].pc = "interrupted" /\ Due(k)' \subseteq Due(k)
    <3>1. TickBecomes(k, tick[k].pc, tick[k].queue, NoJob)
      BY <2>3, JobDropped DEF StartReturns, TickBecomes
    <3>2. tick'[k] = [pc |-> tick[k].pc, queue |-> tick[k].queue, job |-> NoJob]
      BY <1>0, <3>1 DEF TickBecomes
    <3>3. QED
      BY <3>2 DEF Due
  <2>4. CASE TakesNext(k)
    <3>1. ASSUME NEW phase \in StartPhase, NEW queue \in SUBSET Run, NEW r \in queue, NEW j \in Job,
                 Loads(k, phase, queue), Starts(k, phase, queue, j, r)
          PROVE  TickBecomes(k, phase, queue \ {r}, j) /\ job'[j].run = r
      BY <1>0, <3>1, StartedRun DEF Starts, TickBecomes
    <3>2. QED
      BY <2>2, <2>4, <3>1 DEF TakesNext, Skips, TickBecomes
  <2>5. QED
    BY <1>3, <2>1, <2>3, <2>4 DEF TickMove, Turn, TickPrepares, PrepareFails, StartFails
<1>4. ASSUME NEW j \in Job, JobsMove(j)
      PROVE  tick[k].pc = "interrupted" /\ Due(k)' \subseteq Due(k)
  <2>1. tick' = tick
    BY <1>4 DEF JobsMove, dvars
  <2>2. \A i \in Job : job'[i].run \in {job[i].run, NoRun}
    <3>1. CASE CheckBlocked(j)
      BY <1>0, <3>1 DEF CheckBlocked, Goto, JobRecord
    <3>2. CASE JobMove(j)
      BY <3>2 DEF JobMove
    <3>3. QED
      BY <1>4, <3>1, <3>2 DEF JobsMove, WorkerMove, AgentMove
  <2>3. QED
    BY <1>0, <1>1, <2>1, <2>2
<1>5. CASE DispatchRestart
  BY <1>5 DEF DispatchRestart, IdleTick
<1>6. ASSUME UNCHANGED <<tick, job>>
      PROVE  tick[k].pc = "interrupted" /\ Due(k)' \subseteq Due(k)
  BY <1>1, <1>6
<1>7. QED
  BY <1>0, <1>2, <1>3, <1>4, <1>5, <1>6, PreparerMade DEF LoopMove, Quiet, CancelWrites, dvars

\* Where the open runs come from.
LEMMA OpenFrom ==
  ASSUME BoardTask = {}, StallMonitor => MaxPasses = 1, DispatchTypeOK, OwnerInv, LoopMove
  PROVE  \/ Open' \subseteq Open
         \/ \E k \in Tick, j \in Job : StartReturns(k, j) /\ Open' \subseteq Open \cup {job[j].run}
         \/ \E p \in Preparer, r \in Run :
              PrepareRecord(p, r) /\ UNCHANGED dvars /\ Open' \subseteq Open \cup {r}
<1>1. CASE RunsIn(db', "prepared") \subseteq RunsIn(db, "prepared")
  BY <1>1, RunningFrom DEF Open
<1>2. ASSUME NEW p \in Preparer, NEW r \in Run, PrepareRecord(p, r), UNCHANGED dvars,
             RunsIn(db', "prepared") \subseteq RunsIn(db, "prepared") \cup {r}
      PROVE  PrepareRecord(p, r) /\ UNCHANGED dvars /\ Open' \subseteq Open \cup {r}
  <2>1. RunsIn(db', "running") \subseteq RunsIn(db, "running")
    <3>1. db \in Database
      BY DEF DispatchTypeOK, TypeOK
    <3>2. QED
      BY <1>2, <3>1 DEF PrepareRecord, InsertRun, Database, RunsIn
  <2>2. QED
    BY <1>2, <2>1 DEF Open
<1>3. QED
  BY <1>1, <1>2, PreparedFrom

\* While a tick starts runs, nothing is being prepared; and while it prepares,
\* it starts none.
LEMMA OneWork ==
  ASSUME OneTick, PreppingInv, UsedInv, NEW k \in Tick, tick[k].pc # "idle"
  PROVE  /\ tick[k].pc # "preparing" => \A p \in Preparer : prep[p].queue = {}
         /\ tick[k].pc = "preparing" => /\ \A p \in Preparer : p # k => prep[p].queue = {}
                                        /\ \A l \in Tick : tick[l].pc # "interrupted"
<1>1. \A l \in Tick : l # k => tick[l].pc = "idle"
  BY DEF OneTick
<1>2. \A p \in Preparer : prep[p].pc = "idle" => prep[p].queue = {}
  BY DEF UsedInv
<1>3. \A p \in Preparer : prep[p].pc # "idle" => p = k /\ tick[k].pc = "preparing"
  BY <1>1 DEF PreppingInv
<1>4. QED
  BY <1>1, <1>2, <1>3

\* What is resumed belongs to tasks that have no open run.
LEMMA ContinuableAlone ==
  ASSUME NEW held, NEW r \in AutoContinuable(db, held), NEW q \in Open
  PROVE  TaskOf(db, q) # TaskOf(db, r)
<1>1. TaskOf(db, q) \in Claims(db).claimed \cup Claims(db).running
  BY DEF Open, Claims, TasksIn
<1>2. TaskOf(db, r) \notin Claims(db).claimed \cup Claims(db).running
  BY DEF AutoContinuable
<1>3. QED
  BY <1>1, <1>2

\* Two interrupted runs that are resumed together are not of one task.
ResumesApart ==
    \A held : \A q, r \in AutoContinuable(db, held) : TaskOf(db, q) = TaskOf(db, r) => q = r

LEMMA OpenStep ==
  ASSUME BoardTask = {}, StallMonitor => MaxPasses = 1,
         DispatchTypeOK, OneTick, AwaitInv, SettledInv, UsedInv, OwnerInv,
         PreppingInv, StartingInv, ResumesApart, OpenInv, LoopMove
  PROVE  OpenInv'
<1>0. /\ TypeOK /\ db \in Database /\ prep \in [Preparer -> PrepRecord] /\ Tick \subseteq Preparer
      /\ NoJob \notin Job /\ \A k \in Tick : tick[k].job \in Job \cup {NoJob}
      /\ Open \in SUBSET Run
  BY DispatchAssumption DEF DispatchTypeOK, TypeOK, TickRecord, Open, RunsIn
<1>1. \A k \in Tick : \A r \in Open \cup Due(k) : IsUsed(db, r) /\ TaskOf(db', r) = TaskOf(db, r)
  <2>1. RowsUsed
    BY RowsUsedStep
  <2>2. ASSUME NEW k \in Tick, NEW r \in Due(k)
        PROVE  IsUsed(db, r)
    BY <2>2, BusyRunsUsed DEF Due, RunsDue
  <2>3. ASSUME NEW r \in Open
        PROVE  IsUsed(db, r)
    BY <2>3 DEF Open, RunsIn, IsUsed
  <2>4. QED
    BY <2>1, <2>2, <2>3 DEF RowsUsed, IsUsed
<1>2. \A r \in Open : TaskOf(db', r) = TaskOf(db, r)
  <2>1. RowsUsed
    BY RowsUsedStep
  <2>2. QED
    BY <2>1 DEF RowsUsed, IsUsed, Open, RunsIn
\* A preparation selects tasks that have no open run.
<1>3. ASSUME NEW p \in Preparer, NEW sel \in SUBSET Task,
             IsSelection(sel, Task, prep[p].seen, Claims(db)), prep'[p].queue = sel,
             \A q \in Preparer \ {p} : prep'[q] = prep[q],
             UNCHANGED <<db, job, dvars>>
      PROVE  OpenInv'
  <2>1. \A t \in sel : t \notin Claims(db).claimed \cup Claims(db).running
    BY <1>3 DEF IsSelection, SkipReason
  <2>2. \A r \in Open : TaskOf(db, r) \in Claims(db).claimed \cup Claims(db).running
    BY DEF Open, Claims, TasksIn
  <2>3. Open' = Open /\ OneOpenRunPerTask'
    BY <1>3 DEF OpenInv, Open, OneOpenRunPerTask
  <2>4. \A q \in Preparer : \A r \in Open' : TaskOf(db', r) \notin prep'[q].queue
    BY <1>3, <2>1, <2>2, <2>3 DEF OpenInv
  <2>5. \A k \in Tick : tick'[k] = tick[k] /\ Due(k)' = Due(k)
    BY <1>3 DEF Due, dvars
  <2>6. \A k \in Tick : tick'[k].pc = "interrupted" => \A r \in Due(k)', q \in Open' \cup Due(k)' :
            TaskOf(db', q) = TaskOf(db', r) => q = r
    BY <1>3, <2>3, <2>5 DEF OpenInv
  <2>7. QED
    BY <2>3, <2>4, <2>6 DEF OpenInv, Open, Due, TaskOf, RunsIn
\* A run is recorded: its task leaves the preparation.
<1>4. ASSUME NEW p \in Preparer, NEW r \in Run, PrepareRecord(p, r), UNCHANGED dvars,
             Open' \subseteq Open \cup {r}
      PROVE  OpenInv'
  <2>1. PICK t \in prep[p].queue :
          /\ \A q \in Run : db'.run[q] =
                IF q = r THEN [status |-> "prepared", task |-> t, proof |-> FreshProof]
                ELSE db.run[q]
          /\ prep' = [prep EXCEPT ![p] =
               IF prep[p].queue \ {t} = {}
               THEN [IdlePrep EXCEPT !.made = prep[p].made \cup {r}]
               ELSE [prep[p] EXCEPT !.queue = prep[p].queue \ {t},
                                    !.made = prep[p].made \cup {r}]]
    BY <1>0, <1>4, InsertRows
  <2>2. prep'[p].queue \subseteq prep[p].queue \ {t} /\ \A q \in Preparer \ {p} : prep'[q] = prep[q]
    <3> DEFINE some == prep[p].made \cup {r}
    <3>1. prep' = [prep EXCEPT ![p] =
            IF prep[p].queue \ {t} = {} THEN [IdlePrep EXCEPT !.made = some]
            ELSE [prep[p] EXCEPT !.queue = prep[p].queue \ {t}, !.made = some]]
      BY <2>1
    <3> HIDE DEF some
    <3>2. [IdlePrep EXCEPT !.made = some].queue = {}
      BY DEF IdlePrep
    <3>3. [prep[p] EXCEPT !.queue = prep[p].queue \ {t}, !.made = some].queue = prep[p].queue \ {t}
      BY <1>0 DEF PrepRecord
    <3>4. QED
      BY <1>0, <3>1, <3>2, <3>3
  <2>3. p \in Tick /\ tick[p].pc = "preparing"
    BY <1>4 DEF PrepareRecord, PreppingInv
  <2>4. /\ \A q \in Preparer : q # p => prep[q].queue = {}
        /\ \A l \in Tick : tick'[l].pc # "interrupted"
    BY <1>4, <2>3, OneWork DEF dvars
  <2>5. TaskOf(db', r) = t /\ \A q \in Open : TaskOf(db', q) # t
    BY <1>2, <2>1 DEF TaskOf, OpenInv
  <2>6. OneOpenRunPerTask'
    <3>1. \A q, u \in Open' : TaskOf(db', q) = TaskOf(db', u) => q = u
      BY <1>2, <1>4, <2>5 DEF OpenInv, OneOpenRunPerTask, Open
    <3>2. QED
      BY <3>1 DEF Open, OneOpenRunPerTask
  <2>7. \A q \in Preparer : \A u \in Open' : TaskOf(db', u) \notin prep'[q].queue
    BY <1>2, <1>4, <2>2, <2>4, <2>5 DEF OpenInv
  <2>8. QED
    BY <2>4, <2>6, <2>7 DEF OpenInv, Open, TaskOf, RunsIn
\* No preparation takes on a task; only the start that a tick awaits opens a run.
<1>5. ASSUME \A p \in Preparer : prep'[p].queue \subseteq prep[p].queue,
             NEW R, Open' \subseteq Open \cup R,
             \A r \in R : \E k \in Tick : tick[k].pc = "interrupted" /\ r \in Due(k),
             R # {} => \A k \in Tick : tick'[k].pc = "interrupted" =>
                          tick[k].pc = "interrupted" /\ Due(k)' \subseteq Due(k)
      PROVE  OpenInv'
  <2>1. \A r \in R : r \in Run /\ TaskOf(db', r) = TaskOf(db, r)
    BY <1>1, <1>5 DEF Due
  <2>2. \A r \in R, q \in Open : TaskOf(db, q) = TaskOf(db, r) => q = r
    BY <1>5 DEF OpenInv
  <2>3. \A q, r \in R : TaskOf(db, q) = TaskOf(db, r) => q = r
    BY <1>5 DEF OpenInv, OneTick
  <2>4. OneOpenRunPerTask'
    <3>1. \A q, u \in Open' : TaskOf(db', q) = TaskOf(db', u) => q = u
      BY <1>2, <1>5, <2>1, <2>2, <2>3 DEF OpenInv, OneOpenRunPerTask, Open
    <3>2. QED
      BY <3>1 DEF Open, OneOpenRunPerTask
  <2>5. \A p \in Preparer : \A u \in Open' : TaskOf(db', u) \notin prep'[p].queue
    <3>1. R # {} => \A p \in Preparer : prep[p].queue = {}
      BY <1>5, OneWork
    <3>2. QED
      BY <1>2, <1>5, <3>1 DEF OpenInv
  <2>6. ASSUME NEW k \in Tick, tick'[k].pc = "interrupted", NEW r \in Due(k)', NEW q \in Open' \cup Due(k)',
               TaskOf(db', q) = TaskOf(db', r)
        PROVE  q = r
    <3>1. CASE tick[k].pc = "interrupted" /\ Due(k)' \subseteq Due(k)
      <4>1. r \in Due(k) /\ q \in Open \cup Due(k)
        <5>1. R \subseteq Due(k)
          BY <1>5, <3>1 DEF OneTick
        <5>2. QED
          BY <1>5, <2>6, <3>1, <5>1
      <4>2. TaskOf(db, q) = TaskOf(db, r)
        BY <1>1, <2>6, <4>1
      <4>3. QED
        BY <3>1, <4>1, <4>2 DEF OpenInv
    <3>2. ASSUME NEW held, Due(k)' \subseteq AutoContinuable(db, held), R = {}
          PROVE  q = r
      <4>1. /\ r \in AutoContinuable(db, held)
            /\ q \in Open \cup AutoContinuable(db, held)
        BY <1>5, <2>6, <3>2
      <4>2. \A u \in AutoContinuable(db, held) : TaskOf(db', u) = TaskOf(db, u)
        <5>1. RowsUsed
          BY RowsUsedStep
        <5>2. QED
          BY <5>1 DEF RowsUsed, AutoContinuable, IsRestartInterrupted, IsUsed
      <4>3. TaskOf(db, q) = TaskOf(db, r)
        BY <1>2, <2>6, <4>1, <4>2
      <4>4. q \notin Open
        BY <4>1, <4>3, ContinuableAlone
      <4>5. QED
        BY <4>1, <4>3, <4>4 DEF ResumesApart
    <3>3. R # {} => tick[k].pc = "interrupted" /\ Due(k)' \subseteq Due(k)
      BY <1>5, <2>6
    <3>4. CASE R = {}
      <4>1. CASE Due(k)' = {}
        BY <2>6, <4>1
      <4>2. QED
        BY <2>6, <3>1, <3>2, <3>4, <4>1, DueFrom
    <3>5. QED
      BY <3>1, <3>3, <3>4
  <2>7. QED
    BY <2>4, <2>5, <2>6 DEF OpenInv, Open, Due, TaskOf, RunsIn
<1>6. ASSUME \A p \in Preparer : prep'[p].queue \subseteq prep[p].queue, Open' \subseteq Open
      PROVE  OpenInv'
  BY <1>5, <1>6
<1>7. ASSUME \A p \in Preparer : prep'[p].queue \subseteq prep[p].queue,
             NEW k \in Tick, NEW j \in Job, StartReturns(k, j), Open' \subseteq Open \cup {job[j].run}
      PROVE  OpenInv'
  <2>1. tick[k].job = j /\ tick[k].job # NoJob /\ tick[k].pc \in StartPhase
    BY <1>0, <1>7 DEF StartReturns, Awaits, AwaitInv
  <2>2. Starting(job[j]) /\ job[j].run \in Run
    BY <1>7 DEF StartReturns, BeginWork, Starting, UsedInv, IsUsed
  <2>3. CASE tick[k].pc = "interrupted"
    <3>1. job[j].run \in Due(k)
      BY <2>1, <2>2 DEF Due
    <3>2. ASSUME NEW l \in Tick, tick'[l].pc = "interrupted"
          PROVE  tick[l].pc = "interrupted" /\ Due(l)' \subseteq Due(l)
      <4>1. tick' = [tick EXCEPT ![k] = [pc |-> tick[k].pc, queue |-> tick[k].queue, job |-> NoJob]]
        BY <1>7, JobDropped DEF StartReturns
      <4>2. tick'[k] = [pc |-> tick[k].pc, queue |-> tick[k].queue, job |-> NoJob]
              /\ \A i \in Tick \ {k} : tick'[i] = tick[i]
        BY <4>1 DEF DispatchTypeOK
      <4>3. l = k
        BY <2>3, <3>2, <4>2 DEF OneTick
      <4>4. QED
        BY <2>3, <4>2, <4>3 DEF Due
    <3>3. QED
      BY <1>5, <1>7, <2>3, <3>1, <3>2
  <2>4. CASE tick[k].pc # "interrupted"
    <3>1. job[j].run \in Open
      BY <2>1, <2>4 DEF StartingInv, StartPhase, Open
    <3>2. QED
      BY <1>6, <1>7, <3>1
  <2>5. QED
    BY <2>3, <2>4
<1>8. QED
  BY <1>3, <1>4, <1>6, <1>7, PrepQueues, OpenFrom

\* With one slot only one interrupted run is resumed at a time.
LEMMA OneSlotResumes ==
  ASSUME MaxConcurrentAgents = 1, UsedInv
  PROVE  ResumesApart
<1> SUFFICES ASSUME NEW held, NEW q \in AutoContinuable(db, held), NEW r \in AutoContinuable(db, held),
                    q # r
             PROVE  FALSE
  BY DEF ResumesApart
<1> DEFINE open == {u \in Run \ held : /\ IsRestartInterrupted(db, u)
                                       /\ TaskOf(db, u) \notin Claims(db).claimed \cup Claims(db).running
                                       /\ db.run[u].proof.attempts < AutoContinueLimit}
           ahead(u) == {v \in open : InterruptedBefore(db, v, u)}
<1>1. \A u \in AutoContinuable(db, held) : /\ u \in open
                                           /\ Cardinality(ahead(u)) < FreeSlots(Claims(db).running)
  BY DEF AutoContinuable
<1>2. \A u \in open : u \in Run /\ HasTask(db, u)
  BY DEF UsedInv, IsRestartInterrupted, IsUsed
<1> HIDE DEF open
<1>3. FreeSlots(Claims(db).running) \in Nat /\ FreeSlots(Claims(db).running) <= 1
  <2>1. RunsIn(db, "running") \in SUBSET Run
    BY DEF RunsIn
  <2>2. Cardinality(Claims(db).running) \in Nat
    BY <2>1, TasksOfFinite DEF Claims, TasksIn, TasksOf
  <2>3. QED
    BY <2>2 DEF FreeSlots
<1>4. ASSUME NEW u \in AutoContinuable(db, held), NEW v \in AutoContinuable(db, held),
             InterruptedBefore(db, v, u)
      PROVE  FALSE
  <2>1. v \in ahead(u) /\ ahead(u) \in SUBSET Run
    BY <1>1, <1>2, <1>4
  <2>2. IsFiniteSet(ahead(u)) /\ Cardinality(ahead(u)) \in Nat
    BY <2>1, TasksOfFinite
  <2>3. Cardinality(ahead(u)) < 1
    BY <1>1, <1>3, <2>2
  <2>4. Cardinality(ahead(u)) = 0
    BY <2>2, <2>3
  <2>5. ahead(u) = {}
    BY <2>2, <2>4, FS_EmptySet
  <2>6. QED
    BY <2>1, <2>5
<1>5. QED
  BY <1>1, <1>2, <1>4, InterruptedRank

\* A task has at most one run that is prepared or running, with the one slot of
\* the default workflow: for tasks without a board card, runs that only the
\* loop prepares and starts and nobody cancels, ticks that do not overlap, and a
\* stall monitor only where a worker makes one pass.
THEOREM TasksAreNotDoubled ==
  ASSUME BoardTask = {}, {"start", "prepare", "cancel"} \cap Command = {},
         ~Toggle \/ \A k, l \in Tick : k = l, StallMonitor => MaxPasses = 1,
         MaxConcurrentAgents = 1
  PROVE  DispatchSpec => []OneOpenRunPerTask
<1> DEFINE AloneInv == LoopInv /\ UsedInv /\ OwnerInv /\ PreppingInv /\ StartingInv /\ OpenInv
<1>1. DispatchInit => DispatchTypeOK /\ AloneInv
  <2>1. DispatchInit => PreppingInv /\ StartingInv /\ OpenInv
    BY DEF DispatchInit, Init, EmptyDatabase, IdlePrep, IdleTick, PreppingInv, StartingInv, OpenInv,
       OneOpenRunPerTask, Open, RunsIn
  <2>2. QED
    BY <2>1, LoopInvInit, SlotInit
<1>2. ASSUME DispatchTypeOK, AloneInv, [DispatchNext]_allvars
      PROVE  DispatchTypeOK' /\ AloneInv'
  <2>1. DispatchTypeOK' /\ LoopInv' /\ LoopMove
    BY <1>2, LoopInvStep
  <2>2. UsedInv'
    BY <1>2, <2>1, UsedStep DEF LoopInv
  <2>3. OwnerInv'
    BY <1>2, <2>1, OwnerStep DEF LoopInv
  <2>4. PreppingInv' /\ StartingInv'
    BY <1>2, <2>1, PreppingStep, StartingStep DEF LoopInv
  <2>5. OpenInv'
    BY <1>2, <2>1, OneSlotResumes, OpenStep DEF LoopInv
  <2>6. QED
    BY <2>1, <2>2, <2>3, <2>4, <2>5
<1>3. AloneInv => OneOpenRunPerTask
  BY DEF OpenInv
<1>4. QED
  <2> HIDE DEF AloneInv
  <2>1. QED
    BY <1>1, <1>2, <1>3, PTL DEF DispatchSpec
===============================================================================
