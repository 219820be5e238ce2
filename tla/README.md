# TLA+ models of AmbientDesktop: Local Tasks, sub-agents, thread turns

AmbientDesktop is an Electron application in which an agent works on a user's projects. A user (or
the project board) files **Local Tasks**; the main process selects the tasks that may be worked on,
prepares a workspace and a *run* for each, starts the run in an agent thread, watches it, reviews its
proof of work and settles the task. An agent at work may itself spawn **sub-agents**: children with a
thread of their own, whose results it waits for behind *wait barriers*, and without which it must not
give its final answer. Underneath both is the **thread**: its turns, the *goal* that turns work on and
continue by themselves, and the *wakes* that turns schedule for later. All of it is asynchronous code over one synchronous database per
project. Most of what can go wrong lies in the order of those awaits, in two callers doing the same
thing at once, and in a restart in the middle. This directory models these three cores, checks them with
TLC and proves their main invariants with TLAPS. They share the store, and none reads the rows of
another, so they are modelled apart; where a task or a parent runs a turn, its model has the outcome
of that turn as a choice.

Paths below are relative to `src/src/main/`.

## 1. Inventory

### 1.1 The parts that are modelled

| Part | State it keeps | Operations | What makes it correct |
| --- | --- | --- | --- |
| Scheduler, `orchestration/orchestrationScheduler.ts` | none | `selectDispatchableTasks`, `isTaskBlockedByDependencies` | selects what rank, limits, claims and dependencies allow: exactly one set |
| Preparation, `orchestration/orchestrationDispatch.ts`, `orchestrationPrepare.ts` | local variables across awaits: the task list, the selection | `prepareAndRecordNextOrchestrationRuns`, candidates for start and continuation | one prepared run per task; nothing that is settled is prepared again |
| Runner, `orchestration/orchestrationRunner.ts` | per call: pass number, two monitors | `startPreparedOrchestrationRun`, `runAndRecordCompletion`, `finishRuntimeBudgetExceeded`, `createStallMonitor`, `createElapsedBudgetMonitor` | every way out settles the run; a stalled worker is silent; a row says running only while a worker owns it |
| Project store, `projectStore/orchestrationRepository.ts`, `activeRunRecoveryRepository.ts` | rows of tasks and runs | insert, update, runtime state, recovery on open | late writes are dropped or harmless; a restart leaves nothing running |
| Board card of a task, `projectStore/projectBoard*Repository.ts` | status and proof review of the card | sync, review, begin | a closed card is not reopened; a stale judgment is ignored |
| Proof judgment, `project-board/projectBoardProofDefaultsDesktopService.ts` | judgments in flight, by run | `reviewFinishedProjectBoardRun` | one judgment per run, applied only while it is current |
| Restart recovery, `orchestration/orchestrationRecovery.ts` | a record in the run's proof of work | recognise, count attempts | a run that keeps crashing is not resumed for ever |
| Auto-dispatch loop, `orchestration/orchestrationAutoDispatchService.ts` | `enabled`, `inFlight`, a timer | tick, switch on and off | never above the cap, one open run per task, never dies, pausing pauses |
| Commands, `ipc/registerOrchestrationIpc.ts` | none | prepare, start, cancel, update | they race with all of the above |
| Sub-agent rows, `projectStore/subagent*Repository.ts` | runs of children with status, result and closing; wait barriers with members, mode, status and evidence | create, mark, close, resolve, cascade, reconcile | a status only says what is so; a barrier is resolved by results that are there, or given up when they cannot come |
| Sub-agent calls, `subagents/subagent*Executor.ts` | per call: the rows it read before it awaited | spawn and launch, `wait_agent`, `cancel_agent`, `close_agent`, `resolve_barrier` | what was read before an await is stale after it; repeated requests change nothing |
| Child sessions, `agent-runtime/agentRuntimeSubagentChild*.ts` | executions: the sessions in progress | start, follow-up, retry, end of a turn, timeout, approval | every row that says running has a session; a late end never replaces a cancellation |
| Stop of child or parent, `agent-runtime/agentRuntimeSubagentStopCascadeController.ts` | none | stop, cascade | no child of a stopped parent is left open |
| Finalization gate, `agent-runtime/agentRuntimeFinalization*.ts` | none | reconcile, block | the parent answers only when its barriers have what they asked for |
| Sends of a thread, `agent-runtime/agentRuntimeSend*.ts`, `runtimeSendAfterRun.ts` | `activeRuns`; timers of retries | hand over or start, run, settle, follow up | the map of active runs says what is going on |
| Thread goal, `projectStore/threadGoalRepository.ts`, `agent-runtime/agentRuntimeGoal*.ts` | the goal row; continuation timers; validations in flight | set, clear, account, complete, continue | charged with its own runs, announced once, set to work by the user only |
| Thread wakes, `projectStore/threadWakeRepository.ts`, `agent-runtime/agentRuntimeThreadWake*.ts` | rows of wakes; their timers | schedule, supersede, cancel, resolve, deliver, reconcile | none is lost, none fires twice, each settles |
| Stop and reset of runs, `agent-runtime/agentRuntimeRunLifecycleController.ts` | none | `abort`, `interruptActiveRuns`, `resetSessions` | what is stopped stays stopped |

### 1.2 How they interact

The renderer and the loop call the same functions. `startPreparedOrchestrationRun` returns when the
run has begun and leaves `runAndRecordCompletion` running on its own; that worker awaits the agent
(`runtime.send`), which calls back `onActivity`; two timers call back into the store; at the end
`onFinishedRun` awaits a judgment, which writes the card and the task. All of them meet only in the
store. The store is synchronous (better-sqlite3), so a call of it is one step; between two awaits
JavaScript runs without interruption, so whatever happens there is one step as well. Every `await` is
a point where any other actor may act. The store survives the process; nothing else does.

A parent's agent calls the sub-agent tools one at a time. `spawn_agent` creates the run, awaits a
worktree, creates the barrier of a required child and starts its session, which goes on by itself. The
session awaits its agent; at the end of a turn it writes the result and resolves the barriers the child
is in. `wait_agent` looks up or creates a barrier and awaits the session of a member, a timer, or an
approval. Beside them the user cancels or stops a child, decides on a barrier or stops the parent, each
with an abort that is awaited in the middle. When the parent's agent is done, the gate reconciles the
barriers whose children have ended and refuses the answer if a binding barrier is not satisfied.

A send looks at `activeRuns` first: if the thread has an active run, the message joins the queue of its
session; if not, the send prepares for a while and then begins a run of its own. The user, the goal's
continuation timer, a retry's timer and a wake's timer all send. The agent reads and writes the goal and the wakes
through tools while its run is on; the user edits the goal through commands meanwhile. The end of a run deletes
the thread's entry, schedules the retry it asked for, charges and judges the goal it worked for, and schedules
the goal's next turn.

### 1.3 Hard behaviours

* check, await, then write (`startPreparedOrchestrationRun`, the preparation, the cancel command);
* timers that fire while the worker awaits something else, and callbacks that outlive the worker;
* two workers for one run, two ticks of one loop, two preparations of one task;
* a restart between any two writes, and the continuation of what it interrupted;
* a card that is closed while runs of its task still write;
* a judgment that comes back after the card moved on;
* a loop that must come back after every error;
* a wait that holds a copy of a barrier while others resolve it;
* several barriers over the same child, resolved one after the other, any of which may throw;
* the late result, error or timeout of a child that was cancelled, detached or retried meanwhile;
* requests that are replays of earlier ones, while the state they acted on has changed;
* a map entry that is read before an await and deleted after it by whoever comes first: the end of a run,
  a stop, a reset;
* a goal that is replaced, paused or completed while a run works for it, and a run that is charged late;
* timers that survive what they were set for, and rows that survive their timers.

`PROJECT.json` lists each of them under `hazards` at its line, with the properties that would catch it going wrong, or
a note why none does.

### 1.4 The rest of the system

| Part | State, and what is hard about it | Status |
| --- | --- | --- |
| Scheduled Local Tasks and automations (`projectStore/automation*`) | due times, skips, last run; a tick that throws between two of them | planned |
| Rest of the sub-agents (`subagents`) | mailboxes, repair of results, workspace leases, Symphony patterns | leases are a candidate |
| Callable workflows (`callable-workflow`, `projectStore/callableWorkflow*`) | task life cycle against its workflow run, restart reconciliation | planned |
| Rest of the agent runtime (`agent-runtime`) | watchdogs, planner mode, project switch, tools, model streams | outcomes only |
| Workflow runs (`workflow`) | run records, approvals, checkpoints | planned in part |
| Local model runtimes (`local-runtime`, `local-llama`) | leases, admission, start and stop of processes | candidate |
| Messaging gateways (`messaging`, `telegram`, `agent-runtime/signal`) | polling windows, relay state | candidate |
| Workflow compiler and discovery, board synthesis | text and graphs from a model's answers | not modelled |
| Browser, research, desktop tools, documents, MCP and container runtimes, providers, speech, media | adapters around external programs and services | not modelled |
| Permissions and security | validators of single requests, no shared state | not modelled |
| Renderer, preload, shared types, packages, scripts | user interface, declarations, tooling | not modelled |

## 2. Modules

```
OrchestrationScheduler      pure: rank, dependencies, limits, the selection rule
  SchedulerProofs           theorems
  SchedulerLoop             the selection loop itself, against the rule
    SchedulerLoopProofs     theorems, from those of SchedulerProofs
  OrchestrationStore        the rows, as functions from one database to the next
    OrchestrationRuns       preparation, start, workers, monitors, judgments, commands, restart
      OrchestrationRunsProofs    theorems
      AutoDispatch          the loop that calls them
        AutoDispatchProofs  theorems, from lemmas of OrchestrationRunsProofs
WaitBarriers                abstract: what a wait barrier promises
  SubagentStore             the rows of sub-agents, as functions from one database to the next
    SubagentRuns            spawn, sessions, waits, decisions, stops, the gate, restart; implements WaitBarriers
      SubagentProofs > SubagentRefinement > SubagentAnswers   theorems, each extending the one before
ThreadTurns                 sends, goals, wakes, stops, resets, restarts of one thread
  ThreadProofs              theorems
MCSchedulerLoop, MCOrchestrationRuns, MCAutoDispatch, MCSubagentRuns, MCThreadTurns      instances for TLC
```

**OrchestrationScheduler** has no variables. A task's columns are the constant `TaskInfo` (rank and
blockers), its state is passed in. `IsSelection` states what `selectDispatchableTasks` selects without
its loop: a set in which exactly those tasks are that are dispatchable given the members before them.
`SchedulerLoop` has the loop and compares the two: `SelectTask` is one turn of it, with the counters
the source keeps (how many tasks were selected, in all and by state), folded over
`SortedTasks`. The sort is given by what it yields, an order of the tasks in which each goes before the next
by `compareTasksForDispatch`; that there is exactly one such order is a theorem. Two pairs of
state names that the code treats alike everywhere here are merged: `ready` with `todo`, and
`duplicate` with `canceled`.

**OrchestrationStore** is the database as a record `[run, state, card]` and one operator per
store call: `UpdateRun`, `FinishRun` (an update with `finish`, which reviews the proof),
`UpdateTask` (which consults the closed card and syncs all cards), `ReviewProof`, `BeginCardRun`,
`StallActiveRuns` (recovery when the store is opened). A proof of work is reduced to its recovery
record: whether there is one, and the count of auto-continuations. A card is reduced to whether it
counts as closed and done (`projectBoardCardRowIsClosedDone`) and which run its review is for.

**OrchestrationRuns** has five variables. `db` survives a restart; the others do not:

| Variable | Code |
| --- | --- |
| `job[j]` | one call of `startPreparedOrchestrationRun` and the `runAndRecordCompletion` it leaves behind; `pc` names the await it is at, `stall` and `budget` are its monitors |
| `prep[p]` | one call of `prepareAndRecordNextOrchestrationRuns`; `seen` is the task list it read, `queue` what it selected, `made` the runs it recorded |
| `canceling` | cancel commands that await the abort |
| `judging[r]` | the judgment in flight for `r`, and whether it requires a current review |

One action is what happens between two awaits: `StartRun` (status check), `CheckBlocked`, `BeginWork`
(the unconditional write); `Activity`, `SendEnds`, `ContinuePass`, `FinishPass`, `CollectThrows`;
`Recover` (the catch block), `FinishOverrun`, `OverrunThrows`, `Reviewed`, `ReviewThrows`; `StallFires` and `StallWrites`
(before and after the awaits of `onStalled`), `BudgetElapses` and `BudgetWrites`; `JudgmentEnds`;
the user's commands; and `Restart`, which may strike anywhere.

**AutoDispatch** adds `dispatch` (`host.autoDispatch`), `tick[k]` (calls of `runAutoDispatchTick`) and an
observer, `resumed`. A tick awaits the starts it makes, so the step in which a start returns or throws
is shared with the tick that waits for it (`StartReturns`, `StartFails`, `PrepareFails`); all other
steps of `OrchestrationRuns` go on beside the ticks (`FreeStep`). `StartInTick` merges the record of
an auto-continuation with the start that follows it in the same turn of the event loop, so
`DispatchSpec` is a composition with `OrchestrationRuns` but not a refinement of its `Spec`.

**SubagentStore** is the database of one parent run's children as a record `[run, barrier]`. A result
artifact is reduced to whether the parent may use it (`safe`, `synthesisAllowed` in the code); a barrier's
dependency mode to the number of usable results it needs and whether it binds the parent
(`optional_background` does not). `Outcome` is `waitBarrierStatusFromEvaluation`, `AllowedEvidence` the
table of `subagentWaitBarrierRepository.ts:188` that makes an update throw, and `Resolve` the resolution
of one barrier, which checks the status of the *copy* its caller holds and writes over whatever the row
says by then. `ResolveActive` resolves the barriers of a child in order of creation, up to the first throw.

**SubagentRuns** has these variables; only `db`, `recorded` and `asked` (events of the store) survive a restart:

| Variable | Code |
| --- | --- |
| `db`, `recorded`, `asked` | rows; decisions and cancel requests recorded under their idempotency key |
| `parent`, `cascading` | the parent run; the stop cascade that awaits the abort of its session |
| `launching` | children between `createSubagentRun` and `executeSubagentSpawnLaunch` |
| `sending` | `executions`: children whose session awaits its agent |
| `wait` | the `wait_agent` call of the parent: the barrier it read, the child it waits for, whether it awaits an abort |
| `aborting` | `cancel_agent` calls and stops of a child that await an abort |
| `control` | a `cancel_parent` decision between two of the children it cancels |

`Next` lets the continuation of a wait whose child has ended go before new work, as the promise has
resolved by then; everything else interleaves at the awaits.

**WaitBarriers** says what a parent may rely on: a gate asks for a number of usable results of some
workers; a step of the system settles it as met only with those results there, and as given up only when
they cannot come any more; a call may settle a gate it watches once more, and only watches gates that are
open; a decision of the user may do anything to one gate; the stop of the parent gives up all open ones.
`KeepsPromise` maps a barrier's row to what the gate asks and what has become of it, `usable` and `atWork`
to the children, `watched` to the barrier of the wait in progress. `AnswersOnResults` states the gate of
the final answer on top of it.

**ThreadTurns** has one thread. `goal` and `wakes` are rows of the store and survive a restart:

| Variable | Code |
| --- | --- |
| `goal` | the row of `thread_goals`; `used`, `idle`, `infra` are its usage, its turns without progress, its provider failures |
| `wakes`, `armed` | the status of each row of `thread_wake_continuations`; the timers of the controller |
| `turns[t]` | one call of `send` that starts a run: `starting` (its preparation is awaited), `running`, `settling` (the prompt has ended, its handler awaits), `detached` (let go of by a reset); the wake it delivers, the goal it works for, whether it was stopped and got a message |
| `active` | the thread's entry of `activeRuns` |
| `timers`, `followUps` | continuation timers by the goal they expect; timers of retries and provider continuations |
| `stopping` | calls of `abort` that await the session |
| `audits` | completions of a goal whose validation is awaited, with the goal that was read before |
| `ran`, `announced`, `prompts` | history: runs that ended for a goal, its completion messages, prompts by a wake since the process started |

`Deliver` is the fork in `send`; `Begin` reads the goal (`agentRuntimeSendRunState.ts:172`) and sets the entry.
`FinishRun` is everything from `clearActiveRun` to the goal's next timer in one step, as nothing in between waits for
another actor; it includes the throw of a judgment on a goal that was replaced. `Stop` and `StopEnds` are `abort` before and after its
await, `Reset` is `interruptActiveRuns` with `resetSessions` in a process that goes on, `Restart` the end of a process, in order or not,
and the reconciliation of the wakes at the next start. What the agent does through its tools is one action per tool call;
what a prompt's end is judged to be (`done`, `idle` without progress, `retry`, provider `continuation`, `error`, `provider`
failure, `aborted`) is chosen freely.

### What is abstracted

* Prompts, transcripts, hooks, git and the file system: an await returns or throws.
* Which verdict a proof earns, whether it is complete, whether its text asks for information: any of
  the outcomes the code distinguishes, chosen freely (`Verdict`, `StatesAfter`, `held`).
* A runtime budget is armed for every task with a card; the code arms it only when the board's
  policy sets `maxPassesPerCard`. It never has to fire.
* Activity is recorded every time; the code drops all but one progress write per second.
* Claims of other desktops on a board's cards, follow-up cards, splits and proof decisions are left out.
* One project root: a preparation over several roots repeats the same steps for each.
* The schedules at the end of a tick are one step that may throw.
* One parent run: barriers, cascades and gates never cross parents. Mailboxes, run events, approvals'
  contents, roles, tool scopes and worktrees are left out but for the statuses and throws they cause.
* A child's answer is any of the outcomes the turn coordinator distinguishes, whether or not its result
  passes the role's checks. A retried child that keeps an earlier usable result keeps it in the model too.
* A request for a set of children (`Group`) names the number of results it binds the parent to (`Quorum`), or the mode
  `optional_background`, which binds it to nothing and asks for one (`Terms`), whether the children are required or not. Two modes that ask for
  the same number are not told apart, and a request never names a failure policy other than the default of its mode.
* One thread: no row of goals or wakes and no entry of `activeRuns` is shared between threads. The awaits of the handover to an active
  run are one step; a message the session refuses is a `Deliver` that does not set `queued`.
* Tokens and time of a goal are counted in turns; a turn makes progress or not by choice. `usage_limited`, which no code writes,
  is left out. A wake that finds an active run looks again two seconds later, which changes nothing in the model.
* Runs on a local text model, retries whose caller awaits them, planner mode and the switch of a project after a run are left out.
* The statuses `starting`, `waiting` and `stopped` are left out: the first lasts for one synchronous call,
  no code writes the others.

## 3. Runs

| Run | Instance | Shows |
| --- | --- | --- |
| `scheduler_loop` | 3 tasks, two tied but for the identifier and one waiting for another; every assignment of states and claims; 2 slots, one of them for `todo` | `LoopMatchesSelection`: the loop selects the one set the rule allows. `SelectionWithinLimits`, `NoOvertaking` |
| `runs_settle` | 1 run, 2 concurrent starts of it, stall monitor, cancel, restart; fair | `RunningHasWorker`: a running row has a worker that is going to write its end. `RunsSettle`: it stops being running |
| `runs_prepare` | 2 tasks (one waits for the other and is more urgent), 3 rows, 2 passes, cancels, restart | `PreparedOnce`: no two prepared runs of a task. `RunningHasWorker` again, with passes and several rows |
| `runs_board` | 1 task with a card, 2 rows, runtime budget, judgments, edits, restart | `ClosedIsSettled`: nothing reopens the task of a closed card |
| `dispatch_slots` | 2 tasks for 1 slot, 2 rows, 2 workers, edits, restart | `RunningWithinCap`, `OneOpenRunPerTask` |
| `dispatch_resumes` | 2 tasks, 2 slots, 2 rows, 2 workers, restart | `NoCrashLoop`: a run that takes the desktop down before its agent acts is given up after the limit; a tick has several runs to start or resume, one after the other |
| `subagents_one` | 1 required child, 1 barrier; cancel, stop, timeout, turn budget, four decisions, stop of the parent, restart; fair | `RunningIsExecuting`, `CancelledStaysCancelled`, `NoAnswerOverRequired`, `WaitComesBack`; `KeepsPromise`: implements `WaitBarriers` |
| `subagents_pair` | 2 children, one required, 2 barriers, of single children or of both with one result needed, binding or optional; stop, detach, restart | `AnswersOnResults`: the parent ends well only on the results it asked for. `NoAnswerOverRequired`, where a required child may be in an optional barrier as well. `KeepsPromise` |
| `thread_goals` | 2 turns at once, 2 sends, 2 goals with and without a budget of 2 turns, limits of 1; a stop; a reset, quit or crash | `ActiveIsInFlight`: the map of active runs never keeps a run that is over. `UsageIsOfOwnTurns`, `AnnouncedOnce`, `OnlyUserReactivates`: what a late end of a run may do to a goal |
| `thread_wakes` | 2 wakes of one operation, one message beside them, a stop, 2 resets, quits or crashes; fair | `WakesCarried`, `OnePendingWake`, `PromptedOncePerLife`, `WakeSettles` |
| `dispatch_polls` | 1 task, 2 ticks, switched off and on, restart; fair | `KeepsPolling`: a loop that is on comes to another tick |

One run ends in a counterexample, because the code does not do what its comments and tests
say (the details are under `findings`):

| Run | Property | What happens |
| --- | --- | --- |
| `subagents_lost_result` | `SatisfiedByResults` | a result satisfies its own barrier; the next barrier of the child refuses its transition and throws, and the catch block replaces the result with a failure |

The models also contain behaviours that look unintended but that no document speaks of, so no property
of the runs is about them. The ones that weigh most are hazards with a note in `PROJECT.json`:

* Local Tasks: a task listed before an await is prepared again after its run ended (`orchestrationDispatch.ts:97`); two starts
  of one run both pass the status check and both get a worker (`orchestrationRunner.ts:142`); a stall recorded while a
  proof is collected does not stop the next pass (`orchestrationRunner.ts:388`), and one recorded during the judgment
  overwrites a completed run (`:422`), as does a judgment that throws; a late budget snapshot says running
  (`:323`); an abort that rejects leaves a stalled run unwritten (`:289`, assumed away);
  a canceled task whose card is closed becomes done at its next write (`projectBoardTaskPlanningMappers.ts:405`);
  a judgment in flight is shared by the restarted run of the same id (`projectBoardProofDefaultsDesktopService.ts:133`).
* The loop: a tick in flight goes on after the loop is paused (`orchestrationAutoDispatchService.ts:217`); a start that throws
  ends the tick (`:252`); a status report that throws outside the try block ends the loop (`:223`, not modelled); with two slots two interrupted
  runs of one task are both resumed (`orchestrationDispatch.ts:158`).
* Sub-agents: a second `cancel_agent` for a retried child reports success and does nothing (`subagentCancelAgentExecutor.ts:96`),
  and so does a second retry with the same words; a wait in progress settles a barrier that the user has failed as satisfied,
  from a copy that still says waiting (`subagentWaitBarrierResolution.ts:133`).
* Threads: two sends both start a run, of which the map shows one (`agentRuntimeSendStartContext.ts:85`); a stop, or the end of a detached run,
  deletes the entry of the next run; a goal that is created and completed in one turn is never announced
  (`runtimeGoalContinuationAfterRun.ts:50`), nor is one that a pause overtakes after its completion (`registerThreadIpc.ts:733`); the end
  of a stopped run whose goal was replaced throws (`agentRuntimeGoalContinuationController.ts:74`); a goal that is resumed during a
  run of none, or whose run received a message, or that was active at a crash, is not continued
  (`agentRuntimeSendRunState.ts:172`, `runtimeQueuedMessageController.ts:106`); two resumes give two continuation turns (`registerThreadIpc.ts:736`); a retry is sent though the user
  has stopped the thread (`runtimeSendFollowUps.ts:123`); a wake whose turn was stopped counts as delivered
  (`agentRuntimeThreadWakeContinuationController.ts:158`); a disposed host leaves its timers behind (not modelled).

### Bounds, and why they are enough

`Run`, `Job`, `Preparer` and `Tick` bound how many rows there are and how many calls are in progress
at once; none of the code depends on more. Two concurrent starts are the fewest that race, and two
rows of one task the fewest that compete; the third row of `runs_prepare` lets a task be prepared
again while the other one runs. `MaxPasses` is 2 where passes matter and 1 elsewhere.
A table of three tasks holds a tie in rank, a dependency, and one task more than there are slots.
The observer of `NoCrashLoop` stops counting one above the limit (`Bump`). When all rows are used or
the loop is off nothing more may happen, so deadlock is not checked in those runs; `SchedulerLoop`
checks it.

For sub-agents, one child and one barrier already let every call race with every other, as the parent
waits for one child at a time; two children with two barriers are the fewest where barriers share a
child, where one child's end decides another's barrier, and where a wait goes on with another member.
`MaxBarriers` bounds creations: an action that needs a row is disabled when none is left.
Decisions are tried one of a kind in the pair, all but one in the single instance; together
the two runs fire every action.

`KeepsPromise` and `AnswersOnResults` are checked for groups of which one result is enough. With a quorum
of two a refused transition throws away a result after a barrier was satisfied by it
(`subagents_lost_result`), and both fail. `AnswersOnResults` is checked without a turn budget and
without `retry_child`: a child settled as `aborted_partial` by the budget is not aborted and may later
replace its usable result by one that is not (`subagentTurnBudgetExhaustionRecorder.ts:81`), and a retry
reopens the child but not the other barriers it has satisfied. `NoAnswerOverRequired` holds with both.

For a thread, two turns at once are the fewest that race, and the code has no lock that a third would meet differently. `MaxSends` bounds the turns
that are not wakes, `MaxGoals` the goals ever created: with two, one replaces the other while a run works for it. Limits of one
failure and one idle turn and a budget of two turns make every limit reachable within two runs. `MaxTimers` bounds only the resumes by the user: two
quick ones would leave two timers. Goals and wakes are checked apart, as they meet in nothing but `active`; the proofs take them together.
A run that is stopped, reset and restarted by turns needs more steps than a test would write down, and fits in the bounds.

`RunningHasWorker` is checked and proved only where the code promises it: **without** board cards
(a card that closes freezes the rows of its task, `orchestrationRepository.ts:193`, and a late
budget snapshot writes running) and **without** more than one pass beside a stall monitor
(a stall recorded while a proof is collected, `orchestrationRunner.ts:388`). The default workflow has both several turns and a stall timeout.
`PreparedOnce` and `OneOpenRunPerTask` hold for one preparation at a time; the command and the loop
together can break them. `OneOpenRunPerTask` is checked for one slot: with two, and
a task that the user makes active again, two interrupted runs of it may both be resumed.

### Fairness

`Fairness` (and `DispatchFairness`) is weak fairness of what the event loop owes: a start that has begun
(`StartStep`), the end of a pass (`PassStep`), the end of a run (`EndStep`), the write after a monitor
fired (`StallWrites`, `BudgetWrites`), judgments and cancels. Each is an awaited call with a
timeout of its own or a callback that is queued already. Nothing is assumed of the user, of restarts, or of the
agent: `Activity` and `ContinuePass` are not fair, and no monitor has to fire. The `send` of an
agent that neither stalls nor ends is assumed to return, as the agent runtime has idle timeouts of
its own. For the loop: timers fire, and what a tick awaits returns or throws.

For sub-agents it is weak fairness of the continuations (a wait whose child has ended, an abort that comes
back), of the timer that ends the parent's wait window, and of nothing else: no agent has to answer, and
neither the user nor the parent's model has to do anything. An abort is awaited with its errors caught
(`agentRuntimeSubagentChildLifecycleWait.ts:468`) and asks the session to stop without waiting for its model.

For a thread it is weak fairness of `Advance(t)` (a turn that is on moves towards its end: `agentRuntimeSendPromptRun.ts` arms
watchdogs for the stream and for idle tools, and the preparation is assumed to return or to throw), of `StopEnds` and of the timer of each wake. A wake
needs a thread that is idle when its timer looks. `MaxSends` grants it that: `WakeSettles` says that nothing *but*
an endless supply of other turns keeps a wake pending.

## 4. Proofs

The theorems hold for every value of the constants that the named assumptions allow: any finite number of tasks,
runs, workers, ticks, children, barriers, wakes, any limits. A theorem that needs more than its module's assumptions
says so in its statement, and the text here says where the property fails without it.

`SchedulerProofs` proves for any `TaskInfo` allowed by `TaskAssumption`:

* **SelectionExists** and **SelectionUnique**: the rule `IsSelection` describes exactly one set, for any task states, claims and limits. The rank
  is a strict total order on the tasks (`RankTotal` and the lemmas before it), so of two sets that obey the
  rule the least task on which they differ is treated differently although the members before it are the same; and a set
  is built by adding, to the selection among the tasks before it, one task at a time. Both are inductions over finite sets. The library's
  induction theorems cannot be instantiated here, so they are written as the minimal counterexample: a finite nonempty
  set of tasks has a first one, and a nonempty set of set sizes has a least.

`SchedulerLoopProofs` proves for any pool, states, claims and limits that `SchedulerLoop` may start with:

* **LoopAccounts**: `Spec => []TypeOK`, by which every task of the pool is either selected or skipped, never both.
* **LoopFollowsRule**: `Spec => []LoopMatchesSelection`, the loop returns the set of the rule. `FoldLeft` is unfolded into the sequence
  of the loop's states, one per turn, and `LoopInv` holds of each: the counters count what is running and what was selected so far, and what was selected
  is what the rule selects among the tasks seen.
* **LoopKeepsLimits** (`SelectionWithinLimits`) and **LoopOvertakesNobody** (`NoOvertaking`) follow from the rule: a set that obeys it is within the global
  limit and the limits by state, and a task that is left out though nothing but a slot was missing is not outranked by one that got a slot.

`OrchestrationRunsProofs` proves for all values of the constants allowed by
`TaskAssumption`, `WorkflowAssumption`, `StoreAssumption` and `RunsAssumption`:

* **TypeCorrect**: `Spec => []TypeOK`, by one lemma per store function and one step per action. The part
  that is not shape is `pass \in 1..MaxPasses`.
* **ClosedCardsAreSettled**: `Spec => []ClosedIsSettled`. The invariant is inductive with `TypeOK`: every
  write of a task state goes through `UpdateTask`, which consults the closed card, or through
  `ReviewProof`, which sets card and task together, or through the recovery, which does as
  `UpdateTask`.
* **RunsAreAttended**: `Spec => []RunningHasWorker`, if there are no board cards and a stall monitor comes
  with a single pass. Inductive with `TypeOK` and what ties a worker to its row: a worker past its
  start whose monitor has not fired will still write an end; one whose monitor fired writes
  nothing that says running, so the row keeps the worker that said so. The assumption on
  passes is needed exactly in the step `ContinuePass`, which marks a run as running that the
  monitor has recorded as stalled.
* **TasksArePreparedOnce**: `Spec => []PreparedOnce`, if there is at most one preparer. It needs to know
  that the tasks a preparer has in its queue have no prepared run, which
  is where the claims being read in the same step as the selection matters.

`AutoDispatchProofs` proves for the composition with the loop, for all values allowed by these and by `DispatchAssumption`. Its first part
reduces the steps of `DispatchSpec` to a few kinds of move (`LoopMove`: a tick goes on, takes the next run, prepares; a worker begins, moves, ends; a preparer
selects, records; a cancel writes; all else is `Quiet` and writes no run), and each move says which row it writes, what it writes, and what
becomes of the worker. The invariants are preserved move by move.

* **DispatchTypeCorrect**: `DispatchSpec => []DispatchTypeOK`.
* **LoopKeepsCardsSettled**, **LoopRunsAreAttended**, **LoopPreparesOnce**: `ClosedIsSettled`, `RunningHasWorker` and `PreparedOnce` of `OrchestrationRuns` also hold under
  the loop, under the conditions they have there. The lemmas of `OrchestrationRunsProofs` about the program's steps are used again; what is new are
  the steps a tick shares with a start and with a preparation.
* **CrashLoopsEnd**: `DispatchSpec => []NoCrashLoop`. The inductive invariant (`CrashInv`) ties the observer to the count in the row: a
  run that was resumed since its agent last acted carries at least that many attempts in its proof of work, a worker that has not begun carries the same
  proof as its row, and what a tick has queued for resumption had attempts left when it was listed.
* **SlotsAreNotOverdrawn**: `DispatchSpec => []RunningWithinCap`. Between two awaits a slot is held by a
  task that is running, by one whose start or preparation is in flight, or by one that a tick has queued: `SlotInv` counts the tasks of all of these (`Busy`) against the cap. It needs
  that at most one tick is under way and awaits at most one start (`OneTick`, `AwaitInv`), that every running row
  has its own worker (`OwnerInv`), and that a tick starts nothing that has left preparation (`SettledInv`, `QueueInv`).
* **TasksAreNotDoubled**: `DispatchSpec => []OneOpenRunPerTask`, for one slot, which is the default of the workflow (`workflow/workflow.ts:102`). It needs what a preparation has
  selected (`PreppingInv`), what is being started (`StartingInv`), and that no open run's task is selected or started once more (`OpenInv`, `Due`).

The hypotheses of these theorems are those under which the property is true; TLC shows a counterexample for each that is dropped.
No board cards (`BoardTask = {}`): a late budget snapshot replaces a proof of work and with it the count of attempts, and writes running (`orchestrationRunner.ts:323`); a closed card
freezes the rows of its task. No `start` command: it begins runs beside the loop, above the cap, and starts a run whose attempts are used up.
No `cancel` (`RunningWithinCap`, `OneOpenRunPerTask`): a cancel awaits its abort while the slot of its run is given away, and a worker that is not aborted writes on. No `prepare`
(`OneOpenRunPerTask`): the command and the loop prepare one task each. A loop that is not switched off and on, or a single tick: a tick in flight survives the
switch and goes on beside the new one. With a stall monitor, one pass: the next pass marks as running what the monitor has recorded as stalled. One slot
(`OneOpenRunPerTask`): with two, a task that the user makes active again, or whose state `needs_info` counts as active, is prepared once more while a run
of it waits to be resumed, and both are started.

`SubagentProofs`, `SubagentRefinement` and `SubagentAnswers` prove for all values of the constants
allowed by `SubagentAssumption` and `SubagentRunsAssumption`, that is for any finite number of children,
any number of barriers, groups, decisions and crashes:

* **SubagentTypeCorrect**: `Spec => []TypeOK`, one step per action.
* **RunningExecutes**: `Spec => []RunningIsExecuting`. Inductive with `TypeOK`: every action that takes a
  child out of `sending` writes another status, and `running` is only written together with an execution
  or where there is one.
* **CancelledForGood**: `Spec => CancelledStaysCancelled`, from the actions that write statuses: each either tests that the run is
  active, preserves a cancellation, or is the retry or the failed launch that the property excepts.
* **NoAnswerOverRequiredChild**: `Spec => NoAnswerOverRequired`. The step `ParentFinalizes` alone does not
  show it: that a required child at work *has* a barrier that binds the parent rests on the invariant `Guarded`
  (while the parent runs, a required child that is active or has a session is in one, unless it is being launched).
  It needs that a row, once used, keeps its members and its mode (`KeepsTerms`), and that a row not used yet has no
  members (`UnusedEmpty`). An optional barrier of the child does not count, and does not hold the answer back.
* **ImplementsWaitBarriers**: `Spec => KeepsPromise`, if `Quorum \subseteq {0, 1}`. Every step of `SubagentRuns` is
  a `Proceed`, a `Decide` or the `CallOff` of `WaitBarriers`. The inductive part is `AsksOne` (no barrier
  asks for more than one result) and `ControlOpen` (the barrier of a `cancel_parent` in progress exists).
  The assumption is needed for the end of a turn: with it, the result that was just recorded
  is enough for every barrier of the child, so none of their resolutions can be refused
  (`ResultNeverThrows`); `subagents_lost_result` is the counterexample without it.

* **AnswersRestOnResults**: `Spec => AnswersOnResults`, if `Quorum \subseteq {0, 1}`, there is no turn budget and no
  `retry_child`. The gate reads only the statuses of barriers, so the proof ties them to the results: `Backed`
  (a satisfied barrier is deliverable, or a decision says otherwise) is inductive because a usable result is
  never taken back, which is `SafeEnded` (a run with a usable result has ended, and neither a session nor a
  launch is left that could write over it) and `Apart` (a child in launch has no session). A turn budget and a
  retry break `SafeEnded`, a larger quorum breaks it through the throw of `subagents_lost_result`.

`ThreadProofs` proves for all values of the constants allowed by `SlotAssumption`, `BoundsAssumption` and `WakeAssumption`:

* **ThreadTypeCorrect**: `Spec => []TypeOK`, one lemma per group of actions and `FinishedRun`, which says what the end of a run
  may do to the goal.
* **ActiveRunsAreInFlight**: `Spec => []ActiveIsInFlight`, inductive with `TypeOK`: a turn that is prepared or free is not the active one, so its
  start or end cannot leave a stale entry, and whoever ends a run clears the entry.
* **UsageIsOwn** and **GoalsAreAnnouncedOnce**: `UsageIsOfOwnTurns` and `AnnouncedOnce` need to know that a goal to come
  has no history: `Known` (no turn works for, and no run or message is counted for, an id that was not given out).
* **ReactivatedByUser**: `Spec => OnlyUserReactivates`, by the actions: each writes a status that is not active, or keeps it, or asks whether the goal was
  active. The accounting of a late run is the case that rests on `ChargeRow` and `StatusAfterRange`.
* **WakesAreCarried**, **WakesAreSuperseded**, **WakesPromptOnce**: from `WakeInv`, which adds that a wake a turn delivers has been scheduled and has
  no timer, so that the end of the turn cannot leave a timer on a settled row, and that a timer belongs to a wake that has not prompted
  the thread in this life. It needs `ActiveIsInFlight`: a reset turns the *active* turn into a detached one, which would
  otherwise be a free slot that seems to deliver something.

Only model-checked: the liveness properties `RunsSettle`, `KeepsPolling`, `WaitComesBack` and `WakeSettles`, as the prover does not reason about fairness
and ENABLED. Every other property of the passing runs is stated by a theorem. Also left to TLC is what the theorems about the loop except by their
hypotheses and a run covers: none of the runs goes beyond them.

## 5. Plan

Done: `OrchestrationScheduler`, `SchedulerLoop`, `OrchestrationStore`, `OrchestrationRuns`, `AutoDispatch`,
`WaitBarriers`, `SubagentStore`, `SubagentRuns`, `ThreadTurns`, their runs and the theorems above. Next, in this order:

1. `ProofReview`: the judgment with rerun, abort and retry, proof decisions of the user, and which
   review is stale; abstract specification: a card's review is that of the latest run that
   finished. Run with 2 runs of one task and 2 judgments.
2. `LocalTaskSchedules`: due schedules at the end of a tick, skips, advances, and a throw between
   them; composed with `AutoDispatch`. A scheduled task runs once per due time.
3. `SubagentLeases`: the exclusive leases of children that mutate a workspace, over launch, end and restart.
4. `CallableWorkflowTasks`: the task's life cycle against that of its workflow run.
5. Proofs: `OneOpenRunPerTask` for more than one slot when no task is made active again (no `update`, and `needs_info` is not an
   active state). Then interrupted runs are pairwise on different tasks, their tasks are in `needs_info`, and none of them is selected; the part that is missing
   is that a worker's end writes no state of such a task. After that the theorems of 1 to 4.
