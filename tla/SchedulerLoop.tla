----------------------------- MODULE SchedulerLoop -----------------------------
(***************************************************************************)
(* selectDispatchableTasks as the loop the source runs, over every task    *)
(* table and runtime state that editing one row at a time can reach.  The  *)
(* runs compare the loop with the selection rule of OrchestrationScheduler *)
(* and with what a user reads off the workflow file.                       *)
(***************************************************************************)
EXTENDS OrchestrationScheduler, SequencesExt

VARIABLES
    states,   \* states[t]: orchestration_tasks.state
    claims    \* what getOrchestrationSchedulerRuntimeState returns

vars == <<states, claims>>

\* Fault: priority and age are ignored.
SortedByIdentifier ==
    CHOOSE order \in [1..Cardinality(Task) -> Task] :
        \A i, j \in DOMAIN order :
            i < j => TaskInfo[order[i]].identifier < TaskInfo[order[j]].identifier

\* The tasks, sorted by compareTasksForDispatch.
SortedTasks ==
    CHOOSE order \in [1..Cardinality(Task) -> Task] :
        \A i, j \in DOMAIN order : i < j => DispatchesBefore(order[i], order[j])

RunningByState(s) == RunningInState(s, Task, states, claims.running)

\* Faults of a turn: the tasks selected so far are not counted by state; the
\* state limit is off by one; a task over its state's limit is not accounted for.
SelectUncounted(acc, t) ==
    LET static == SkipReason(t, Task, states, claims)
        reason == CASE static # "none" -> static
                    [] Len(acc.selected) >= FreeSlots(claims.running) -> "global-concurrency"
                    [] RunningByState(states[t]) + acc.selectedByState[states[t]]
                         >= StateLimit[states[t]] -> "state-concurrency"
                    [] OTHER -> "none"
    IN  IF reason = "none"
        THEN [acc EXCEPT !.selected = Append(@, t)]
        ELSE [acc EXCEPT !.rejected[t] = reason]

SelectOneMore(acc, t) ==
    LET static == SkipReason(t, Task, states, claims)
        reason == CASE static # "none" -> static
                    [] Len(acc.selected) >= FreeSlots(claims.running) -> "global-concurrency"
                    [] RunningByState(states[t]) + acc.selectedByState[states[t]]
                         > StateLimit[states[t]] -> "state-concurrency"
                    [] OTHER -> "none"
    IN  IF reason = "none"
        THEN [acc EXCEPT !.selected = Append(@, t), !.selectedByState[states[t]] = @ + 1]
        ELSE [acc EXCEPT !.rejected[t] = reason]

SelectUnaccounted(acc, t) ==
    LET static == SkipReason(t, Task, states, claims)
    IN  IF static # "none"
        THEN [acc EXCEPT !.rejected[t] = static]
        ELSE IF /\ Len(acc.selected) < FreeSlots(claims.running)
                /\ RunningByState(states[t]) + acc.selectedByState[states[t]]
                     < StateLimit[states[t]]
             THEN [acc EXCEPT !.selected = Append(@, t), !.selectedByState[states[t]] = @ + 1]
             ELSE acc

\* One turn of the loop: acc holds what was selected, how many of each state,
\* and why the rest was not.
SelectTask(acc, t) ==
    LET static == SkipReason(t, Task, states, claims)
        reason == CASE static # "none" -> static
                    [] Len(acc.selected) >= FreeSlots(claims.running) -> "global-concurrency"
                    [] RunningByState(states[t]) + acc.selectedByState[states[t]]
                         >= StateLimit[states[t]] -> "state-concurrency"
                    [] OTHER -> "none"
    IN  IF reason = "none"
        THEN [acc EXCEPT !.selected = Append(@, t), !.selectedByState[states[t]] = @ + 1]
        ELSE [acc EXCEPT !.rejected[t] = reason]

SelectDispatchableTasks ==
    FoldLeft(SelectTask,
             [selected        |-> <<>>,
              selectedByState |-> [s \in TaskState |-> 0],
              rejected        |-> [t \in Task |-> "none"]],
             SortedTasks)

Init ==
    /\ states = [t \in Task |-> "todo"]
    /\ claims = [claimed |-> {}, running |-> {}]

\* updateOrchestrationTask, from a user or from a run that ends.
SetTaskState(t, s) ==
    /\ states' = [states EXCEPT ![t] = s]
    /\ UNCHANGED claims

\* A run of t is prepared, starts, or ends: the rows of orchestration_runs.
SetTaskRuns(t, prepared, running) ==
    /\ claims' = [claimed |-> IF prepared THEN claims.claimed \cup {t} ELSE claims.claimed \ {t},
                  running |-> IF running THEN claims.running \cup {t} ELSE claims.running \ {t}]
    /\ UNCHANGED states

Next ==
    \/ \E t \in Task, s \in TaskState : SetTaskState(t, s)
    \/ \E t \in Task, p, r \in BOOLEAN : SetTaskRuns(t, p, r)

Spec == Init /\ [][Next]_vars

-------------------------------------------------------------------------------
\* The tables are well formed and the loop accounts for every task once:
\* a task is either selected or rejected with a reason (orchestrationScheduler.ts).
TypeOK ==
    /\ states \in [Task -> TaskState]
    /\ claims \in [claimed : SUBSET Task, running : SUBSET Task]
    /\ \A t \in Task :
         Contains(SelectDispatchableTasks.selected, t)
           <=> SelectDispatchableTasks.rejected[t] = "none"

\* The loop selects exactly the set that the selection rule describes, and the
\* rule leaves no second choice: what the dispatch models below rest on.
LoopMatchesSelection ==
    {sel \in SUBSET Task : IsSelection(sel, Task, states, claims)}
      = {ToSet(SelectDispatchableTasks.selected)}

\* Starting all that was selected keeps the running tasks within the global
\* limit, unless earlier starts were beyond it already; and within the limit of
\* each state, where the selected task is counted under the state it leaves.
SelectionWithinLimits ==
    LET sel == ToSet(SelectDispatchableTasks.selected)
        all == sel \cup claims.running
    IN  sel # {} =>
          /\ Cardinality(all) <= MaxConcurrentAgents
          /\ \A t \in sel :
               Cardinality({u \in all : states[u] = states[t]}) <= StateLimit[states[t]]

\* No overtaking: a dispatchable task passed over for want of a global slot is
\* never passed over in favour of a task of lower rank, and there are no
\* free slots left while any such task waits.
NoOvertaking ==
    LET res == SelectDispatchableTasks IN
    \A t \in Task : res.rejected[t] = "global-concurrency" =>
        /\ \A u \in ToSet(res.selected) : DispatchesBefore(u, t)
        /\ Len(res.selected) = FreeSlots(claims.running)
===============================================================================
