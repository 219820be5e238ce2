------------------------ MODULE OrchestrationScheduler ------------------------
(***************************************************************************)
(* The pure half of Local Task orchestration: which tasks may be           *)
(* dispatched now (orchestrationScheduler.ts) and which prepared or        *)
(* restart-interrupted runs may be started now (orchestrationDispatch.ts). *)
(*                                                                         *)
(* The selection loops of the source walk the tasks in dispatch order and  *)
(* keep counters.  Here a selection is characterised without a loop: a set *)
(* in which every member, and no other task, is allowed given the members  *)
(* before it.  SchedulerLoop.tla holds the loop itself and compares them.  *)
(***************************************************************************)
EXTENDS Naturals, FiniteSets

CONSTANTS
    Task,                  \* the Local Tasks of one project store
    TaskInfo,              \* TaskInfo[t]: the columns that dispatch reads
    ActiveStates, TerminalStates, ReviewStates,   \* WORKFLOW.md tracker
    MaxConcurrentAgents,   \* WORKFLOW.md orchestration.max_concurrent_agents
    StateLimit             \* StateLimit[s]: max_concurrent_agents_by_state, or the global limit

\* "ready" behaves as "todo", and "duplicate" as "canceled", everywhere below.
TaskState == {"todo", "in_progress", "needs_review", "review", "needs_info",
              "terminal_blocker", "budget_exhausted", "canceled", "done"}

NoPriority == 1000000      \* Number.POSITIVE_INFINITY: larger than any priority

ASSUME TaskAssumption ==
    /\ IsFiniteSet(Task)
    /\ TaskInfo \in [Task -> [priority : 0..NoPriority, createdAt : Nat,
                               identifier : Nat, blockedBy : SUBSET Task]]
    /\ \A t, u \in Task :
          t # u => TaskInfo[t].identifier # TaskInfo[u].identifier
ASSUME WorkflowAssumption ==
    /\ ActiveStates \subseteq TaskState
    /\ TerminalStates \subseteq TaskState
    /\ ReviewStates \subseteq TaskState
    /\ MaxConcurrentAgents \in Nat \ {0}
    /\ StateLimit \in [TaskState -> Nat \ {0}]

(***************************************************************************)
(* Dispatch order and dependencies                                         *)
(***************************************************************************)
DispatchesBefore(t, u) ==
    LET left  == TaskInfo[t]
        right == TaskInfo[u]
    IN  \/ left.priority < right.priority
        \/ left.priority = right.priority /\ left.createdAt < right.createdAt
        \/ /\ left.priority = right.priority
           /\ left.createdAt = right.createdAt
           /\ left.identifier < right.identifier

\* Terminal states a blocker may end in without having done its work.
UnsatisfiedTerminalStates ==
    {"canceled", "needs_info", "terminal_blocker", "budget_exhausted"}

DependencySatisfiedStates ==
    ReviewStates \cup (TerminalStates \ UnsatisfiedTerminalStates)

\* A blocker that is not among the tasks passed in blocks as well.
BlockedByDependencies(t, pool, states) ==
    \E b \in TaskInfo[t].blockedBy :
        b \notin pool \/ states[b] \notin DependencySatisfiedStates

(***************************************************************************)
(* selectDispatchableTasks.  claims is the scheduler's runtime state: the  *)
(* sets of claimed and running tasks (no code writes status retry_queued). *)
(***************************************************************************)
SkipReason(t, pool, states, claims) ==
    CASE states[t] \in TerminalStates   -> "terminal-state"
      [] states[t] \notin ActiveStates  -> "inactive-state"
      [] t \in claims.running           -> "already-running"
      [] t \in claims.claimed           -> "already-claimed"
      [] BlockedByDependencies(t, pool, states) -> "blocked"
      [] OTHER                          -> "none"

FreeSlots(running) ==
    IF Cardinality(running) < MaxConcurrentAgents
    THEN MaxConcurrentAgents - Cardinality(running) ELSE 0

RunningInState(s, pool, states, running) ==
    Cardinality({u \in pool \cap running : states[u] = s})

\* sel is what the loop selects out of pool.
IsSelection(sel, pool, states, claims) ==
    /\ sel \subseteq pool
    /\ \A t \in pool :
         LET before == {u \in sel : DispatchesBefore(u, t)} IN
         t \in sel <=>
           /\ SkipReason(t, pool, states, claims) = "none"
           /\ Cardinality(before) < FreeSlots(claims.running)
           /\ RunningInState(states[t], pool, states, claims.running)
                + Cardinality({u \in before : states[u] = states[t]})
              < StateLimit[states[t]]

===============================================================================
