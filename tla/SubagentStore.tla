----------------------------- MODULE SubagentStore -----------------------------
(***************************************************************************)
(* The rows the project store keeps of the sub-agents of one parent run,   *)
(* as functions from one content of the database to the next: the child    *)
(* runs (subagentRunCompletionRepository.ts), the wait barriers            *)
(* (subagentWaitBarrierRepository.ts) and the rules that resolve a barrier *)
(* from the state of its children (subagentWaitBarrierEvaluation.ts,       *)
(* subagentWaitBarrierResolution.ts).  The store is synchronous.           *)
(*                                                                         *)
(* The result artifact of a run is reduced to whether the parent may use   *)
(* it (synthesisAllowed); the resolution artifact of a barrier to the kind *)
(* of its transition evidence; a dependency mode to the number of usable   *)
(* results it asks for and whether it binds the parent.                    *)
(***************************************************************************)
EXTENDS Naturals, FiniteSets

CONSTANTS
    Child,       \* the child runs
    Required,    \* those spawned with dependency mode "required"
    MaxBarriers  \* bound: barrier rows, numbered in order of creation

ASSUME SubagentAssumption ==
    /\ IsFiniteSet(Child)
    /\ Required \subseteq Child
    /\ MaxBarriers \in Nat

Barrier == 1..MaxBarriers
NoBarrier == 0

\* No code writes stopped or waiting; starting becomes running in the same
\* synchronous call; "absent" is a run that is not created.
ActiveStatus == {"reserved", "running", "needs_attention"}
TerminalStatus == {"completed", "failed", "cancelled", "timed_out", "detached",
                   "aborted_partial"}
RunRow == [status : ActiveStatus \cup TerminalStatus \cup {"absent"},
           safe : BOOLEAN, closed : BOOLEAN]

\* A status that only the user, a stop or the evaluation gives, or "waiting".
ResolvedStatus == {"satisfied", "failed", "timed_out", "cancelled"}
Evidence == {"none", "child_terminal", "child_runtime_timeout", "child_cancelled",
             "child_detached", "parent_stopped", "explicit_partial",
             "explicit_failure", "retry_child"}
BarrierRow == [status : ResolvedStatus \cup {"waiting", "absent"},
               members : SUBSET Child, need : Nat, binding : BOOLEAN,
               kind : Evidence]
Database == [run : [Child -> RunRow], barrier : [Barrier -> BarrierRow]]

AbsentBarrier == [status |-> "absent", members |-> {}, need |-> 1,
                  binding |-> FALSE, kind |-> "none"]
EmptyDatabase ==
    [run     |-> [c \in Child |-> [status |-> "absent", safe |-> FALSE, closed |-> FALSE]],
     barrier |-> [b \in Barrier |-> AbsentBarrier]]

-------------------------------------------------------------------------------
(* Runs.                                                                     *)

IsTerminal(d, c) == d.run[c].status \in TerminalStatus
IsActive(d, c) == d.run[c].status \in ActiveStatus

\* markSubagentRunStatus without a result artifact: the last one is kept.
Mark(d, c, s) == [d EXCEPT !.run[c].status = s]
MarkResult(d, c, s, safe) ==
    [d EXCEPT !.run[c] = [@ EXCEPT !.status = s, !.safe = safe]]
MarkSpent(d, c, s) == MarkResult(d, c, s, FALSE)

-------------------------------------------------------------------------------
(* Evaluation of a barrier.                                                  *)

SafeMembers(d, b) == {c \in d.barrier[b].members : d.run[c].safe}
ActiveMembers(d, b) == {c \in d.barrier[b].members : IsActive(d, c)}

\* Terminal members whose result may not be used.
SpentMembers(d, b) ==
    {c \in d.barrier[b].members : IsTerminal(d, c) /\ ~d.run[c].safe}

\* Fault: the results are counted by the status of their run, not by their use.
DeliverableByStatus(d, b) ==
    Cardinality({c \in d.barrier[b].members : d.run[c].status = "completed"})
        >= d.barrier[b].need

\* validSynthesisCount and potentialSynthesisCount.  A retried run that keeps a
\* partial result counts twice in the latter, as in the code.
Deliverable(d, b) == Cardinality(SafeMembers(d, b)) >= d.barrier[b].need
Impossible(d, b) ==
    Cardinality(SafeMembers(d, b)) + Cardinality(ActiveMembers(d, b))
        < d.barrier[b].need

\* Fault: a barrier is given up once a member has failed.
OutcomeAtFirstFailure(d, b, kind) ==
    IF Deliverable(d, b) THEN "satisfied"
    ELSE IF SpentMembers(d, b) = {} THEN "waiting"
    ELSE IF kind = "child_runtime_timeout" THEN "timed_out"
    ELSE IF \A c \in SpentMembers(d, b) : d.run[c].status = "cancelled" THEN "cancelled"
    ELSE "failed"

\* waitBarrierStatusFromEvaluation
Outcome(d, b, kind) ==
    IF Deliverable(d, b) THEN "satisfied"
    ELSE IF ~Impossible(d, b) THEN "waiting"
    ELSE IF kind = "child_runtime_timeout" THEN "timed_out"
    ELSE IF /\ SpentMembers(d, b) # {}
            /\ \A c \in SpentMembers(d, b) : d.run[c].status = "cancelled" THEN "cancelled"
    ELSE "failed"

\* terminalBarrierEvidenceKindsByStatus: any other pair makes the update throw.
AllowedEvidence ==
    [satisfied |-> {"child_terminal", "explicit_partial"},
     failed    |-> {"child_terminal", "child_detached", "explicit_failure"},
     timed_out |-> {"child_runtime_timeout"},
     cancelled |-> {"child_cancelled", "parent_stopped"}]

\* updateSubagentWaitBarrierStatus
Settle(d, b, s, kind) == [d EXCEPT !.barrier[b] = [@ EXCEPT !.status = s, !.kind = kind]]

\* resolveSubagentWaitBarrierWithEvidence, given a row read as waiting: it writes
\* over whatever the row holds by then, or throws, or leaves it alone.
Throws(d, b, kind) ==
    /\ Outcome(d, b, kind) # "waiting"
    /\ kind \notin AllowedEvidence[Outcome(d, b, kind)]
Resolve(d, b, kind) ==
    IF Outcome(d, b, kind) = "waiting" \/ Throws(d, b, kind) THEN d
    ELSE Settle(d, b, Outcome(d, b, kind), kind)

-------------------------------------------------------------------------------
\* resolveActiveSubagentWaitBarriersForRun: the waiting barriers of a run in the
\* order of their creation, up to the first that throws.
Pending(d, c) ==
    {b \in Barrier : d.barrier[b].status = "waiting" /\ c \in d.barrier[b].members}
ResolveThrows(d, c, kind) == \E b \in Pending(d, c) : Throws(d, b, kind)
ResolvedBy(d, c, kind) ==
    {b \in Pending(d, c) :
       /\ Outcome(d, b, kind) # "waiting"
       /\ \A a \in Pending(d, c) : a <= b => ~Throws(d, a, kind)}
ResolveActive(d, c, kind) ==
    [d EXCEPT !.barrier =
        [b \in Barrier |->
            IF b \in ResolvedBy(d, c, kind)
            THEN [@[b] EXCEPT !.status = Outcome(d, b, kind), !.kind = kind]
            ELSE @[b]]]

\* resolveTerminalChildWaitBarriers: the evidence follows the status of the run.
TerminalEvidence(d, c) ==
    IF d.run[c].status = "timed_out" THEN "child_runtime_timeout" ELSE "child_terminal"

-------------------------------------------------------------------------------
(* Creation, the cascade of a stopped parent, and a restart.                 *)

Earliest(bs) == {b \in bs : \A a \in bs : b <= a}
Latest(bs) == {b \in bs : \A a \in bs : a <= b}

\* createSubagentWaitBarrier, in the row b; no row is left once the bound is reached.
NextRow(d) == Earliest({b \in Barrier : d.barrier[b].status = "absent"})
CreateBarrier(d, b, members, need, binding) ==
    [d EXCEPT !.barrier[b] =
        [status |-> "waiting", members |-> members, need |-> need,
         binding |-> binding, kind |-> "none"]]

\* Fault: the cascade writes "stopped", which the protocol has and no reader expects.
CascadeToStopped(d) ==
    [run |-> [c \in Child |->
                IF ~IsActive(d, c) THEN d.run[c]
                ELSE [d.run[c] EXCEPT !.safe = FALSE, !.status = "stopped"]],
     barrier |-> [b \in Barrier |->
                IF d.barrier[b].status # "waiting" THEN d.barrier[b]
                ELSE [d.barrier[b] EXCEPT !.status = "cancelled", !.kind = "parent_stopped"]]]

\* cascadeSubagentParentRunStopped with resolveSubagentParentStopWaitBarrier
Cascade(d) ==
    [run |-> [c \in Child |->
                IF ~IsActive(d, c) THEN d.run[c]
                ELSE [d.run[c] EXCEPT !.safe = FALSE,
                        !.status = IF c \in Required THEN "cancelled" ELSE "detached"]],
     barrier |-> [b \in Barrier |->
                IF d.barrier[b].status # "waiting" THEN d.barrier[b]
                ELSE [d.barrier[b] EXCEPT !.status = "cancelled", !.kind = "parent_stopped"]]]

\* Fault: only the runs that had not started yet are taken up again.
InterruptedBeforeStart(d) == {c \in Child : d.run[c].status = "reserved"}

\* reconcileSubagentRestartState: what was at work needs attention, and a required
\* run in no waiting barrier gets one again; fresh says which row each run gets.
Interrupted(d) == {c \in Child : d.run[c].status \in {"reserved", "running"}}
Unguarded(d) == {c \in Interrupted(d) \cap Required : Pending(d, c) = {}}
FreshRows(d) ==
    {b \in Barrier :
       /\ d.barrier[b].status = "absent"
       /\ Cardinality({a \in 1..b : d.barrier[a].status = "absent"})
            <= Cardinality(Unguarded(d))}
Reconcile(d, fresh) ==
    [run |-> [c \in Child |->
                IF c \notin Interrupted(d) THEN d.run[c]
                ELSE [d.run[c] EXCEPT !.status = "needs_attention"]],
     barrier |-> [b \in Barrier |->
                IF b \notin DOMAIN fresh THEN d.barrier[b]
                ELSE [status |-> "waiting", members |-> {fresh[b]}, need |-> 1,
                      binding |-> TRUE, kind |-> "none"]]]
===============================================================================
