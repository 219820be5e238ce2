------------------------------ MODULE SubagentRuns ------------------------------
(***************************************************************************)
(* The sub-agents of one parent run: the parent spawns children, waits for *)
(* them behind wait barriers, cancels and closes them; each child works in *)
(* a session of its own and ends it with a result; the user decides what   *)
(* becomes of a barrier, stops a child or the parent; the application may  *)
(* restart.  The program is one event loop: between two awaits nothing     *)
(* interleaves, and what was read before an await may be stale after it.   *)
(*                                                                         *)
(* A call that awaits is two actions, what it does before and after; the   *)
(* parent's own calls come one at a time, those of the user at any moment. *)
(* A request is repeated with the same words, so its idempotency key, a    *)
(* hash of those words, is the same each time.                             *)
(***************************************************************************)
EXTENDS SubagentStore

CONSTANTS
    Group,       \* sets of children the parent asks wait_agent for as a whole
    Quorum,      \* the numbers of results it asks such a group for, bound to its answer
    Decision,    \* the decisions the user or the parent may take of a barrier
    UserCalls,   \* what the user may do: "cancel" or "stop" a child, stop the "parent"
    TurnBudget,  \* whether a child may run out of turns
    MaxCrashes   \* bound: restarts of the application

DecisionKind == {"continue_with_partial", "fail_parent", "detach_child", "retry_child",
                 "cancel_parent"}

ASSUME SubagentRunsAssumption ==
    /\ Group \subseteq SUBSET Child
    /\ Quorum \subseteq Nat
    /\ Decision \subseteq DecisionKind
    /\ UserCalls \subseteq {"cancel", "stop", "parent"}
    /\ TurnBudget \in BOOLEAN
    /\ MaxCrashes \in Nat

VARIABLES
    db,         \* the rows of the store
    parent,     \* status of the parent run
    cascading,  \* the stop of the parent awaits the abort of its session
    launching,  \* children whose spawn awaits a worktree
    sending,    \* children with an execution: a session that awaits its agent
    wait,       \* the wait_agent call of the parent
    aborting,   \* cancel_agent calls and stops of a child that await an abort
    control,    \* a cancel_parent decision that cancels its children in turn
    recorded,   \* decisions recorded under their idempotency key
    asked,      \* children with a recorded cancel request
    crashes

vars == <<db, parent, cascading, launching, sending, wait, aborting, control,
          recorded, asked, crashes>>

ParentStatus == {"running", "done", "error", "aborted", "interrupted"}
WaitCall == [pc : {"idle"}] \cup
            [pc : {"waiting", "aborting"}, barrier : Barrier, child : Child]
IdleWait == [pc |-> "idle"]
ControlCall == [barrier : Barrier \cup {NoBarrier}, todo : SUBSET Child]
IdleControl == [barrier |-> NoBarrier, todo |-> {}]

Init ==
    /\ db = EmptyDatabase
    /\ parent = "running"
    /\ cascading = FALSE
    /\ launching = {} /\ sending = {}
    /\ wait = IdleWait
    /\ aborting = {}
    /\ control = IdleControl
    /\ recorded = {} /\ asked = {}
    /\ crashes = 0

\* The parent's session is between two tool calls.
ParentActs == parent = "running" /\ wait.pc = "idle" /\ launching = {}

-------------------------------------------------------------------------------
(* Spawn (subagentPiTools.ts, subagentSpawnLaunchExecutor.ts).               *)

\* createSubagentRun; the worktree is awaited.
Spawn(c) ==
    /\ ParentActs
    /\ db.run[c].status = "absent"
    /\ db' = Mark(db, c, "reserved")
    /\ launching' = launching \cup {c}
    /\ UNCHANGED <<parent, cascading, sending, wait, aborting, control, recorded,
                   asked, crashes>>

\* Fault: the barrier of a spawned child is one that does not bind the parent.
GuardsOptional(c) == {CreateBarrier(db, b, {c}, 1, FALSE) : b \in NextRow(db)}

\* executeSubagentSpawnLaunch: the barrier of a required child is created whatever
\* happened to the child meanwhile; startChildRun starts it only if it is open.
Guards(c) == {CreateBarrier(db, b, {c}, 1, TRUE) : b \in NextRow(db)}
Launch(c) ==
    LET starts == IsActive(db, c) /\ ~db.run[c].closed /\ c \notin sending
    IN  /\ c \in launching
        /\ launching' = launching \ {c}
        /\ \E d \in IF c \in Required THEN Guards(c) ELSE {db} :
             db' = IF starts THEN Mark(d, c, "running") ELSE d
        /\ sending' = IF starts THEN sending \cup {c} ELSE sending
        /\ UNCHANGED <<parent, cascading, wait, aborting, control, recorded, asked,
                       crashes>>

\* recordSubagentLaunchRejection: no barrier is made.
LaunchBlocked(c) ==
    /\ c \in launching
    /\ launching' = launching \ {c}
    /\ db' = MarkSpent(db, c, "failed")
    /\ UNCHANGED <<parent, cascading, sending, wait, aborting, control, recorded,
                   asked, crashes>>

-------------------------------------------------------------------------------
(* The session of a child (agentRuntimeSubagentChildSessionRunner.ts,        *)
(* agentRuntimeSubagentChildTurnCoordinator.ts).                             *)

EndsWith(c, d) ==
    /\ c \in sending
    /\ sending' = sending \ {c}
    /\ db' = d
    /\ UNCHANGED <<parent, cascading, launching, wait, aborting, control, recorded,
                   asked, crashes>>

\* Fault: the error of an aborted session overwrites the cancellation.
PreservedUnlessCancelled(d, c) == d.run[c].status \in {"timed_out", "aborted_partial"}

\* childSessionErrorShouldPreserveTerminalStatus
Preserved(d, c) == d.run[c].status \in {"cancelled", "timed_out", "aborted_partial"}

\* The catch block: no barrier is resolved.
Failed(d, c) == IF Preserved(d, c) THEN d ELSE MarkSpent(d, c, "failed")
SendThrows(c) == EndsWith(c, Failed(db, c))

\* completeTurnAfterSend returns at once for a cancelled child; a turn that wants a
\* follow-up ends the session if the run is no longer running.
TurnDropped(c) == db.run[c].status # "running" /\ EndsWith(c, db)

TurnNeedsAttention(c) ==
    /\ db.run[c].status # "cancelled"
    /\ EndsWith(c, Mark(db, c, "needs_attention"))

\* The result is written, then the barriers are resolved; a throw of the latter
\* goes through the catch block.
TurnResult(c, s, safe) ==
    LET result   == MarkResult(db, c, s, safe)
        resolved == ResolveActive(result, c, "child_terminal")
    IN  /\ db.run[c].status # "cancelled"
        /\ EndsWith(c, IF ResolveThrows(result, c, "child_terminal")
                       THEN Failed(resolved, c) ELSE resolved)

\* A completed result may fail the role's checks; a failed one is never usable.
TurnEnds(c) ==
    \/ TurnDropped(c)
    \/ TurnNeedsAttention(c)
    \/ \E safe \in BOOLEAN : \/ TurnResult(c, "completed", safe)
                             \/ TurnResult(c, "aborted_partial", safe)
    \/ TurnResult(c, "failed", FALSE)

\* followupChildRun: an idle child takes another turn.
Followup(c) ==
    /\ ParentActs
    /\ IsActive(db, c) /\ ~db.run[c].closed
    /\ c \notin sending
    /\ db' = Mark(db, c, "running")
    /\ sending' = sending \cup {c}
    /\ UNCHANGED <<parent, cascading, launching, wait, aborting, control, recorded,
                   asked, crashes>>

\* deliverQueuedApprovalResponses of the wait for a child that asks for an approval;
\* its agent is still in its session.
Approve(c) ==
    /\ wait.pc = "waiting" /\ wait.child = c
    /\ c \in sending
    /\ db.run[c].status = "needs_attention" /\ ~db.run[c].closed
    /\ db' = Mark(db, c, "running")
    /\ UNCHANGED <<parent, cascading, launching, sending, wait, aborting, control,
                   recorded, asked, crashes>>

\* closeSubagentRun, refused while the child executes.
Close(c) ==
    /\ db.run[c].status \notin {"absent", "reserved", "running"}
    /\ ~db.run[c].closed
    /\ db' = [db EXCEPT !.run[c].closed = TRUE]
    /\ UNCHANGED <<parent, cascading, launching, sending, wait, aborting, control,
                   recorded, asked, crashes>>

-------------------------------------------------------------------------------
(* wait_agent (subagentWaitContextResolver.ts, subagentWaitAgentExecutor.ts, *)
(* agentRuntimeSubagentChildLifecycleWait.ts).                               *)

\* ensureSubagentWaitBarrierForRun, and findSubagentWaitBarrierForRuns.
BarriersOf(d, c) == {b \in Barrier : c \in d.barrier[b].members}
BarrierOfRun(d, c) ==
    IF Pending(d, c) # {} THEN Earliest(Pending(d, c)) ELSE Latest(BarriersOf(d, c))

\* requiredSynthesisCountForBarrier: the request names a mode, whoever the members are,
\* and one result is enough for optional_background, the mode that does not bind.
Terms == [need : Quorum, binding : {TRUE}] \cup [need : {1}, binding : {FALSE}]
Matching(d, m, t) ==
    {b \in Barrier : /\ d.barrier[b].status # "absent"
                     /\ d.barrier[b].members = m
                     /\ d.barrier[b].need = t.need
                     /\ d.barrier[b].binding = t.binding}
BarrierOfGroup(d, m, t) ==
    LET open == {b \in Matching(d, m, t) : d.barrier[b].status = "waiting"}
    IN  IF open # {} THEN Latest(open) ELSE Latest(Matching(d, m, t))

\* executeSubagentWaitAgent up to its first wait: a barrier that is resolved is only
\* reported; a child that has ended is replaced by a member that has not.
WaitOn(d, b, c) ==
    LET left == IF IsTerminal(d, c) THEN ActiveMembers(d, b) ELSE {c}
    IN  \/ /\ d.barrier[b].status # "waiting"
           /\ db' = d /\ wait' = wait
        \/ /\ d.barrier[b].status = "waiting" /\ left = {}
           /\ db' = Resolve(d, b, "child_terminal") /\ wait' = wait
        \/ /\ d.barrier[b].status = "waiting"
           /\ \E w \in left : wait' = [pc |-> "waiting", barrier |-> b, child |-> w]
           /\ db' = d

WaitForRun(c) ==
    IF BarriersOf(db, c) # {} THEN \E b \in BarrierOfRun(db, c) : WaitOn(db, b, c)
    ELSE \E b \in NextRow(db) :
            WaitOn(CreateBarrier(db, b, {c}, 1, c \in Required), b, c)
WaitForGroup(m, t) ==
    \E c \in m :
        IF Matching(db, m, t) # {} THEN \E b \in BarrierOfGroup(db, m, t) : WaitOn(db, b, c)
        ELSE \E b \in NextRow(db) :
                WaitOn(CreateBarrier(db, b, m, t.need, t.binding), b, c)

WaitBegins ==
    /\ ParentActs
    /\ \/ \E c \in Child : db.run[c].status # "absent" /\ WaitForRun(c)
       \/ \E m \in Group, t \in Terms :
            /\ \A c \in m : db.run[c].status # "absent"
            /\ WaitForGroup(m, t)
       \/ \E b \in Barrier : \E c \in db.barrier[b].members : WaitOn(db, b, c)
    /\ UNCHANGED <<parent, cascading, launching, sending, aborting, control, recorded,
                   asked, crashes>>

WaitReturns(d) ==
    /\ db' = d
    /\ wait' = IdleWait
    /\ UNCHANGED <<parent, cascading, launching, sending, aborting, control, recorded,
                   asked, crashes>>

\* The child waited for has no execution (any more).  If it has ended, its barrier is
\* resolved, whatever the row says by now; if not, the loop spins to its deadline.
Resumed == wait.pc = "waiting" /\ wait.child \notin sending
WaitResumes ==
    LET b == wait.barrier
        goes == IsTerminal(db, wait.child) /\ Outcome(db, b, "child_terminal") = "waiting"
    IN  /\ Resumed
        /\ \/ /\ ~goes
              /\ WaitReturns(IF IsTerminal(db, wait.child)
                             THEN Resolve(db, b, "child_terminal") ELSE db)
           \/ /\ goes
              /\ \E w \in ActiveMembers(db, b) : wait' = [wait EXCEPT !.child = w]
              /\ UNCHANGED <<db, parent, cascading, launching, sending, aborting, control,
                             recorded, asked, crashes>>

\* The parent's wait window elapses: a progress return.
WaitExpires == wait.pc = "waiting" /\ wait.child \in sending /\ WaitReturns(db)

\* resolvePendingApprovalWait
WaitAsks ==
    /\ wait.pc = "waiting" /\ wait.child \in sending
    /\ IsActive(db, wait.child) /\ ~db.run[wait.child].closed
    /\ WaitReturns(Mark(db, wait.child, "needs_attention"))

\* settleBudgetExceeded up to the abort it awaits; a detached run is not spared.
WaitTimesOut ==
    LET c == wait.child
        timedOut == MarkSpent(db, c, "timed_out")
        resolved == ResolveActive(timedOut, c, "child_runtime_timeout")
    IN  /\ wait.pc = "waiting" /\ c \in sending
        /\ \/ /\ db.run[c].status \in TerminalStatus \ {"detached"}
              /\ WaitReturns(Resolve(db, wait.barrier, "child_runtime_timeout"))
           \/ /\ db.run[c].status \notin TerminalStatus \ {"detached"}
              /\ db' = resolved
              /\ wait' = IF ResolveThrows(timedOut, c, "child_runtime_timeout") THEN IdleWait
                         ELSE [wait EXCEPT !.pc = "aborting"]
              /\ UNCHANGED <<parent, cascading, launching, sending, aborting, control,
                             recorded, asked, crashes>>

\* cancelSubagentRunForStoppedChildThread
StopChild(d, c) ==
    IF IsActive(d, c) /\ ~d.run[c].closed
    THEN ResolveActive(MarkSpent(d, c, "cancelled"), c, "child_cancelled")
    ELSE d

\* Fault: the wait goes on only if the abort left the session of the child.
WaitAbortedWhileSending ==
    /\ wait.pc = "aborting" /\ wait.child \in sending
    /\ WaitReturns(Resolve(StopChild(db, wait.child), wait.barrier, "child_runtime_timeout"))

WaitAborted ==
    /\ wait.pc = "aborting"
    /\ WaitReturns(Resolve(StopChild(db, wait.child), wait.barrier, "child_runtime_timeout"))

\* settleSubagentTurnBudgetExhaustionIfNeeded; the child is not aborted.
WaitExhausted ==
    /\ TurnBudget
    /\ wait.pc = "waiting"
    /\ IsActive(db, wait.child) /\ ~db.run[wait.child].closed
    /\ \E s \in {"aborted_partial", "failed"}, safe \in BOOLEAN :
         /\ s = "failed" => ~safe
         /\ WaitReturns(Resolve(MarkResult(db, wait.child, s, safe), wait.barrier,
                                "child_terminal"))

-------------------------------------------------------------------------------
(* cancel_agent (subagentCancelAgentExecutor.ts), the stop of a child, and   *)
(* the stop of the parent (agentRuntimeSubagentStopCascadeController.ts).    *)

Awaits(call) ==
    /\ call \notin aborting
    /\ aborting' = aborting \cup {call}
    /\ UNCHANGED <<db, parent, cascading, launching, sending, wait, control, recorded,
                   asked, crashes>>

\* A request under a recorded key, or for a cancelled run, is a replay: it says that the
\* child is already cancelled and changes nothing.
IsReplayed(c) == c \in asked \/ db.run[c].status = "cancelled"
CancelBegins(c) ==
    /\ "cancel" \in UserCalls
    /\ db.run[c].status # "absent" /\ ~db.run[c].closed
    /\ ~IsReplayed(c)
    /\ Awaits(<<"cancel", c>>)

\* A throw of the resolution leaves no record of the request.
CancelEnds(c) ==
    LET marked == IF IsActive(db, c) THEN MarkSpent(db, c, "cancelled") ELSE db
        throws == ResolveThrows(marked, c, "child_cancelled")
    IN  /\ <<"cancel", c>> \in aborting
        /\ aborting' = aborting \ {<<"cancel", c>>}
        /\ db' = ResolveActive(marked, c, "child_cancelled")
        /\ asked' = IF throws THEN asked ELSE asked \cup {c}
        /\ UNCHANGED <<parent, cascading, launching, sending, wait, control, recorded, crashes>>

StopBegins(c) ==
    /\ "stop" \in UserCalls
    /\ c \in sending
    /\ Awaits(<<"stop", c>>)
StopEnds(c) ==
    /\ <<"stop", c>> \in aborting
    /\ aborting' = aborting \ {<<"stop", c>>}
    /\ db' = StopChild(db, c)
    /\ UNCHANGED <<parent, cascading, launching, sending, wait, control, recorded,
                   asked, crashes>>

\* The session of the parent is aborted first, then the cascade is written.
ParentStop ==
    /\ "parent" \in UserCalls
    /\ parent = "running"
    /\ parent' = "aborted"
    /\ cascading' = TRUE
    /\ UNCHANGED <<db, launching, sending, wait, aborting, control, recorded, asked, crashes>>
CascadeRuns ==
    /\ cascading
    /\ cascading' = FALSE
    /\ db' = Cascade(db)
    /\ UNCHANGED <<parent, launching, sending, wait, aborting, control, recorded, asked, crashes>>

-------------------------------------------------------------------------------
(* Decisions on a barrier (subagentBarrierDecisionExecutor.ts): any status   *)
(* of the barrier will do, but a decision under a recorded key is a replay.  *)

MayDecide(b, k) ==
    /\ k \in Decision
    /\ db.barrier[b].status # "absent" /\ db.barrier[b].binding
    /\ <<b, k>> \notin recorded
Decides(b, k, d, status, kind) ==
    /\ MayDecide(b, k)
    /\ db' = Settle(d, b, status, kind)
    /\ recorded' = recorded \cup {<<b, k>>}
    /\ UNCHANGED <<parent, cascading, launching, wait, aborting, control, asked, crashes>>

Continue(b) ==
    /\ Decides(b, "continue_with_partial", db, "satisfied", "explicit_partial")
    /\ UNCHANGED sending
Fail(b) ==
    /\ Decides(b, "fail_parent", db, "failed", "explicit_failure")
    /\ UNCHANGED sending
Detached(d, cs) ==
    [d EXCEPT !.run = [c \in Child |->
        IF c \in cs THEN [@[c] EXCEPT !.status = "detached", !.safe = FALSE] ELSE @[c]]]
Detach(b) ==
    /\ Decides(b, "detach_child", Detached(db, ActiveMembers(db, b)),
               "failed", "child_detached")
    /\ UNCHANGED sending

\* retryChildRun: a closed or executing child only has the request queued.
Retryable(d, b) ==
    {c \in d.barrier[b].members : d.run[c].status \in TerminalStatus \ {"completed", "detached"}}
Accepting(d, b) == {c \in Retryable(d, b) : ~d.run[c].closed /\ c \notin sending}
Rerun(d, cs) ==
    [d EXCEPT !.run = [c \in Child |->
        IF c \in cs THEN [@[c] EXCEPT !.status = "running"] ELSE @[c]]]
Retry(b) ==
    /\ Retryable(db, b) # {}
    /\ Decides(b, "retry_child", Rerun(db, Accepting(db, b)), "waiting", "retry_child")
    /\ sending' = sending \cup Accepting(db, b)

\* cancel_parent cancels the children one by one, each after the abort of its thread.
ControlBegins(b) ==
    /\ control = IdleControl
    /\ MayDecide(b, "cancel_parent")
    /\ control' = [barrier |-> b, todo |-> ActiveMembers(db, b)]
    /\ UNCHANGED <<db, parent, cascading, launching, sending, wait, aborting, recorded,
                   asked, crashes>>
ControlNext(c) ==
    /\ c \in control.todo
    /\ control' = [control EXCEPT !.todo = @ \ {c}]
    /\ db' = IF IsActive(db, c) THEN MarkSpent(db, c, "cancelled") ELSE db
    /\ UNCHANGED <<parent, cascading, launching, sending, wait, aborting, recorded,
                   asked, crashes>>
ControlEnds ==
    LET b == control.barrier
    IN  /\ b # NoBarrier /\ control.todo = {}
        /\ control' = IdleControl
        /\ db' = Settle(db, b, "cancelled", "child_cancelled")
        /\ recorded' = recorded \cup {<<b, "cancel_parent">>}
        /\ UNCHANGED <<parent, cascading, launching, sending, wait, aborting, asked, crashes>>

-------------------------------------------------------------------------------
(* The end of the parent (agentRuntimeFinalizationCoordinator.ts).           *)

\* reconcileParentRunWaitBarriersForFinalization resolves the waiting barriers of
\* every child that has ended in a binding one; lead says which child's evidence each
\* of them gets.  A throw leaves the later ones as they are.
Ended(d) ==
    {c \in Child : IsTerminal(d, c) /\ \E b \in Pending(d, c) : d.barrier[b].binding}
Due(d) == {b \in Barrier : \E c \in Ended(d) : b \in Pending(d, c)}
Leads(d) == {lead \in [Due(d) -> Ended(d)] : \A b \in Due(d) : b \in Pending(d, lead[b])}
Reconciled(d, lead, bs) ==
    [d EXCEPT !.barrier = [b \in Barrier |->
        IF b \in bs THEN Resolve(d, b, TerminalEvidence(d, lead[b])).barrier[b] ELSE @[b]]]

\* Fault: only the barriers that still wait hold the answer back.
BlockedWhileWaiting(d) ==
    \E b \in Barrier : d.barrier[b].binding /\ d.barrier[b].status = "waiting"

\* Fault: a barrier that still waits is left to the calls of wait_agent.
BlockedByFailure(d) ==
    \E b \in Barrier : /\ d.barrier[b].binding
                      /\ d.barrier[b].status \in ResolvedStatus \ {"satisfied"}

\* subagentFinalizationBarrierBlock
Blocked(d) ==
    \E b \in Barrier : d.barrier[b].binding /\ d.barrier[b].status # "satisfied"

ParentFinalizes ==
    /\ ParentActs
    /\ \E lead \in Leads(db) :
         LET bad == {b \in Due(db) : Throws(db, b, TerminalEvidence(db, lead[b]))}
         IN  \E bs \in IF bad = {} THEN {Due(db)} ELSE SUBSET (Due(db) \ bad) :
               /\ db' = Reconciled(db, lead, bs)
               /\ parent' = IF bad # {} \/ Blocked(db') THEN "error" ELSE "done"
    /\ UNCHANGED <<cascading, launching, sending, wait, aborting, control, recorded,
                   asked, crashes>>

-------------------------------------------------------------------------------
\* The application goes down with everything that is not in the store, where the
\* parent reads as running until its cascade is about to be written.
Restart ==
    /\ crashes < MaxCrashes
    /\ \E fresh \in [FreshRows(db) -> Unguarded(db)] :
         /\ \A c \in Unguarded(db) : \E b \in FreshRows(db) : fresh[b] = c
         /\ db' = Reconcile(db, fresh)
    /\ parent' = IF parent = "running" \/ cascading THEN "interrupted" ELSE parent
    /\ cascading' = FALSE
    /\ launching' = {} /\ sending' = {} /\ aborting' = {}
    /\ wait' = IdleWait /\ control' = IdleControl
    /\ crashes' = crashes + 1
    /\ UNCHANGED <<recorded, asked>>

SpawnStep == \E c \in Child : Spawn(c) \/ Launch(c) \/ LaunchBlocked(c)
SessionStep ==
    \E c \in Child : SendThrows(c) \/ TurnEnds(c) \/ Followup(c) \/ Approve(c) \/ Close(c)
WaitStep ==
    WaitBegins \/ WaitExpires \/ WaitAsks \/ WaitTimesOut \/ WaitExhausted
DecisionStep ==
    \E b \in Barrier : Continue(b) \/ Fail(b) \/ Detach(b) \/ Retry(b) \/ ControlBegins(b)
CallStep == \E c \in Child : CancelBegins(c) \/ StopBegins(c)

\* What follows at once on a promise that has resolved.
Continuation ==
    \/ WaitResumes \/ WaitAborted
    \/ \E c \in Child : CancelEnds(c) \/ StopEnds(c) \/ ControlNext(c)
    \/ ControlEnds \/ CascadeRuns

\* The event loop continues a wait whose child has ended before it takes up anything new.
Next ==
    \/ Continuation
    \/ Resumed /\ WaitExhausted
    \/ /\ ~Resumed
       /\ SpawnStep \/ SessionStep \/ WaitStep \/ DecisionStep \/ CallStep
          \/ ParentStop \/ ParentFinalizes
    \/ Restart

\* Timers expire and an abort comes back; nothing is assumed of the agents, of the user
\* or of the parent's model.
Fairness ==
    /\ WF_vars(WaitResumes) /\ WF_vars(WaitExpires) /\ WF_vars(WaitAborted)
    /\ \A c \in Child :
         WF_vars(CancelEnds(c)) /\ WF_vars(StopEnds(c)) /\ WF_vars(ControlNext(c))
    /\ WF_vars(ControlEnds) /\ WF_vars(CascadeRuns)

Spec == Init /\ [][Next]_vars /\ Fairness

-------------------------------------------------------------------------------
(* Properties.                                                               *)

\* Every row and every call in flight is well formed.
TypeOK ==
    /\ db \in Database
    /\ parent \in ParentStatus
    /\ cascading \in BOOLEAN
    /\ launching \subseteq Child /\ sending \subseteq Child
    /\ wait \in WaitCall
    /\ aborting \subseteq {"cancel", "stop"} \X Child
    /\ control \in ControlCall
    /\ recorded \subseteq Barrier \X DecisionKind
    /\ asked \subseteq Child
    /\ crashes \in 0..MaxCrashes

\* A child reported as running has a session that will write its end: whatever stops,
\* times out, retries or closes it, no row keeps saying "running" by itself.
RunningIsExecuting == \A c \in Child : db.run[c].status = "running" => c \in sending

\* What was cancelled stays cancelled: a late result, a timeout, a throw or a restart
\* never turns a cancelled child into anything else; only a retry that starts it, or
\* the failure of its own launch, does.
CancelledStaysCancelled ==
    [][\A c \in Child :
         (db.run[c].status = "cancelled" /\ db'.run[c].status # "cancelled")
            => \/ db'.run[c].status = "running" /\ c \in sending' \ sending
               \/ db'.run[c].status = "failed" /\ c \in launching \ launching']_vars

\* The gate of the final answer: the parent ends well only when every binding barrier
\* has the usable results it asked for, or the user chose to go on without.
AnswersOnResults ==
    [][(parent # "done" /\ parent' = "done") =>
         \A b \in Barrier : db'.barrier[b].binding =>
             \/ Deliverable(db', b)
             \/ db'.barrier[b].kind = "explicit_partial"]_vars

\* Nor does it end well while a required child is still at work, unless that child is in
\* a barrier that binds the parent, and all such barriers of it are satisfied.
BindingOf(d, c) == {b \in BarriersOf(d, c) : d.barrier[b].binding}
NoAnswerOverRequired ==
    [][(parent # "done" /\ parent' = "done") =>
         \A c \in Required : IsActive(db', c) =>
             /\ BindingOf(db', c) # {}
             /\ \A b \in BindingOf(db', c) : db'.barrier[b].status = "satisfied"]_vars

\* A call of wait_agent comes back, however its child ends or if it does not.
WaitComesBack == wait.pc # "idle" ~> wait.pc = "idle"

\* A barrier that the children satisfy has the usable results in the rows of the store.
SatisfiedByResults ==
    [][\A b \in Barrier :
         (db.barrier[b].status = "waiting" /\ db'.barrier[b].status = "satisfied"
            /\ db'.barrier[b].kind = "child_terminal") => Deliverable(db', b)]_vars

-------------------------------------------------------------------------------
\* The barriers of the store implement what a wait barrier promises.
AskedOf(row) == [of |-> row.members, results |-> row.need]
BecomeOf(row) ==
    IF row.status = "absent" THEN "unused"
    ELSE IF row.status = "waiting" THEN "waiting"
    ELSE IF row.status = "satisfied" THEN "met"
    ELSE "given_up"
Asked == [b \in Barrier |-> AskedOf(db.barrier[b])]
Become == [b \in Barrier |-> BecomeOf(db.barrier[b])]
Usable == {c \in Child : db.run[c].safe}
AtWork == {c \in Child : IsActive(db, c)}
Watched == IF wait.pc = "idle" THEN {} ELSE {wait.barrier}

Promise == INSTANCE WaitBarriers WITH
    Worker <- Child, Gate <- Barrier, asks <- Asked, outcome <- Become,
    usable <- Usable, atWork <- AtWork, watched <- Watched
KeepsPromise == Promise!GateSpec
===============================================================================
