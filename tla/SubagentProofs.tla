---------------------------- MODULE SubagentProofs ----------------------------
(***************************************************************************)
(* What no interleaving of sessions, waits, stops, decisions and restarts  *)
(* can do to the rows of SubagentRuns, for every value of the constants.   *)
(*                                                                         *)
(* A. Types: each store operation has a lemma; the proof has one lemma per *)
(*    group of actions, with one step per action.                          *)
(* B. The status of a child: one lemma says how a step may move it; the    *)
(*    theorems about sessions and cancellation follow.                     *)
(* C. The gate of the final answer: the parent never ends well over a      *)
(*    required child that is still at work behind a barrier that is open   *)
(*    or failed, or behind none.  The invariant says that such a child is  *)
(*    in a barrier as soon as its spawn is over, and that its barriers     *)
(*    bind the parent; it rests on what a step leaves alone of a barrier.  *)
(***************************************************************************)
EXTENDS SubagentRuns, TLAPS

(***************************************************************************)
(* Types of the store operations.                                          *)
(***************************************************************************)

LEMMA EmptyDatabaseType == EmptyDatabase \in Database
  BY DEF EmptyDatabase, AbsentBarrier, Database, RunRow, BarrierRow, Evidence

LEMMA MarkType ==
  ASSUME NEW d \in Database, NEW c \in Child,
         NEW s \in ActiveStatus \cup TerminalStatus
  PROVE  Mark(d, c, s) \in Database
  BY DEF Mark, Database, RunRow

LEMMA MarkResultType ==
  ASSUME NEW d \in Database, NEW c \in Child,
         NEW s \in ActiveStatus \cup TerminalStatus, NEW safe \in BOOLEAN
  PROVE  MarkResult(d, c, s, safe) \in Database
<1> DEFINE row == [d.run[c] EXCEPT !.status = s, !.safe = safe]
<1>1. row \in RunRow
  BY DEF Database, RunRow
<1> HIDE DEF row
<1>2. [d EXCEPT !.run[c] = row] \in Database
  BY <1>1 DEF Database
<1>3. QED
  BY <1>2 DEF MarkResult, row

LEMMA MarkSpentType ==
  ASSUME NEW d \in Database, NEW c \in Child,
         NEW s \in ActiveStatus \cup TerminalStatus
  PROVE  MarkSpent(d, c, s) \in Database
  BY MarkResultType DEF MarkSpent

LEMMA OutcomeType ==
  ASSUME NEW d, NEW b, NEW kind
  PROVE  Outcome(d, b, kind) \in ResolvedStatus \cup {"waiting"}
  BY DEF Outcome, ResolvedStatus

LEMMA SettleType ==
  ASSUME NEW d \in Database, NEW b \in Barrier, NEW kind \in Evidence,
         NEW s \in ResolvedStatus \cup {"waiting"}
  PROVE  Settle(d, b, s, kind) \in Database
<1> DEFINE row == [d.barrier[b] EXCEPT !.status = s, !.kind = kind]
<1>1. row \in BarrierRow
  BY DEF Database, BarrierRow
<1> HIDE DEF row
<1>2. [d EXCEPT !.barrier[b] = row] \in Database
  BY <1>1 DEF Database
<1>3. QED
  BY <1>2 DEF Settle, row

LEMMA ResolveType ==
  ASSUME NEW d \in Database, NEW b \in Barrier, NEW kind \in Evidence
  PROVE  Resolve(d, b, kind) \in Database
  BY OutcomeType, SettleType DEF Resolve

LEMMA ResolveActiveType ==
  ASSUME NEW d \in Database, NEW c \in Child, NEW kind \in Evidence
  PROVE  ResolveActive(d, c, kind) \in Database
<1> DEFINE row(b) == IF b \in ResolvedBy(d, c, kind)
                     THEN [d.barrier[b] EXCEPT !.status = Outcome(d, b, kind),
                                               !.kind = kind]
                     ELSE d.barrier[b]
<1>1. ASSUME NEW b \in Barrier
      PROVE  row(b) \in BarrierRow
  BY OutcomeType DEF Database, BarrierRow
<1>2. [d EXCEPT !.barrier = [b \in Barrier |-> row(b)]] \in Database
  BY <1>1 DEF Database
<1>3. ResolveActive(d, c, kind) = [d EXCEPT !.barrier = [b \in Barrier |-> row(b)]]
  BY DEF ResolveActive
<1>4. QED
  BY <1>2, <1>3

LEMMA CreateBarrierType ==
  ASSUME NEW d \in Database, NEW b \in Barrier, NEW m \in SUBSET Child,
         NEW n \in Nat, NEW binding \in BOOLEAN
  PROVE  CreateBarrier(d, b, m, n, binding) \in Database
  BY DEF CreateBarrier, Database, BarrierRow, Evidence

LEMMA NextRowType ==
  ASSUME NEW d, NEW b \in NextRow(d)
  PROVE  b \in Barrier
  BY DEF NextRow, Earliest

LEMMA CascadeType ==
  ASSUME NEW d \in Database
  PROVE  Cascade(d) \in Database
<1> DEFINE run(c) == IF ~IsActive(d, c) THEN d.run[c]
                     ELSE [d.run[c] EXCEPT !.safe = FALSE,
                             !.status = IF c \in Required THEN "cancelled" ELSE "detached"]
           row(b) == IF d.barrier[b].status # "waiting" THEN d.barrier[b]
                     ELSE [d.barrier[b] EXCEPT !.status = "cancelled",
                                               !.kind = "parent_stopped"]
<1>1. ASSUME NEW c \in Child
      PROVE  run(c) \in RunRow
  <2>1. ASSUME NEW r \in RunRow, NEW s \in TerminalStatus
        PROVE  [r EXCEPT !.safe = FALSE, !.status = s] \in RunRow
    BY DEF RunRow
  <2>2. d.run[c] \in RunRow
    BY DEF Database
  <2>3. "cancelled" \in TerminalStatus /\ "detached" \in TerminalStatus
    BY DEF TerminalStatus
  <2>4. QED
    BY <2>1, <2>2, <2>3
<1>2. ASSUME NEW b \in Barrier
      PROVE  row(b) \in BarrierRow
  <2>1. d.barrier[b] \in BarrierRow
    BY DEF Database
  <2>2. "cancelled" \in ResolvedStatus /\ "parent_stopped" \in Evidence
    BY DEF ResolvedStatus, Evidence
  <2>3. ASSUME NEW x \in BarrierRow
        PROVE  [x EXCEPT !.status = "cancelled", !.kind = "parent_stopped"] \in BarrierRow
    BY <2>2 DEF BarrierRow
  <2>4. QED
    BY <2>1, <2>3
<1>3. Cascade(d) = [run |-> [c \in Child |-> run(c)], barrier |-> [b \in Barrier |-> row(b)]]
  BY DEF Cascade
<1> HIDE DEF run, row
<1>4. QED
  BY <1>1, <1>2, <1>3 DEF Database

LEMMA ReconcileType ==
  ASSUME NEW d \in Database, NEW fresh \in [FreshRows(d) -> Unguarded(d)]
  PROVE  Reconcile(d, fresh) \in Database
<1> DEFINE run(c) == IF c \notin Interrupted(d) THEN d.run[c]
                     ELSE [d.run[c] EXCEPT !.status = "needs_attention"]
           row(b) == IF b \notin DOMAIN fresh THEN d.barrier[b]
                     ELSE [status |-> "waiting", members |-> {fresh[b]}, need |-> 1,
                           binding |-> TRUE, kind |-> "none"]
<1>1. ASSUME NEW c \in Child
      PROVE  run(c) \in RunRow
  BY DEF Database, RunRow, ActiveStatus
<1>2. ASSUME NEW b \in Barrier
      PROVE  row(b) \in BarrierRow
  <2>1. CASE b \in DOMAIN fresh
    <3>1. fresh[b] \in Child
      BY <2>1 DEF Unguarded, Interrupted
    <3>2. QED
      BY <2>1, <3>1 DEF BarrierRow, Evidence
  <2>2. CASE b \notin DOMAIN fresh
    BY <2>2 DEF Database
  <2>3. QED
    BY <2>1, <2>2
<1>3. QED
  BY <1>1, <1>2 DEF Reconcile, Database

LEMMA DetachedType ==
  ASSUME NEW d \in Database, NEW cs
  PROVE  Detached(d, cs) \in Database
<1> DEFINE run(c) == IF c \in cs THEN [d.run[c] EXCEPT !.status = "detached", !.safe = FALSE]
                     ELSE d.run[c]
<1>1. ASSUME NEW c \in Child
      PROVE  run(c) \in RunRow
  <2>1. ASSUME NEW row \in RunRow
        PROVE  [row EXCEPT !.status = "detached", !.safe = FALSE] \in RunRow
    BY DEF RunRow, TerminalStatus
  <2>2. d.run[c] \in RunRow
    BY DEF Database
  <2>3. QED
    BY <2>1, <2>2
<1>2. [d EXCEPT !.run = [c \in Child |-> run(c)]] \in Database
  BY <1>1 DEF Database
<1>3. Detached(d, cs) = [d EXCEPT !.run = [c \in Child |-> run(c)]]
  BY DEF Detached
<1>4. QED
  BY <1>2, <1>3

LEMMA RerunType ==
  ASSUME NEW d \in Database, NEW cs
  PROVE  Rerun(d, cs) \in Database
<1> DEFINE run(c) == IF c \in cs THEN [d.run[c] EXCEPT !.status = "running"] ELSE d.run[c]
<1>1. ASSUME NEW c \in Child
      PROVE  run(c) \in RunRow
  BY DEF Database, RunRow, ActiveStatus
<1>2. [d EXCEPT !.run = [c \in Child |-> run(c)]] \in Database
  BY <1>1 DEF Database
<1>3. Rerun(d, cs) = [d EXCEPT !.run = [c \in Child |-> run(c)]]
  BY DEF Rerun
<1>4. QED
  BY <1>2, <1>3

LEMMA ReconciledType ==
  ASSUME NEW d \in Database, NEW lead, NEW bs
  PROVE  Reconciled(d, lead, bs) \in Database
<1> DEFINE row(b) == IF b \in bs
                     THEN Resolve(d, b, TerminalEvidence(d, lead[b])).barrier[b]
                     ELSE d.barrier[b]
<1>1. ASSUME NEW b \in Barrier
      PROVE  row(b) \in BarrierRow
  <2>1. TerminalEvidence(d, lead[b]) \in Evidence
    BY DEF TerminalEvidence, Evidence
  <2>2. Resolve(d, b, TerminalEvidence(d, lead[b])) \in Database
    BY <2>1, ResolveType
  <2>3. QED
    BY <2>2 DEF Database
<1>2. [d EXCEPT !.barrier = [b \in Barrier |-> row(b)]] \in Database
  BY <1>1 DEF Database
<1>3. Reconciled(d, lead, bs) = [d EXCEPT !.barrier = [b \in Barrier |-> row(b)]]
  BY DEF Reconciled
<1>4. QED
  BY <1>2, <1>3

LEMMA FailedType ==
  ASSUME NEW d \in Database, NEW c \in Child
  PROVE  Failed(d, c) \in Database
  BY MarkSpentType DEF Failed, TerminalStatus

LEMMA StopChildType ==
  ASSUME NEW d \in Database, NEW c \in Child
  PROVE  StopChild(d, c) \in Database
<1>1. MarkSpent(d, c, "cancelled") \in Database
  BY MarkSpentType DEF TerminalStatus
<1>2. QED
  BY <1>1, ResolveActiveType DEF StopChild, Evidence

(***************************************************************************)
(* Types of the actions.                                                   *)
(***************************************************************************)

LEMMA IdleType == IdleWait \in WaitCall /\ IdleControl \in ControlCall
  BY DEF IdleWait, WaitCall, IdleControl, ControlCall

LEMMA TypeInit == Init => TypeOK
<1> SUFFICES ASSUME Init
             PROVE  TypeOK
  OBVIOUS
<1>1. db \in Database /\ wait \in WaitCall /\ control \in ControlCall
  BY EmptyDatabaseType, IdleType DEF Init
<1>2. parent \in ParentStatus /\ cascading \in BOOLEAN
  BY DEF Init, ParentStatus
<1>3. crashes \in 0..MaxCrashes
  BY SubagentRunsAssumption DEF Init
<1>4. QED
  BY <1>1, <1>2, <1>3 DEF Init, TypeOK

LEMMA SpawnType ==
  ASSUME TypeOK, SpawnStep
  PROVE  TypeOK'
<1> PICK c \in Child : Spawn(c) \/ Launch(c) \/ LaunchBlocked(c)
  BY DEF SpawnStep
<1>1. CASE Spawn(c)
  BY <1>1, MarkType DEF TypeOK, Spawn, ActiveStatus
<1>2. CASE Launch(c)
  <2>1. ASSUME NEW d \in Guards(c)
        PROVE  d \in Database
    BY NextRowType, CreateBarrierType DEF Guards, TypeOK
  <2>2. PICK d \in (IF c \in Required THEN Guards(c) ELSE {db}) :
           db' = d \/ db' = Mark(d, c, "running")
    BY <1>2 DEF Launch
  <2>3. d \in Database
    BY <2>1, <2>2 DEF TypeOK
  <2>4. db' \in Database
    BY <2>2, <2>3, MarkType DEF ActiveStatus
  <2>5. QED
    BY <1>2, <2>4 DEF TypeOK, Launch
<1>3. CASE LaunchBlocked(c)
  BY <1>3, MarkSpentType DEF TypeOK, LaunchBlocked, TerminalStatus
<1>4. QED
  BY <1>1, <1>2, <1>3

LEMMA EndsWithType ==
  ASSUME TypeOK, NEW c \in Child, NEW d \in Database, EndsWith(c, d)
  PROVE  TypeOK'
  BY DEF TypeOK, EndsWith

LEMMA TurnEndsType ==
  ASSUME TypeOK, NEW c \in Child, TurnEnds(c)
  PROVE  TypeOK'
<1>1. CASE TurnDropped(c)
  BY <1>1, EndsWithType DEF TurnDropped, TypeOK
<1>2. CASE TurnNeedsAttention(c)
  BY <1>2, EndsWithType, MarkType DEF TurnNeedsAttention, TypeOK, ActiveStatus
<1>3. ASSUME NEW s \in TerminalStatus, NEW safe \in BOOLEAN, TurnResult(c, s, safe)
      PROVE  TypeOK'
  <2> DEFINE result   == MarkResult(db, c, s, safe)
             resolved == ResolveActive(result, c, "child_terminal")
  <2>1. result \in Database
    BY MarkResultType DEF TypeOK
  <2>2. resolved \in Database
    BY <2>1, ResolveActiveType DEF Evidence
  <2>3. Failed(resolved, c) \in Database
    BY <2>2, FailedType
  <2>4. EndsWith(c, resolved) \/ EndsWith(c, Failed(resolved, c))
    BY <1>3 DEF TurnResult
  <2> HIDE DEF result, resolved
  <2>5. QED
    BY <2>2, <2>3, <2>4, EndsWithType
<1>4. QED
  BY <1>1, <1>2, <1>3 DEF TurnEnds, TerminalStatus

LEMMA SessionType ==
  ASSUME TypeOK, SessionStep
  PROVE  TypeOK'
<1> PICK c \in Child :
       SendThrows(c) \/ TurnEnds(c) \/ Followup(c) \/ Approve(c) \/ Close(c)
  BY DEF SessionStep
<1>1. CASE SendThrows(c)
  BY <1>1, FailedType, EndsWithType DEF SendThrows, TypeOK
<1>2. CASE TurnEnds(c)
  BY <1>2, TurnEndsType
<1>3. CASE Followup(c)
  BY <1>3, MarkType DEF TypeOK, Followup, ActiveStatus
<1>4. CASE Approve(c)
  BY <1>4, MarkType DEF TypeOK, Approve, ActiveStatus
<1>5. CASE Close(c)
  <2>1. [db.run[c] EXCEPT !.closed = TRUE] \in RunRow
    BY DEF TypeOK, Database, RunRow
  <2>2. db' = [db EXCEPT !.run = [db.run EXCEPT ![c] = [db.run[c] EXCEPT !.closed = TRUE]]]
    BY <1>5 DEF Close, TypeOK, Database
  <2>3. db' \in Database
    BY <2>1, <2>2 DEF TypeOK, Database
  <2>4. QED
    BY <1>5, <2>3 DEF TypeOK, Close
<1>6. QED
  BY <1>1, <1>2, <1>3, <1>4, <1>5

\* What one call of executeSubagentWaitAgent does, from a database d that may already
\* hold a new barrier.
LEMMA WaitOnType ==
  ASSUME TypeOK, NEW d \in Database, NEW b \in Barrier, NEW c \in Child, WaitOn(d, b, c)
  PROVE  db' \in Database /\ wait' \in WaitCall
<1> DEFINE left == IF IsTerminal(d, c) THEN ActiveMembers(d, b) ELSE {c}
<1>1. left \subseteq Child
  BY DEF ActiveMembers, Database, BarrierRow
<1>2. Resolve(d, b, "child_terminal") \in Database
  BY ResolveType DEF Evidence
<1> HIDE DEF left
<1>3. ASSUME NEW w \in left
      PROVE  [pc |-> "waiting", barrier |-> b, child |-> w] \in WaitCall
  BY <1>1 DEF WaitCall
<1>4. CASE db' = d /\ wait' = wait
  BY <1>4 DEF TypeOK
<1>5. CASE db' = Resolve(d, b, "child_terminal") /\ wait' = wait
  BY <1>2, <1>5 DEF TypeOK
<1>6. CASE /\ \E w \in left : wait' = [pc |-> "waiting", barrier |-> b, child |-> w]
           /\ db' = d
  BY <1>3, <1>6
<1>7. QED
  BY <1>4, <1>5, <1>6 DEF WaitOn, left

LEMMA TermsType ==
  \A t \in Terms : /\ t.need \in Quorum \cup {1} /\ t.need \in Nat
                   /\ t.binding \in BOOLEAN
<1>1. ASSUME NEW t \in [need : Quorum, binding : {TRUE}]
      PROVE  t.need \in Quorum /\ t.binding = TRUE
  OBVIOUS
<1>2. ASSUME NEW t \in [need : {1}, binding : {FALSE}]
      PROVE  t.need = 1 /\ t.binding = FALSE
  OBVIOUS
<1>3. \A t \in Terms : t.need \in Quorum \cup {1} /\ t.binding \in BOOLEAN
  BY <1>1, <1>2 DEF Terms
<1>4. \A n \in Quorum \cup {1} : n \in Nat
  BY SubagentRunsAssumption
<1>5. QED
  BY <1>3, <1>4

LEMMA BarrierOfType ==
  /\ \A d, c : BarrierOfRun(d, c) \subseteq Barrier
  /\ \A d, m, t : BarrierOfGroup(d, m, t) \subseteq Barrier
  BY DEF BarrierOfRun, BarriersOf, Pending, BarrierOfGroup, Matching, Earliest, Latest

LEMMA WaitBeginsType ==
  ASSUME TypeOK, WaitBegins
  PROVE  TypeOK'
<1>1. ASSUME NEW b \in NextRow(db), NEW m \in SUBSET Child, NEW n \in Nat,
             NEW binding \in BOOLEAN
      PROVE  b \in Barrier /\ CreateBarrier(db, b, m, n, binding) \in Database
  BY NextRowType, CreateBarrierType DEF TypeOK
<1>2. ASSUME NEW c \in Child, WaitForRun(c)
      PROVE  db' \in Database /\ wait' \in WaitCall
  <2>1. (c \in Required) \in BOOLEAN /\ {c} \in SUBSET Child /\ 1 \in Nat
    OBVIOUS
  <2>2. CASE BarriersOf(db, c) # {}
    BY <1>2, <2>2, BarrierOfType, WaitOnType DEF WaitForRun, TypeOK
  <2>3. CASE BarriersOf(db, c) = {}
    <3>1. PICK b \in NextRow(db) :
             WaitOn(CreateBarrier(db, b, {c}, 1, c \in Required), b, c)
      BY <1>2, <2>3 DEF WaitForRun
    <3>2. b \in Barrier /\ CreateBarrier(db, b, {c}, 1, c \in Required) \in Database
      BY <2>1, <1>1
    <3>3. QED
      BY <3>1, <3>2, WaitOnType
  <2>4. QED
    BY <2>2, <2>3
<1>3. ASSUME NEW m \in Group, NEW t \in Terms, WaitForGroup(m, t)
      PROVE  db' \in Database /\ wait' \in WaitCall
  <2>1. m \in SUBSET Child /\ t.need \in Nat /\ t.binding \in BOOLEAN
    BY SubagentRunsAssumption, TermsType
  <2>2. PICK c \in m :
           IF Matching(db, m, t) # {} THEN \E b \in BarrierOfGroup(db, m, t) : WaitOn(db, b, c)
           ELSE \E b \in NextRow(db) :
                  WaitOn(CreateBarrier(db, b, m, t.need, t.binding), b, c)
    BY <1>3 DEF WaitForGroup
  <2>3. c \in Child
    BY <2>1
  <2>4. CASE Matching(db, m, t) # {}
    BY <2>2, <2>3, <2>4, BarrierOfType, WaitOnType DEF TypeOK
  <2>5. CASE Matching(db, m, t) = {}
    <3>1. PICK b \in NextRow(db) :
             WaitOn(CreateBarrier(db, b, m, t.need, t.binding), b, c)
      BY <2>2, <2>5
    <3>2. b \in Barrier /\ CreateBarrier(db, b, m, t.need, t.binding) \in Database
      BY <2>1, <1>1
    <3>3. QED
      BY <2>3, <3>1, <3>2, WaitOnType
  <2>6. QED
    BY <2>4, <2>5
<1>4. ASSUME NEW b \in Barrier, NEW c \in db.barrier[b].members, WaitOn(db, b, c)
      PROVE  db' \in Database /\ wait' \in WaitCall
  <2>1. c \in Child
    BY DEF TypeOK, Database, BarrierRow
  <2>2. QED
    BY <1>4, <2>1, WaitOnType DEF TypeOK
<1>5. db' \in Database /\ wait' \in WaitCall
  BY <1>2, <1>3, <1>4 DEF WaitBegins
<1>6. QED
  BY <1>5 DEF WaitBegins, TypeOK

LEMMA WaitReturnsType ==
  ASSUME TypeOK, NEW d \in Database, WaitReturns(d)
  PROVE  TypeOK'
  BY IdleType DEF TypeOK, WaitReturns

\* A call that is not idle names a barrier and a child.
LEMMA WaitCallType ==
  ASSUME TypeOK, wait.pc # "idle"
  PROVE  /\ wait.barrier \in Barrier /\ wait.child \in Child
         /\ \A w \in Child : [wait EXCEPT !.child = w] \in WaitCall
         /\ [wait EXCEPT !.pc = "aborting"] \in WaitCall
  BY DEF TypeOK, WaitCall

LEMMA ResumesType ==
  ASSUME TypeOK, WaitResumes
  PROVE  TypeOK'
<1>1. wait.barrier \in Barrier /\ wait.child \in Child
  BY WaitCallType DEF WaitResumes, Resumed
<1>2. Resolve(db, wait.barrier, "child_terminal") \in Database
  BY <1>1, ResolveType DEF TypeOK, Evidence
<1>3. ASSUME WaitReturns(IF IsTerminal(db, wait.child)
                         THEN Resolve(db, wait.barrier, "child_terminal") ELSE db)
      PROVE  TypeOK'
  BY <1>2, <1>3, WaitReturnsType DEF TypeOK
<1>4. ASSUME NEW w \in ActiveMembers(db, wait.barrier), wait' = [wait EXCEPT !.child = w],
             UNCHANGED <<db, parent, cascading, launching, sending, aborting, control,
                         recorded, asked, crashes>>
      PROVE  TypeOK'
  <2>1. w \in Child
    BY <1>1 DEF ActiveMembers, TypeOK, Database, BarrierRow
  <2>2. wait' \in WaitCall
    BY <1>4, <2>1, WaitCallType DEF WaitResumes, Resumed
  <2>3. QED
    BY <1>4, <2>2 DEF TypeOK
<1>5. QED
  BY <1>3, <1>4 DEF WaitResumes

LEMMA TimesOutType ==
  ASSUME TypeOK, WaitTimesOut
  PROVE  TypeOK'
<1> DEFINE c == wait.child
           timedOut == MarkSpent(db, c, "timed_out")
           resolved == ResolveActive(timedOut, c, "child_runtime_timeout")
<1>1. wait.barrier \in Barrier /\ c \in Child
  BY WaitCallType DEF WaitTimesOut
<1>2. timedOut \in Database
  BY <1>1, MarkSpentType DEF TypeOK, TerminalStatus
<1>3. resolved \in Database
  BY <1>1, <1>2, ResolveActiveType DEF Evidence
<1>4. Resolve(db, wait.barrier, "child_runtime_timeout") \in Database
  BY <1>1, ResolveType DEF TypeOK, Evidence
<1>5. CASE WaitReturns(Resolve(db, wait.barrier, "child_runtime_timeout"))
  BY <1>4, <1>5, WaitReturnsType
<1>6. CASE /\ db' = resolved
           /\ wait' \in {IdleWait, [wait EXCEPT !.pc = "aborting"]}
           /\ UNCHANGED <<parent, cascading, launching, sending, aborting, control,
                          recorded, asked, crashes>>
  <2>1. wait' \in WaitCall
    BY <1>6, IdleType, WaitCallType DEF WaitTimesOut
  <2>2. db' \in Database
    BY <1>3, <1>6
  <2>3. QED
    BY <1>6, <2>1, <2>2 DEF TypeOK
<1>7. QED
  BY <1>5, <1>6 DEF WaitTimesOut

LEMMA AbortedType ==
  ASSUME TypeOK, WaitAborted
  PROVE  TypeOK'
<1>1. wait.barrier \in Barrier /\ wait.child \in Child
  BY WaitCallType DEF WaitAborted
<1>2. StopChild(db, wait.child) \in Database
  BY <1>1, StopChildType DEF TypeOK
<1>3. Resolve(StopChild(db, wait.child), wait.barrier, "child_runtime_timeout") \in Database
  BY <1>1, <1>2, ResolveType DEF Evidence
<1>4. QED
  BY <1>3, WaitReturnsType DEF WaitAborted

LEMMA ExhaustedType ==
  ASSUME TypeOK, WaitExhausted
  PROVE  TypeOK'
<1>1. wait.barrier \in Barrier /\ wait.child \in Child
  BY WaitCallType DEF WaitExhausted
<1>2. PICK s \in {"aborted_partial", "failed"}, safe \in BOOLEAN :
         WaitReturns(Resolve(MarkResult(db, wait.child, s, safe), wait.barrier,
                             "child_terminal"))
  BY DEF WaitExhausted
<1>3. MarkResult(db, wait.child, s, safe) \in Database
  BY <1>1, MarkResultType DEF TypeOK, TerminalStatus
<1>4. Resolve(MarkResult(db, wait.child, s, safe), wait.barrier, "child_terminal") \in Database
  BY <1>1, <1>3, ResolveType DEF Evidence
<1>5. QED
  BY <1>2, <1>4, WaitReturnsType

LEMMA WaitType ==
  ASSUME TypeOK, WaitStep
  PROVE  TypeOK'
<1>1. CASE WaitBegins
  BY <1>1, WaitBeginsType
<1>2. CASE WaitExpires
  BY <1>2, WaitReturnsType DEF WaitExpires, TypeOK
<1>3. CASE WaitAsks
  <2>1. wait.child \in Child
    BY <1>3, WaitCallType DEF WaitAsks
  <2>2. Mark(db, wait.child, "needs_attention") \in Database
    BY <2>1, MarkType DEF TypeOK, ActiveStatus
  <2>3. QED
    BY <1>3, <2>2, WaitReturnsType DEF WaitAsks
<1>4. CASE WaitTimesOut
  BY <1>4, TimesOutType
<1>5. CASE WaitExhausted
  BY <1>5, ExhaustedType
<1>6. QED
  BY <1>1, <1>2, <1>3, <1>4, <1>5 DEF WaitStep

LEMMA DecidesType ==
  ASSUME TypeOK, NEW b \in Barrier, NEW k, NEW d \in Database,
         NEW s \in ResolvedStatus \cup {"waiting"}, NEW kind \in Evidence,
         Decides(b, k, d, s, kind)
  PROVE  /\ db' \in Database
         /\ recorded' \subseteq Barrier \X DecisionKind
  BY SettleType, SubagentRunsAssumption DEF TypeOK, Decides, MayDecide

LEMMA DecisionType ==
  ASSUME TypeOK, DecisionStep
  PROVE  TypeOK'
<1> PICK b \in Barrier : Continue(b) \/ Fail(b) \/ Detach(b) \/ Retry(b) \/ ControlBegins(b)
  BY DEF DecisionStep
<1> USE DEF ResolvedStatus, Evidence
<1>1. CASE Continue(b)
  <2>1. db' \in Database /\ recorded' \subseteq Barrier \X DecisionKind
    BY <1>1, DecidesType DEF Continue, TypeOK
  <2>2. QED
    BY <1>1, <2>1 DEF TypeOK, Continue, Decides
<1>2. CASE Fail(b)
  <2>1. db' \in Database /\ recorded' \subseteq Barrier \X DecisionKind
    BY <1>2, DecidesType DEF Fail, TypeOK
  <2>2. QED
    BY <1>2, <2>1 DEF TypeOK, Fail, Decides
<1>3. CASE Detach(b)
  <2>1. Detached(db, ActiveMembers(db, b)) \in Database
    BY DetachedType DEF TypeOK
  <2>2. db' \in Database /\ recorded' \subseteq Barrier \X DecisionKind
    BY <1>3, <2>1, DecidesType DEF Detach
  <2>3. QED
    BY <1>3, <2>2 DEF TypeOK, Detach, Decides
<1>4. CASE Retry(b)
  <2>1. Rerun(db, Accepting(db, b)) \in Database
    BY RerunType DEF TypeOK
  <2>2. db' \in Database /\ recorded' \subseteq Barrier \X DecisionKind
    BY <1>4, <2>1, DecidesType DEF Retry
  <2>3. Accepting(db, b) \subseteq Child
    BY DEF Accepting, Retryable, TypeOK, Database, BarrierRow
  <2>4. QED
    BY <1>4, <2>2, <2>3 DEF TypeOK, Retry, Decides
<1>5. CASE ControlBegins(b)
  <2>1. ActiveMembers(db, b) \subseteq Child
    BY DEF ActiveMembers, TypeOK, Database, BarrierRow
  <2>2. control' \in ControlCall
    BY <1>5, <2>1 DEF ControlBegins, ControlCall
  <2>3. QED
    BY <1>5, <2>2 DEF TypeOK, ControlBegins
<1>6. QED
  BY <1>1, <1>2, <1>3, <1>4, <1>5

LEMMA CallType ==
  ASSUME TypeOK, CallStep
  PROVE  TypeOK'
  BY DEF TypeOK, CallStep, CancelBegins, StopBegins, Awaits

LEMMA ParentType ==
  ASSUME TypeOK, ParentStop \/ ParentFinalizes
  PROVE  TypeOK'
<1>1. CASE ParentStop
  BY <1>1 DEF TypeOK, ParentStop, ParentStatus
<1>2. CASE ParentFinalizes
  <2>1. db' \in Database
    BY <1>2, ReconciledType DEF ParentFinalizes, TypeOK
  <2>2. parent' \in ParentStatus
    BY <1>2 DEF ParentFinalizes, ParentStatus
  <2>3. QED
    BY <1>2, <2>1, <2>2 DEF TypeOK, ParentFinalizes
<1>3. QED
  BY <1>1, <1>2

LEMMA CancelEndsType ==
  ASSUME TypeOK, NEW c \in Child, CancelEnds(c)
  PROVE  TypeOK'
<1> DEFINE marked == IF IsActive(db, c) THEN MarkSpent(db, c, "cancelled") ELSE db
<1>1. marked \in Database
  BY MarkSpentType DEF TypeOK, TerminalStatus
<1>2. ResolveActive(marked, c, "child_cancelled") \in Database
  BY <1>1, ResolveActiveType DEF Evidence
<1>3. db' \in Database /\ asked' \subseteq Child
  BY <1>2 DEF CancelEnds, TypeOK
<1>4. QED
  BY <1>3 DEF TypeOK, CancelEnds

LEMMA ControlType ==
  ASSUME TypeOK, (\E c \in Child : ControlNext(c)) \/ ControlEnds
  PROVE  TypeOK'
<1>1. ASSUME NEW c \in Child, ControlNext(c)
      PROVE  TypeOK'
  <2>1. MarkSpent(db, c, "cancelled") \in Database
    BY MarkSpentType DEF TypeOK, TerminalStatus
  <2>2. control' \in ControlCall
    BY <1>1 DEF ControlNext, TypeOK, ControlCall
  <2>3. QED
    BY <1>1, <2>1, <2>2 DEF TypeOK, ControlNext
<1>2. CASE ControlEnds
  <2>1. control.barrier \in Barrier
    BY <1>2 DEF ControlEnds, TypeOK, ControlCall
  <2>2. Settle(db, control.barrier, "cancelled", "child_cancelled") \in Database
    BY <2>1, SettleType DEF TypeOK, ResolvedStatus, Evidence
  <2>3. <<control.barrier, "cancel_parent">> \in Barrier \X DecisionKind
    BY <2>1 DEF DecisionKind
  <2>4. QED
    BY <1>2, <2>2, <2>3, IdleType DEF TypeOK, ControlEnds
<1>3. QED
  BY <1>1, <1>2

LEMMA ContinuationType ==
  ASSUME TypeOK, Continuation
  PROVE  TypeOK'
<1>1. CASE WaitResumes
  BY <1>1, ResumesType
<1>2. CASE WaitAborted
  BY <1>2, AbortedType
<1>3. ASSUME NEW c \in Child, CancelEnds(c)
      PROVE  TypeOK'
  BY <1>3, CancelEndsType
<1>4. ASSUME NEW c \in Child, StopEnds(c)
      PROVE  TypeOK'
  BY <1>4, StopChildType DEF TypeOK, StopEnds
<1>5. CASE (\E c \in Child : ControlNext(c)) \/ ControlEnds
  BY <1>5, ControlType
<1>6. CASE CascadeRuns
  BY <1>6, CascadeType DEF TypeOK, CascadeRuns
<1>7. QED
  BY <1>1, <1>2, <1>3, <1>4, <1>5, <1>6 DEF Continuation

LEMMA RestartType ==
  ASSUME TypeOK, Restart
  PROVE  TypeOK'
<1>1. db' \in Database
  BY ReconcileType DEF Restart, TypeOK
<1>2. parent' \in ParentStatus
  BY DEF Restart, TypeOK, ParentStatus
<1>3. crashes' \in 0..MaxCrashes
  BY SubagentRunsAssumption DEF Restart, TypeOK
<1>4. QED
  BY <1>1, <1>2, <1>3, IdleType DEF TypeOK, Restart

LEMMA TypeStep == TypeOK /\ [Next]_vars => TypeOK'
<1> SUFFICES ASSUME TypeOK, [Next]_vars
             PROVE  TypeOK'
  OBVIOUS
<1>1. CASE UNCHANGED vars
  BY <1>1 DEF TypeOK, vars
<1>2. CASE Next
  BY <1>2, ContinuationType, ExhaustedType, SpawnType, SessionType, WaitType, DecisionType,
     CallType, ParentType, RestartType DEF Next
<1>3. QED
  BY <1>1, <1>2

\* The rows of the store and every call in flight are well formed, for any number of
\* children and barriers.
THEOREM SubagentTypeCorrect == Spec => []TypeOK
BY TypeInit, TypeStep, PTL DEF Spec

(***************************************************************************)
(* What each store operation leaves alone.                                 *)
(***************************************************************************)

LEMMA MarkRows ==
  ASSUME NEW d \in Database, NEW c \in Child, NEW s
  PROVE  /\ Mark(d, c, s).barrier = d.barrier
         /\ Mark(d, c, s).run[c].status = s
         /\ \A x \in Child \ {c} : Mark(d, c, s).run[x] = d.run[x]
  BY DEF Mark, Database, RunRow

LEMMA MarkResultRows ==
  ASSUME NEW d \in Database, NEW c \in Child, NEW s, NEW safe \in BOOLEAN
  PROVE  /\ MarkResult(d, c, s, safe).barrier = d.barrier
         /\ MarkResult(d, c, s, safe).run[c].status = s
         /\ \A x \in Child \ {c} : MarkResult(d, c, s, safe).run[x] = d.run[x]
  BY DEF MarkResult, Database, RunRow

\* The same for a result that may not be used, which is what most callers write.
LEMMA MarkSpentRows ==
  ASSUME NEW d \in Database, NEW c \in Child, NEW s
  PROVE  /\ MarkSpent(d, c, s).barrier = d.barrier
         /\ MarkSpent(d, c, s).run[c].status = s
         /\ \A x \in Child \ {c} : MarkSpent(d, c, s).run[x] = d.run[x]
  BY DEF MarkSpent, MarkResult, Database, RunRow

LEMMA BarrierWritesKeepRuns ==
  ASSUME NEW d \in Database
  PROVE  /\ \A b, s, kind : Settle(d, b, s, kind).run = d.run
         /\ \A b, kind : Resolve(d, b, kind).run = d.run
         /\ \A c, kind : ResolveActive(d, c, kind).run = d.run
         /\ \A b, m, n, binding : CreateBarrier(d, b, m, n, binding).run = d.run
         /\ \A lead, bs : Reconciled(d, lead, bs).run = d.run
  BY DEF Settle, Resolve, ResolveActive, CreateBarrier, Reconciled, Database

LEMMA RunWritesKeepBarriers ==
  ASSUME NEW d \in Database
  PROVE  /\ \A cs : Detached(d, cs).barrier = d.barrier
         /\ \A cs : Rerun(d, cs).barrier = d.barrier
  BY DEF Detached, Rerun, Database

LEMMA FailedRows ==
  ASSUME NEW d \in Database, NEW c \in Child
  PROVE  /\ Failed(d, c).barrier = d.barrier
         /\ Failed(d, c).run[c].status # "running"
         /\ d.run[c].status = "cancelled" => Failed(d, c).run[c].status = "cancelled"
         /\ \A x \in Child \ {c} : Failed(d, c).run[x] = d.run[x]
  BY MarkSpentRows DEF Failed, Preserved

LEMMA StopChildRows ==
  ASSUME NEW d \in Database, NEW c \in Child
  PROVE  /\ \/ StopChild(d, c).run[c].status = d.run[c].status
            \/ IsActive(d, c) /\ StopChild(d, c).run[c].status = "cancelled"
         /\ \A x \in Child \ {c} : StopChild(d, c).run[x] = d.run[x]
<1>1. MarkSpent(d, c, "cancelled") \in Database
  BY MarkSpentType DEF TerminalStatus
<1>2. QED
  BY <1>1, MarkSpentRows, BarrierWritesKeepRuns DEF StopChild

(***************************************************************************)
(* How a step may move the status of a child: a cancelled one only starts  *)
(* in a session it did not have, or has its launch refused; one that runs  *)
(* keeps its session or stops running; one that has ended does not become  *)
(* active again but in a session.                                          *)
(***************************************************************************)
Unmoved(c) ==
    /\ db'.run[c].status = db.run[c].status
    /\ c \in sending => c \in sending' \/ db.run[c].status # "running"
Started(c) ==
    /\ db'.run[c].status = "running" /\ c \in sending'
    /\ db.run[c].status # "cancelled" \/ c \notin sending
Halted(c) ==
    /\ db'.run[c].status # "running" /\ db.run[c].status # "cancelled"
    /\ db'.run[c].status \in ActiveStatus =>
         IsActive(db, c) \/ c \in sending \/ c \in launching'
Refused(c) == db'.run[c].status = "failed" /\ c \in launching \ launching'
Moves(c) == Unmoved(c) \/ Started(c) \/ Halted(c) \/ Refused(c)

\* A step that leaves the sessions alone and only ends or pauses active children.
LEMMA Halting ==
  ASSUME sending \subseteq sending',
         \A c \in Child : \/ db'.run[c].status = db.run[c].status
                          \/ /\ db'.run[c].status \notin ActiveStatus
                             /\ db.run[c].status # "cancelled"
  PROVE  \A c \in Child : Moves(c)
  BY DEF Moves, Unmoved, Halted, ActiveStatus

LEMMA SpawnMoves ==
  ASSUME TypeOK, SpawnStep
  PROVE  \A c \in Child : Moves(c)
<1> USE DEF Moves, Unmoved, Started, Halted, Refused
<1> PICK x \in Child : Spawn(x) \/ Launch(x) \/ LaunchBlocked(x)
  BY DEF SpawnStep
<1>1. CASE Spawn(x)
  BY <1>1, MarkRows DEF TypeOK, Spawn
<1>2. CASE Launch(x)
  <2>1. PICK d \in (IF x \in Required THEN Guards(x) ELSE {db}) :
           db' = IF IsActive(db, x) /\ ~db.run[x].closed /\ x \notin sending
                 THEN Mark(d, x, "running") ELSE d
    BY <1>2 DEF Launch
  <2>2. d \in Database /\ d.run = db.run
    <3>1. CASE x \in Required
      <4>1. PICK b \in NextRow(db) : d = CreateBarrier(db, b, {x}, 1, TRUE)
        BY <2>1, <3>1 DEF Guards
      <4>2. b \in Barrier /\ {x} \in SUBSET Child /\ 1 \in Nat /\ TRUE \in BOOLEAN
        BY NextRowType
      <4>3. QED
        BY <4>1, <4>2, CreateBarrierType DEF TypeOK, CreateBarrier, Database
    <3>2. CASE x \notin Required
      BY <2>1, <3>2 DEF TypeOK
    <3>3. QED
      BY <3>1, <3>2
  <2>3. QED
    BY <1>2, <2>1, <2>2, MarkRows DEF Launch
<1>3. CASE LaunchBlocked(x)
  BY <1>3, MarkSpentRows DEF TypeOK, LaunchBlocked
<1>4. QED
  BY <1>1, <1>2, <1>3

\* The end of a session: what it writes of its child is not "running", and leaves a
\* cancelled child as it is.
LEMMA EndsMoves ==
  ASSUME TypeOK, NEW x \in Child, NEW d, EndsWith(x, d),
         d.run[x].status # "running",
         \/ db.run[x].status # "cancelled"
         \/ d.run[x].status = "cancelled",
         \A c \in Child \ {x} : d.run[c] = db.run[c]
  PROVE  \A c \in Child : Moves(c)
  BY DEF EndsWith, Moves, Unmoved, Halted

LEMMA TurnEndsMoves ==
  ASSUME TypeOK, NEW x \in Child, TurnEnds(x)
  PROVE  \A c \in Child : Moves(c)
<1>1. CASE TurnDropped(x)
  BY <1>1, EndsMoves DEF TurnDropped
<1>2. CASE TurnNeedsAttention(x)
  BY <1>2, EndsMoves, MarkRows DEF TurnNeedsAttention, TypeOK
<1>3. ASSUME NEW s \in TerminalStatus, NEW safe \in BOOLEAN, TurnResult(x, s, safe)
      PROVE  \A c \in Child : Moves(c)
  <2> DEFINE result   == MarkResult(db, x, s, safe)
             resolved == ResolveActive(result, x, "child_terminal")
  <2>1. result \in Database
    BY MarkResultType DEF TypeOK
  <2>2. resolved \in Database /\ resolved.run = result.run
    BY <2>1, ResolveActiveType, BarrierWritesKeepRuns DEF Evidence
  <2>3. resolved.run[x].status = s /\ s # "running"
    BY <2>2, MarkResultRows DEF TypeOK, TerminalStatus
  <2>4. \A c \in Child \ {x} : resolved.run[c] = db.run[c]
    BY <2>2, MarkResultRows DEF TypeOK
  <2>5. /\ db.run[x].status # "cancelled"
        /\ EndsWith(x, resolved) \/ EndsWith(x, Failed(resolved, x))
    BY <1>3 DEF TurnResult
  <2> HIDE DEF result, resolved
  <2>6. CASE EndsWith(x, resolved)
    BY <2>3, <2>4, <2>5, <2>6, EndsMoves
  <2>7. CASE EndsWith(x, Failed(resolved, x))
    BY <2>2, <2>4, <2>5, <2>7, EndsMoves, FailedRows
  <2>8. QED
    BY <2>5, <2>6, <2>7
<1>4. QED
  BY <1>1, <1>2, <1>3 DEF TurnEnds, TerminalStatus

LEMMA SessionMoves ==
  ASSUME TypeOK, SessionStep
  PROVE  \A c \in Child : Moves(c)
<1> USE DEF Moves, Unmoved, Started, Halted, Refused
<1> PICK x \in Child :
       SendThrows(x) \/ TurnEnds(x) \/ Followup(x) \/ Approve(x) \/ Close(x)
  BY DEF SessionStep
<1>1. CASE SendThrows(x)
  BY <1>1, EndsMoves, FailedRows DEF SendThrows, TypeOK
<1>2. CASE TurnEnds(x)
  BY <1>2, TurnEndsMoves
<1>3. CASE Followup(x)
  BY <1>3, MarkRows DEF TypeOK, Followup
<1>4. CASE Approve(x)
  BY <1>4, MarkRows DEF TypeOK, Approve
<1>5. CASE Close(x)
  BY <1>5 DEF TypeOK, Close, Database, RunRow
<1>6. QED
  BY <1>1, <1>2, <1>3, <1>4, <1>5

\* A wait that returns, or goes on, with the runs as they were but one that was active.
LEMMA OneHalted ==
  ASSUME TypeOK, NEW x \in Child, sending' = sending,
         \/ db'.run[x].status = db.run[x].status
         \/ /\ db'.run[x].status # "running" /\ db.run[x].status # "cancelled"
            /\ IsActive(db, x) \/ db'.run[x].status \notin ActiveStatus,
         \A c \in Child \ {x} : db'.run[c] = db.run[c]
  PROVE  \A c \in Child : Moves(c)
  BY DEF Moves, Unmoved, Halted

LEMMA RunsKept ==
  ASSUME db'.run = db.run, sending' = sending
  PROVE  \A c \in Child : Moves(c)
  BY DEF Moves, Unmoved

LEMMA ActiveStatuses ==
  ASSUME NEW d, NEW c, IsActive(d, c)
  PROVE  d.run[c].status # "cancelled"
  BY DEF IsActive, ActiveStatus

LEMMA WaitOnMoves ==
  ASSUME NEW d \in Database, NEW b, NEW c, WaitOn(d, b, c)
  PROVE  db'.run = d.run
  BY BarrierWritesKeepRuns DEF WaitOn

LEMMA WaitBeginsMoves ==
  ASSUME TypeOK, WaitBegins
  PROVE  \A c \in Child : Moves(c)
<1>1. ASSUME NEW d, NEW b, NEW c, WaitOn(d, b, c),
             d = db \/ \E r, m, n, binding : d = CreateBarrier(db, r, m, n, binding)
      PROVE  db'.run = db.run
  BY <1>1 DEF WaitOn, Resolve, Settle, CreateBarrier, TypeOK, Database
<1>2. db'.run = db.run
  BY <1>1 DEF WaitBegins, WaitForRun, WaitForGroup
<1>3. QED
  BY <1>2, RunsKept DEF WaitBegins

LEMMA ResumesMoves ==
  ASSUME TypeOK, WaitResumes
  PROVE  \A c \in Child : Moves(c)
  BY BarrierWritesKeepRuns, RunsKept DEF WaitResumes, WaitReturns, TypeOK

LEMMA TimesOutMoves ==
  ASSUME TypeOK, WaitTimesOut
  PROVE  \A c \in Child : Moves(c)
<1> DEFINE x == wait.child
           timedOut == MarkSpent(db, x, "timed_out")
           resolved == ResolveActive(timedOut, x, "child_runtime_timeout")
<1>1. x \in Child
  BY WaitCallType DEF WaitTimesOut
<1>2. timedOut \in Database
  BY <1>1, MarkSpentType DEF TypeOK, TerminalStatus
<1>3. resolved.run = timedOut.run
  BY <1>2, BarrierWritesKeepRuns
<1>4. sending' = sending
  BY DEF WaitTimesOut, WaitReturns
<1>5. CASE db' = Resolve(db, wait.barrier, "child_runtime_timeout")
  BY <1>4, <1>5, BarrierWritesKeepRuns, RunsKept DEF TypeOK
<1>6. CASE db' = resolved /\ db.run[x].status \notin TerminalStatus \ {"detached"}
  <2>1. db.run[x].status # "cancelled"
    BY <1>6 DEF TerminalStatus
  <2>2. /\ db'.run[x].status = "timed_out"
        /\ \A c \in Child \ {x} : db'.run[c] = db.run[c]
    BY <1>1, <1>3, <1>6, MarkSpentRows DEF TypeOK
  <2>3. QED
    BY <1>1, <1>4, <2>1, <2>2, OneHalted DEF ActiveStatus
<1>7. QED
  BY <1>5, <1>6 DEF WaitTimesOut, WaitReturns

LEMMA AbortedMoves ==
  ASSUME TypeOK, WaitAborted
  PROVE  \A c \in Child : Moves(c)
<1> DEFINE x == wait.child
           stopped == StopChild(db, x)
<1>1. x \in Child
  BY WaitCallType DEF WaitAborted
<1>2. stopped \in Database
  BY <1>1, StopChildType DEF TypeOK
<1>3. db'.run = stopped.run /\ sending' = sending
  BY <1>2, BarrierWritesKeepRuns DEF WaitAborted, WaitReturns
<1>4. /\ \/ db'.run[x].status = db.run[x].status
         \/ IsActive(db, x) /\ db'.run[x].status = "cancelled"
      /\ \A c \in Child \ {x} : db'.run[c] = db.run[c]
  BY <1>1, <1>3, StopChildRows DEF TypeOK
<1>5. QED
  BY <1>1, <1>3, <1>4, ActiveStatuses, OneHalted

LEMMA ExhaustedMoves ==
  ASSUME TypeOK, WaitExhausted
  PROVE  \A c \in Child : Moves(c)
<1> DEFINE x == wait.child
<1>1. x \in Child
  BY WaitCallType DEF WaitExhausted
<1>2. PICK s \in {"aborted_partial", "failed"}, safe \in BOOLEAN :
         WaitReturns(Resolve(MarkResult(db, x, s, safe), wait.barrier, "child_terminal"))
  BY DEF WaitExhausted
<1>3. MarkResult(db, x, s, safe) \in Database
  BY <1>1, MarkResultType DEF TypeOK, TerminalStatus
<1>4. db'.run = MarkResult(db, x, s, safe).run /\ sending' = sending
  BY <1>2, <1>3, BarrierWritesKeepRuns DEF WaitReturns
<1>5. /\ db'.run[x].status = s
      /\ \A c \in Child \ {x} : db'.run[c] = db.run[c]
  BY <1>1, <1>4, MarkResultRows DEF TypeOK
<1>6. db.run[x].status # "cancelled"
  BY ActiveStatuses DEF WaitExhausted
<1>7. QED
  BY <1>1, <1>4, <1>5, <1>6, OneHalted DEF ActiveStatus

LEMMA WaitMoves ==
  ASSUME TypeOK, WaitStep
  PROVE  \A c \in Child : Moves(c)
<1>1. CASE WaitExpires
  BY <1>1, RunsKept DEF WaitExpires, WaitReturns
<1>2. CASE WaitAsks
  <2>1. wait.child \in Child
    BY <1>2, WaitCallType DEF WaitAsks
  <2>2. /\ db'.run[wait.child].status = "needs_attention"
        /\ \A c \in Child \ {wait.child} : db'.run[c] = db.run[c]
        /\ sending' = sending
    BY <1>2, <2>1, MarkRows DEF WaitAsks, WaitReturns, TypeOK
  <2>3. IsActive(db, wait.child) /\ db.run[wait.child].status # "cancelled"
    BY <1>2, ActiveStatuses DEF WaitAsks
  <2>4. QED
    BY <2>1, <2>2, <2>3, OneHalted
<1>3. QED
  BY <1>1, <1>2, WaitBeginsMoves, TimesOutMoves, ExhaustedMoves DEF WaitStep

LEMMA DecisionMoves ==
  ASSUME TypeOK, DecisionStep
  PROVE  \A c \in Child : Moves(c)
<1> PICK b \in Barrier : Continue(b) \/ Fail(b) \/ Detach(b) \/ Retry(b) \/ ControlBegins(b)
  BY DEF DecisionStep
<1>1. CASE Continue(b) \/ Fail(b) \/ ControlBegins(b)
  <2>1. db'.run = db.run /\ sending' = sending
    BY <1>1, BarrierWritesKeepRuns DEF Continue, Fail, ControlBegins, Decides, TypeOK
  <2>2. QED
    BY <2>1, RunsKept
<1>2. CASE Detach(b)
  <2>1. Detached(db, ActiveMembers(db, b)) \in Database
    BY DetachedType DEF TypeOK
  <2>2. db'.run = Detached(db, ActiveMembers(db, b)).run /\ sending' = sending
    BY <1>2, <2>1, BarrierWritesKeepRuns DEF Detach, Decides
  <2>3. \A c \in Child : \/ db'.run[c].status = db.run[c].status
                         \/ c \in ActiveMembers(db, b) /\ db'.run[c].status = "detached"
    <3>1. ASSUME NEW d \in Database, NEW cs, NEW c \in Child
          PROVE  \/ Detached(d, cs).run[c] = d.run[c]
                 \/ c \in cs /\ Detached(d, cs).run[c].status = "detached"
      BY DEF Detached, Database, RunRow
    <3>2. QED
      BY <2>2, <3>1 DEF TypeOK
  <2>4. QED
    BY <2>2, <2>3, ActiveStatuses, Halting DEF ActiveMembers, ActiveStatus
<1>3. CASE Retry(b)
  <2>1. Rerun(db, Accepting(db, b)) \in Database
    BY RerunType DEF TypeOK
  <2>2. db'.run = Rerun(db, Accepting(db, b)).run
    BY <1>3, <2>1, BarrierWritesKeepRuns DEF Retry, Decides
  <2>3. \A c \in Child : IF c \in Accepting(db, b) THEN db'.run[c].status = "running"
                         ELSE db'.run[c].status = db.run[c].status
    BY <2>2 DEF Rerun, TypeOK, Database, RunRow
  <2>4. sending' = sending \cup Accepting(db, b)
    BY <1>3 DEF Retry
  <2>5. QED
    BY <2>3, <2>4 DEF Moves, Unmoved, Started, Accepting
<1>4. QED
  BY <1>1, <1>2, <1>3

LEMMA ContinuationMoves ==
  ASSUME TypeOK, Continuation
  PROVE  \A c \in Child : Moves(c)
<1>1. ASSUME NEW x \in Child, CancelEnds(x)
      PROVE  \A c \in Child : Moves(c)
  <2> DEFINE marked == IF IsActive(db, x) THEN MarkSpent(db, x, "cancelled") ELSE db
  <2>1. marked \in Database
    BY MarkSpentType DEF TypeOK, TerminalStatus
  <2>2. db'.run = marked.run /\ sending' = sending
    BY <1>1, <2>1, BarrierWritesKeepRuns DEF CancelEnds
  <2>3. /\ \/ db'.run[x].status = db.run[x].status
           \/ IsActive(db, x) /\ db'.run[x].status = "cancelled"
        /\ \A c \in Child \ {x} : db'.run[c] = db.run[c]
    <3>1. CASE IsActive(db, x)
      BY <2>2, <3>1, MarkSpentRows DEF TypeOK
    <3>2. CASE ~IsActive(db, x)
      BY <2>2, <3>2
    <3>3. QED
      BY <3>1, <3>2
  <2>4. QED
    BY <2>2, <2>3, ActiveStatuses, OneHalted
<1>2. ASSUME NEW x \in Child, StopEnds(x)
      PROVE  \A c \in Child : Moves(c)
  BY <1>2, StopChildRows, ActiveStatuses, OneHalted DEF StopEnds, TypeOK
<1>3. ASSUME NEW x \in Child, ControlNext(x)
      PROVE  \A c \in Child : Moves(c)
  BY <1>3, MarkSpentRows, ActiveStatuses, OneHalted DEF ControlNext, TypeOK
<1>4. CASE ControlEnds
  BY <1>4, BarrierWritesKeepRuns, RunsKept DEF ControlEnds, TypeOK
<1>5. CASE CascadeRuns
  <2>1. \A c \in Child : \/ db'.run[c].status = db.run[c].status
                         \/ IsActive(db, c) /\ db'.run[c].status \in {"cancelled", "detached"}
    <3>1. ASSUME NEW c \in Child, IsActive(db, c)
          PROVE  Cascade(db).run[c].status \in {"cancelled", "detached"}
      BY <3>1 DEF Cascade, TypeOK, Database, RunRow
    <3>2. ASSUME NEW c \in Child, ~IsActive(db, c)
          PROVE  Cascade(db).run[c] = db.run[c]
      BY <3>2 DEF Cascade
    <3>3. db' = Cascade(db)
      BY <1>5 DEF CascadeRuns
    <3>4. ASSUME NEW c \in Child
          PROVE  \/ db'.run[c].status = db.run[c].status
                 \/ IsActive(db, c) /\ db'.run[c].status \in {"cancelled", "detached"}
      <4>1. CASE IsActive(db, c)
        BY <3>1, <3>3, <4>1
      <4>2. CASE ~IsActive(db, c)
        BY <3>2, <3>3, <4>2
      <4>3. QED
        BY <4>1, <4>2
    <3>5. QED
      BY <3>4
  <2>2. QED
    BY <1>5, <2>1, ActiveStatuses, Halting DEF CascadeRuns, ActiveStatus
<1>6. QED
  BY <1>1, <1>2, <1>3, <1>4, <1>5, ResumesMoves, AbortedMoves DEF Continuation

\* A restart takes the sessions away, and with them every status "running".
LEMMA RestartMoves ==
  ASSUME TypeOK, Restart
  PROVE  \A c \in Child : Moves(c)
<1>1. ASSUME NEW c \in Child, c \in Interrupted(db)
      PROVE  /\ db'.run[c].status = "needs_attention"
             /\ db.run[c].status # "cancelled" /\ IsActive(db, c)
  BY <1>1 DEF Restart, Reconcile, Interrupted, TypeOK, Database, RunRow, IsActive, ActiveStatus
<1>2. ASSUME NEW c \in Child, c \notin Interrupted(db)
      PROVE  db'.run[c] = db.run[c] /\ db.run[c].status # "running"
  BY <1>2 DEF Restart, Reconcile, Interrupted
<1>3. QED
  BY <1>1, <1>2 DEF Moves, Unmoved, Halted

LEMMA StepMoves ==
  ASSUME TypeOK, [Next]_vars
  PROVE  \A c \in Child : Moves(c)
<1>1. CASE UNCHANGED vars
  BY <1>1, RunsKept DEF vars
<1>2. CASE CallStep \/ ParentStop
  BY <1>2, RunsKept DEF CallStep, CancelBegins, StopBegins, Awaits, ParentStop
<1>3. CASE ParentFinalizes
  BY <1>3, BarrierWritesKeepRuns, RunsKept DEF ParentFinalizes, TypeOK
<1>4. QED
  BY <1>1, <1>2, <1>3, SpawnMoves, SessionMoves, WaitMoves, ExhaustedMoves, DecisionMoves,
     ContinuationMoves, RestartMoves DEF Next

(***************************************************************************)
(* The two theorems about runs.                                            *)
(***************************************************************************)

\* A child reported as running has a session that will write its end.
THEOREM RunningExecutes == Spec => []RunningIsExecuting
<1>1. Init => RunningIsExecuting
  BY DEF Init, EmptyDatabase, RunningIsExecuting
<1>2. TypeOK /\ RunningIsExecuting /\ [Next]_vars => RunningIsExecuting'
  BY StepMoves DEF RunningIsExecuting, Moves, Unmoved, Started, Halted, Refused
<1>3. QED
  BY <1>1, <1>2, SubagentTypeCorrect, PTL DEF Spec

\* No late result, timeout, throw, stop or restart turns a cancelled child into anything
\* else: it is started again, or its own launch is refused.
THEOREM CancelledForGood == Spec => CancelledStaysCancelled
<1> DEFINE Stays == \A c \in Child :
         (db.run[c].status = "cancelled" /\ db'.run[c].status # "cancelled")
            => \/ db'.run[c].status = "running" /\ c \in sending' \ sending
               \/ db'.run[c].status = "failed" /\ c \in launching \ launching'
<1>1. TypeOK /\ [Next]_vars => [Stays]_vars
  BY StepMoves DEF Moves, Unmoved, Started, Halted, Refused
<1>2. QED
  BY <1>1, SubagentTypeCorrect, PTL DEF Spec, CancelledStaysCancelled

(***************************************************************************)
(* A barrier keeps its members, the number of results it asks for and      *)
(* whether it binds the parent; it is never forgotten.                     *)
(***************************************************************************)
SameTerms(d, e) ==
    \A b \in Barrier :
        /\ e.barrier[b].members = d.barrier[b].members
        /\ e.barrier[b].need = d.barrier[b].need
        /\ e.barrier[b].binding = d.barrier[b].binding
        /\ e.barrier[b].status = "absent" => d.barrier[b].status = "absent"

\* A new row takes the place of one not used yet.
FreshRow(row) ==
    /\ row.status # "absent"
    /\ row.need \in Quorum \cup {1}
KeepsTerms(d, e) ==
    \A b \in Barrier :
        \/ /\ e.barrier[b].members = d.barrier[b].members
           /\ e.barrier[b].need = d.barrier[b].need
           /\ e.barrier[b].binding = d.barrier[b].binding
           /\ e.barrier[b].status = "absent" => d.barrier[b].status = "absent"
        \/ d.barrier[b].status = "absent" /\ FreshRow(e.barrier[b])

LEMMA SameKeeps ==
  ASSUME NEW d, NEW e, SameTerms(d, e)
  PROVE  KeepsTerms(d, e)
  BY DEF SameTerms, KeepsTerms

LEMMA SameBarriers ==
  ASSUME NEW d, NEW e, e.barrier = d.barrier
  PROVE  SameTerms(d, e)
  BY DEF SameTerms

LEMMA SameThenSame ==
  ASSUME NEW d, NEW e, NEW f, SameTerms(d, e), SameTerms(e, f)
  PROVE  SameTerms(d, f)
  BY DEF SameTerms

LEMMA KeepsThenSame ==
  ASSUME NEW d, NEW e, NEW f, KeepsTerms(d, e), SameTerms(e, f)
  PROVE  KeepsTerms(d, f)
  BY DEF SameTerms, KeepsTerms, FreshRow

LEMMA SettleTerms ==
  ASSUME NEW d \in Database, NEW b \in Barrier, NEW kind \in Evidence,
         NEW s \in ResolvedStatus \cup {"waiting"}
  PROVE  SameTerms(d, Settle(d, b, s, kind))
<1>1. s # "absent"
  BY DEF ResolvedStatus
<1>2. ASSUME NEW a \in Barrier
      PROVE  \/ Settle(d, b, s, kind).barrier[a] = d.barrier[a]
             \/ /\ Settle(d, b, s, kind).barrier[a].members = d.barrier[a].members
                /\ Settle(d, b, s, kind).barrier[a].need = d.barrier[a].need
                /\ Settle(d, b, s, kind).barrier[a].binding = d.barrier[a].binding
                /\ Settle(d, b, s, kind).barrier[a].status = s
  BY DEF Settle, Database, BarrierRow
<1>3. QED
  BY <1>1, <1>2 DEF SameTerms

LEMMA ResolveTerms ==
  ASSUME NEW d \in Database, NEW b \in Barrier, NEW kind \in Evidence
  PROVE  SameTerms(d, Resolve(d, b, kind))
  BY OutcomeType, SettleTerms, SameBarriers DEF Resolve

LEMMA ResolveActiveTerms ==
  ASSUME NEW d \in Database, NEW c \in Child, NEW kind \in Evidence
  PROVE  SameTerms(d, ResolveActive(d, c, kind))
<1> DEFINE row(b) == [d.barrier[b] EXCEPT !.status = Outcome(d, b, kind), !.kind = kind]
<1>1. ASSUME NEW b \in Barrier
      PROVE  /\ row(b).members = d.barrier[b].members /\ row(b).need = d.barrier[b].need
             /\ row(b).binding = d.barrier[b].binding /\ row(b).status # "absent"
  <2>1. Outcome(d, b, kind) \in ResolvedStatus \cup {"waiting"}
    BY OutcomeType
  <2>2. row(b).status = Outcome(d, b, kind)
    BY DEF Database, BarrierRow
  <2>3. QED
    BY <2>1, <2>2 DEF Database, BarrierRow, ResolvedStatus
<1>2. ASSUME NEW b \in Barrier
      PROVE  \/ ResolveActive(d, c, kind).barrier[b] = d.barrier[b]
             \/ ResolveActive(d, c, kind).barrier[b] = row(b)
  BY DEF ResolveActive, Database
<1> HIDE DEF row
<1>3. QED
  BY <1>1, <1>2 DEF SameTerms

LEMMA ReconciledTerms ==
  ASSUME NEW d \in Database, NEW lead, NEW bs
  PROVE  SameTerms(d, Reconciled(d, lead, bs))
<1>1. ASSUME NEW b \in Barrier
      PROVE  SameTerms(d, Resolve(d, b, TerminalEvidence(d, lead[b])))
  BY ResolveTerms DEF TerminalEvidence, Evidence
<1>2. ASSUME NEW b \in Barrier
      PROVE  \/ Reconciled(d, lead, bs).barrier[b] = d.barrier[b]
             \/ Reconciled(d, lead, bs).barrier[b] =
                  Resolve(d, b, TerminalEvidence(d, lead[b])).barrier[b]
  BY DEF Reconciled, Database
<1>3. QED
  BY <1>1, <1>2 DEF SameTerms

LEMMA CascadeTerms ==
  ASSUME NEW d \in Database
  PROVE  SameTerms(d, Cascade(d))
<1>1. ASSUME NEW b \in Barrier
      PROVE  \/ Cascade(d).barrier[b] = d.barrier[b]
             \/ Cascade(d).barrier[b] = [d.barrier[b] EXCEPT !.status = "cancelled",
                                                            !.kind = "parent_stopped"]
  BY DEF Cascade
<1>2. ASSUME NEW b \in Barrier
      PROVE  LET row == [d.barrier[b] EXCEPT !.status = "cancelled", !.kind = "parent_stopped"]
             IN  /\ row.members = d.barrier[b].members /\ row.need = d.barrier[b].need
                 /\ row.binding = d.barrier[b].binding /\ row.status # "absent"
  BY DEF Database, BarrierRow
<1>3. QED
  BY <1>1, <1>2 DEF SameTerms

LEMMA StopChildTerms ==
  ASSUME NEW d \in Database, NEW c \in Child
  PROVE  SameTerms(d, StopChild(d, c))
<1> DEFINE marked == MarkSpent(d, c, "cancelled")
<1>1. marked \in Database /\ marked.barrier = d.barrier
  BY MarkSpentType, MarkSpentRows DEF TerminalStatus
<1>2. SameTerms(marked, ResolveActive(marked, c, "child_cancelled"))
  BY <1>1, ResolveActiveTerms DEF Evidence
<1>3. SameTerms(d, marked) /\ SameTerms(d, d)
  BY <1>1, SameBarriers
<1> HIDE DEF marked
<1>4. SameTerms(d, ResolveActive(marked, c, "child_cancelled"))
  BY <1>2, <1>3, SameThenSame
<1>5. QED
  BY <1>3, <1>4 DEF StopChild, marked

LEMMA CreateBarrierTerms ==
  ASSUME NEW d \in Database, NEW b \in NextRow(d), NEW m \in SUBSET Child,
         NEW n \in Quorum \cup {1}, NEW binding \in BOOLEAN
  PROVE  KeepsTerms(d, CreateBarrier(d, b, m, n, binding))
<1>1. b \in Barrier /\ d.barrier[b].status = "absent"
  BY DEF NextRow, Earliest
<1>2. FreshRow([status |-> "waiting", members |-> m, need |-> n,
                binding |-> binding, kind |-> "none"])
  BY DEF FreshRow
<1>3. QED
  BY <1>1, <1>2 DEF KeepsTerms, CreateBarrier, Database

LEMMA ReconcileTerms ==
  ASSUME NEW d \in Database, NEW fresh \in [FreshRows(d) -> Unguarded(d)]
  PROVE  KeepsTerms(d, Reconcile(d, fresh))
<1>1. ASSUME NEW b \in Barrier, b \in FreshRows(d)
      PROVE  d.barrier[b].status = "absent" /\ FreshRow(Reconcile(d, fresh).barrier[b])
  BY <1>1 DEF FreshRows, Reconcile, FreshRow
<1>2. ASSUME NEW b \in Barrier, b \notin FreshRows(d)
      PROVE  Reconcile(d, fresh).barrier[b] = d.barrier[b]
  BY <1>2 DEF Reconcile
<1>3. QED
  BY <1>1, <1>2 DEF KeepsTerms

(***************************************************************************)
(* Every step keeps the terms of every barrier.                            *)
(***************************************************************************)

LEMMA KeptTerms ==
  ASSUME NEW d, d.barrier = db.barrier, SameTerms(d, db')
  PROVE  KeepsTerms(db, db')
  BY DEF SameTerms, KeepsTerms

LEMMA SpawnTerms ==
  ASSUME TypeOK, SpawnStep
  PROVE  KeepsTerms(db, db')
<1> PICK x \in Child : Spawn(x) \/ Launch(x) \/ LaunchBlocked(x)
  BY DEF SpawnStep
<1>1. CASE Spawn(x) \/ LaunchBlocked(x)
  <2>1. db'.barrier = db.barrier
    BY <1>1, MarkRows, MarkSpentRows DEF Spawn, LaunchBlocked, TypeOK
  <2>2. QED
    BY <2>1, SameBarriers, SameKeeps
<1>2. CASE Launch(x)
  <2>1. PICK d \in (IF x \in Required THEN Guards(x) ELSE {db}) :
           db' = d \/ db' = Mark(d, x, "running")
    BY <1>2 DEF Launch
  <2>2. d \in Database /\ KeepsTerms(db, d)
    <3>1. CASE x \in Required
      <4>1. PICK b \in NextRow(db) : d = CreateBarrier(db, b, {x}, 1, TRUE)
        BY <2>1, <3>1 DEF Guards
      <4>2. b \in Barrier /\ {x} \in SUBSET Child /\ 1 \in Nat /\ TRUE \in BOOLEAN
        BY NextRowType
      <4>3. QED
        BY <4>1, <4>2, CreateBarrierType, CreateBarrierTerms DEF TypeOK
    <3>2. CASE x \notin Required
      BY <2>1, <3>2, SameBarriers, SameKeeps DEF TypeOK
    <3>3. QED
      BY <3>1, <3>2
  <2>3. db'.barrier = d.barrier
    BY <2>1, <2>2, MarkRows
  <2>4. QED
    BY <2>2, <2>3, SameBarriers, KeepsThenSame
<1>3. QED
  BY <1>1, <1>2

LEMMA SessionTerms ==
  ASSUME TypeOK, SessionStep
  PROVE  SameTerms(db, db')
<1> PICK x \in Child :
       SendThrows(x) \/ TurnEnds(x) \/ Followup(x) \/ Approve(x) \/ Close(x)
  BY DEF SessionStep
<1>1. ASSUME NEW s \in TerminalStatus, NEW safe \in BOOLEAN, TurnResult(x, s, safe)
      PROVE  SameTerms(db, db')
  <2> DEFINE result   == MarkResult(db, x, s, safe)
             resolved == ResolveActive(result, x, "child_terminal")
  <2>1. result \in Database /\ result.barrier = db.barrier
    BY MarkResultType, MarkResultRows DEF TypeOK
  <2>2. resolved \in Database /\ SameTerms(result, resolved)
    BY <2>1, ResolveActiveType, ResolveActiveTerms DEF Evidence
  <2>3. db' = resolved \/ db' = Failed(resolved, x)
    BY <1>1 DEF TurnResult, EndsWith
  <2> HIDE DEF result, resolved
  <2>4. db'.barrier = resolved.barrier
    BY <2>2, <2>3, FailedRows
  <2>5. QED
    BY <2>1, <2>2, <2>4 DEF SameTerms
<1>2. CASE SendThrows(x) \/ TurnDropped(x) \/ TurnNeedsAttention(x) \/ Followup(x)
           \/ Approve(x) \/ Close(x)
  <2>1. db'.barrier = db.barrier
    BY <1>2, FailedRows, MarkRows
    DEF SendThrows, TurnDropped, TurnNeedsAttention, EndsWith, Followup, Approve, Close,
        TypeOK, Database
  <2>2. QED
    BY <2>1, SameBarriers
<1>3. QED
  BY <1>1, <1>2 DEF TurnEnds, TerminalStatus

LEMMA WaitOnTerms ==
  ASSUME NEW d \in Database, NEW b \in Barrier, NEW c, WaitOn(d, b, c)
  PROVE  SameTerms(d, db')
  BY ResolveTerms, SameBarriers DEF WaitOn, Evidence

LEMMA WaitBeginsTerms ==
  ASSUME TypeOK, WaitBegins
  PROVE  KeepsTerms(db, db')
<1>1. ASSUME NEW b \in Barrier, NEW c, WaitOn(db, b, c)
      PROVE  KeepsTerms(db, db')
  BY <1>1, WaitOnTerms, SameKeeps DEF TypeOK
<1>2. ASSUME NEW b \in NextRow(db), NEW m \in SUBSET Child, NEW n \in Quorum \cup {1},
             NEW binding \in BOOLEAN, NEW c,
             WaitOn(CreateBarrier(db, b, m, n, binding), b, c)
      PROVE  KeepsTerms(db, db')
  <2> DEFINE d == CreateBarrier(db, b, m, n, binding)
  <2>1. b \in Barrier /\ n \in Nat
    BY NextRowType, SubagentRunsAssumption
  <2>2. d \in Database
    BY <2>1, CreateBarrierType DEF TypeOK
  <2>3. KeepsTerms(db, d)
    BY <2>1, CreateBarrierTerms DEF TypeOK
  <2>4. SameTerms(d, db')
    BY <1>2, <2>1, <2>2, WaitOnTerms
  <2> HIDE DEF d
  <2>5. QED
    BY <2>3, <2>4, KeepsThenSame
<1>3. ASSUME NEW c \in Child, WaitForRun(c)
      PROVE  KeepsTerms(db, db')
  <2>1. CASE BarriersOf(db, c) # {}
    BY <1>1, <1>3, <2>1, BarrierOfType DEF WaitForRun
  <2>2. CASE BarriersOf(db, c) = {}
    <3>1. PICK b \in NextRow(db) :
             WaitOn(CreateBarrier(db, b, {c}, 1, c \in Required), b, c)
      BY <1>3, <2>2 DEF WaitForRun
    <3>2. (c \in Required) \in BOOLEAN /\ {c} \in SUBSET Child
      OBVIOUS
    <3>3. QED
      BY <1>2, <3>1, <3>2
  <2>3. QED
    BY <2>1, <2>2
<1>4. ASSUME NEW m \in Group, NEW t \in Terms, WaitForGroup(m, t)
      PROVE  KeepsTerms(db, db')
  <2>1. m \in SUBSET Child /\ t.need \in Quorum \cup {1} /\ t.binding \in BOOLEAN
    BY SubagentRunsAssumption, TermsType
  <2>2. QED
    BY <1>1, <1>2, <1>4, <2>1, BarrierOfType DEF WaitForGroup
<1>5. QED
  BY <1>1, <1>3, <1>4 DEF WaitBegins

LEMMA TimesOutTerms ==
  ASSUME TypeOK, WaitTimesOut
  PROVE  SameTerms(db, db')
<1> DEFINE x == wait.child
           timedOut == MarkSpent(db, x, "timed_out")
<1>1. wait.barrier \in Barrier /\ x \in Child
  BY WaitCallType DEF WaitTimesOut
<1>2. timedOut \in Database /\ timedOut.barrier = db.barrier
  BY <1>1, MarkSpentType, MarkSpentRows DEF TypeOK, TerminalStatus
<1>3. SameTerms(timedOut, ResolveActive(timedOut, x, "child_runtime_timeout"))
  BY <1>1, <1>2, ResolveActiveTerms DEF Evidence
<1>4. SameTerms(db, Resolve(db, wait.barrier, "child_runtime_timeout"))
  BY <1>1, ResolveTerms DEF TypeOK, Evidence
<1>5. SameTerms(db, timedOut)
  BY <1>2, SameBarriers
<1>6. \/ db' = Resolve(db, wait.barrier, "child_runtime_timeout")
      \/ db' = ResolveActive(timedOut, x, "child_runtime_timeout")
  BY DEF WaitTimesOut, WaitReturns
<1> HIDE DEF timedOut
<1>7. QED
  BY <1>3, <1>4, <1>5, <1>6, SameThenSame

LEMMA ExhaustedTerms ==
  ASSUME TypeOK, WaitExhausted
  PROVE  SameTerms(db, db')
<1>1. wait.barrier \in Barrier /\ wait.child \in Child
  BY WaitCallType DEF WaitExhausted
<1>2. PICK s \in {"aborted_partial", "failed"}, safe \in BOOLEAN :
         db' = Resolve(MarkResult(db, wait.child, s, safe), wait.barrier, "child_terminal")
  BY DEF WaitExhausted, WaitReturns
<1> DEFINE marked == MarkResult(db, wait.child, s, safe)
<1>3. marked \in Database /\ marked.barrier = db.barrier
  <2>1. s \in TerminalStatus
    BY DEF TerminalStatus
  <2>2. marked \in Database
    BY <1>1, <2>1, MarkResultType DEF TypeOK
  <2>3. QED
    BY <2>2 DEF MarkResult, TypeOK, Database
<1>4. SameTerms(db, marked)
  BY <1>3, SameBarriers
<1>5. SameTerms(marked, Resolve(marked, wait.barrier, "child_terminal"))
  BY <1>1, <1>3, ResolveTerms DEF Evidence
<1> HIDE DEF marked
<1>6. QED
  BY <1>2, <1>4, <1>5, SameThenSame DEF marked

LEMMA WaitTerms ==
  ASSUME TypeOK, WaitStep
  PROVE  KeepsTerms(db, db')
<1>1. CASE WaitExpires
  BY <1>1, SameBarriers, SameKeeps DEF WaitExpires, WaitReturns
<1>2. CASE WaitAsks
  <2>1. db'.barrier = db.barrier
    BY <1>2, WaitCallType, MarkRows DEF WaitAsks, WaitReturns, TypeOK
  <2>2. QED
    BY <2>1, SameBarriers, SameKeeps
<1>3. QED
  BY <1>1, <1>2, WaitBeginsTerms, TimesOutTerms, ExhaustedTerms, SameKeeps DEF WaitStep

LEMMA DecisionTerms ==
  ASSUME TypeOK, DecisionStep
  PROVE  SameTerms(db, db')
<1> PICK b \in Barrier : Continue(b) \/ Fail(b) \/ Detach(b) \/ Retry(b) \/ ControlBegins(b)
  BY DEF DecisionStep
<1>1. ASSUME NEW k, NEW d \in Database, NEW s \in ResolvedStatus \cup {"waiting"},
             NEW kind \in Evidence, d.barrier = db.barrier, Decides(b, k, d, s, kind)
      PROVE  SameTerms(db, db')
  <2>1. SameTerms(d, Settle(d, b, s, kind)) /\ SameTerms(db, d)
    BY <1>1, SettleTerms, SameBarriers
  <2>2. db' = Settle(d, b, s, kind)
    BY <1>1 DEF Decides
  <2>3. QED
    BY <2>1, <2>2, SameThenSame
<1> USE DEF ResolvedStatus, Evidence
<1>2. CASE Continue(b)
  BY <1>1, <1>2 DEF Continue, TypeOK
<1>3. CASE Fail(b)
  BY <1>1, <1>3 DEF Fail, TypeOK
<1>4. CASE Detach(b)
  BY <1>1, <1>4, DetachedType, RunWritesKeepBarriers DEF Detach, TypeOK
<1>5. CASE Retry(b)
  BY <1>1, <1>5, RerunType, RunWritesKeepBarriers DEF Retry, TypeOK
<1>6. CASE ControlBegins(b)
  BY <1>6, SameBarriers DEF ControlBegins
<1>7. QED
  BY <1>2, <1>3, <1>4, <1>5, <1>6

LEMMA ContinuationTerms ==
  ASSUME TypeOK, Continuation
  PROVE  SameTerms(db, db')
<1>1. CASE WaitResumes
  <2>1. db' = db \/ db' = Resolve(db, wait.barrier, "child_terminal")
    BY <1>1 DEF WaitResumes, WaitReturns
  <2>2. SameTerms(db, Resolve(db, wait.barrier, "child_terminal"))
    BY <1>1, WaitCallType, ResolveTerms DEF WaitResumes, Resumed, TypeOK, Evidence
  <2>3. QED
    BY <2>1, <2>2, SameBarriers
<1>2. CASE WaitAborted
  <2> DEFINE stopped == StopChild(db, wait.child)
  <2>1. wait.barrier \in Barrier /\ wait.child \in Child
    BY <1>2, WaitCallType DEF WaitAborted
  <2>2. stopped \in Database /\ SameTerms(db, stopped)
    BY <2>1, StopChildType, StopChildTerms DEF TypeOK
  <2>3. SameTerms(stopped, Resolve(stopped, wait.barrier, "child_runtime_timeout"))
    BY <2>1, <2>2, ResolveTerms DEF Evidence
  <2>4. db' = Resolve(stopped, wait.barrier, "child_runtime_timeout")
    BY <1>2 DEF WaitAborted, WaitReturns
  <2> HIDE DEF stopped
  <2>5. QED
    BY <2>2, <2>3, <2>4, SameThenSame
<1>3. ASSUME NEW x \in Child, CancelEnds(x)
      PROVE  SameTerms(db, db')
  <2> DEFINE marked == IF IsActive(db, x) THEN MarkSpent(db, x, "cancelled") ELSE db
  <2>1. marked \in Database /\ marked.barrier = db.barrier
    BY MarkSpentType, MarkSpentRows DEF TypeOK, TerminalStatus
  <2>2. SameTerms(marked, ResolveActive(marked, x, "child_cancelled"))
    BY <2>1, ResolveActiveTerms DEF Evidence
  <2>3. db' = ResolveActive(marked, x, "child_cancelled") /\ SameTerms(db, marked)
    BY <1>3, <2>1, SameBarriers DEF CancelEnds
  <2> HIDE DEF marked
  <2>4. QED
    BY <2>2, <2>3, SameThenSame
<1>4. ASSUME NEW x \in Child, StopEnds(x)
      PROVE  SameTerms(db, db')
  BY <1>4, StopChildTerms DEF StopEnds, TypeOK
<1>5. ASSUME NEW x \in Child, ControlNext(x)
      PROVE  SameTerms(db, db')
  <2>1. db'.barrier = db.barrier
    BY <1>5, MarkSpentRows DEF ControlNext, TypeOK
  <2>2. QED
    BY <2>1, SameBarriers
<1>6. CASE ControlEnds
  <2>1. control.barrier \in Barrier
    BY <1>6 DEF ControlEnds, TypeOK, ControlCall
  <2>2. QED
    BY <1>6, <2>1, SettleTerms DEF ControlEnds, TypeOK, ResolvedStatus, Evidence
<1>7. CASE CascadeRuns
  BY <1>7, CascadeTerms DEF CascadeRuns, TypeOK
<1>8. QED
  BY <1>1, <1>2, <1>3, <1>4, <1>5, <1>6, <1>7 DEF Continuation

LEMMA StepTerms ==
  ASSUME TypeOK, [Next]_vars
  PROVE  KeepsTerms(db, db')
<1>1. CASE UNCHANGED vars \/ CallStep \/ ParentStop
  <2>1. db' = db
    BY <1>1 DEF vars, CallStep, CancelBegins, StopBegins, Awaits, ParentStop
  <2>2. QED
    BY <2>1, SameBarriers, SameKeeps
<1>2. CASE ParentFinalizes
  BY <1>2, ReconciledTerms, SameKeeps DEF ParentFinalizes, TypeOK
<1>3. CASE Restart
  BY <1>3, ReconcileTerms DEF Restart, TypeOK
<1>4. QED
  BY <1>1, <1>2, <1>3, SpawnTerms, SessionTerms, WaitTerms, ExhaustedTerms, DecisionTerms,
     ContinuationTerms, SameKeeps DEF Next

(***************************************************************************)
(* The invariant.                                                          *)
(***************************************************************************)

\* A row not used yet has no members.
UnusedEmpty ==
    \A b \in Barrier : db.barrier[b].status = "absent" => db.barrier[b].members = {}

\* While the parent runs, a required child at work is in a barrier that binds the parent,
\* unless its spawn is not over.
Guarded ==
    parent = "running" =>
        \A c \in Required :
            /\ c \in sending => BindingOf(db, c) # {}
            /\ IsActive(db, c) => c \in launching \/ BindingOf(db, c) # {}

LEMMA UnusedEmptyStep ==
  ASSUME TypeOK, UnusedEmpty, [Next]_vars
  PROVE  UnusedEmpty' /\ \A c \in Child : BindingOf(db, c) \subseteq BindingOf(db', c)
<1>1. KeepsTerms(db, db')
  BY StepTerms
<1>2. UnusedEmpty'
  BY <1>1 DEF KeepsTerms, UnusedEmpty, FreshRow
<1>3. ASSUME NEW c \in Child
      PROVE  BindingOf(db, c) \subseteq BindingOf(db', c)
  BY <1>1 DEF KeepsTerms, UnusedEmpty, BindingOf, BarriersOf
<1>4. QED
  BY <1>2, <1>3

\* What guards a child that gets a session, or whose spawn is over.
LEMMA Guarding ==
  ASSUME TypeOK, UnusedEmpty, Guarded, [Next]_vars, parent' = "running"
  PROVE  /\ parent = "running"
         /\ \A c \in Required :
              /\ c \in sending' \ sending => BindingOf(db', c) # {}
              /\ c \in launching \ launching' => BindingOf(db', c) # {} \/ ~IsActive(db, c)'
<1>1. parent = "running" /\ ~Restart /\ ~ParentStop /\ ~ParentFinalizes
  BY DEF Next, vars, Restart, ParentStop, ParentFinalizes, SpawnStep, Spawn, Launch,
         LaunchBlocked, SessionStep, SendThrows, TurnEnds, TurnDropped, TurnNeedsAttention,
         TurnResult, EndsWith, Followup, Approve, Close, WaitStep, WaitBegins, WaitExpires,
         WaitAsks, WaitTimesOut, WaitExhausted, WaitReturns, DecisionStep, Continue, Fail,
         Detach, Retry, ControlBegins, Decides, CallStep, CancelBegins, StopBegins, Awaits,
         Continuation, WaitResumes, WaitAborted, CancelEnds, StopEnds, ControlNext,
         ControlEnds, CascadeRuns
<1>2. \A c \in Child : BindingOf(db, c) \subseteq BindingOf(db', c)
  BY UnusedEmptyStep
<1>3. CASE SpawnStep
  <2> PICK x \in Child : Spawn(x) \/ Launch(x) \/ LaunchBlocked(x)
    BY <1>3 DEF SpawnStep
  <2>1. CASE Spawn(x)
    BY <1>1, <2>1 DEF Spawn
  <2>2. CASE Launch(x)
    <3>1. ASSUME x \in Required
          PROVE  BindingOf(db', x) # {}
      <4>1. PICK d \in Guards(x) : db' = d \/ db' = Mark(d, x, "running")
        BY <2>2, <3>1 DEF Launch
      <4>2. PICK b \in NextRow(db) : d = CreateBarrier(db, b, {x}, 1, TRUE)
        BY DEF Guards
      <4>3. /\ b \in Barrier /\ d \in Database
            /\ d.barrier[b].members = {x} /\ d.barrier[b].binding
        <5>1. b \in Barrier
          BY NextRowType
        <5>2. d \in Database
          BY <4>2, <5>1, CreateBarrierType DEF TypeOK
        <5>3. QED
          BY <4>2, <5>1, <5>2 DEF CreateBarrier, TypeOK, Database
      <4>4. db'.barrier = d.barrier
        BY <4>1, <4>3, MarkRows
      <4>5. QED
        BY <4>3, <4>4 DEF BindingOf, BarriersOf
    <3>2. QED
      BY <1>1, <2>2, <3>1 DEF Launch
  <2>3. CASE LaunchBlocked(x)
    BY <1>1, <2>3, MarkSpentRows DEF LaunchBlocked, TypeOK, IsActive, ActiveStatus
  <2>4. QED
    BY <2>1, <2>2, <2>3
<1>4. ASSUME NEW x \in Child, Followup(x)
      PROVE  \A c \in Required : /\ c \in sending' \ sending => BindingOf(db', c) # {}
                                /\ launching' = launching
  BY <1>2, <1>4, SubagentAssumption DEF Followup, ParentActs, Guarded
<1>5. ASSUME NEW b \in Barrier, Retry(b)
      PROVE  \A c \in Required : /\ c \in sending' \ sending => BindingOf(db', c) # {}
                                /\ launching' = launching
  BY <1>2, <1>5, SubagentAssumption 
  DEF Retry, Decides, MayDecide, Accepting, Retryable, BindingOf, BarriersOf
<1>6. CASE \/ UNCHANGED vars \/ WaitStep \/ WaitExhausted \/ CallStep \/ Continuation
           \/ SessionStep /\ ~\E x \in Child : Followup(x)
           \/ DecisionStep /\ ~\E b \in Barrier : Retry(b)
  <2>1. sending' \subseteq sending /\ launching' = launching
    BY <1>6
    DEF vars, SessionStep, SendThrows, TurnEnds, TurnDropped, TurnNeedsAttention,
        TurnResult, EndsWith, Approve, Close, WaitStep, WaitBegins, WaitExpires,
        WaitAsks, WaitTimesOut, WaitExhausted, WaitReturns, DecisionStep, Continue, Fail,
        Detach, ControlBegins, Decides, CallStep, CancelBegins, StopBegins, Awaits,
        Continuation, WaitResumes, WaitAborted, CancelEnds, StopEnds, ControlNext,
        ControlEnds, CascadeRuns
  <2>2. QED
    BY <1>1, <2>1
<1>7. QED
  BY <1>1, <1>3, <1>4, <1>5, <1>6 DEF Next, SessionStep, DecisionStep

LEMMA GuardedStep ==
  ASSUME TypeOK, UnusedEmpty, Guarded, [Next]_vars
  PROVE  Guarded'
<1> SUFFICES ASSUME parent' = "running", NEW c \in Required
             PROVE  /\ c \in sending' => BindingOf(db, c)' # {}
                    /\ IsActive(db, c)' => c \in launching' \/ BindingOf(db, c)' # {}
  BY DEF Guarded
<1>1. c \in Child
  BY SubagentAssumption
<1>2. BindingOf(db, c)' = BindingOf(db', c) /\ BindingOf(db, c) \subseteq BindingOf(db', c)
  BY <1>1, UnusedEmptyStep DEF BindingOf, BarriersOf
<1>3. /\ parent = "running"
      /\ c \in sending' \ sending => BindingOf(db', c) # {}
      /\ c \in launching \ launching' => BindingOf(db', c) # {} \/ ~IsActive(db, c)'
  BY Guarding
<1>4. c \in sending' => BindingOf(db', c) # {}
  BY <1>2, <1>3 DEF Guarded
<1>5. Moves(c)
  BY <1>1, StepMoves
<1>6. ASSUME IsActive(db, c)'
      PROVE  c \in launching' \/ BindingOf(db', c) # {}
  <2>1. IsActive(db, c) \/ c \in sending \/ c \in sending' \/ c \in launching'
    BY <1>5, <1>6 DEF Moves, Unmoved, Started, Halted, Refused, IsActive, ActiveStatus
  <2>2. QED
    BY <1>2, <1>3, <1>4, <1>6, <2>1 DEF Guarded
<1>7. QED
  BY <1>2, <1>4, <1>6

(***************************************************************************)
(* The theorem about the gate.                                             *)
(***************************************************************************)

\* Nothing but the finalization ends the parent well.
LEMMA OnlyFinalizes ==
  ASSUME [Next]_vars, parent # "done", parent' = "done"
  PROVE  ParentFinalizes
  BY DEF Next, vars, Restart, ParentStop, SpawnStep, Spawn, Launch,
       LaunchBlocked, SessionStep, SendThrows, TurnEnds, TurnDropped, TurnNeedsAttention,
       TurnResult, EndsWith, Followup, Approve, Close, WaitStep, WaitBegins, WaitExpires,
       WaitAsks, WaitTimesOut, WaitExhausted, WaitReturns, DecisionStep, Continue, Fail,
       Detach, Retry, ControlBegins, Decides, CallStep, CancelBegins, StopBegins, Awaits,
       Continuation, WaitResumes, WaitAborted, CancelEnds, StopEnds, ControlNext,
       ControlEnds, CascadeRuns

\* The parent does not end well while a required child is at work, unless every barrier of
\* that child that binds the parent is satisfied and it has one; for any number of children, barriers,
\* groups, decisions and restarts.
THEOREM NoAnswerOverRequiredChild == Spec => NoAnswerOverRequired
<1> DEFINE Gated ==
      (parent # "done" /\ parent' = "done") =>
         \A c \in Required : IsActive(db', c) =>
             /\ BindingOf(db', c) # {}
             /\ \A b \in BindingOf(db', c) : db'.barrier[b].status = "satisfied"
<1>1. Init => UnusedEmpty /\ Guarded
  <2>1. ASSUME NEW b \in Barrier
        PROVE  EmptyDatabase.barrier[b].members = {}
    BY DEF EmptyDatabase, AbsentBarrier
  <2>2. ASSUME NEW c \in Child
        PROVE  ~IsActive(EmptyDatabase, c)
    BY DEF EmptyDatabase, IsActive, ActiveStatus
  <2>3. QED
    BY <2>1, <2>2, SubagentAssumption DEF Init, UnusedEmpty, Guarded
<1>2. TypeOK /\ UnusedEmpty /\ Guarded /\ [Next]_vars => UnusedEmpty' /\ Guarded'
  BY UnusedEmptyStep, GuardedStep
<1>3. TypeOK /\ UnusedEmpty /\ Guarded /\ [Next]_vars => [Gated]_vars
  <2> SUFFICES ASSUME TypeOK, UnusedEmpty, Guarded, [Next]_vars,
                      parent # "done", parent' = "done",
                      NEW c \in Required, IsActive(db', c)
               PROVE  /\ BindingOf(db', c) # {}
                      /\ \A b \in BindingOf(db', c) : db'.barrier[b].status = "satisfied"
    OBVIOUS
  <2>1. ParentFinalizes
    BY OnlyFinalizes
  <2>2. parent = "running" /\ launching = {} /\ ~Blocked(db')
    BY <2>1 DEF ParentFinalizes, ParentActs
  <2>3. c \in Child /\ db'.run = db.run
    BY <2>1, BarrierWritesKeepRuns, SubagentAssumption DEF ParentFinalizes, TypeOK
  <2>4. BindingOf(db, c) # {}
    BY <2>2, <2>3 DEF Guarded, IsActive
  <2>5. BindingOf(db, c) \subseteq BindingOf(db', c)
    BY <2>3, UnusedEmptyStep
  <2>6. ASSUME NEW b \in BindingOf(db', c)
        PROVE  db'.barrier[b].status = "satisfied"
    BY <2>2 DEF BindingOf, BarriersOf, Blocked
  <2>7. QED
    BY <2>4, <2>5, <2>6
<1>4. QED
  BY <1>1, <1>2, <1>3, SubagentTypeCorrect, PTL DEF Spec, NoAnswerOverRequired
===============================================================================
