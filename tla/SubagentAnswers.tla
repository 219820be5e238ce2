---------------------------- MODULE SubagentAnswers ----------------------------
(***************************************************************************)
(* The final answer of a parent rests on results: for every number of      *)
(* children, barriers, stops and restarts, as long as no group is asked    *)
(* for more than one result, no child runs out of turns and nobody retries *)
(* a child.  A usable result is then never taken back, so that a barrier   *)
(* that was met by results is still met when the parent ends.              *)
(***************************************************************************)
EXTENDS SubagentRefinement

ResultStatus == {"completed", "aborted_partial"}

\* A run with a usable result has ended, and no session or launch is left of it.
SafeEnded ==
    \A c \in Child : db.run[c].safe =>
        db.run[c].status \in ResultStatus /\ c \notin sending /\ c \notin launching

\* A session is that of a run, and a child that is being launched has none.
Apart ==
    /\ launching \cap sending = {}
    /\ \A c \in sending : db.run[c].status # "absent"

\* A satisfied barrier has its results, or the user went on without them.
Backed ==
    \A b \in Barrier : db.barrier[b].status = "satisfied" =>
        Deliverable(db, b) \/ db.barrier[b].kind = "explicit_partial"

(***************************************************************************)
(* What a step does to a usable result: nothing; and a result becomes      *)
(* usable only as a session ends with it.                                  *)
(***************************************************************************)
ResultKept(c) ==
    /\ db'.run[c].safe = db.run[c].safe
    /\ db'.run[c].status = db.run[c].status
Spent(c) ==
    /\ ~db.run[c].safe /\ ~db'.run[c].safe
    /\ db'.run[c].status # "absent"
Delivered(c) ==
    /\ db'.run[c].status \in ResultStatus
    /\ c \in sending /\ c \notin sending'
Keeps(c) == ResultKept(c) \/ Spent(c) \/ Delivered(c)

\* A session begins for a run at work, a launch for a run that is not there.
Begins ==
    /\ sending' \cap launching' = {}
    /\ launching' \subseteq launching \cup {c \in Child : db.run[c].status = "absent"}
    /\ sending' \subseteq sending \cup {c \in Child : IsActive(db, c)}

Steps == Begins /\ \A c \in Child : Keeps(c)

LEMMA MarkSafe ==
  ASSUME NEW d \in Database, NEW c \in Child, NEW s
  PROVE  /\ Mark(d, c, s).run[c].safe = d.run[c].safe
         /\ MarkSpent(d, c, s).run[c].safe = FALSE
  BY DEF Mark, MarkSpent, MarkResult, Database, RunRow

LEMMA Unusable ==
  ASSUME SafeEnded, NEW c \in Child,
         IsActive(db, c) \/ c \in sending \/ c \in launching \/ db.run[c].status = "absent"
  PROVE  ~db.run[c].safe
  BY DEF SafeEnded, IsActive, ActiveStatus, ResultStatus

LEMMA SameSessions ==
  ASSUME Apart, sending' \subseteq sending, launching' \subseteq launching
  PROVE  Begins
  BY DEF Apart, Begins

\* A step that writes one run at most, which has no usable result before or after.
LEMMA OneSpent ==
  ASSUME Apart, NEW x \in Child, sending' \subseteq sending, launching' \subseteq launching,
         Keeps(x), \A c \in Child \ {x} : db'.run[c] = db.run[c]
  PROVE  Steps
  BY SameSessions DEF Steps, Keeps, ResultKept

LEMMA NoneSpent ==
  ASSUME Apart, db'.run = db.run, sending' \subseteq sending, launching' \subseteq launching
  PROVE  Steps
  BY SameSessions DEF Steps, Keeps, ResultKept

\* The end of a run without a usable result, and a status it is given.
LEMMA MarkedSpent ==
  ASSUME TypeOK, SafeEnded, NEW x \in Child, NEW s, s # "absent",
         IsActive(db, x) \/ x \in sending \/ x \in launching \/ db.run[x].status = "absent",
         db'.run = MarkSpent(db, x, s).run \/ db'.run = Mark(db, x, s).run
  PROVE  Keeps(x) /\ \A c \in Child \ {x} : db'.run[c] = db.run[c]
<1>1. db \in Database /\ ~db.run[x].safe
  BY Unusable DEF TypeOK
<1>2. /\ Mark(db, x, s).run[x].safe = db.run[x].safe
      /\ ~MarkSpent(db, x, s).run[x].safe
  BY <1>1, MarkSafe
<1>3. /\ Mark(db, x, s).run[x].status = s /\ MarkSpent(db, x, s).run[x].status = s
      /\ \A c \in Child \ {x} : /\ Mark(db, x, s).run[c] = db.run[c]
                                /\ MarkSpent(db, x, s).run[c] = db.run[c]
  BY <1>1, MarkRows, MarkSpentRows
<1>4. ~db'.run[x].safe
  BY <1>1, <1>2
<1>5. QED
  BY <1>1, <1>3, <1>4 DEF Keeps, Spent

LEMMA SpawnSteps ==
  ASSUME TypeOK, SafeEnded, Apart, SpawnStep
  PROVE  Steps
<1> PICK x \in Child : Spawn(x) \/ Launch(x) \/ LaunchBlocked(x)
  BY DEF SpawnStep
<1>1. CASE Spawn(x)
  <2>1. Keeps(x) /\ \A c \in Child \ {x} : db'.run[c] = db.run[c]
    BY <1>1, MarkedSpent DEF Spawn
  <2>2. launching = {} /\ x \notin sending
    BY <1>1 DEF Spawn, ParentActs, Apart
  <2>3. QED
    BY <1>1, <2>1, <2>2 DEF Spawn, Steps, Begins, Keeps, ResultKept
<1>2. CASE Launch(x)
  <2> DEFINE starts == IsActive(db, x) /\ ~db.run[x].closed /\ x \notin sending
  <2>1. PICK d \in (IF x \in Required THEN Guards(x) ELSE {db}) :
           db' = IF starts THEN Mark(d, x, "running") ELSE d
    BY <1>2 DEF Launch
  <2>2. d \in Database /\ d.run = db.run
    <3>1. CASE x \in Required
      <4>1. PICK b \in NextRow(db) : d = CreateBarrier(db, b, {x}, 1, TRUE)
        BY <2>1, <3>1 DEF Guards
      <4>2. b \in Barrier /\ {x} \in SUBSET Child /\ 1 \in Nat /\ TRUE \in BOOLEAN
        BY NextRowType
      <4>3. QED
        BY <4>1, <4>2, CreateBarrierType DEF TypeOK, CreateBarrier, Database
    <3>2. CASE x \notin Required
      BY <2>1, <3>2 DEF TypeOK
    <3>3. QED
      BY <3>1, <3>2
  <2>3. Keeps(x) /\ \A c \in Child \ {x} : db'.run[c] = db.run[c]
    <3>1. CASE starts
      <4>1. db'.run = Mark(db, x, "running").run
        BY <2>1, <2>2, <3>1 DEF Mark, TypeOK, Database
      <4>2. QED
        BY <3>1, <4>1, MarkedSpent
    <3>2. CASE ~starts
      BY <2>1, <2>2, <3>2 DEF Keeps, ResultKept
    <3>3. QED
      BY <3>1, <3>2
  <2>4. Begins
    BY <1>2 DEF Launch, Begins, Apart
  <2>5. QED
    BY <2>3, <2>4 DEF Steps, Keeps, ResultKept
<1>3. CASE LaunchBlocked(x)
  <2>1. Keeps(x) /\ \A c \in Child \ {x} : db'.run[c] = db.run[c]
    BY <1>3, MarkedSpent DEF LaunchBlocked
  <2>2. QED
    BY <1>3, <2>1, OneSpent DEF LaunchBlocked
<1>4. QED
  BY <1>1, <1>2, <1>3

\* The end of a session leaves the other runs alone, and delivers or spends its own.
LEMMA EndsSteps ==
  ASSUME Apart, NEW x \in Child, NEW d, EndsWith(x, d), Keeps(x),
         \A c \in Child \ {x} : d.run[c] = db.run[c]
  PROVE  Steps
  BY OneSpent DEF EndsWith

LEMMA ResultSteps ==
  ASSUME TypeOK, AsksOne, SafeEnded, Apart, NEW x \in Child,
         NEW s \in {"completed", "aborted_partial", "failed"}, NEW safe \in BOOLEAN,
         s = "failed" => ~safe, TurnResult(x, s, safe)
  PROVE  Steps
<1> DEFINE result   == MarkResult(db, x, s, safe)
           resolved == ResolveActive(result, x, "child_terminal")
<1>1. s \in TerminalStatus \ {"cancelled"}
  BY DEF TerminalStatus
<1>2. /\ result \in Database /\ result.barrier = db.barrier
      /\ result.run[x].status = s /\ \A c \in Child \ {x} : result.run[c] = db.run[c]
  BY <1>1, MarkResultType, MarkResultRows DEF TypeOK
<1>3. result.run[x].safe = safe
  BY DEF MarkResult, TypeOK, Database, RunRow
<1>4. ~ResolveThrows(result, x, "child_terminal")
  BY <1>1, <1>2, ResultNeverThrows DEF AsksOne
<1>5. EndsWith(x, resolved)
  BY <1>4 DEF TurnResult
<1> HIDE DEF result
<1>6. resolved.run = result.run
  BY <1>2, BarrierWritesKeepRuns
<1> HIDE DEF resolved
<1>7. x \in sending /\ sending' = sending \ {x} /\ db' = resolved
  BY <1>5 DEF EndsWith
<1>8. Keeps(x)
  <2>1. CASE s \in ResultStatus
    BY <1>2, <1>6, <1>7, <2>1 DEF Keeps, Delivered
  <2>2. CASE s = "failed"
    BY <1>2, <1>3, <1>6, <1>7, <2>2, Unusable DEF Keeps, Spent
  <2>3. QED
    BY <2>1, <2>2 DEF ResultStatus
<1>9. QED
  BY <1>2, <1>5, <1>6, <1>8, EndsSteps

LEMMA SessionSteps ==
  ASSUME TypeOK, AsksOne, SafeEnded, Apart, SessionStep
  PROVE  Steps
<1> PICK x \in Child :
       SendThrows(x) \/ TurnEnds(x) \/ Followup(x) \/ Approve(x) \/ Close(x)
  BY DEF SessionStep
<1>1. CASE SendThrows(x)
  <2>1. x \in sending /\ db' = Failed(db, x) /\ EndsWith(x, Failed(db, x))
    BY <1>1 DEF SendThrows, EndsWith
  <2>2. Keeps(x) /\ \A c \in Child \ {x} : db'.run[c] = db.run[c]
    <3>1. CASE db' = db
      BY <3>1 DEF Keeps, ResultKept
    <3>2. CASE db' = MarkSpent(db, x, "failed")
      BY <2>1, <3>2, MarkedSpent
    <3>3. QED
      BY <2>1, <3>1, <3>2 DEF Failed
  <2>3. QED
    BY <2>1, <2>2, EndsSteps
<1>2. CASE TurnDropped(x)
  BY <1>2, NoneSpent DEF TurnDropped, EndsWith
<1>3. CASE TurnNeedsAttention(x)
  <2>1. x \in sending /\ db' = Mark(db, x, "needs_attention") /\ EndsWith(x, db')
    BY <1>3 DEF TurnNeedsAttention, EndsWith
  <2>2. QED
    BY <2>1, MarkedSpent, EndsSteps
<1>4. CASE \E safe \in BOOLEAN : \/ TurnResult(x, "completed", safe)
                                 \/ TurnResult(x, "aborted_partial", safe)
  BY <1>4, ResultSteps
<1>5. CASE TurnResult(x, "failed", FALSE)
  BY <1>5, ResultSteps
<1>6. CASE Followup(x)
  <2>1. Keeps(x) /\ \A c \in Child \ {x} : db'.run[c] = db.run[c]
    BY <1>6, MarkedSpent DEF Followup
  <2>2. Begins
    BY <1>6 DEF Followup, ParentActs, Begins
  <2>3. QED
    BY <2>1, <2>2 DEF Steps, Keeps, ResultKept
<1>7. CASE Approve(x)
  <2>1. Keeps(x) /\ \A c \in Child \ {x} : db'.run[c] = db.run[c]
    BY <1>7, MarkedSpent DEF Approve
  <2>2. QED
    BY <1>7, <2>1, OneSpent DEF Approve
<1>8. CASE Close(x)
  <2>1. /\ ResultKept(x)
        /\ \A c \in Child \ {x} : db'.run[c] = db.run[c]
    BY <1>8 DEF Close, ResultKept, TypeOK, Database, RunRow
  <2>2. QED
    BY <1>8, <2>1, OneSpent DEF Close, Keeps
<1>9. QED
  BY <1>1, <1>2, <1>3, <1>4, <1>5, <1>6, <1>7, <1>8 DEF TurnEnds

LEMMA WaitSteps ==
  ASSUME TypeOK, SafeEnded, Apart, WaitBegins \/ WaitExpires \/ WaitAsks \/ WaitTimesOut
  PROVE  Steps
<1>1. CASE WaitBegins
  <2>1. ASSUME NEW d, NEW b, NEW c, WaitOn(d, b, c),
               d = db \/ \E r, m, n, binding : d = CreateBarrier(db, r, m, n, binding)
        PROVE  db'.run = db.run
    BY <2>1 DEF WaitOn, Resolve, Settle, CreateBarrier, TypeOK, Database
  <2>2. db'.run = db.run
    BY <1>1, <2>1 DEF WaitBegins, WaitForRun, WaitForGroup
  <2>3. QED
    BY <1>1, <2>2, NoneSpent DEF WaitBegins
<1>2. CASE WaitExpires
  BY <1>2, NoneSpent DEF WaitExpires, WaitReturns
<1>3. CASE WaitAsks
  <2>1. wait.child \in Child
    BY <1>3, WaitCallType DEF WaitAsks
  <2>2. /\ wait.child \in sending /\ db' = Mark(db, wait.child, "needs_attention")
        /\ sending' = sending /\ launching' = launching
    BY <1>3 DEF WaitAsks, WaitReturns
  <2>3. QED
    BY <2>1, <2>2, MarkedSpent, OneSpent
<1>4. CASE WaitTimesOut
  <2> DEFINE x == wait.child
             timedOut == MarkSpent(db, x, "timed_out")
             resolved == ResolveActive(timedOut, x, "child_runtime_timeout")
  <2>1. x \in Child /\ x \in sending
    BY <1>4, WaitCallType DEF WaitTimesOut
  <2>2. timedOut \in Database
    BY <2>1, MarkSpentType DEF TypeOK, TerminalStatus
  <2>3. resolved.run = timedOut.run
    BY <2>2, BarrierWritesKeepRuns
  <2>4. sending' = sending /\ launching' = launching
    BY <1>4 DEF WaitTimesOut, WaitReturns
  <2>5. CASE db' = Resolve(db, wait.barrier, "child_runtime_timeout")
    BY <2>4, <2>5, BarrierWritesKeepRuns, NoneSpent DEF TypeOK
  <2>6. CASE db' = resolved
    BY <2>1, <2>3, <2>4, <2>6, MarkedSpent, OneSpent
  <2>7. QED
    BY <1>4, <2>5, <2>6 DEF WaitTimesOut, WaitReturns
<1>5. QED
  BY <1>1, <1>2, <1>3, <1>4

LEMMA DecisionSteps ==
  ASSUME TypeOK, SafeEnded, Apart, "retry_child" \notin Decision, DecisionStep
  PROVE  Steps
<1> PICK b \in Barrier : Continue(b) \/ Fail(b) \/ Detach(b) \/ Retry(b) \/ ControlBegins(b)
  BY DEF DecisionStep
<1>1. CASE Continue(b) \/ Fail(b) \/ ControlBegins(b)
  <2>1. db'.run = db.run /\ sending' = sending /\ launching' = launching
    BY <1>1, BarrierWritesKeepRuns DEF Continue, Fail, ControlBegins, Decides, TypeOK
  <2>2. QED
    BY <2>1, NoneSpent
<1>2. CASE Detach(b)
  <2>1. Detached(db, ActiveMembers(db, b)) \in Database
    BY DetachedType DEF TypeOK
  <2>2. /\ db'.run = Detached(db, ActiveMembers(db, b)).run
        /\ sending' = sending /\ launching' = launching
    BY <1>2, <2>1, BarrierWritesKeepRuns DEF Detach, Decides
  <2>3. ASSUME NEW c \in Child
        PROVE  \/ db'.run[c] = db.run[c]
               \/ /\ c \in ActiveMembers(db, b)
                  /\ db'.run[c].status = "detached" /\ ~db'.run[c].safe
    <3>1. ASSUME NEW d \in Database, NEW cs, NEW x \in Child
          PROVE  \/ Detached(d, cs).run[x] = d.run[x]
                 \/ /\ x \in cs
                    /\ Detached(d, cs).run[x].status = "detached"
                    /\ ~Detached(d, cs).run[x].safe
      BY DEF Detached, Database, RunRow
    <3>2. QED
      BY <2>2, <3>1 DEF TypeOK
  <2>4. ASSUME NEW c \in Child
        PROVE  Keeps(c)
    BY <2>3, Unusable DEF ActiveMembers, Keeps, ResultKept, Spent
  <2>5. QED
    BY <2>2, <2>4, SameSessions DEF Steps
<1>3. CASE Retry(b)
  BY <1>3 DEF Retry, Decides, MayDecide
<1>4. QED
  BY <1>1, <1>2, <1>3

\* The stop of a child ends it if it is at work.
LEMMA StopChildSteps ==
  ASSUME TypeOK, SafeEnded, Apart, NEW x \in Child, db'.run = StopChild(db, x).run,
         sending' = sending, launching' = launching
  PROVE  Steps
<1>1. MarkSpent(db, x, "cancelled") \in Database
  BY MarkSpentType DEF TypeOK, TerminalStatus
<1>2. \/ db'.run = db.run
      \/ IsActive(db, x) /\ db'.run = MarkSpent(db, x, "cancelled").run
  BY <1>1, BarrierWritesKeepRuns DEF StopChild
<1>3. QED
  BY <1>2, NoneSpent, MarkedSpent, OneSpent

LEMMA ContinuationSteps ==
  ASSUME TypeOK, SafeEnded, Apart, Continuation
  PROVE  Steps
<1>1. CASE WaitResumes
  <2>1. db'.run = db.run /\ sending' = sending /\ launching' = launching
    BY <1>1, BarrierWritesKeepRuns DEF WaitResumes, WaitReturns, TypeOK
  <2>2. QED
    BY <2>1, NoneSpent
<1>2. CASE WaitAborted
  <2>1. wait.child \in Child
    BY <1>2, WaitCallType DEF WaitAborted
  <2>2. StopChild(db, wait.child) \in Database
    BY <2>1, StopChildType DEF TypeOK
  <2>3. /\ db'.run = StopChild(db, wait.child).run
        /\ sending' = sending /\ launching' = launching
    BY <1>2, <2>2, BarrierWritesKeepRuns DEF WaitAborted, WaitReturns
  <2>4. QED
    BY <2>1, <2>3, StopChildSteps
<1>3. ASSUME NEW x \in Child, CancelEnds(x)
      PROVE  Steps
  <2> DEFINE marked == IF IsActive(db, x) THEN MarkSpent(db, x, "cancelled") ELSE db
  <2>1. marked \in Database
    BY MarkSpentType DEF TypeOK, TerminalStatus
  <2>2. db'.run = marked.run /\ sending' = sending /\ launching' = launching
    BY <1>3, <2>1, BarrierWritesKeepRuns DEF CancelEnds
  <2>3. CASE IsActive(db, x)
    BY <2>2, <2>3, MarkedSpent, OneSpent
  <2>4. CASE ~IsActive(db, x)
    BY <2>2, <2>4, NoneSpent
  <2>5. QED
    BY <2>3, <2>4
<1>4. ASSUME NEW x \in Child, StopEnds(x)
      PROVE  Steps
  BY <1>4, StopChildSteps DEF StopEnds
<1>5. ASSUME NEW x \in Child, ControlNext(x)
      PROVE  Steps
  <2>1. CASE IsActive(db, x)
    BY <1>5, <2>1, MarkedSpent, OneSpent DEF ControlNext
  <2>2. CASE ~IsActive(db, x)
    BY <1>5, <2>2, NoneSpent DEF ControlNext
  <2>3. QED
    BY <2>1, <2>2
<1>6. CASE ControlEnds
  <2>1. db'.run = db.run /\ sending' = sending /\ launching' = launching
    BY <1>6, BarrierWritesKeepRuns DEF ControlEnds, TypeOK
  <2>2. QED
    BY <2>1, NoneSpent
<1>7. CASE CascadeRuns
  <2>1. db' = Cascade(db) /\ sending' = sending /\ launching' = launching
    BY <1>7 DEF CascadeRuns
  <2>2. ASSUME NEW c \in Child, IsActive(db, c)
        PROVE  Keeps(c)
    <3>1. ~Cascade(db).run[c].safe /\ Cascade(db).run[c].status # "absent"
      BY <2>2 DEF Cascade, TypeOK, Database, RunRow
    <3>2. QED
      BY <2>1, <2>2, <3>1, Unusable DEF Keeps, Spent
  <2>3. ASSUME NEW c \in Child, ~IsActive(db, c)
        PROVE  Keeps(c)
    BY <2>1, <2>3 DEF Cascade, Keeps, ResultKept
  <2>4. \A c \in Child : Keeps(c)
    BY <2>2, <2>3
  <2>5. QED
    BY <2>1, <2>4, SameSessions DEF Steps
<1>8. QED
  BY <1>1, <1>2, <1>3, <1>4, <1>5, <1>6, <1>7 DEF Continuation

LEMMA RestartSteps ==
  ASSUME TypeOK, SafeEnded, Apart, Restart
  PROVE  Steps
<1>1. PICK fresh : db' = Reconcile(db, fresh)
  BY DEF Restart
<1>2. ASSUME NEW c \in Child, c \in Interrupted(db)
      PROVE  Keeps(c)
  <2>1. ~db.run[c].safe
    BY <1>2, Unusable DEF Interrupted, IsActive, ActiveStatus
  <2>2. db'.run[c].safe = db.run[c].safe /\ db'.run[c].status = "needs_attention"
    BY <1>1, <1>2 DEF Reconcile, TypeOK, Database, RunRow
  <2>3. QED
    BY <2>1, <2>2 DEF Keeps, Spent
<1>3. ASSUME NEW c \in Child, c \notin Interrupted(db)
      PROVE  Keeps(c)
  BY <1>1, <1>3 DEF Reconcile, Keeps, ResultKept
<1>4. sending' = {} /\ launching' = {}
  BY DEF Restart
<1>5. QED
  BY <1>2, <1>3, <1>4, SameSessions DEF Steps

LEMMA StepSteps ==
  ASSUME TypeOK, AsksOne, SafeEnded, Apart, TurnBudget = FALSE,
         "retry_child" \notin Decision, [Next]_vars
  PROVE  Steps
<1>1. CASE UNCHANGED vars \/ CallStep \/ ParentStop
  BY <1>1, NoneSpent DEF vars, CallStep, CancelBegins, StopBegins, Awaits, ParentStop
<1>2. CASE ParentFinalizes
  <2>1. db'.run = db.run /\ sending' = sending /\ launching' = launching
    BY <1>2, BarrierWritesKeepRuns DEF ParentFinalizes, TypeOK
  <2>2. QED
    BY <2>1, NoneSpent
<1>3. CASE WaitExhausted
  BY <1>3 DEF WaitExhausted
<1>4. QED
  BY <1>1, <1>2, <1>3, SpawnSteps, SessionSteps, WaitSteps, DecisionSteps,
     ContinuationSteps, RestartSteps DEF Next, WaitStep

LEMMA EndedStep ==
  ASSUME TypeOK, SafeEnded, Apart, Steps
  PROVE  SafeEnded' /\ Apart'
<1>1. ASSUME NEW c \in Child, db'.run[c].safe
      PROVE  /\ db'.run[c].status \in ResultStatus
             /\ c \notin sending' /\ c \notin launching'
  <2>1. CASE ResultKept(c)
    BY <1>1, <2>1, Unusable DEF Steps, Begins, ResultKept, SafeEnded
  <2>2. CASE Delivered(c)
    BY <2>2 DEF Steps, Begins, Delivered, Apart
  <2>3. QED
    BY <1>1, <2>1, <2>2 DEF Steps, Keeps, Spent
<1>2. ASSUME NEW c \in sending'
      PROVE  db'.run[c].status # "absent"
  <2>1. c \in Child /\ db.run[c].status # "absent"
    BY DEF Steps, Begins, Apart, IsActive, ActiveStatus, TypeOK
  <2>2. QED
    BY <2>1 DEF Steps, Keeps, ResultKept, Spent, Delivered, ResultStatus
<1>3. QED
  BY <1>1, <1>2 DEF SafeEnded, Apart, Steps, Begins

(***************************************************************************)
(* What a step does to a satisfied barrier.                                *)
(***************************************************************************)

\* More usable results do not make a barrier less deliverable.
LEMMA ResultsAddUp ==
  ASSUME NEW d \in Database, NEW e \in Database, NEW b \in Barrier,
         SameAsked(d.barrier[b], e.barrier[b]), Deliverable(d, b),
         \A c \in Child : d.run[c].safe => e.run[c].safe
  PROVE  Deliverable(e, b)
<1>1. SafeMembers(d, b) \subseteq SafeMembers(e, b) /\ SafeMembers(e, b) \subseteq Child
  BY DEF SafeMembers, SameAsked, Database, BarrierRow
<1>2. IsFiniteSet(SafeMembers(e, b))
  BY <1>1, FS_Subset, SubagentAssumption
<1>3. Cardinality(SafeMembers(d, b)) <= Cardinality(SafeMembers(e, b))
  BY <1>1, <1>2, FS_Subset
<1>4. QED
  BY <1>3, CountTypes DEF Deliverable, SameAsked

LEMMA KeptBacked ==
  ASSUME TypeOK, TypeOK', SafeEnded, Steps, Backed, NEW b \in Barrier, RowKept(b),
         db'.barrier[b].status = "satisfied"
  PROVE  Deliverable(db', b) \/ db'.barrier[b].kind = "explicit_partial"
<1>1. \A c \in Child : db.run[c].safe => db'.run[c].safe
  BY Unusable DEF Steps, Keeps, ResultKept, Spent, Delivered
<1>2. CASE db.barrier[b].kind = "explicit_partial"
  BY <1>2 DEF RowKept
<1>3. CASE Deliverable(db, b)
  BY <1>1, <1>3, ResultsAddUp DEF RowKept, SameAsked, TypeOK
<1>4. QED
  BY <1>2, <1>3 DEF RowKept, Backed

LEMMA BackedStep ==
  ASSUME TypeOK, TypeOK', SafeEnded, Steps, Backed,
         Proceeds \/ CallsOff \/ \E b \in Barrier : DecidesOn(b)
  PROVE  Backed'
<1> SUFFICES ASSUME NEW b \in Barrier, db'.barrier[b].status = "satisfied"
             PROVE  Deliverable(db', b) \/ db'.barrier[b].kind = "explicit_partial"
  BY DEF Backed, Deliverable, SafeMembers
<1>1. CASE RowKept(b)
  BY <1>1, KeptBacked
<1>2. CASE Settled(db', b)
  BY <1>2 DEF Settled, GivenUpStatus
<1>3. CASE Proceeds
  BY <1>1, <1>2, <1>3 DEF Proceeds, RowOpened, Open, RowSettled
<1>4. CASE CallsOff
  BY <1>1, <1>4 DEF CallsOff
<1>5. ASSUME NEW a \in Barrier, DecidesOn(a)
      PROVE  Deliverable(db', b) \/ db'.barrier[b].kind = "explicit_partial"
  BY <1>1, <1>5 DEF DecidesOn
<1>6. QED
  BY <1>3, <1>4, <1>5

LEMMA StepRows ==
  ASSUME TypeOK, AsksOne, ControlOpen, [Next]_vars
  PROVE  Proceeds \/ CallsOff \/ \E b \in Barrier : DecidesOn(b)
<1>1. CASE UNCHANGED vars \/ CallStep \/ ParentStop
  <2>1. db' = db /\ wait' = wait
    BY <1>1 DEF vars, CallStep, CancelBegins, StopBegins, Awaits, ParentStop
  <2>2. QED
    BY <2>1, RowsAlone, WatchedKept
<1>2. QED
  BY <1>1, SpawnProceeds, SessionProceeds, WaitProceeds, ExhaustedProceeds,
     FinalizesProceeds, RestartProceeds, DecisionMaps, ContinuationMaps DEF Next

(***************************************************************************)
(* The theorem.                                                            *)
(***************************************************************************)
Grounds == AsksOne /\ ControlOpen /\ SafeEnded /\ Apart /\ Backed

LEMMA GroundsInit ==
  ASSUME Init
  PROVE  Grounds
<1>1. db = EmptyDatabase /\ sending = {} /\ launching = {} /\ control = IdleControl
  BY DEF Init
<1>2. /\ \A c \in Child : ~db.run[c].safe
      /\ \A b \in Barrier : db.barrier[b].status = "absent" /\ db.barrier[b].need = 1
  BY <1>1 DEF EmptyDatabase, AbsentBarrier
<1>3. QED
  BY <1>1, <1>2 DEF Grounds, AsksOne, ControlOpen, IdleControl, SafeEnded, Apart, Backed

LEMMA GroundsStep ==
  ASSUME Quorum \subseteq {0, 1}, TurnBudget = FALSE, "retry_child" \notin Decision,
         TypeOK, TypeOK', Grounds, [Next]_vars
  PROVE  Grounds'
<1>1. Steps
  BY StepSteps DEF Grounds
<1>2. AsksOne' /\ ControlOpen'
  BY AsksOneStep, ControlOpenStep DEF Grounds
<1>3. SafeEnded' /\ Apart'
  BY <1>1, EndedStep DEF Grounds
<1>4. Backed'
  BY <1>1, StepRows, BackedStep DEF Grounds
<1>5. QED
  BY <1>2, <1>3, <1>4 DEF Grounds

\* The parent ends well only when every binding barrier has the usable results it asked
\* for, or the user chose to go on without them; for any number of children, barriers,
\* stops and restarts, if no group is asked for more than one result, no child runs out
\* of turns and nobody retries a child.
THEOREM AnswersRestOnResults ==
  ASSUME Quorum \subseteq {0, 1}, TurnBudget = FALSE, "retry_child" \notin Decision
  PROVE  Spec => AnswersOnResults
<1> DEFINE Rests ==
         (parent # "done" /\ parent' = "done") =>
            \A b \in Barrier : db'.barrier[b].binding =>
                \/ Deliverable(db', b)
                \/ db'.barrier[b].kind = "explicit_partial"
<1>1. TypeOK /\ TypeOK' /\ Grounds /\ [Next]_vars => Grounds'
  BY GroundsStep
<1>2. Grounds' /\ [Next]_vars => [Rests]_vars
  <2> SUFFICES ASSUME Backed', [Next]_vars, parent # "done", parent' = "done",
                      NEW b \in Barrier, db'.barrier[b].binding
               PROVE  Deliverable(db', b) \/ db'.barrier[b].kind = "explicit_partial"
    BY DEF Grounds
  <2>1. ~Blocked(db')
    BY OnlyFinalizes DEF ParentFinalizes
  <2>2. db'.barrier[b].status = "satisfied"
    BY <2>1 DEF Blocked
  <2>3. QED
    BY <2>2 DEF Backed, Deliverable, SafeMembers
<1>3. QED
  BY <1>1, <1>2, GroundsInit, SubagentTypeCorrect, PTL DEF Spec, AnswersOnResults
===============================================================================
