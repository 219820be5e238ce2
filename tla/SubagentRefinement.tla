-------------------------- MODULE SubagentRefinement --------------------------
(***************************************************************************)
(* The barriers of the store implement WaitBarriers, as long as nobody     *)
(* asks a group for more than one result: then the resolution that follows *)
(* a result never throws, and no result is lost after a barrier was met.   *)
(*                                                                         *)
(* The proof goes through a classification of the steps in terms of the    *)
(* rows: every step of SubagentRuns only settles rows that may be settled, *)
(* decides on one row, or calls off the open ones; each of the three is a  *)
(* step of the promise.                                                    *)
(***************************************************************************)
EXTENDS SubagentProofs, FiniteSetTheorems

(***************************************************************************)
(* The steps of the promise in terms of the rows.                          *)
(***************************************************************************)
GivenUpStatus == {"failed", "timed_out", "cancelled"}

SameAsked(old, new) == new.members = old.members /\ new.need = old.need

\* What a resolution leaves in a row agrees with the runs it is written with.
Settled(d, b) ==
    \/ d.barrier[b].status = "satisfied" /\ Deliverable(d, b)
    \/ d.barrier[b].status \in GivenUpStatus /\ Impossible(d, b)

Open(row) == row.status = "waiting"
RowKept(b) == db'.barrier[b] = db.barrier[b]
RowOpened(b) == db.barrier[b].status = "absent" /\ Open(db'.barrier[b])
RowSettled(b) ==
    /\ \/ db.barrier[b].status = "absent"
       \/ /\ Open(db.barrier[b]) \/ b \in Watched
          /\ SameAsked(db.barrier[b], db'.barrier[b])
    /\ Settled(db', b)

Proceeds ==
    /\ \A b \in Barrier : RowKept(b) \/ RowOpened(b) \/ RowSettled(b)
    /\ \A b \in Watched' \ Watched : b \in Barrier /\ Open(db'.barrier[b])
DecidesOn(b) ==
    /\ db.barrier[b].status # "absent" /\ db'.barrier[b].status # "absent"
    /\ db'.barrier[b].status = "satisfied" => db'.barrier[b].kind = "explicit_partial"
    /\ SameAsked(db.barrier[b], db'.barrier[b])
    /\ \A a \in Barrier \ {b} : RowKept(a)
    /\ Watched' = Watched
CallsOff ==
    /\ \A b \in Barrier :
         IF Open(db.barrier[b])
         THEN /\ db'.barrier[b].status = "cancelled"
              /\ SameAsked(db.barrier[b], db'.barrier[b])
         ELSE RowKept(b)
    /\ Watched' = Watched

(***************************************************************************)
(* The counts of the promise are those of the evaluation.                  *)
(***************************************************************************)

LEMMA CountTypes ==
  ASSUME NEW d \in Database, NEW b \in Barrier
  PROVE  /\ Cardinality(SafeMembers(d, b)) \in Nat
         /\ Cardinality(ActiveMembers(d, b)) \in Nat
         /\ d.barrier[b].need \in Nat
<1>1. SafeMembers(d, b) \subseteq Child /\ ActiveMembers(d, b) \subseteq Child
  BY DEF SafeMembers, ActiveMembers, Database, BarrierRow
<1>2. IsFiniteSet(SafeMembers(d, b)) /\ IsFiniteSet(ActiveMembers(d, b))
  BY <1>1, FS_Subset, SubagentAssumption
<1>3. QED
  BY <1>2, FS_CardinalityType DEF Database, BarrierRow

LEMMA SafeCount ==
  ASSUME NEW d \in Database, NEW b \in Barrier
  PROVE  SafeMembers(d, b) = d.barrier[b].members \cap {c \in Child : d.run[c].safe}
  BY DEF SafeMembers, Database, BarrierRow

LEMMA ActiveCount ==
  ASSUME NEW d \in Database, NEW b \in Barrier
  PROVE  ActiveMembers(d, b) = d.barrier[b].members \cap {c \in Child : IsActive(d, c)}
  BY DEF ActiveMembers, Database, BarrierRow

\* The instance brings its own copy of the operator.
LEMMA SameCardinality ==
  ASSUME NEW S
  PROVE  Promise!Cardinality(S) = Cardinality(S)
  BY DEF Promise!Cardinality, Cardinality

LEMMA Counts ==
  TypeOK => \A b \in Barrier : /\ Promise!Enough(b) <=> Deliverable(db, b)
                               /\ Promise!Attainable(b) <=> ~Impossible(db, b)
<1> SUFFICES ASSUME TypeOK, NEW b \in Barrier
             PROVE  /\ Promise!Enough(b) <=> Deliverable(db, b)
                    /\ Promise!Attainable(b) <=> ~Impossible(db, b)
  OBVIOUS
<1>1. Asked[b].of = db.barrier[b].members /\ Asked[b].results = db.barrier[b].need
  BY DEF Asked, AskedOf
<1>2. /\ Asked[b].of \cap Usable = SafeMembers(db, b)
      /\ Asked[b].of \cap AtWork = ActiveMembers(db, b)
  BY <1>1, SafeCount, ActiveCount DEF TypeOK, Usable, AtWork
<1>3. Promise!Enough(b) <=> Cardinality(SafeMembers(db, b)) >= db.barrier[b].need
  BY <1>1, <1>2, SameCardinality DEF Promise!Enough
<1>4. Promise!Attainable(b) <=>
        Cardinality(SafeMembers(db, b)) + Cardinality(ActiveMembers(db, b)) >= db.barrier[b].need
  BY <1>1, <1>2, SameCardinality DEF Promise!Attainable
<1>5. QED
  BY <1>3, <1>4, CountTypes DEF TypeOK, Deliverable, Impossible

LEMMA CountsAfter ==
  TypeOK' => (\A b \in Barrier : /\ Promise!Enough(b) <=> Deliverable(db, b)
                                 /\ Promise!Attainable(b) <=> ~Impossible(db, b))'
BY Counts, PTL

LEMMA StepParts ==
  ASSUME NEW b \in Barrier
  PROVE  /\ Asked[b] = AskedOf(db.barrier[b]) /\ Asked'[b] = AskedOf(db'.barrier[b])
         /\ Become[b] = BecomeOf(db.barrier[b]) /\ Become'[b] = BecomeOf(db'.barrier[b])
  BY DEF Asked, Become

LEMMA RowAsked ==
  ASSUME NEW b \in Barrier, SameAsked(db.barrier[b], db'.barrier[b])
  PROVE  Promise!SameAsks(b)
  BY StepParts DEF SameAsked, AskedOf, Promise!SameAsks

LEMMA RowKeeps ==
  ASSUME NEW b \in Barrier, RowKept(b)
  PROVE  Promise!Kept(b)
  BY RowAsked, StepParts DEF RowKept, SameAsked, BecomeOf, Promise!Kept

LEMMA RowOpens ==
  ASSUME NEW b \in Barrier, RowOpened(b)
  PROVE  Promise!Opened(b)
  BY StepParts DEF RowOpened, Open, BecomeOf, Promise!Opened

LEMMA RowSettles ==
  ASSUME TypeOK', NEW b \in Barrier, RowSettled(b)
  PROVE  Promise!Met(b) \/ Promise!GivenUp(b)
<1>1. Promise!MaySettle(b)
  BY StepParts, RowAsked DEF RowSettled, Open, BecomeOf, Promise!MaySettle
<1>2. /\ Promise!Enough(b)' <=> Deliverable(db', b)
      /\ Promise!Attainable(b)' <=> ~Impossible(db', b)
  BY CountsAfter DEF Deliverable, Impossible, SafeMembers, ActiveMembers, IsActive
<1>3. CASE db'.barrier[b].status = "satisfied" /\ Deliverable(db', b)
  BY <1>1, <1>2, <1>3, StepParts DEF BecomeOf, Promise!Met
<1>4. CASE db'.barrier[b].status \in GivenUpStatus /\ Impossible(db', b)
  BY <1>1, <1>2, <1>4, StepParts DEF BecomeOf, GivenUpStatus, Promise!GivenUp
<1>5. QED
  BY <1>3, <1>4 DEF RowSettled, Settled

LEMMA StepMaps ==
  ASSUME TypeOK', Proceeds \/ CallsOff \/ \E b \in Barrier : DecidesOn(b)
  PROVE  Promise!GateNext
<1>1. CASE Proceeds
  <2>1. \A b \in Barrier : \/ Promise!Kept(b) \/ Promise!Opened(b)
                          \/ Promise!Met(b) \/ Promise!GivenUp(b)
    BY <1>1, RowKeeps, RowOpens, RowSettles DEF Proceeds
  <2>2. \A b \in Watched' \ Watched : Become'[b] = "waiting"
    BY <1>1, StepParts DEF Proceeds, Open, BecomeOf
  <2>3. QED
    BY <2>1, <2>2 DEF Promise!Proceed, Promise!GateNext
<1>2. CASE CallsOff
  <2>1. ASSUME NEW b \in Barrier
        PROVE  IF Become[b] = "waiting" THEN Become'[b] = "given_up" /\ Promise!SameAsks(b)
               ELSE Promise!Kept(b)
    BY <1>2, StepParts, RowAsked, RowKeeps DEF CallsOff, Open, BecomeOf
  <2>2. QED
    BY <1>2, <2>1 DEF CallsOff, Promise!CallOff, Promise!GateNext
<1>3. ASSUME NEW b \in Barrier, DecidesOn(b)
      PROVE  Promise!Decide(b)
  <2>1. Become[b] # "unused" /\ Become'[b] # "unused" /\ Promise!SameAsks(b)
    BY <1>3, StepParts, RowAsked DEF DecidesOn, BecomeOf
  <2>2. QED
    BY <1>3, <2>1, RowKeeps DEF DecidesOn, Promise!Decide
<1>4. QED
  BY <1>1, <1>2, <1>3 DEF Promise!GateNext

(***************************************************************************)
(* What a resolution writes.                                               *)
(***************************************************************************)

LEMMA OutcomeSettles ==
  ASSUME NEW d, NEW b, NEW kind, Outcome(d, b, kind) # "waiting"
  PROVE  \/ Outcome(d, b, kind) = "satisfied" /\ Deliverable(d, b)
         \/ Outcome(d, b, kind) \in GivenUpStatus /\ Impossible(d, b)
  BY DEF Outcome, GivenUpStatus

\* The counts of a barrier are those of its members and of the runs.
LEMMA CountsKept ==
  ASSUME NEW d, NEW e, NEW b, e.run = d.run, SameAsked(d.barrier[b], e.barrier[b])
  PROVE  Deliverable(e, b) = Deliverable(d, b) /\ Impossible(e, b) = Impossible(d, b)
<1>1. SafeMembers(e, b) = SafeMembers(d, b) /\ ActiveMembers(e, b) = ActiveMembers(d, b)
  BY DEF SameAsked, SafeMembers, ActiveMembers, IsActive
<1>2. QED
  BY <1>1 DEF Deliverable, Impossible, SameAsked

\* A row b is settled by a resolution that leaves the runs alone.
SettledFrom(d, e, b) == SameAsked(d.barrier[b], e.barrier[b]) /\ Settled(e, b)

LEMMA SettledByOutcome ==
  ASSUME NEW d, NEW e, NEW b, NEW kind, e.run = d.run,
         SameAsked(d.barrier[b], e.barrier[b]),
         Outcome(d, b, kind) # "waiting", e.barrier[b].status = Outcome(d, b, kind)
  PROVE  SettledFrom(d, e, b)
  BY OutcomeSettles, CountsKept DEF SettledFrom, Settled

LEMMA ResolveSettles ==
  ASSUME NEW d \in Database, NEW b \in Barrier, NEW kind \in Evidence
  PROVE  /\ \A a \in Barrier \ {b} : Resolve(d, b, kind).barrier[a] = d.barrier[a]
         /\ \/ Resolve(d, b, kind).barrier[b] = d.barrier[b]
            \/ SettledFrom(d, Resolve(d, b, kind), b)
<1>1. CASE Outcome(d, b, kind) = "waiting" \/ Throws(d, b, kind)
  BY <1>1 DEF Resolve
<1>2. CASE ~(Outcome(d, b, kind) = "waiting" \/ Throws(d, b, kind))
  <2> DEFINE s == Outcome(d, b, kind)
             e == Settle(d, b, s, kind)
  <2>1. Resolve(d, b, kind) = e
    BY <1>2 DEF Resolve
  <2>2. /\ \A a \in Barrier \ {b} : e.barrier[a] = d.barrier[a]
        /\ e.run = d.run /\ SameAsked(d.barrier[b], e.barrier[b])
        /\ e.barrier[b].status = s
    BY DEF Settle, SameAsked, Database, BarrierRow
  <2>3. SettledFrom(d, e, b)
    BY <1>2, <2>2, SettledByOutcome
  <2>4. QED
    BY <2>1, <2>2, <2>3
<1>3. QED
  BY <1>1, <1>2

LEMMA ResolveActiveSettles ==
  ASSUME NEW d \in Database, NEW c \in Child, NEW kind \in Evidence, NEW b \in Barrier
  PROVE  \/ ResolveActive(d, c, kind).barrier[b] = d.barrier[b]
         \/ Open(d.barrier[b]) /\ SettledFrom(d, ResolveActive(d, c, kind), b)
<1> DEFINE e == ResolveActive(d, c, kind)
           row == [d.barrier[b] EXCEPT !.status = Outcome(d, b, kind), !.kind = kind]
<1>1. CASE b \notin ResolvedBy(d, c, kind)
  BY <1>1 DEF ResolveActive, Database
<1>2. CASE b \in ResolvedBy(d, c, kind)
  <2>1. e.barrier[b] = row /\ e.run = d.run
    BY <1>2 DEF ResolveActive, Database
  <2>2. /\ row.members = d.barrier[b].members /\ row.need = d.barrier[b].need
        /\ row.status = Outcome(d, b, kind)
    BY DEF Database, BarrierRow
  <2> HIDE DEF e, row
  <2>3. SameAsked(d.barrier[b], e.barrier[b]) /\ e.barrier[b].status = Outcome(d, b, kind)
    BY <2>1, <2>2 DEF SameAsked
  <2>4. Outcome(d, b, kind) # "waiting" /\ Open(d.barrier[b])
    BY <1>2 DEF ResolvedBy, Pending, Open
  <2>5. SettledFrom(d, e, b)
    BY <2>1, <2>3, <2>4, SettledByOutcome
  <2>6. QED
    BY <2>4, <2>5 DEF e
<1>3. QED
  BY <1>1, <1>2

LEMMA ReconciledSettles ==
  ASSUME NEW d \in Database, NEW lead, NEW bs, bs \subseteq Due(d), NEW b \in Barrier
  PROVE  \/ Reconciled(d, lead, bs).barrier[b] = d.barrier[b]
         \/ Open(d.barrier[b]) /\ SettledFrom(d, Reconciled(d, lead, bs), b)
<1> DEFINE kind == TerminalEvidence(d, lead[b])
           r == Resolve(d, b, kind)
           e == Reconciled(d, lead, bs)
<1>1. CASE b \notin bs
  BY <1>1 DEF Reconciled, Database
<1>2. CASE b \in bs
  <2>1. e.barrier[b] = r.barrier[b]
    BY <1>2 DEF Reconciled, Database
  <2>2. e.run = d.run /\ r.run = d.run
    BY BarrierWritesKeepRuns
  <2>3. kind \in Evidence
    BY DEF TerminalEvidence, Evidence
  <2>4. r.barrier[b] = d.barrier[b] \/ SettledFrom(d, r, b)
    BY <2>3, ResolveSettles
  <2>5. Open(d.barrier[b])
    BY <1>2 DEF Due, Pending, Open
  <2> HIDE DEF e, r
  <2>6. SettledFrom(d, r, b) => SettledFrom(d, e, b)
    <3>1. SUFFICES ASSUME SettledFrom(d, r, b)
                   PROVE  SettledFrom(d, e, b)
      OBVIOUS
    <3>2. SameAsked(r.barrier[b], e.barrier[b]) /\ e.run = r.run
      BY <2>1, <2>2 DEF SameAsked
    <3>3. Deliverable(e, b) = Deliverable(r, b) /\ Impossible(e, b) = Impossible(r, b)
      BY <3>2, CountsKept
    <3>4. QED
      BY <2>1, <3>1, <3>3 DEF SettledFrom, Settled
  <2>7. QED
    BY <2>1, <2>4, <2>5, <2>6 DEF e
<1>3. QED
  BY <1>1, <1>2

(***************************************************************************)
(* The steps that settle rows, or leave them alone.                        *)
(***************************************************************************)

LEMMA ProceedsBy ==
  ASSUME NEW d, d.barrier = db.barrier, Watched' \subseteq Watched,
         \A b \in Barrier : \/ db'.barrier[b] = db.barrier[b]
                           \/ /\ Open(db.barrier[b]) \/ b \in Watched
                              /\ SettledFrom(d, db', b)
  PROVE  Proceeds
  BY DEF Proceeds, RowKept, RowSettled, SettledFrom, SameAsked

LEMMA WatchedKept ==
  ASSUME TypeOK
  PROVE  /\ wait' = wait => Watched' \subseteq Watched
         /\ wait' = IdleWait => Watched' \subseteq Watched
         /\ \A w : wait' = [wait EXCEPT !.child = w] => Watched' \subseteq Watched
         /\ wait' = [wait EXCEPT !.pc = "aborting"] /\ wait.pc # "idle"
              => Watched' \subseteq Watched
  BY DEF TypeOK, WaitCall, Watched, IdleWait

LEMMA RowsAlone ==
  ASSUME db'.barrier = db.barrier, Watched' \subseteq Watched
  PROVE  Proceeds
  BY DEF Proceeds, RowKept, SameAsked

LEMMA OpenedBy ==
  ASSUME NEW b \in NextRow(db), db.barrier[b].status = "absent", wait' = wait, TypeOK,
         Open(db'.barrier[b]), \A a \in Barrier \ {b} : db'.barrier[a] = db.barrier[a]
  PROVE  Proceeds
<1>1. Watched' \subseteq Watched
  BY WatchedKept
<1>2. QED
  BY <1>1 DEF Proceeds, RowKept, RowOpened, SameAsked

LEMMA SpawnProceeds ==
  ASSUME TypeOK, SpawnStep
  PROVE  Proceeds
<1> PICK x \in Child : Spawn(x) \/ Launch(x) \/ LaunchBlocked(x)
  BY DEF SpawnStep
<1>1. CASE Spawn(x) \/ LaunchBlocked(x)
  <2>1. db'.barrier = db.barrier /\ wait' = wait
    BY <1>1, MarkRows, MarkSpentRows DEF Spawn, LaunchBlocked, TypeOK
  <2>2. QED
    BY <2>1, RowsAlone, WatchedKept
<1>2. CASE Launch(x)
  <2>1. PICK d \in (IF x \in Required THEN Guards(x) ELSE {db}) :
           db' = d \/ db' = Mark(d, x, "running")
    BY <1>2 DEF Launch
  <2>2. wait' = wait
    BY <1>2 DEF Launch
  <2>3. CASE x \notin Required
    <3>1. d = db
      BY <2>1, <2>3
    <3>2. db'.barrier = db.barrier
      BY <2>1, <3>1, MarkRows DEF TypeOK
    <3>3. QED
      BY <2>2, <3>2, RowsAlone, WatchedKept
  <2>4. CASE x \in Required
    <3>1. PICK b \in NextRow(db) : d = CreateBarrier(db, b, {x}, 1, TRUE)
      BY <2>1, <2>4 DEF Guards
    <3>2. b \in Barrier /\ db.barrier[b].status = "absent"
      BY DEF NextRow, Earliest
    <3>3. /\ d \in Database /\ Open(d.barrier[b])
          /\ \A a \in Barrier \ {b} : d.barrier[a] = db.barrier[a]
      <4>1. d = [db EXCEPT !.barrier[b] =
                   [status |-> "waiting", members |-> {x}, need |-> 1, binding |-> TRUE,
                    kind |-> "none"]]
        BY <3>1 DEF CreateBarrier
      <4>2. [status |-> "waiting", members |-> {x}, need |-> 1, binding |-> TRUE,
             kind |-> "none"] \in BarrierRow
        BY DEF BarrierRow, Evidence
      <4>3. QED
        BY <3>2, <4>1, <4>2 DEF TypeOK, Database, Open
    <3>4. db'.barrier = d.barrier
      BY <2>1, <3>3, MarkRows
    <3>5. QED
      BY <2>2, <3>2, <3>3, <3>4, OpenedBy
  <2>5. QED
    BY <2>3, <2>4
<1>3. QED
  BY <1>1, <1>2

\* Nobody asks for more than one result.
AsksOne == \A b \in Barrier : db.barrier[b].need \in {0, 1}

\* The result of a child never makes the resolution of its barriers throw.
LEMMA ResultNeverThrows ==
  ASSUME NEW d \in Database, NEW c \in Child,
         \A b \in Barrier : d.barrier[b].need \in {0, 1},
         d.run[c].status \in TerminalStatus \ {"cancelled"}
  PROVE  ~ResolveThrows(d, c, "child_terminal")
<1> SUFFICES ASSUME NEW b \in Pending(d, c)
             PROVE  ~Throws(d, b, "child_terminal")
  BY DEF ResolveThrows
<1>1. b \in Barrier /\ c \in d.barrier[b].members
  BY DEF Pending
<1>2. CASE d.run[c].safe
  <2>1. SafeMembers(d, b) \subseteq Child /\ c \in SafeMembers(d, b)
    BY <1>1, <1>2 DEF SafeMembers, Database, BarrierRow
  <2>2. IsFiniteSet(SafeMembers(d, b))
    BY <2>1, FS_Subset, SubagentAssumption
  <2>3. Cardinality(SafeMembers(d, b)) \in Nat /\ Cardinality(SafeMembers(d, b)) # 0
    BY <2>1, <2>2, FS_CardinalityType, FS_EmptySet
  <2>4. Deliverable(d, b)
    BY <1>1, <2>3 DEF Deliverable
  <2>5. QED
    BY <2>4 DEF Throws, Outcome, AllowedEvidence
<1>3. CASE ~d.run[c].safe
  <2>1. c \in SpentMembers(d, b)
    BY <1>1, <1>3 DEF SpentMembers, IsTerminal
  <2>2. Outcome(d, b, "child_terminal") \in {"satisfied", "waiting", "failed"}
    BY <2>1 DEF Outcome
  <2>3. QED
    BY <2>2 DEF Throws, AllowedEvidence
<1>4. QED
  BY <1>2, <1>3

LEMMA SessionProceeds ==
  ASSUME TypeOK, AsksOne, SessionStep
  PROVE  Proceeds
<1> PICK x \in Child :
       SendThrows(x) \/ TurnEnds(x) \/ Followup(x) \/ Approve(x) \/ Close(x)
  BY DEF SessionStep
<1>1. ASSUME NEW s \in {"completed", "aborted_partial", "failed"}, NEW safe \in BOOLEAN,
             TurnResult(x, s, safe)
      PROVE  Proceeds
  <2> DEFINE result   == MarkResult(db, x, s, safe)
             resolved == ResolveActive(result, x, "child_terminal")
  <2>1. s \in TerminalStatus \ {"cancelled"}
    BY DEF TerminalStatus
  <2>2. result \in Database /\ result.barrier = db.barrier /\ result.run[x].status = s
    BY <2>1, MarkResultType, MarkResultRows DEF TypeOK
  <2>3. ~ResolveThrows(result, x, "child_terminal")
    BY <2>1, <2>2, ResultNeverThrows DEF AsksOne
  <2>4. db' = resolved /\ wait' = wait
    BY <1>1, <2>3 DEF TurnResult, EndsWith
  <2> HIDE DEF result
  <2>5. ASSUME NEW b \in Barrier
        PROVE  \/ db'.barrier[b] = db.barrier[b]
               \/ Open(db.barrier[b]) /\ SettledFrom(result, db', b)
    <3>1. "child_terminal" \in Evidence
      BY DEF Evidence
    <3>2. \/ resolved.barrier[b] = result.barrier[b]
          \/ Open(result.barrier[b]) /\ SettledFrom(result, resolved, b)
      BY <2>2, <3>1, ResolveActiveSettles
    <3>3. QED
      BY <2>2, <2>4, <3>2
  <2>6. Watched' \subseteq Watched
    BY <2>4, WatchedKept
  <2>7. QED
    BY <2>2, <2>5, <2>6, ProceedsBy
<1>2. CASE SendThrows(x) \/ TurnDropped(x) \/ TurnNeedsAttention(x) \/ Followup(x)
           \/ Approve(x) \/ Close(x)
  <2>1. db'.barrier = db.barrier /\ wait' = wait
    BY <1>2, FailedRows, MarkRows
    DEF SendThrows, TurnDropped, TurnNeedsAttention, EndsWith, Followup, Approve, Close,
        TypeOK, Database
  <2>2. QED
    BY <2>1, RowsAlone, WatchedKept
<1>3. QED
  BY <1>1, <1>2 DEF TurnEnds

\* A wait begins with a row that is there, or with a new one.
LEMMA WaitOnProceeds ==
  ASSUME TypeOK, NEW d \in Database, NEW b \in Barrier, NEW c, WaitOn(d, b, c),
         \A a \in Barrier \ {b} : d.barrier[a] = db.barrier[a],
         \/ d.barrier[b] = db.barrier[b]
         \/ db.barrier[b].status = "absent" /\ Open(d.barrier[b])
  PROVE  Proceeds
<1> DEFINE r == Resolve(d, b, "child_terminal")
<1>1. /\ \A a \in Barrier \ {b} : r.barrier[a] = d.barrier[a]
      /\ r.barrier[b] = d.barrier[b] \/ SettledFrom(d, r, b)
  BY ResolveSettles DEF Evidence
<1> HIDE DEF r
<1>2. \/ d.barrier[b].status # "waiting" /\ db' = d /\ wait' = wait
      \/ Open(d.barrier[b]) /\ db' = r /\ wait' = wait
      \/ /\ Open(d.barrier[b]) /\ db' = d
         /\ \E w : wait' = [pc |-> "waiting", barrier |-> b, child |-> w]
  BY DEF WaitOn, Open, r
<1>3. ASSUME NEW a \in Barrier \ {b}
      PROVE  RowKept(a)
  BY <1>1, <1>2 DEF RowKept, SameAsked
<1>4. RowKept(b) \/ RowOpened(b) \/ RowSettled(b)
  <2>1. CASE db' = d
    BY <2>1 DEF RowKept, RowOpened, SameAsked
  <2>2. CASE db' = r /\ Open(d.barrier[b])
    <3>1. CASE r.barrier[b] = d.barrier[b]
      BY <2>2, <3>1 DEF RowKept, RowOpened, SameAsked
    <3>2. CASE SettledFrom(d, r, b)
      BY <2>2, <3>2 DEF SettledFrom, RowSettled, SameAsked
    <3>3. QED
      BY <1>1, <3>1, <3>2
  <2>3. QED
    BY <1>2, <2>1, <2>2
<1>5. ASSUME NEW a \in Watched' \ Watched
      PROVE  a \in Barrier /\ Open(db'.barrier[a])
  <2>1. CASE wait' = wait
    BY <2>1, WatchedKept
  <2>2. CASE \E w : wait' = [pc |-> "waiting", barrier |-> b, child |-> w]
    <3>1. Watched' = {b}
      BY <2>2 DEF Watched
    <3>2. (db' = d /\ Open(d.barrier[b])) \/ wait' = wait
      BY <1>2
    <3>3. QED
      BY <3>1, <3>2, WatchedKept
  <2>3. QED
    BY <1>2, <2>1, <2>2
<1>6. QED
  BY <1>3, <1>4, <1>5 DEF Proceeds

LEMMA WaitBeginsProceeds ==
  ASSUME TypeOK, WaitBegins
  PROVE  Proceeds
<1>1. ASSUME NEW b \in Barrier, NEW c, WaitOn(db, b, c)
      PROVE  Proceeds
  BY <1>1, WaitOnProceeds DEF TypeOK
<1>2. ASSUME NEW b \in NextRow(db), NEW m \in SUBSET Child, NEW n \in Nat,
             NEW binding \in BOOLEAN, NEW c,
             WaitOn(CreateBarrier(db, b, m, n, binding), b, c)
      PROVE  Proceeds
  <2> DEFINE d == CreateBarrier(db, b, m, n, binding)
             row == [status |-> "waiting", members |-> m, need |-> n,
                     binding |-> binding, kind |-> "none"]
  <2>1. b \in Barrier /\ db.barrier[b].status = "absent"
    BY DEF NextRow, Earliest
  <2>2. d = [db EXCEPT !.barrier[b] = row]
    BY DEF CreateBarrier
  <2>3. row \in BarrierRow /\ row.status = "waiting"
    BY DEF BarrierRow, Evidence
  <2>4. WaitOn(d, b, c)
    BY <1>2
  <2> HIDE DEF d, row
  <2>5. /\ d \in Database /\ Open(d.barrier[b])
        /\ \A a \in Barrier \ {b} : d.barrier[a] = db.barrier[a]
    BY <2>1, <2>2, <2>3 DEF TypeOK, Database, Open
  <2>6. QED
    BY <2>1, <2>4, <2>5, WaitOnProceeds
<1>3. ASSUME NEW c \in Child, WaitForRun(c)
      PROVE  Proceeds
  <2>1. CASE BarriersOf(db, c) # {}
    BY <1>1, <1>3, <2>1, BarrierOfType DEF WaitForRun
  <2>2. CASE BarriersOf(db, c) = {}
    <3>1. PICK b \in NextRow(db) :
             WaitOn(CreateBarrier(db, b, {c}, 1, c \in Required), b, c)
      BY <1>3, <2>2 DEF WaitForRun
    <3>2. (c \in Required) \in BOOLEAN /\ {c} \in SUBSET Child /\ 1 \in Nat
      OBVIOUS
    <3>3. QED
      BY <1>2, <3>1, <3>2
  <2>3. QED
    BY <2>1, <2>2
<1>4. ASSUME NEW m \in Group, NEW t \in Terms, WaitForGroup(m, t)
      PROVE  Proceeds
  <2>1. m \in SUBSET Child /\ t.need \in Nat /\ t.binding \in BOOLEAN
    BY SubagentRunsAssumption, TermsType
  <2>2. CASE Matching(db, m, t) # {}
    BY <1>1, <1>4, <2>2, BarrierOfType DEF WaitForGroup
  <2>3. CASE Matching(db, m, t) = {}
    BY <1>2, <1>4, <2>1, <2>3 DEF WaitForGroup
  <2>4. QED
    BY <2>2, <2>3
<1>5. QED
  BY <1>1, <1>3, <1>4 DEF WaitBegins

LEMMA WatchedRow ==
  ASSUME TypeOK, wait.pc # "idle"
  PROVE  /\ wait.barrier \in Barrier /\ wait.child \in Child
         /\ Watched = {wait.barrier}
  BY WaitCallType DEF Watched

\* A call resolves the row it watches, after it has written the end of a run.
LEMMA ResolveWatched ==
  ASSUME TypeOK, wait.pc # "idle", NEW d \in Database, d.barrier = db.barrier,
         NEW kind \in Evidence, db' = Resolve(d, wait.barrier, kind), wait' = IdleWait
  PROVE  Proceeds
<1> DEFINE w == wait.barrier
<1>1. w \in Barrier /\ w \in Watched /\ Watched' \subseteq Watched
  BY WatchedRow, WatchedKept
<1>2. /\ \A a \in Barrier \ {w} : db'.barrier[a] = d.barrier[a]
      /\ db'.barrier[w] = d.barrier[w] \/ SettledFrom(d, db', w)
  BY <1>1, ResolveSettles
<1>3. ASSUME NEW b \in Barrier
      PROVE  \/ db'.barrier[b] = db.barrier[b]
             \/ /\ Open(db.barrier[b]) \/ b \in Watched
                /\ SettledFrom(d, db', b)
  BY <1>1, <1>2
<1>4. QED
  BY <1>1, <1>3, ProceedsBy

\* The stop of a child resolves the open barriers of the child.
LEMMA StopChildSettles ==
  ASSUME NEW d \in Database, NEW c \in Child, NEW b \in Barrier
  PROVE  \/ StopChild(d, c).barrier[b] = d.barrier[b]
         \/ Open(d.barrier[b]) /\ SettledFrom(d, StopChild(d, c), b)
<1> DEFINE marked == MarkSpent(d, c, "cancelled")
           r == ResolveActive(marked, c, "child_cancelled")
<1>1. marked \in Database /\ marked.barrier = d.barrier
  BY MarkSpentType, MarkSpentRows DEF TerminalStatus
<1> HIDE DEF marked
<1>2. \/ r.barrier[b] = marked.barrier[b]
      \/ Open(marked.barrier[b]) /\ SettledFrom(marked, r, b)
  BY <1>1, ResolveActiveSettles DEF Evidence
<1> HIDE DEF r
<1>3. StopChild(d, c) = d \/ StopChild(d, c) = r
  BY DEF StopChild, r, marked
<1>4. QED
  BY <1>1, <1>2, <1>3 DEF SettledFrom

LEMMA AbortedProceeds ==
  ASSUME TypeOK, WaitAborted
  PROVE  Proceeds
<1> DEFINE w == wait.barrier
           stop == StopChild(db, wait.child)
<1>1. wait.child \in Child /\ w \in Barrier /\ w \in Watched /\ Watched' \subseteq Watched
  BY WatchedRow, WatchedKept DEF WaitAborted, WaitReturns
<1>2. stop \in Database
  BY <1>1, StopChildType DEF TypeOK
<1>3. db' = Resolve(stop, w, "child_runtime_timeout")
  BY DEF WaitAborted, WaitReturns
<1>4. \A b \in Barrier : \/ stop.barrier[b] = db.barrier[b]
                         \/ Open(db.barrier[b]) /\ SettledFrom(db, stop, b)
  BY <1>1, StopChildSettles DEF TypeOK
<1> HIDE DEF stop, w
<1>5. /\ \A a \in Barrier \ {w} : db'.barrier[a] = stop.barrier[a]
      /\ db'.barrier[w] = stop.barrier[w] \/ SettledFrom(stop, db', w)
      /\ db'.run = stop.run
  BY <1>1, <1>2, <1>3, ResolveSettles, BarrierWritesKeepRuns DEF Evidence
<1>6. ASSUME NEW b \in Barrier
      PROVE  \/ db'.barrier[b] = db.barrier[b]
             \/ /\ Open(db.barrier[b]) \/ b \in Watched
                /\ SettledFrom(db, db', b)
  <2>1. CASE db'.barrier[b] = stop.barrier[b]
    <3>1. Deliverable(db', b) = Deliverable(stop, b) /\ Impossible(db', b) = Impossible(stop, b)
      BY <1>5, <2>1, CountsKept DEF SameAsked
    <3>2. QED
      BY <1>4, <2>1, <3>1 DEF SettledFrom, Settled
  <2>2. CASE b = w /\ SettledFrom(stop, db', b)
    BY <1>1, <1>4, <2>2 DEF SettledFrom, SameAsked
  <2>3. QED
    BY <1>5, <2>1, <2>2
<1>7. QED
  BY <1>1, <1>6, ProceedsBy

LEMMA TimesOutProceeds ==
  ASSUME TypeOK, WaitTimesOut
  PROVE  Proceeds
<1> DEFINE c == wait.child
           timedOut == MarkSpent(db, c, "timed_out")
           r == ResolveActive(timedOut, c, "child_runtime_timeout")
<1>1. wait.pc = "waiting" /\ c \in Child
  BY WatchedRow DEF WaitTimesOut
<1>2. timedOut \in Database /\ timedOut.barrier = db.barrier
  BY <1>1, MarkSpentType, MarkSpentRows DEF TypeOK, TerminalStatus
<1>3. CASE WaitReturns(Resolve(db, wait.barrier, "child_runtime_timeout"))
  <2>1. /\ db \in Database /\ "child_runtime_timeout" \in Evidence
        /\ db' = Resolve(db, wait.barrier, "child_runtime_timeout") /\ wait' = IdleWait
    BY <1>3 DEF TypeOK, Evidence, WaitReturns
  <2>2. QED
    BY <1>1, <2>1, ResolveWatched
<1>4. CASE /\ db' = r
           /\ wait' = IdleWait \/ wait' = [wait EXCEPT !.pc = "aborting"]
  <2>1. Watched' \subseteq Watched
    BY <1>1, <1>4, WatchedKept
  <2>2. ASSUME NEW b \in Barrier
        PROVE  \/ db'.barrier[b] = db.barrier[b]
               \/ Open(db.barrier[b]) /\ SettledFrom(timedOut, db', b)
    <3>1. "child_runtime_timeout" \in Evidence
      BY DEF Evidence
    <3> HIDE DEF timedOut
    <3>2. \/ r.barrier[b] = timedOut.barrier[b]
          \/ Open(timedOut.barrier[b]) /\ SettledFrom(timedOut, r, b)
      BY <1>1, <1>2, <3>1, ResolveActiveSettles
    <3>3. QED
      BY <1>2, <1>4, <3>2
  <2> HIDE DEF timedOut
  <2>3. QED
    BY <1>2, <2>1, <2>2, ProceedsBy
<1>5. QED
  BY <1>3, <1>4 DEF WaitTimesOut

LEMMA ExhaustedProceeds ==
  ASSUME TypeOK, WaitExhausted
  PROVE  Proceeds
<1>1. wait.pc # "idle" /\ wait.child \in Child
  BY WatchedRow DEF WaitExhausted
<1>2. PICK s \in {"aborted_partial", "failed"}, safe \in BOOLEAN :
         WaitReturns(Resolve(MarkResult(db, wait.child, s, safe), wait.barrier,
                             "child_terminal"))
  BY DEF WaitExhausted
<1> DEFINE marked == MarkResult(db, wait.child, s, safe)
<1>3. marked \in Database /\ marked.barrier = db.barrier
  <2>1. db \in Database /\ s \in ActiveStatus \cup TerminalStatus
    BY DEF TypeOK, TerminalStatus
  <2>2. marked \in Database
    BY <1>1, <2>1, MarkResultType
  <2>3. marked.barrier = db.barrier
    BY <1>1, <2>1, MarkResultRows
  <2>4. QED
    BY <2>2, <2>3
<1>4. db' = Resolve(marked, wait.barrier, "child_terminal") /\ wait' = IdleWait
  BY <1>2 DEF WaitReturns
<1> HIDE DEF marked
<1>5. "child_terminal" \in Evidence
  BY DEF Evidence
<1>6. QED
  BY <1>1, <1>3, <1>4, <1>5, ResolveWatched

LEMMA WaitProceeds ==
  ASSUME TypeOK, WaitStep
  PROVE  Proceeds
<1>1. CASE WaitExpires
  BY <1>1, RowsAlone, WatchedKept DEF WaitExpires, WaitReturns
<1>2. CASE WaitAsks
  <2>1. db'.barrier = db.barrier /\ wait' = IdleWait
    BY <1>2, WaitCallType, MarkRows DEF WaitAsks, WaitReturns, TypeOK
  <2>2. QED
    BY <2>1, RowsAlone, WatchedKept
<1>3. QED
  BY <1>1, <1>2, WaitBeginsProceeds, TimesOutProceeds, ExhaustedProceeds DEF WaitStep

LEMMA FinalizesProceeds ==
  ASSUME TypeOK, ParentFinalizes
  PROVE  Proceeds
<1>1. PICK lead \in Leads(db) :
        LET bad == {b \in Due(db) : Throws(db, b, TerminalEvidence(db, lead[b]))}
        IN  \E bs \in IF bad = {} THEN {Due(db)} ELSE SUBSET (Due(db) \ bad) :
              db' = Reconciled(db, lead, bs)
  BY DEF ParentFinalizes
<1>2. PICK bs \in SUBSET Due(db) : db' = Reconciled(db, lead, bs)
  BY <1>1
<1>3. \A b \in Barrier : \/ db'.barrier[b] = db.barrier[b]
                         \/ Open(db.barrier[b]) /\ SettledFrom(db, db', b)
  BY <1>2, ReconciledSettles DEF TypeOK
<1>4. Watched' \subseteq Watched
  BY WatchedKept DEF ParentFinalizes
<1>5. QED
  BY <1>3, <1>4, ProceedsBy

LEMMA RestartProceeds ==
  ASSUME TypeOK, Restart
  PROVE  Proceeds
<1>1. PICK fresh \in [FreshRows(db) -> Unguarded(db)] : db' = Reconcile(db, fresh)
  BY DEF Restart
<1>2. ASSUME NEW b \in Barrier
      PROVE  RowKept(b) \/ RowOpened(b)
  <2>1. CASE b \in FreshRows(db)
    BY <1>1, <2>1 DEF FreshRows, Reconcile, RowOpened, Open
  <2>2. CASE b \notin FreshRows(db)
    BY <1>1, <2>2 DEF Reconcile, RowKept, SameAsked
  <2>3. QED
    BY <2>1, <2>2
<1>3. Watched' = {}
  BY DEF Restart, Watched, IdleWait
<1>4. QED
  BY <1>2, <1>3 DEF Proceeds

(***************************************************************************)
(* The decisions of the user, and the stop of the parent.                  *)
(***************************************************************************)
LEMMA SettleDecides ==
  ASSUME TypeOK, NEW d \in Database, d.barrier = db.barrier, NEW b \in Barrier,
         db.barrier[b].status # "absent", NEW s, s # "absent", NEW kind,
         s = "satisfied" => kind = "explicit_partial",
         db' = Settle(d, b, s, kind), wait' = wait
  PROVE  DecidesOn(b)
<1>1. /\ \A a \in Barrier \ {b} : db'.barrier[a] = db.barrier[a]
      /\ SameAsked(db.barrier[b], db'.barrier[b])
      /\ db'.barrier[b].status = s /\ db'.barrier[b].kind = kind
  BY DEF Settle, SameAsked, Database, BarrierRow
<1>2. Watched' = Watched
  BY DEF Watched
<1>3. QED
  BY <1>1, <1>2 DEF DecidesOn, RowKept, SameAsked

LEMMA DecisionMaps ==
  ASSUME TypeOK, DecisionStep
  PROVE  Proceeds \/ \E b \in Barrier : DecidesOn(b)
<1> PICK b \in Barrier : Continue(b) \/ Fail(b) \/ Detach(b) \/ Retry(b) \/ ControlBegins(b)
  BY DEF DecisionStep
<1>1. ASSUME NEW k, NEW d \in Database, d.barrier = db.barrier, NEW s, s # "absent",
             NEW kind, s = "satisfied" => kind = "explicit_partial", Decides(b, k, d, s, kind)
      PROVE  DecidesOn(b)
  <2>1. /\ db.barrier[b].status # "absent"
        /\ db' = Settle(d, b, s, kind) /\ wait' = wait
    BY <1>1 DEF Decides, MayDecide
  <2>2. QED
    BY <1>1, <2>1, SettleDecides
<1>2. db \in Database
  BY DEF TypeOK
<1>3. CASE Continue(b) \/ Fail(b)
  BY <1>1, <1>2, <1>3 DEF Continue, Fail
<1>4. CASE Detach(b)
  BY <1>1, <1>2, <1>4, DetachedType, RunWritesKeepBarriers DEF Detach
<1>5. CASE Retry(b)
  BY <1>1, <1>2, <1>5, RerunType, RunWritesKeepBarriers DEF Retry
<1>6. CASE ControlBegins(b)
  BY <1>6, RowsAlone, WatchedKept DEF ControlBegins
<1>7. QED
  BY <1>3, <1>4, <1>5, <1>6

LEMMA CascadeCallsOff ==
  ASSUME TypeOK, CascadeRuns
  PROVE  CallsOff
<1>1. db' = Cascade(db) /\ Watched' = Watched
  BY DEF CascadeRuns, Watched
<1>2. ASSUME NEW b \in Barrier
      PROVE  IF Open(db.barrier[b])
             THEN /\ db'.barrier[b].status = "cancelled"
                  /\ SameAsked(db.barrier[b], db'.barrier[b])
             ELSE RowKept(b)
  <2>1. db.barrier[b] \in BarrierRow
    BY DEF TypeOK, Database
  <2>2. CASE Open(db.barrier[b])
    <3>1. db'.barrier[b] = [db.barrier[b] EXCEPT !.status = "cancelled",
                                                 !.kind = "parent_stopped"]
      BY <1>1, <2>2 DEF Cascade, Open
    <3>2. QED
      BY <2>1, <2>2, <3>1 DEF BarrierRow, SameAsked
  <2>3. CASE ~Open(db.barrier[b])
    BY <1>1, <2>3 DEF Cascade, Open, RowKept, SameAsked
  <2>4. QED
    BY <2>2, <2>3
<1>3. QED
  BY <1>1, <1>2 DEF CallsOff

\* A decision that cancels the children is about a row that is there.
ControlOpen ==
    control.barrier # NoBarrier => db.barrier[control.barrier].status # "absent"

LEMMA ContinuationMaps ==
  ASSUME TypeOK, ControlOpen, Continuation
  PROVE  Proceeds \/ CallsOff \/ \E b \in Barrier : DecidesOn(b)
<1>1. CASE WaitResumes
  <2>1. wait.pc # "idle" /\ wait.child \in Child
    BY <1>1, WatchedRow DEF WaitResumes, Resumed
  <2>2. CASE db' = db
    <3>1. wait' = IdleWait \/ \E w : wait' = [wait EXCEPT !.child = w]
      BY <1>1 DEF WaitResumes, WaitReturns
    <3>2. QED
      BY <2>2, <3>1, RowsAlone, WatchedKept
  <2>3. CASE db' = Resolve(db, wait.barrier, "child_terminal") /\ wait' = IdleWait
    <3>1. db \in Database /\ "child_terminal" \in Evidence
      BY DEF TypeOK, Evidence
    <3>2. QED
      BY <2>1, <2>3, <3>1, ResolveWatched
  <2>4. QED
    BY <1>1, <2>2, <2>3 DEF WaitResumes, WaitReturns
<1>2. CASE WaitAborted
  BY <1>2, AbortedProceeds
<1>3. ASSUME NEW c \in Child, CancelEnds(c)
      PROVE  Proceeds
  <2> DEFINE marked == IF IsActive(db, c) THEN MarkSpent(db, c, "cancelled") ELSE db
  <2>1. marked \in Database /\ marked.barrier = db.barrier
    BY MarkSpentType, MarkSpentRows DEF TypeOK, TerminalStatus
  <2>2. db' = ResolveActive(marked, c, "child_cancelled") /\ wait' = wait
    BY <1>3 DEF CancelEnds
  <2> HIDE DEF marked
  <2>3. ASSUME NEW b \in Barrier
        PROVE  \/ db'.barrier[b] = db.barrier[b]
               \/ Open(db.barrier[b]) /\ SettledFrom(marked, db', b)
    <3>1. "child_cancelled" \in Evidence
      BY DEF Evidence
    <3>2. QED
      BY <2>1, <2>2, <3>1, ResolveActiveSettles
  <2>4. Watched' \subseteq Watched
    BY <2>2, WatchedKept
  <2>5. QED
    BY <2>1, <2>3, <2>4, ProceedsBy
<1>4. ASSUME NEW c \in Child, StopEnds(c)
      PROVE  Proceeds
  <2>1. \A b \in Barrier : \/ db'.barrier[b] = db.barrier[b]
                           \/ Open(db.barrier[b]) /\ SettledFrom(db, db', b)
    BY <1>4, StopChildSettles DEF StopEnds, TypeOK
  <2>2. Watched' \subseteq Watched
    BY <1>4, WatchedKept DEF StopEnds
  <2>3. QED
    BY <2>1, <2>2, ProceedsBy
<1>5. ASSUME NEW c \in Child, ControlNext(c)
      PROVE  Proceeds
  <2>1. db'.barrier = db.barrier /\ wait' = wait
    BY <1>5, MarkSpentRows DEF ControlNext, TypeOK
  <2>2. QED
    BY <2>1, RowsAlone, WatchedKept
<1>6. CASE ControlEnds
  <2>1. control.barrier \in Barrier /\ db.barrier[control.barrier].status # "absent"
    BY <1>6 DEF ControlEnds, ControlOpen, TypeOK, ControlCall
  <2>2. /\ db' = Settle(db, control.barrier, "cancelled", "child_cancelled")
        /\ wait' = wait /\ db \in Database
    BY <1>6 DEF ControlEnds, TypeOK
  <2>3. DecidesOn(control.barrier)
    BY <2>1, <2>2, SettleDecides
  <2>4. QED
    BY <2>1, <2>3
<1>7. CASE CascadeRuns
  BY <1>7, CascadeCallsOff
<1>8. QED
  BY <1>1, <1>2, <1>3, <1>4, <1>5, <1>6, <1>7 DEF Continuation

(***************************************************************************)
(* The refinement.                                                         *)
(***************************************************************************)
LEMMA ControlOpenStep ==
  ASSUME TypeOK, ControlOpen, [Next]_vars
  PROVE  ControlOpen'
<1>1. \/ control'.barrier = control.barrier
      \/ control' = IdleControl
      \/ \E b \in Barrier : ControlBegins(b)
  <2>1. CASE UNCHANGED vars \/ CallStep \/ ParentStop \/ ParentFinalizes \/ Restart
    BY <2>1 DEF vars, CallStep, CancelBegins, StopBegins, Awaits, ParentStop,
         ParentFinalizes, Restart
  <2>2. CASE SpawnStep \/ SessionStep
    BY <2>2 DEF SpawnStep, Spawn, Launch, LaunchBlocked, SessionStep, SendThrows, TurnEnds,
         TurnDropped, TurnNeedsAttention, TurnResult, EndsWith, Followup, Approve, Close
  <2>3. CASE WaitStep \/ WaitExhausted
    BY <2>3 DEF WaitStep, WaitBegins, WaitExpires, WaitAsks, WaitTimesOut, WaitExhausted,
         WaitReturns
  <2>4. CASE DecisionStep
    BY <2>4 DEF DecisionStep, Continue, Fail, Detach, Retry, Decides
  <2>5. CASE Continuation
    BY <2>5 DEF Continuation, WaitResumes, WaitAborted, WaitReturns, CancelEnds, StopEnds,
         ControlNext, ControlEnds, CascadeRuns, TypeOK, ControlCall
  <2>6. QED
    BY <2>1, <2>2, <2>3, <2>4, <2>5 DEF Next
<1>2. KeepsTerms(db, db')
  BY StepTerms
<1>3. CASE control'.barrier = control.barrier
  BY <1>2, <1>3 DEF ControlOpen, KeepsTerms, FreshRow, TypeOK, ControlCall
<1>4. CASE control' = IdleControl
  BY <1>4 DEF ControlOpen, IdleControl
<1>5. CASE \E b \in Barrier : ControlBegins(b)
  BY <1>5 DEF ControlOpen, ControlBegins, MayDecide
<1>6. QED
  BY <1>1, <1>3, <1>4, <1>5

LEMMA AsksOneStep ==
  ASSUME Quorum \subseteq {0, 1}, TypeOK, AsksOne, [Next]_vars
  PROVE  AsksOne'
<1>1. KeepsTerms(db, db')
  BY StepTerms
<1>2. QED
  BY <1>1 DEF AsksOne, KeepsTerms, FreshRow

LEMMA StepImplements ==
  ASSUME TypeOK, TypeOK', AsksOne, ControlOpen, Next
  PROVE  Promise!GateNext
<1>1. CASE CallStep \/ ParentStop
  <2>1. db' = db /\ wait' = wait
    BY <1>1 DEF CallStep, CancelBegins, StopBegins, Awaits, ParentStop
  <2>2. QED
    BY <2>1, RowsAlone, WatchedKept, StepMaps
<1>2. CASE SpawnStep \/ SessionStep \/ WaitStep \/ ParentFinalizes \/ Restart
  BY <1>2, SpawnProceeds, SessionProceeds, WaitProceeds, FinalizesProceeds, RestartProceeds,
     StepMaps
<1>3. CASE WaitExhausted
  BY <1>3, ExhaustedProceeds, StepMaps
<1>4. CASE DecisionStep
  BY <1>4, DecisionMaps, StepMaps
<1>5. CASE Continuation
  BY <1>5, ContinuationMaps, StepMaps
<1>6. QED
  BY <1>1, <1>2, <1>3, <1>4, <1>5 DEF Next

LEMMA StutterImplements ==
  ASSUME UNCHANGED vars
  PROVE  UNCHANGED Promise!gateVars
BY DEF vars, Promise!gateVars, Asked, Become, Usable, AtWork, Watched, IsActive

LEMMA InitImplements ==
  ASSUME Init
  PROVE  Promise!GateInit
<1>1. db = EmptyDatabase /\ wait = IdleWait
  BY DEF Init
<1>2. ASSUME NEW b \in Barrier
      PROVE  /\ AskedOf(db.barrier[b]) = [of |-> {}, results |-> 1]
             /\ BecomeOf(db.barrier[b]) = "unused"
  BY <1>1 DEF EmptyDatabase, AbsentBarrier, AskedOf, BecomeOf
<1>3. Asked \in [Barrier -> [of : SUBSET Child, results : Nat]]
  BY <1>2 DEF Asked
<1>4. Become = [b \in Barrier |-> "unused"]
  BY <1>2 DEF Become
<1>5. Usable = {} /\ AtWork = {} /\ Watched = {}
  BY <1>1 DEF EmptyDatabase, Usable, AtWork, IsActive, ActiveStatus, Watched, IdleWait
<1>6. QED
  BY <1>3, <1>4, <1>5 DEF Promise!GateInit

\* The wait barriers of the store keep what a wait barrier promises: a barrier is met by
\* usable results or given up when they can no longer come, and nothing but a decision of
\* the user or the stop of the parent puts another end to it; for any number of children,
\* barriers, decisions, stops and restarts, if no group is asked for more than one result.
THEOREM ImplementsWaitBarriers ==
  ASSUME Quorum \subseteq {0, 1}
  PROVE  Spec => KeepsPromise
<1>1. Init => AsksOne /\ ControlOpen
  BY DEF Init, AsksOne, ControlOpen, EmptyDatabase, AbsentBarrier, IdleControl
<1>2. TypeOK /\ AsksOne /\ ControlOpen /\ [Next]_vars => AsksOne' /\ ControlOpen'
  BY AsksOneStep, ControlOpenStep
<1>3. Init => Promise!GateInit
  BY InitImplements
<1>4. TypeOK /\ TypeOK' /\ AsksOne /\ ControlOpen /\ [Next]_vars
        => [Promise!GateNext]_(Promise!gateVars)
  BY StepImplements, StutterImplements
<1>5. QED
  BY <1>1, <1>2, <1>3, <1>4, SubagentTypeCorrect, PTL
     DEF Spec, KeepsPromise, Promise!GateSpec
===============================================================================
