---------------------------- MODULE SchedulerProofs -----------------------------
(***************************************************************************)
(* The dispatch rule of OrchestrationScheduler, for every table of tasks:  *)
(* the rank is a strict total order, the rule describes exactly one        *)
(* selection, and a selection stays within the limits.                     *)
(*                                                                         *)
(* Inductions over sets of tasks are done on a minimal counterexample      *)
(* (WFMin of WellFoundedInduction), which needs no predicate as a          *)
(* parameter.                                                              *)
(***************************************************************************)
EXTENDS OrchestrationScheduler, FiniteSetTheorems, TLAPS

(***************************************************************************)
(* Rank.                                                                   *)
(***************************************************************************)
LEMMA TaskColumns ==
  ASSUME NEW t \in Task
  PROVE  /\ TaskInfo[t].priority \in Nat
         /\ TaskInfo[t].createdAt \in Nat
         /\ TaskInfo[t].identifier \in Nat
<1>1. TaskInfo[t] \in [priority : 0..NoPriority, createdAt : Nat,
                        identifier : Nat, blockedBy : SUBSET Task]
  BY TaskAssumption
<1>2. \A n \in 0..NoPriority : n \in Nat
  OBVIOUS
<1>3. QED
  BY <1>1, <1>2

LEMMA RankTotal ==
  ASSUME NEW t \in Task, NEW u \in Task, t # u
  PROVE  DispatchesBefore(t, u) \/ DispatchesBefore(u, t)
  BY TaskColumns, TaskAssumption DEF DispatchesBefore

LEMMA RankStrict ==
  ASSUME NEW t \in Task, NEW u \in Task, DispatchesBefore(t, u)
  PROVE  ~DispatchesBefore(u, t) /\ t # u
  BY TaskColumns DEF DispatchesBefore

LEMMA RankTransitive ==
  ASSUME NEW t \in Task, NEW u \in Task, NEW v \in Task,
         DispatchesBefore(t, u), DispatchesBefore(u, v)
  PROVE  DispatchesBefore(t, v)
  BY TaskColumns DEF DispatchesBefore

\* The strict subsets of a finite set are well founded under inclusion.
LEMMA SmallestSubset ==
  ASSUME NEW S, IsFiniteSet(S), NEW F, F \subseteq SUBSET S, F # {}
  PROVE  \E U \in F : \A V \in F : V \subseteq U => V = U
<1>1. IsWellFoundedOn(StrictSubsetOrdering(S), FiniteSubsetsOf(S))
  BY FS_StrictSubsetOrderingWellFounded
<1>2. FiniteSubsetsOf(S) = SUBSET S
  BY FS_FiniteSubsetsOfFinite
<1>3. PICK U \in F : \A V \in F : ~(<<V, U>> \in StrictSubsetOrdering(S))
  <2> HIDE DEF StrictSubsetOrdering, IsWellFoundedOn
  <2>1. IsWellFoundedOn(StrictSubsetOrdering(S), SUBSET S)
    BY <1>1, <1>2
  <2>2. QED
    BY <2>1, WFMin
<1>4. ASSUME NEW V \in F, V \subseteq U
      PROVE  V = U
  BY <1>3, <1>4 DEF StrictSubsetOrdering
<1>5. QED
  BY <1>4

\* A task that no other task of the set goes before, or comes after: one whose
\* set of predecessors, or successors, is smallest.
LEMMA FirstTask ==
  ASSUME NEW S \in SUBSET Task, S # {}
  PROVE  \E t \in S : \A u \in S \ {t} : DispatchesBefore(t, u)
<1> DEFINE Pred(t) == {u \in S : DispatchesBefore(u, t)}
           F == {Pred(t) : t \in S}
<1>1. IsFiniteSet(S)
  BY FS_Subset, TaskAssumption
<1>2. F \subseteq SUBSET S /\ F # {}
  OBVIOUS
<1>3. PICK U \in F : \A V \in F : V \subseteq U => V = U
  <2> HIDE DEF F
  <2>1. QED
    BY <1>1, <1>2, SmallestSubset
<1>4. PICK t \in S : U = Pred(t)
  BY <1>3
<1>5. ASSUME NEW u \in S \ {t}
      PROVE  DispatchesBefore(t, u)
  <2> SUFFICES ASSUME DispatchesBefore(u, t) PROVE FALSE
    BY RankTotal
  <2>1. Pred(u) \subseteq Pred(t)
    BY RankTransitive
  <2>2. Pred(u) = Pred(t)
    BY <1>3, <1>4, <2>1
  <2>3. u \in Pred(t) /\ u \notin Pred(u)
    BY RankStrict
  <2>4. QED
    BY <2>2, <2>3
<1>6. QED
  BY <1>5

LEMMA LastTask ==
  ASSUME NEW S \in SUBSET Task, S # {}
  PROVE  \E t \in S : \A u \in S \ {t} : DispatchesBefore(u, t)
<1> DEFINE Succ(t) == {u \in S : DispatchesBefore(t, u)}
           F == {Succ(t) : t \in S}
<1>1. IsFiniteSet(S)
  BY FS_Subset, TaskAssumption
<1>2. F \subseteq SUBSET S /\ F # {}
  OBVIOUS
<1>3. PICK U \in F : \A V \in F : V \subseteq U => V = U
  <2> HIDE DEF F
  <2>1. QED
    BY <1>1, <1>2, SmallestSubset
<1>4. PICK t \in S : U = Succ(t)
  BY <1>3
<1>5. ASSUME NEW u \in S \ {t}
      PROVE  DispatchesBefore(u, t)
  <2> SUFFICES ASSUME DispatchesBefore(t, u) PROVE FALSE
    BY RankTotal
  <2>1. Succ(u) \subseteq Succ(t)
    BY RankTransitive
  <2>2. Succ(u) = Succ(t)
    BY <1>3, <1>4, <2>1
  <2>3. u \in Succ(t) /\ u \notin Succ(u)
    BY RankStrict
  <2>4. QED
    BY <2>2, <2>3
<1>6. QED
  BY <1>5

(***************************************************************************)
(* Selections.  Admits is the condition that IsSelection asks of a member; *)
(* it depends on the members before it only.                               *)
(***************************************************************************)
Before(sel, t) == {u \in sel : DispatchesBefore(u, t)}

Admits(sel, t, states, claims) ==
    /\ SkipReason(t, Task, states, claims) = "none"
    /\ Cardinality(Before(sel, t)) < FreeSlots(claims.running)
    /\ RunningInState(states[t], Task, states, claims.running)
         + Cardinality({u \in Before(sel, t) : states[u] = states[t]})
       < StateLimit[states[t]]

SelectedFrom(U, sel, states, claims) ==
    sel \subseteq U /\ \A t \in U : t \in sel <=> Admits(sel, t, states, claims)

LEMMA SelectionAdmits ==
  ASSUME NEW sel, NEW states, NEW claims
  PROVE  IsSelection(sel, Task, states, claims) <=> SelectedFrom(Task, sel, states, claims)
  BY DEF IsSelection, SelectedFrom, Admits, Before

LEMMA AdmitsBefore ==
  ASSUME NEW s1, NEW s2, NEW t, NEW states, NEW claims, Before(s1, t) = Before(s2, t)
  PROVE  Admits(s1, t, states, claims) <=> Admits(s2, t, states, claims)
  BY DEF Admits

\* Whatever the tasks, their states and the claims, some set is a selection.
THEOREM SelectionExists ==
  ASSUME NEW states, NEW claims
  PROVE  \E sel \in SUBSET Task : IsSelection(sel, Task, states, claims)
<1> DEFINE Has(U) == \E sel \in SUBSET Task : SelectedFrom(U, sel, states, claims)
           F == {U \in SUBSET Task : ~Has(U)}
<1>1. SUFFICES ASSUME Task \in F PROVE FALSE
  BY SelectionAdmits
<1>2. PICK U \in F : \A V \in F : V \subseteq U => V = U
  <2>1. F \subseteq SUBSET Task /\ F # {} /\ IsFiniteSet(Task)
    BY <1>1, TaskAssumption
  <2> HIDE DEF F
  <2>2. QED
    BY <2>1, SmallestSubset
<1>3. U # {}
  <2>1. SelectedFrom({}, {}, states, claims)
    BY DEF SelectedFrom
  <2>2. QED
    BY <1>2, <2>1
<1>4. PICK m \in U : \A u \in U \ {m} : DispatchesBefore(u, m)
  BY <1>2, <1>3, LastTask
<1>5. PICK sel \in SUBSET Task : SelectedFrom(U \ {m}, sel, states, claims)
  BY <1>2, <1>4
<1> DEFINE more == IF Admits(sel, m, states, claims) THEN sel \cup {m} ELSE sel
<1>6. U \subseteq Task /\ sel \subseteq U /\ m \notin sel /\ more \in SUBSET Task /\ more \subseteq U
  BY <1>2, <1>4, <1>5 DEF SelectedFrom
<1>7. ASSUME NEW t \in U
      PROVE  Before(more, t) = Before(sel, t)
  BY <1>4, <1>6, RankStrict DEF Before
<1>8. ASSUME NEW t \in U
      PROVE  t \in more <=> Admits(more, t, states, claims)
  BY <1>5, <1>6, <1>7, AdmitsBefore DEF SelectedFrom
<1>9. SelectedFrom(U, more, states, claims)
  BY <1>6, <1>8 DEF SelectedFrom
<1>10. QED
  BY <1>2, <1>6, <1>9

\* ... and only one: the dispatch order leaves no choice.
THEOREM SelectionUnique ==
  ASSUME NEW states, NEW claims, NEW s1, NEW s2,
         IsSelection(s1, Task, states, claims), IsSelection(s2, Task, states, claims)
  PROVE  s1 = s2
<1> DEFINE D == {t \in Task : ~(t \in s1 <=> t \in s2)}
<1>1. SelectedFrom(Task, s1, states, claims) /\ SelectedFrom(Task, s2, states, claims)
  BY SelectionAdmits
<1>2. SUFFICES D = {}
  BY <1>1 DEF SelectedFrom
<1>3. SUFFICES ASSUME D # {} PROVE FALSE
  OBVIOUS
<1>4. PICK t \in D : \A u \in D \ {t} : DispatchesBefore(t, u)
  BY <1>3, FirstTask
<1>5. ASSUME NEW u \in Task, DispatchesBefore(u, t)
      PROVE  u \in s1 <=> u \in s2
  BY <1>4, <1>5, RankStrict
<1>6. Before(s1, t) = Before(s2, t)
  BY <1>1, <1>5 DEF Before, SelectedFrom
<1>7. QED
  BY <1>1, <1>4, <1>6, AdmitsBefore DEF SelectedFrom

(***************************************************************************)
(* Limits.  The last member of a selection sees all the others before it.  *)
(***************************************************************************)
LEMMA FreeSlotsBound ==
  ASSUME NEW running, IsFiniteSet(running)
  PROVE  /\ FreeSlots(running) \in Nat
         /\ FreeSlots(running) > 0 => FreeSlots(running) + Cardinality(running) = MaxConcurrentAgents
  BY FS_CardinalityType, WorkflowAssumption DEF FreeSlots

\* What the members of a class of tasks see before them bounds the class.
LEMMA ClassBound ==
  ASSUME NEW S \in SUBSET Task, S # {}
  PROVE  \E m \in S : Cardinality(S) = Cardinality({u \in S : DispatchesBefore(u, m)}) + 1
<1>1. PICK m \in S : \A u \in S \ {m} : DispatchesBefore(u, m)
  BY LastTask
<1>2. {u \in S : DispatchesBefore(u, m)} = S \ {m}
  BY <1>1, RankStrict
<1>3. IsFiniteSet(S) /\ Cardinality(S) \in Nat
  BY FS_Subset, FS_CardinalityType, TaskAssumption
<1>4. Cardinality(S \ {m}) = Cardinality(S) - 1
  BY <1>3, FS_RemoveElement
<1>5. Cardinality(S) = Cardinality({u \in S : DispatchesBefore(u, m)}) + 1
  BY <1>2, <1>3, <1>4
<1>6. QED
  BY <1>5

LEMMA SelectionFits ==
  ASSUME NEW states, NEW claims, NEW sel, IsFiniteSet(claims.running),
         IsSelection(sel, Task, states, claims)
  PROVE  Cardinality(sel) <= FreeSlots(claims.running)
<1>1. SelectedFrom(Task, sel, states, claims)
  BY SelectionAdmits
<1>2. sel \in SUBSET Task /\ IsFiniteSet(sel) /\ Cardinality(sel) \in Nat
  BY <1>1, FS_Subset, FS_CardinalityType, TaskAssumption DEF SelectedFrom
<1>3. CASE sel = {}
  BY <1>3, FS_EmptySet, FreeSlotsBound
<1>4. CASE sel # {}
  <2>1. PICK m \in sel : Cardinality(sel) = Cardinality(Before(sel, m)) + 1
    BY <1>2, <1>4, ClassBound DEF Before
  <2>2. Cardinality(Before(sel, m)) < FreeSlots(claims.running)
    BY <1>1, <1>2, <2>1 DEF SelectedFrom, Admits
  <2>3. IsFiniteSet(Before(sel, m)) /\ Cardinality(Before(sel, m)) \in Nat
    BY <1>2, FS_Subset, FS_CardinalityType DEF Before
  <2>4. QED
    BY <2>1, <2>2, <2>3, FreeSlotsBound
<1>5. QED
  BY <1>3, <1>4

LEMMA UnionBound ==
  ASSUME NEW S, NEW T, IsFiniteSet(S), IsFiniteSet(T)
  PROVE  /\ IsFiniteSet(S \cup T)
         /\ Cardinality(S \cup T) \in Nat
         /\ Cardinality(S \cup T) <= Cardinality(S) + Cardinality(T)
<1>1. IsFiniteSet(S \cap T) /\ Cardinality(S \cap T) \in Nat
  BY FS_Intersection, FS_CardinalityType
<1>2. Cardinality(S) \in Nat /\ Cardinality(T) \in Nat
  BY FS_CardinalityType
<1>3. /\ IsFiniteSet(S \cup T)
      /\ Cardinality(S \cup T) = Cardinality(S) + Cardinality(T) - Cardinality(S \cap T)
  BY FS_Union
<1>4. Cardinality(S \cup T) \in Nat
  BY <1>3, FS_CardinalityType
<1>5. QED
  BY <1>1, <1>2, <1>3, <1>4

\* Starting all that is selected keeps the running tasks within the global limit.
LEMMA SelectionWithinGlobalLimit ==
  ASSUME NEW states, NEW claims, NEW sel, IsFiniteSet(claims.running),
         IsSelection(sel, Task, states, claims), sel # {}
  PROVE  Cardinality(sel \cup claims.running) <= MaxConcurrentAgents
<1>1. sel \in SUBSET Task /\ IsFiniteSet(sel) /\ Cardinality(sel) \in Nat
  BY SelectionAdmits, FS_Subset, FS_CardinalityType, TaskAssumption DEF SelectedFrom
<1>2. Cardinality(sel) # 0
  BY <1>1, FS_EmptySet
<1>3. Cardinality(sel) <= FreeSlots(claims.running)
  BY SelectionFits
<1>4. Cardinality(claims.running) \in Nat
  BY FS_CardinalityType
<1>5. QED
  BY <1>1, <1>2, <1>3, <1>4, FreeSlotsBound, UnionBound, WorkflowAssumption

\* ... and within the limit of each state a task is started from.
LEMMA SelectionWithinStateLimit ==
  ASSUME NEW states \in [Task -> TaskState], NEW claims, NEW sel,
         IsSelection(sel, Task, states, claims),
         claims.running \subseteq Task, NEW t \in sel
  PROVE  Cardinality({u \in sel \cup claims.running : states[u] = states[t]})
           <= StateLimit[states[t]]
<1> DEFINE S == {u \in sel : states[u] = states[t]}
           R == {u \in Task \cap claims.running : states[u] = states[t]}
<1>1. SelectedFrom(Task, sel, states, claims)
  BY SelectionAdmits
<1>2. sel \in SUBSET Task /\ S \in SUBSET Task /\ R \in SUBSET Task /\ S # {}
  BY <1>1 DEF SelectedFrom
<1>3. IsFiniteSet(S) /\ IsFiniteSet(R)
  BY <1>2, FS_Subset, TaskAssumption
<1>4. PICK m \in S : Cardinality(S) = Cardinality({u \in S : DispatchesBefore(u, m)}) + 1
  <2> HIDE DEF S
  <2>1. QED
    BY <1>2, ClassBound
<1>5. {u \in S : DispatchesBefore(u, m)} = {u \in Before(sel, m) : states[u] = states[m]}
  BY <1>4 DEF Before
<1>6. Cardinality(R) + Cardinality({u \in S : DispatchesBefore(u, m)}) < StateLimit[states[t]]
  <2>1. m \in Task /\ m \in sel /\ states[m] = states[t]
    BY <1>2, <1>4
  <2>2. Admits(sel, m, states, claims)
    BY <1>1, <2>1 DEF SelectedFrom
  <2>3. QED
    BY <1>5, <2>1, <2>2 DEF Admits, RunningInState
<1>7. {u \in sel \cup claims.running : states[u] = states[t]} = S \cup R
  BY <1>2
<1>8. Cardinality(S) \in Nat /\ Cardinality(R) \in Nat
  BY <1>3, FS_CardinalityType
<1>9. Cardinality(S \cup R) <= Cardinality(S) + Cardinality(R) /\ Cardinality(S \cup R) \in Nat
  BY <1>3, UnionBound
<1>10. StateLimit[states[t]] \in Nat
  BY <1>2, WorkflowAssumption
<1> HIDE DEF S, R
<1>11. Cardinality({u \in S : DispatchesBefore(u, m)}) = Cardinality(S) - 1
  <2>1. IsFiniteSet({u \in S : DispatchesBefore(u, m)})
    BY <1>3, FS_Subset
  <2>2. QED
    BY <1>4, <1>8, <2>1, FS_CardinalityType
<1>12. Cardinality(S \cup R) <= StateLimit[states[t]]
  BY <1>6, <1>8, <1>9, <1>10, <1>11
<1>13. QED
  BY <1>7, <1>12

\* No overtaking: a dispatchable task that finds no free slot has all of the
\* selection before it, and the selection fills the slots.
LEMMA SelectionOvertakesNobody ==
  ASSUME NEW states, NEW claims, NEW sel, IsFiniteSet(claims.running),
         IsSelection(sel, Task, states, claims), NEW t \in Task,
         ~(Cardinality(Before(sel, t)) < FreeSlots(claims.running))
  PROVE  /\ \A u \in sel : DispatchesBefore(u, t)
         /\ Cardinality(sel) = FreeSlots(claims.running)
<1>1. sel \in SUBSET Task /\ IsFiniteSet(sel) /\ Cardinality(sel) \in Nat
  BY SelectionAdmits, FS_Subset, FS_CardinalityType, TaskAssumption DEF SelectedFrom
<1>2. /\ Before(sel, t) \in SUBSET sel
      /\ Cardinality(Before(sel, t)) \in Nat
      /\ Cardinality(Before(sel, t)) <= Cardinality(sel)
      /\ Cardinality(sel) = Cardinality(Before(sel, t)) => Before(sel, t) = sel
  <2>1. Before(sel, t) \in SUBSET sel
    BY DEF Before
  <2>2. QED
    BY <1>1, <2>1, FS_Subset, FS_CardinalityType
<1>3. Cardinality(sel) <= FreeSlots(claims.running) /\ FreeSlots(claims.running) \in Nat
  BY SelectionFits, FreeSlotsBound
<1>4. Before(sel, t) = sel /\ Cardinality(sel) = FreeSlots(claims.running)
  BY <1>1, <1>2, <1>3
<1>5. QED
  BY <1>4 DEF Before
===============================================================================
