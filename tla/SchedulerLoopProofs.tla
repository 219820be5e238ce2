-------------------------- MODULE SchedulerLoopProofs --------------------------
(***************************************************************************)
(* The selection loop of selectDispatchableTasks, for every table of       *)
(* tasks, states and claims: it ends with the one selection that the rule  *)
(* of OrchestrationScheduler allows, so that what SchedulerProofs says of  *)
(* a selection holds of what the loop returns.                             *)
(*                                                                         *)
(* The loop is a fold over the sorted tasks.  A first part unfolds it into *)
(* its turns; the second has the loop invariant.                           *)
(***************************************************************************)
EXTENDS SchedulerLoop, SchedulerProofs

(***************************************************************************)
(* A. The sorted tasks, and the turns of the loop.                         *)
(***************************************************************************)
LEMMA LeastNumber ==
  ASSUME NEW T, T \subseteq Nat, T # {}
  PROVE  \E n \in T : \A m \in T : n <= m
<1> DEFINE R == OpToRel(<, Nat)
<1>1. IsWellFoundedOn(R, Nat)
  BY NatLessThanWellFounded
<1>2. ASSUME NEW m \in Nat, NEW n \in Nat, m < n
      PROVE  <<m, n>> \in R
  BY <1>2 DEF OpToRel
<1> HIDE DEF R
<1>3. PICK n \in T : \A m \in T : ~(<<m, n>> \in R)
  <2> HIDE DEF IsWellFoundedOn
  <2>1. QED
    BY <1>1, WFMin
<1>4. ASSUME NEW m \in T
      PROVE  n <= m
  <2>1. n \in Nat /\ m \in Nat /\ ~(m < n)
    BY <1>2, <1>3
  <2>2. QED
    BY <2>1
<1>5. QED
  BY <1>4

\* order lists the tasks of U, each before those that it is dispatched before.
Sorts(order, U) ==
    /\ order \in [1..Cardinality(U) -> U]
    /\ \A i, j \in 1..Cardinality(U) : i < j => DispatchesBefore(order[i], order[j])
    /\ \A t \in U : \E i \in 1..Cardinality(U) : order[i] = t

LEMMA SortExists == \E order : Sorts(order, Task)
<1> DEFINE F == {U \in SUBSET Task : ~\E order : Sorts(order, U)}
<1>1. SUFFICES ASSUME Task \in F PROVE FALSE
  OBVIOUS
<1>2. PICK U \in F : \A V \in F : V \subseteq U => V = U
  <2>1. F \subseteq SUBSET Task /\ F # {} /\ IsFiniteSet(Task)
    BY <1>1, TaskAssumption
  <2> HIDE DEF F
  <2>2. QED
    BY <2>1, SmallestSubset
<1>3. U # {}
  <2>1. Sorts(<<>>, {})
    BY FS_EmptySet DEF Sorts
  <2>2. QED
    BY <1>2, <2>1
<1>4. PICK m \in U : \A u \in U \ {m} : DispatchesBefore(u, m)
  BY <1>2, <1>3, LastTask
<1>5. PICK order : Sorts(order, U \ {m})
  BY <1>2, <1>4
<1> DEFINE n == Cardinality(U \ {m})
           more == [i \in 1..n + 1 |-> IF i = n + 1 THEN m ELSE order[i]]
<1>6. n \in Nat /\ Cardinality(U) = n + 1
  <2>1. IsFiniteSet(U) /\ Cardinality(U) \in Nat
    BY <1>2, FS_Subset, FS_CardinalityType, TaskAssumption
  <2>2. IsFiniteSet(U \ {m}) /\ Cardinality(U \ {m}) = Cardinality(U) - 1
    BY <1>4, <2>1, FS_RemoveElement
  <2>3. Cardinality(U \ {m}) \in Nat
    BY <2>2, FS_CardinalityType
  <2>4. QED
    BY <2>1, <2>2, <2>3
<1>7. /\ order \in [1..n -> U \ {m}]
      /\ \A i, j \in 1..n : i < j => DispatchesBefore(order[i], order[j])
      /\ \A t \in U \ {m} : \E i \in 1..n : order[i] = t
  BY <1>5 DEF Sorts
<1> HIDE DEF n
<1>8. Sorts(more, U)
  <2>1. more \in [1..n + 1 -> U]
    BY <1>4, <1>6, <1>7
  <2>2. ASSUME NEW i \in 1..n + 1, NEW j \in 1..n + 1, i < j
        PROVE  DispatchesBefore(more[i], more[j])
    <3>1. i \in 1..n /\ more[i] = order[i]
      BY <1>6, <2>2
    <3>2. CASE j = n + 1
      BY <1>4, <1>7, <3>1, <3>2
    <3>3. CASE j \in 1..n
      BY <1>6, <1>7, <2>2, <3>1, <3>3
    <3>4. QED
      BY <1>6, <3>2, <3>3
  <2>3. ASSUME NEW t \in U
        PROVE  \E i \in 1..n + 1 : more[i] = t
    <3>1. CASE t = m
      BY <1>6, <3>1
    <3>2. CASE t # m
      <4>1. PICK i \in 1..n : order[i] = t
        BY <1>7, <3>2
      <4>2. i \in 1..n + 1 /\ more[i] = t
        BY <1>6, <4>1
      <4>3. QED
        BY <4>2
    <3>3. QED
      BY <3>1, <3>2
  <2> HIDE DEF more
  <2>4. QED
    BY <1>6, <2>1, <2>2, <2>3 DEF Sorts
<1>9. QED
  BY <1>2, <1>8

\* A sort of all tasks that puts them in dispatch order is onto: it is injective.
LEMMA SortedTasksSorts == Sorts(SortedTasks, Task)
<1> DEFINE n == Cardinality(Task)
           IsSort(order) == /\ order \in [1..n -> Task]
                            /\ \A i, j \in DOMAIN order : i < j => DispatchesBefore(order[i], order[j])
<1>1. \E order : order \in [1..n -> Task] /\ \A i, j \in DOMAIN order : i < j => DispatchesBefore(order[i], order[j])
  BY SortExists DEF Sorts
<1>2. IsSort(SortedTasks)
  BY <1>1 DEF SortedTasks
<1>3. IsFiniteSet(Task) /\ n \in Nat
  BY TaskAssumption, FS_CardinalityType
<1>4. /\ IsFiniteSet(1..n)
      /\ Cardinality(1..n) = n
  BY <1>3, FS_Interval
<1>5. \A i, j \in 1..n : SortedTasks[i] = SortedTasks[j] => i = j
  BY <1>2, <1>3, RankStrict
<1> DEFINE Img == {SortedTasks[i] : i \in 1..n}
<1>6. Img \subseteq Task /\ IsFiniteSet(Img)
  BY <1>2, <1>3, FS_Subset
<1>7. SortedTasks \in Bijection(1..n, Img)
  BY <1>2, <1>5 DEF Bijection, Injection, Surjection, IsInjective
<1>8. Cardinality(Img) = n
  <2> HIDE DEF Img, n
  <2>1. QED
    BY <1>4, <1>7, FS_Bijection DEF ExistsBijection
<1>9. Img = Task
  <2> HIDE DEF Img
  <2>1. QED
    BY <1>3, <1>6, <1>8, FS_Subset
<1>10. \A t \in Task : \E i \in 1..n : SortedTasks[i] = t
  BY <1>9
<1>11. QED
  BY <1>2, <1>10 DEF Sorts

Nothing ==
    [selected        |-> <<>>,
     selectedByState |-> [s \in TaskState |-> 0],
     rejected        |-> [t \in Task |-> "none"]]

\* g[s] is what the loop has after the tasks at the positions s.
IsLoop(g, S) ==
    g = [s \in SUBSET S |->
            IF s = {} THEN Nothing
            ELSE SelectTask(g[s \ {Max(s)}], SortedTasks[Max(s)])]

LEMMA LoopIsFold ==
  SelectDispatchableTasks = (CHOOSE g : IsLoop(g, DOMAIN SortedTasks))[DOMAIN SortedTasks]
  BY Zenon DEF SelectDispatchableTasks, FoldLeft, MapThenFoldSet, IsLoop, Nothing

LEMMA Maximum ==
  ASSUME NEW S, S \subseteq Nat, NEW m \in S, \A y \in S : m >= y
  PROVE  Max(S) = m
<1>1. Max(S) \in S /\ \A y \in S : Max(S) >= y
  BY DEF Max
<1>2. Max(S) >= m /\ m >= Max(S)
  BY <1>1
<1>3. Max(S) \in Nat /\ m \in Nat
  BY <1>1
<1>4. QED
  BY <1>2, <1>3

\* Recursion over the positions: every set of them has its loop.
LEMMA LoopExists ==
  ASSUME NEW n \in Nat
  PROVE  \E g : IsLoop(g, 1..n)
<1> DEFINE T == {k \in Nat : ~\E g : IsLoop(g, 1..k)}
<1>1. SUFFICES ASSUME n \in T PROVE FALSE
  OBVIOUS
<1>2. PICK k \in T : \A m \in T : k <= m
  <2>1. T \subseteq Nat /\ T # {}
    BY <1>1
  <2> HIDE DEF T
  <2>2. QED
    BY <2>1, LeastNumber
<1>3. k # 0
  <2> DEFINE h == [s \in SUBSET (1..0) |-> Nothing]
  <2>1. IsLoop(h, 1..0)
    BY DEF IsLoop
  <2>2. QED
    BY <1>2, <2>1
<1>4. k \in Nat /\ k - 1 \in Nat /\ k - 1 \notin T
  BY <1>2, <1>3
<1>5. PICK g : IsLoop(g, 1..(k - 1))
  BY <1>4
<1> DEFINE h == [s \in SUBSET (1..k) |->
                    IF k \in s THEN SelectTask(g[s \ {k}], SortedTasks[k]) ELSE g[s]]
<1>6. ASSUME NEW s \in SUBSET (1..k)
      PROVE  h[s] = IF s = {} THEN Nothing
                    ELSE SelectTask(h[s \ {Max(s)}], SortedTasks[Max(s)])
  <2>1. CASE k \in s
    <3>1. Max(s) = k
      <4>1. s \subseteq Nat /\ \A y \in s : k >= y
        BY <1>4
      <4>2. QED
        BY <2>1, <4>1, Maximum
    <3>2. h[s \ {k}] = g[s \ {k}] /\ h[s] = SelectTask(g[s \ {k}], SortedTasks[k])
      BY <2>1
    <3>3. QED
      BY <2>1, <3>1, <3>2
  <2>2. CASE k \notin s
    <3>1. s \in SUBSET (1..(k - 1))
      BY <1>4, <2>2
    <3>2. h[s] = g[s] /\ h[s \ {Max(s)}] = g[s \ {Max(s)}]
      BY <2>2
    <3>3. g[s] = IF s = {} THEN Nothing
                 ELSE SelectTask(g[s \ {Max(s)}], SortedTasks[Max(s)])
      BY <1>5, <3>1 DEF IsLoop
    <3>4. QED
      BY <3>2, <3>3
  <2>3. QED
    BY <2>1, <2>2
<1>7. IsLoop(h, 1..k)
  <2>1. h = [s \in SUBSET (1..k) |-> h[s]]
    OBVIOUS
  <2> HIDE DEF h
  <2>2. QED
    BY <1>6, <2>1, Zenon DEF IsLoop
<1>8. QED
  BY <1>2, <1>7

\* The turns of the loop: nothing is selected at first, and each position adds a turn.
LEMMA LoopTurns ==
  \E turn : /\ turn[0] = Nothing
            /\ \A i \in 1..Cardinality(Task) : turn[i] = SelectTask(turn[i - 1], SortedTasks[i])
            /\ SelectDispatchableTasks = turn[Cardinality(Task)]
<1> DEFINE n == Cardinality(Task)
<1>1. n \in Nat /\ DOMAIN SortedTasks = 1..n
  BY SortedTasksSorts, FS_CardinalityType, TaskAssumption DEF Sorts
<1> HIDE DEF n
<1> DEFINE g == CHOOSE g : IsLoop(g, 1..n)
<1>2. IsLoop(g, 1..n)
  BY <1>1, LoopExists
<1>3. SelectDispatchableTasks = g[1..n]
  BY <1>1, LoopIsFold
<1> HIDE DEF g
<1> DEFINE turn == [i \in 0..n |-> g[1..i]]
<1>4. turn[0] = Nothing
  <2>1. g[{}] = Nothing
    BY <1>2 DEF IsLoop
  <2>2. turn[0] = g[1..0] /\ 1..0 = {}
    BY <1>1
  <2>3. QED
    BY <2>1, <2>2
<1>5. ASSUME NEW i \in 1..n
      PROVE  turn[i] = SelectTask(turn[i - 1], SortedTasks[i])
  <2>1. 1..i \in SUBSET (1..n) /\ i \in 1..i /\ 1..i # {}
    BY <1>1
  <2>2. Max(1..i) = i
    <3>1. 1..i \subseteq Nat /\ \A y \in 1..i : i >= y
      BY <1>1
    <3>2. QED
      BY <2>1, <3>1, Maximum
  <2>3. (1..i) \ {i} = 1..(i - 1)
    BY <1>1
  <2>4. g[1..i] = SelectTask(g[(1..i) \ {Max(1..i)}], SortedTasks[Max(1..i)])
    BY <1>2, <2>1 DEF IsLoop
  <2>5. turn[i] = g[1..i] /\ turn[i - 1] = g[1..(i - 1)]
    BY <1>1
  <2>6. QED
    BY <2>2, <2>3, <2>4, <2>5
<1>6. turn[n] = g[1..n]
  BY <1>1
<1> HIDE DEF turn
<1>7. QED
  BY <1>3, <1>4, <1>5, <1>6 DEF n

(***************************************************************************)
(* B. The loop invariant: after the turns of the tasks U, what is selected *)
(* is the selection out of U, counted by state, and the rest is rejected.  *)
(***************************************************************************)
Reason == {"none", "terminal-state", "inactive-state", "already-running", "already-claimed",
           "blocked", "global-concurrency", "state-concurrency"}

Turn == [selected : Seq(Task), selectedByState : [TaskState -> Nat], rejected : [Task -> Reason]]

Counted(acc) ==
    /\ Len(acc.selected) = Cardinality(ToSet(acc.selected))
    /\ \A s \in TaskState :
         acc.selectedByState[s] = Cardinality({u \in ToSet(acc.selected) : states[u] = s})

Accounted(acc, U) ==
    /\ \A t \in U : t \in ToSet(acc.selected) <=> acc.rejected[t] = "none"
    /\ \A t \in Task \ U : acc.rejected[t] = "none"
    /\ \A t \in U : acc.rejected[t] = "global-concurrency" =>
         ~(Cardinality(Before(ToSet(acc.selected), t)) < FreeSlots(claims.running))

LoopInv(acc, U) ==
    /\ acc \in Turn
    /\ Counted(acc)
    /\ Accounted(acc, U)
    /\ SelectedFrom(U, ToSet(acc.selected), states, claims)

\* The rows of the tables.
Tables ==
    /\ states \in [Task -> TaskState]
    /\ claims \in [claimed : SUBSET Task, running : SUBSET Task]

LEMMA NothingSelected ==
  ASSUME Tables
  PROVE  LoopInv(Nothing, {})
<1>1. Nothing \in Turn
  BY DEF Nothing, Turn, Reason
<1>2. ToSet(Nothing.selected) = {} /\ Len(Nothing.selected) = 0
  BY DEF Nothing, ToSet
<1>3. Counted(Nothing)
  <2>1. ASSUME NEW s \in TaskState
        PROVE  Nothing.selectedByState[s] = Cardinality({u \in ToSet(Nothing.selected) : states[u] = s})
    <3>1. {u \in ToSet(Nothing.selected) : states[u] = s} = {}
      BY <1>2
    <3>2. Nothing.selectedByState[s] = 0
      BY DEF Nothing
    <3>3. QED
      BY <3>1, <3>2, FS_EmptySet
  <2>2. QED
    BY <1>2, <2>1, FS_EmptySet DEF Counted
<1>4. \A t \in Task : Nothing.rejected[t] = "none"
  BY DEF Nothing
<1>5. QED
  BY <1>1, <1>2, <1>3, <1>4 DEF LoopInv, Accounted, SelectedFrom

LEMMA RejectReason ==
  ASSUME NEW t
  PROVE  SkipReason(t, Task, states, claims)
           \in Reason \ {"global-concurrency", "state-concurrency"}
  BY DEF SkipReason, Reason

LEMMA AppendSet ==
  ASSUME NEW S, NEW s \in Seq(S), NEW t \in S
  PROVE  /\ Append(s, t) \in Seq(S)
         /\ Len(Append(s, t)) = Len(s) + 1
         /\ ToSet(Append(s, t)) = ToSet(s) \cup {t}
<1>1. Append(s, t) \in Seq(S) /\ Len(Append(s, t)) = Len(s) + 1 /\ Len(s) \in Nat
  OBVIOUS
<1>2. ToSet(Append(s, t)) \subseteq ToSet(s) \cup {t}
  BY <1>1 DEF ToSet
<1>3. t \in ToSet(Append(s, t))
  <2>1. Len(s) + 1 \in DOMAIN Append(s, t) /\ Append(s, t)[Len(s) + 1] = t
    BY <1>1
  <2>2. QED
    BY <2>1 DEF ToSet
<1>4. ASSUME NEW i \in DOMAIN s
      PROVE  s[i] \in ToSet(Append(s, t))
  <2>1. i \in DOMAIN Append(s, t) /\ Append(s, t)[i] = s[i]
    BY <1>1
  <2>2. QED
    BY <2>1 DEF ToSet
<1>5. QED
  BY <1>1, <1>2, <1>3, <1>4 DEF ToSet

\* A turn whose task comes after all the others decides as the rule does.
LEMMA LoopStep ==
  ASSUME NEW U \in SUBSET Task, NEW t \in Task \ U, \A u \in U : DispatchesBefore(u, t),
         NEW acc, LoopInv(acc, U), Tables
  PROVE  LoopInv(SelectTask(acc, t), U \cup {t})
<1> DEFINE sel == ToSet(acc.selected)
           s == states[t]
           static == SkipReason(t, Task, states, claims)
           inState == RunningByState(s) + acc.selectedByState[s]
           full == Len(acc.selected) >= FreeSlots(claims.running)
           crowded == inState >= StateLimit[s]
           reason == CASE static # "none" -> static
                       [] full -> "global-concurrency"
                       [] crowded -> "state-concurrency"
                       [] OTHER -> "none"
           took == [acc EXCEPT !.selected = Append(@, t), !.selectedByState[s] = @ + 1]
           left == [acc EXCEPT !.rejected[t] = reason]
<1>1. SelectTask(acc, t) = IF reason = "none" THEN took ELSE left
  BY Zenon DEF SelectTask
<1>2. /\ acc \in Turn /\ Counted(acc) /\ Accounted(acc, U)
      /\ SelectedFrom(U, sel, states, claims)
  BY DEF LoopInv
<1>3. sel \in SUBSET U /\ t \notin sel /\ s \in TaskState /\ IsFiniteSet(sel)
  BY <1>2, FS_Subset, TaskAssumption DEF SelectedFrom, Tables
<1>4. Before(sel, t) = sel
  BY <1>3 DEF Before
<1>5. /\ Len(acc.selected) = Cardinality(sel)
      /\ acc.selectedByState[s] = Cardinality({u \in sel : states[u] = s})
  BY <1>2, <1>3 DEF Counted
<1>6. /\ Cardinality(sel) \in Nat
      /\ FreeSlots(claims.running) \in Nat
      /\ inState \in Nat
      /\ StateLimit[s] \in Nat
  <2>1. IsFiniteSet(claims.running) /\ IsFiniteSet({u \in Task \cap claims.running : states[u] = s})
    BY FS_Subset, TaskAssumption DEF Tables
  <2>2. RunningByState(s) \in Nat
    BY <2>1, FS_CardinalityType DEF RunningByState, RunningInState
  <2>3. acc.selectedByState[s] \in Nat
    BY <1>2, <1>3 DEF Turn
  <2>4. QED
    BY <1>3, <2>1, <2>2, <2>3, FS_CardinalityType, FreeSlotsBound, WorkflowAssumption
<1>7. Admits(sel, t, states, claims) <=> static = "none" /\ ~full /\ ~crowded
  <2>1. Cardinality(sel) < FreeSlots(claims.running) <=> ~full
    BY <1>5, <1>6
  <2>2. RunningInState(s, Task, states, claims.running)
          + Cardinality({u \in sel : states[u] = s}) < StateLimit[s] <=> ~crowded
    BY <1>5, <1>6 DEF RunningByState
  <2>3. QED
    BY <1>4, <2>1, <2>2 DEF Admits
<1>8. /\ reason \in Reason
      /\ reason = "none" <=> static = "none" /\ ~full /\ ~crowded
      /\ reason = "global-concurrency" => full
  <2>1. static \in Reason \ {"global-concurrency", "state-concurrency"}
    BY RejectReason
  <2> HIDE DEF static, full, crowded
  <2>2. QED
    BY <2>1 DEF Reason
<1> HIDE DEF reason, static, full, crowded, inState
<1>9. CASE reason = "none"
  <2>1. SelectTask(acc, t) = took
    BY <1>1, <1>9
  <2>2. Admits(sel, t, states, claims)
    BY <1>7, <1>8, <1>9
  <2>3. /\ took.selected = Append(acc.selected, t)
        /\ took.selectedByState = [acc.selectedByState EXCEPT ![s] = @ + 1]
        /\ took.rejected = acc.rejected
    BY <1>2 DEF Turn
  <2>4. /\ ToSet(took.selected) = sel \cup {t}
        /\ Len(took.selected) = Len(acc.selected) + 1
        /\ took.selected \in Seq(Task)
    BY <1>2, <2>3, AppendSet DEF Turn
  <2>5. took \in Turn
    <3>1. [acc.selectedByState EXCEPT ![s] = @ + 1] \in [TaskState -> Nat]
      BY <1>2, <1>3 DEF Turn
    <3>2. /\ took = [acc EXCEPT !.selected = took.selected,
                              !.selectedByState = [acc.selectedByState EXCEPT ![s] = @ + 1]]
          /\ acc \in [selected : Seq(Task), selectedByState : [TaskState -> Nat],
                      rejected : [Task -> Reason]]
      BY <1>2, <2>3 DEF Turn
    <3> HIDE DEF took
    <3>3. QED
      BY <2>4, <3>1, <3>2 DEF Turn
  <2>6. Counted(took)
    <3>1. Len(took.selected) = Cardinality(sel \cup {t})
      BY <1>3, <1>5, <2>4, FS_AddElement
    <3>2. ASSUME NEW x \in TaskState
          PROVE  took.selectedByState[x] = Cardinality({u \in sel \cup {t} : states[u] = x})
      <4> DEFINE A == {u \in sel : states[u] = x}
      <4>1. IsFiniteSet(A) /\ t \notin A
        BY <1>3, FS_Subset
      <4>2. acc.selectedByState[x] = Cardinality(A)
        BY <1>2 DEF Counted
      <4>3. CASE x = s
        <5>1. {u \in sel \cup {t} : states[u] = x} = A \cup {t}
          BY <4>3
        <5>2. took.selectedByState[x] = acc.selectedByState[x] + 1
          BY <1>2, <2>3, <4>3 DEF Turn
        <5> HIDE DEF A
        <5>3. QED
          BY <4>1, <4>2, <5>1, <5>2, FS_AddElement
      <4>4. CASE x # s
        <5>1. {u \in sel \cup {t} : states[u] = x} = A
          BY <4>4
        <5>2. took.selectedByState[x] = acc.selectedByState[x]
          BY <1>2, <2>3, <4>4 DEF Turn
        <5>3. QED
          BY <4>2, <5>1, <5>2
      <4>5. QED
        BY <4>3, <4>4
    <3>3. QED
      BY <2>4, <3>1, <3>2 DEF Counted
  <2>7. ASSUME NEW u \in U \cup {t}
        PROVE  Before(sel \cup {t}, u) = Before(sel, u)
    BY <1>3, RankStrict DEF Before
  <2>8. acc.rejected[t] = "none"
    BY <1>2 DEF Accounted
  <2>9. Accounted(took, U \cup {t})
    <3>1. \A u \in U \cup {t} : u \in sel \cup {t} <=> took.rejected[u] = "none"
      BY <1>2, <1>3, <2>3, <2>8 DEF Accounted
    <3>2. \A u \in Task \ (U \cup {t}) : took.rejected[u] = "none"
      BY <1>2, <2>3 DEF Accounted
    <3>3. ASSUME NEW u \in U \cup {t}, took.rejected[u] = "global-concurrency"
          PROVE  ~(Cardinality(Before(sel \cup {t}, u)) < FreeSlots(claims.running))
      <4>1. u \in U /\ acc.rejected[u] = "global-concurrency"
        BY <2>3, <2>8, <3>3
      <4>2. QED
        BY <1>2, <2>7, <4>1 DEF Accounted
    <3>4. QED
      BY <2>4, <3>1, <3>2, <3>3 DEF Accounted
  <2>10. SelectedFrom(U \cup {t}, sel \cup {t}, states, claims)
    <3>1. ASSUME NEW u \in U \cup {t}
          PROVE  u \in sel \cup {t} <=> Admits(sel \cup {t}, u, states, claims)
      <4>1. Admits(sel \cup {t}, u, states, claims) <=> Admits(sel, u, states, claims)
        BY <2>7, AdmitsBefore
      <4>2. u \in sel \cup {t} <=> Admits(sel, u, states, claims)
        BY <1>2, <1>3, <2>2 DEF SelectedFrom
      <4>3. QED
        BY <4>1, <4>2
    <3>2. QED
      BY <1>3, <3>1 DEF SelectedFrom
  <2>11. QED
    BY <2>1, <2>4, <2>5, <2>6, <2>9, <2>10 DEF LoopInv
<1>10. CASE reason # "none"
  <2>1. SelectTask(acc, t) = left
    BY <1>1, <1>10
  <2>2. ~Admits(sel, t, states, claims)
    BY <1>7, <1>8, <1>10
  <2>3. /\ left.selected = acc.selected
        /\ left.selectedByState = acc.selectedByState
        /\ left.rejected = [acc.rejected EXCEPT ![t] = reason]
        /\ left \in Turn
    BY <1>2, <1>8 DEF Turn
  <2>4. Counted(left)
    BY <1>2, <2>3 DEF Counted
  <2>5. left.rejected[t] = reason /\ \A u \in Task \ {t} : left.rejected[u] = acc.rejected[u]
    BY <1>2, <2>3 DEF Turn
  <2>6. Accounted(left, U \cup {t})
    <3>1. \A u \in U \cup {t} : u \in sel <=> left.rejected[u] = "none"
      BY <1>2, <1>3, <1>10, <2>5 DEF Accounted
    <3>2. \A u \in Task \ (U \cup {t}) : left.rejected[u] = "none"
      BY <1>2, <2>5 DEF Accounted
    <3>3. ASSUME NEW u \in U \cup {t}, left.rejected[u] = "global-concurrency"
          PROVE  ~(Cardinality(Before(sel, u)) < FreeSlots(claims.running))
      <4>1. CASE u = t
        BY <1>4, <1>5, <1>6, <1>8, <2>5, <3>3, <4>1 DEF full
      <4>2. CASE u # t
        BY <1>2, <2>5, <3>3, <4>2 DEF Accounted
      <4>3. QED
        BY <4>1, <4>2
    <3>4. QED
      BY <2>3, <3>1, <3>2, <3>3 DEF Accounted
  <2>7. SelectedFrom(U \cup {t}, sel, states, claims)
    BY <1>2, <1>3, <2>2 DEF SelectedFrom
  <2>8. QED
    BY <2>1, <2>3, <2>4, <2>6, <2>7 DEF LoopInv
<1>11. QED
  BY <1>9, <1>10

\* The tasks at the first i positions.
FirstTasks(i) == {SortedTasks[j] : j \in 1..i}

LEMMA LoopEnd ==
  ASSUME Tables
  PROVE  LoopInv(SelectDispatchableTasks, Task)
<1> DEFINE n == Cardinality(Task)
<1>1. PICK turn : /\ turn[0] = Nothing
                  /\ \A i \in 1..n : turn[i] = SelectTask(turn[i - 1], SortedTasks[i])
                  /\ SelectDispatchableTasks = turn[n]
  BY LoopTurns
<1>2. /\ n \in Nat
      /\ SortedTasks \in [1..n -> Task]
      /\ \A i, j \in 1..n : i < j => DispatchesBefore(SortedTasks[i], SortedTasks[j])
      /\ FirstTasks(n) = Task
  BY SortedTasksSorts, FS_CardinalityType, TaskAssumption DEF Sorts, FirstTasks
<1> HIDE DEF n
<1> DEFINE Bad == {i \in 0..n : ~LoopInv(turn[i], FirstTasks(i))}
<1>3. Bad = {}
  <2> SUFFICES ASSUME Bad # {} PROVE FALSE
    OBVIOUS
  <2>1. PICK i \in Bad : \A j \in Bad : i <= j
    <3>1. Bad \subseteq Nat
      BY <1>2
    <3> HIDE DEF Bad
    <3>2. QED
      BY <3>1, LeastNumber
  <2>2. i # 0
    <3>1. FirstTasks(0) = {}
      BY DEF FirstTasks
    <3>2. QED
      BY <1>1, <2>1, <3>1, NothingSelected
  <2>3. i \in 1..n /\ i - 1 \in 0..n /\ i - 1 \notin Bad
    BY <1>2, <2>1, <2>2
  <2>4. LoopInv(turn[i - 1], FirstTasks(i - 1))
    BY <2>3
  <2>5. FirstTasks(i - 1) \in SUBSET Task
    BY <1>2, <2>3 DEF FirstTasks
  <2>6. \A u \in FirstTasks(i - 1) : DispatchesBefore(u, SortedTasks[i])
    BY <1>2, <2>3 DEF FirstTasks
  <2>7. SortedTasks[i] \in Task \ FirstTasks(i - 1)
    BY <1>2, <2>3, <2>5, <2>6, RankStrict
  <2>8. FirstTasks(i - 1) \cup {SortedTasks[i]} = FirstTasks(i)
    <3>1. 1..i = 1..(i - 1) \cup {i}
      BY <1>2, <2>3
    <3>2. QED
      BY <3>1 DEF FirstTasks
  <2>9. turn[i] = SelectTask(turn[i - 1], SortedTasks[i])
    BY <1>1, <2>3
  <2>10. LoopInv(turn[i], FirstTasks(i))
    BY <2>4, <2>5, <2>6, <2>7, <2>8, <2>9, LoopStep
  <2>11. QED
    BY <2>1, <2>10
<1>4. LoopInv(turn[n], FirstTasks(n))
  BY <1>2, <1>3
<1>5. QED
  BY <1>1, <1>2, <1>4

LEMMA LoopSelects ==
  ASSUME Tables
  PROVE  /\ IsSelection(ToSet(SelectDispatchableTasks.selected), Task, states, claims)
         /\ Len(SelectDispatchableTasks.selected) = Cardinality(ToSet(SelectDispatchableTasks.selected))
         /\ SelectDispatchableTasks.selected \in Seq(Task)
         /\ Accounted(SelectDispatchableTasks, Task)
  BY LoopEnd, SelectionAdmits DEF LoopInv, Counted, Turn

(***************************************************************************)
(* C. The theorems.                                                        *)
(***************************************************************************)
LEMMA TablesInvariant == Spec => []Tables
<1>1. Init => Tables
  BY DEF Init, Tables, TaskState
<1>2. Tables /\ [Next]_vars => Tables'
  <2> SUFFICES ASSUME Tables, [Next]_vars PROVE Tables'
    OBVIOUS
  <2>1. ASSUME NEW t \in Task, NEW s \in TaskState, SetTaskState(t, s)
        PROVE  Tables'
    BY <2>1 DEF SetTaskState, Tables
  <2>2. ASSUME NEW t \in Task, NEW p \in BOOLEAN, NEW r \in BOOLEAN, SetTaskRuns(t, p, r)
        PROVE  Tables'
    BY <2>2 DEF SetTaskRuns, Tables
  <2>3. CASE UNCHANGED vars
    BY <2>3 DEF vars, Tables
  <2>4. QED
    BY <2>1, <2>2, <2>3 DEF Next
<1>3. QED
  BY <1>1, <1>2, PTL DEF Spec

\* The tables stay well formed, and the loop of orchestrationScheduler.ts:50 accounts
\* for every task: it is selected, or rejected with a reason.
THEOREM LoopAccounts == Spec => []TypeOK
<1>1. Tables => TypeOK
  <2> SUFFICES ASSUME Tables PROVE TypeOK
    OBVIOUS
  <2> DEFINE chosen == SelectDispatchableTasks.selected
  <2>1. chosen \in Seq(Task) /\ DOMAIN chosen = 1..Len(chosen)
    BY LoopSelects
  <2>2. \A t \in Task : Contains(chosen, t) <=> t \in ToSet(chosen)
    BY <2>1 DEF Contains, ToSet
  <2>3. \A t \in Task : t \in ToSet(chosen) <=> SelectDispatchableTasks.rejected[t] = "none"
    BY LoopSelects DEF Accounted
  <2>4. QED
    BY <2>2, <2>3 DEF Tables, TypeOK
<1>2. QED
  BY <1>1, TablesInvariant, PTL

\* Whatever the tasks and the claims are, the loop selects the one set that the
\* dispatch rule allows: the rule is what the models of the dispatch use.
THEOREM LoopFollowsRule == Spec => []LoopMatchesSelection
<1>1. Tables => LoopMatchesSelection
  <2> SUFFICES ASSUME Tables PROVE LoopMatchesSelection
    OBVIOUS
  <2> DEFINE sel == ToSet(SelectDispatchableTasks.selected)
  <2>1. IsSelection(sel, Task, states, claims) /\ sel \in SUBSET Task
    BY LoopSelects DEF IsSelection
  <2>2. ASSUME NEW x \in SUBSET Task, IsSelection(x, Task, states, claims)
        PROVE  x = sel
    BY <2>1, <2>2, SelectionUnique
  <2> HIDE DEF sel
  <2>3. QED
    BY <2>1, <2>2 DEF LoopMatchesSelection, sel
<1>2. QED
  BY <1>1, TablesInvariant, PTL

\* Starting all that the loop selects exceeds neither the global limit nor the limit
\* of the state that a task is started from.
THEOREM LoopKeepsLimits == Spec => []SelectionWithinLimits
<1>1. Tables => SelectionWithinLimits
  <2> SUFFICES ASSUME Tables PROVE SelectionWithinLimits
    OBVIOUS
  <2> DEFINE sel == ToSet(SelectDispatchableTasks.selected)
  <2>1. IsSelection(sel, Task, states, claims)
    BY LoopSelects
  <2>2. claims.running \subseteq Task /\ IsFiniteSet(claims.running)
    BY FS_Subset, TaskAssumption DEF Tables
  <2> HIDE DEF sel
  <2>3. ASSUME sel # {}
        PROVE  Cardinality(sel \cup claims.running) <= MaxConcurrentAgents
    BY <2>1, <2>2, <2>3, SelectionWithinGlobalLimit
  <2>4. ASSUME NEW t \in sel
        PROVE  Cardinality({u \in sel \cup claims.running : states[u] = states[t]})
                 <= StateLimit[states[t]]
    BY <2>1, <2>2, SelectionWithinStateLimit DEF Tables
  <2>5. QED
    BY <2>3, <2>4, Zenon DEF SelectionWithinLimits, sel
<1>2. QED
  BY <1>1, TablesInvariant, PTL

\* A task that finds no free slot is passed over only for tasks of higher rank, which
\* take all the slots there are.
THEOREM LoopOvertakesNobody == Spec => []NoOvertaking
<1>1. Tables => NoOvertaking
  <2> SUFFICES ASSUME Tables PROVE NoOvertaking
    OBVIOUS
  <2> DEFINE sel == ToSet(SelectDispatchableTasks.selected)
  <2>1. IsSelection(sel, Task, states, claims)
    BY LoopSelects
  <2>2. IsFiniteSet(claims.running)
    BY FS_Subset, TaskAssumption DEF Tables
  <2>3. ASSUME NEW t \in Task, SelectDispatchableTasks.rejected[t] = "global-concurrency"
        PROVE  /\ \A u \in sel : DispatchesBefore(u, t)
               /\ Cardinality(sel) = FreeSlots(claims.running)
    <3>1. ~(Cardinality(Before(sel, t)) < FreeSlots(claims.running))
      BY <2>3, LoopSelects DEF Accounted
    <3> HIDE DEF sel
    <3>2. QED
      BY <2>1, <2>2, <3>1, SelectionOvertakesNobody
  <2>4. Len(SelectDispatchableTasks.selected) = Cardinality(sel)
    BY LoopSelects
  <2>5. QED
    BY <2>3, <2>4 DEF NoOvertaking
<1>2. QED
  BY <1>1, TablesInvariant, PTL
===============================================================================
