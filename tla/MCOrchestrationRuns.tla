-------------------------- MODULE MCOrchestrationRuns ---------------------------
(* One task t1, or two: t2 waits for t1 and is the more urgent one.            *)
EXTENDS OrchestrationRuns, TLC

CONSTANTS t1, t2

MCTaskInfo ==
    [t \in Task |->
        [priority   |-> IF t = t1 THEN NoPriority ELSE 1,
         createdAt  |-> 5,
         identifier |-> IF t = t1 THEN 1 ELSE 2,
         blockedBy  |-> {t1} \cap (Task \ {t})]]

MCStateLimit == [s \in TaskState |-> MaxConcurrentAgents]

Symmetry == Permutations(Job)
===============================================================================
