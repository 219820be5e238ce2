----------------------------- MODULE MCAutoDispatch -----------------------------
(* One task t1, or two of the same rank, which the creation time decides.     *)
EXTENDS AutoDispatch, TLC

CONSTANTS t1, t2

MCTaskInfo ==
    [t \in Task |->
        [priority   |-> NoPriority,
         createdAt  |-> IF t = t1 THEN 5 ELSE 6,
         identifier |-> IF t = t1 THEN 1 ELSE 2,
         blockedBy  |-> {}]]

MCStateLimit == [s \in TaskState |-> MaxConcurrentAgents]

Symmetry == Permutations(Job)
===============================================================================
