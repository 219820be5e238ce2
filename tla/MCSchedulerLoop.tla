---------------------------- MODULE MCSchedulerLoop ----------------------------
(* Three tasks: c waits for a; a and b tie on priority and on creation time.  *)
EXTENDS SchedulerLoop

CONSTANTS a, b, c

MCTaskInfo ==
    [t \in {a, b, c} |->
        [priority   |-> IF t = c THEN 1 ELSE NoPriority,
         createdAt  |-> 5,
         identifier |-> CASE t = a -> 2 [] t = b -> 1 [] t = c -> 3,
         blockedBy  |-> IF t = c THEN {a} ELSE {}]]

\* max_concurrent_agents_by_state: todo: 1
MCStateLimit == [s \in TaskState |-> IF s = "todo" THEN 1 ELSE 2]
===============================================================================
