------------------------------ MODULE MCMcpTasks ------------------------------
(* A small instance of McpTasks for TLC. *)
EXTENDS McpTasks, TLC

CONSTANTS j1, j2, o1, o2, r1, r2

MCOwnerOf == [j \in Jobs |-> IF j = j1 THEN o1 ELSE o2]

(* Handlers are interchangeable. *)
RequestSymmetry == Permutations(Requests)
=============================================================================
