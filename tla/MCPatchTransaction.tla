------------------------ MODULE MCPatchTransaction -------------------------
(* A small instance of PatchTransaction for TLC: patches of two operations   *)
(* of every pair of kinds, on two files that exist and two that do not.      *)
EXTENDS PatchTransaction, TLC

CONSTANTS a, b, c, d

MCFiles == {a, b, c, d}

OperationsOn(old, new) ==
    { [kind |-> "add",    source |-> Absent, target |-> new],
      [kind |-> "update", source |-> old,    target |-> old],
      [kind |-> "move",   source |-> old,    target |-> new],
      [kind |-> "move",   source |-> old,    target |-> old],
      [kind |-> "delete", source |-> old,    target |-> Absent] }

MCPlans == {<<first, second>> : first \in OperationsOn(a, c), second \in OperationsOn(b, d)}
=============================================================================
