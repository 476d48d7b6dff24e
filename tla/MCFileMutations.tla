-------------------------- MODULE MCFileMutations --------------------------
(* A small instance of FileMutations for TLC: four calls, one of which names *)
(* two spellings of one file and one of which may hang, on three files.      *)
EXTENDS FileMutations, TLC

CONSTANTS m1, m2, m3, m4, a, A, b, c

MCMutations == {m1, m2, m3, m4}
MCPaths == {a, A, b, c}

(* macOS and Windows fold case: A is another spelling of a.                  *)
MCKeyOf == [p \in MCPaths |-> IF p = A THEN a ELSE p]

MCTargets ==
    m1 :> {a} @@ m2 :> {a, A, b} @@ m3 :> {A, b, c} @@ m4 :> {c}

MCHanging == {m1}
=============================================================================
