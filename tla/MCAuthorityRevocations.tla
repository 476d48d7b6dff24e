------------------------ MODULE MCAuthorityRevocations ------------------------
(* Both families belong to client c1.                                       *)
EXTENDS AuthorityRevocations
CONSTANTS f1, f2, c1, c2

MCClientOf == [f \in Families |-> c1]
=============================================================================
