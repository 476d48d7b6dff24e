-------------------------- MODULE MCRelayRecovery --------------------------
(* Small instances of RelayRecovery for TLC. *)
EXTENDS RelayRecovery, TLC

CONSTANTS c1, c2

OneCall  == {c1}
TwoCalls == {c1, c2}

TwoSockets   == 1 .. 2
ThreeSockets == 1 .. 3

OneInstance  == {1}
TwoInstances == {1, 2}

MCTimeout   == [c \in Calls |-> 2]
MCExecution == [c \in Calls |-> 1]

CallSymmetry == Permutations(Calls)
=============================================================================
