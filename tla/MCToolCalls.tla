----------------------------- MODULE MCToolCalls ----------------------------
(* A small instance of ToolCalls for TLC. *)
EXTENDS ToolCalls

CONSTANTS c1, c2, d1, k1, a1, x1, f1, f2

MCInstanceOf == [ch \in Channels |-> d1]

(* Two calls that share a request key but not a token family. *)
MCTimeout   == [c \in Calls |-> IF c = c1 THEN 2 ELSE 1]
MCExecution == [c \in Calls |-> 1]
MCKeyOf     == [c \in Calls |-> k1]
MCToolOf    == [c \in Calls |-> "ordinary"]
MCAuthority == [c \in Calls |-> [account |-> a1, client |-> x1,
                                 family  |-> IF c = c1 THEN f1 ELSE f2]]
MCScopes    == {[account |-> a1, client |-> x1, family |-> f1]}
=============================================================================
