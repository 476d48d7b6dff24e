---------------------------- MODULE MCHttpRelay ----------------------------
(* Small instances of HttpRelay for TLC. *)
EXTENDS HttpRelay

CONSTANTS c1

OneCall == {c1}

(* With f faults the daemon draws at most 2f + 1 sessions, and the Worker    *)
(* opens at most f channels more, for first polls that arrive late.          *)
ThreeSessions == 1 .. 3
FourChannels  == 1 .. 4
FiveSessions  == 1 .. 5
SevenChannels == 1 .. 7

MCTimeout == [c \in Calls |-> 2]
=============================================================================
