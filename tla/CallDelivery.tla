---------------------------- MODULE CallDelivery ----------------------------
(* What the Worker and the daemons behind it promise together about one      *)
(* dispatched tool call, whatever happens to the connections between them:   *)
(*   - it is executed once at most;                                          *)
(*   - a caller told that the call was not received may repeat it: it was    *)
(*     not executed, and never will be;                                      *)
(*   - an answer comes from the execution, or from a daemon that refused the *)
(*     call, and once it is given no execution begins any more;              *)
(*   - what the caller was told never changes.                               *)
(* Only a call the Worker gave up, of which the caller is told that its      *)
(* effects are unknown, may still be executed afterwards.                    *)
CONSTANTS Calls,
          Refusals     \* a daemon may refuse a call (at its capacity)

VARIABLE call

Told == {"unsent", "waiting", "answered", "not_received", "unknown"}
Call == [told : Told, runs : {0, 1}]

Unsent == [told |-> "unsent", runs |-> 0]

(* The steps one call may take, as a relation between its old and new state. *)
Send(a, b)     == a = Unsent /\ b = [told |-> "waiting", runs |-> 0]
Execute(a, b)  == /\ a.told \in {"waiting", "unknown"} /\ a.runs = 0
                  /\ b = [told |-> a.told, runs |-> 1]
Answer(a, b)   == /\ a.told = "waiting" /\ (a.runs = 1 \/ Refusals)
                  /\ b = [told |-> "answered", runs |-> a.runs]
Disclaim(a, b) == /\ a.told \in {"unsent", "waiting"} /\ a.runs = 0
                  /\ b = [told |-> "not_received", runs |-> 0]
GiveUp(a, b)   == a.told = "waiting" /\ b = [told |-> "unknown", runs |-> a.runs]

CallStep(a, b) == \/ a = b
                  \/ Send(a, b) \/ Execute(a, b)
                  \/ Answer(a, b) \/ Disclaim(a, b) \/ GiveUp(a, b)

Init == call = [c \in Calls |-> Unsent]
Next == call' \in [Calls -> Call] /\ \A c \in Calls : CallStep(call[c], call'[c])
Spec == Init /\ [][Next]_call
=============================================================================
