---------------------------- MODULE CallOwnership ---------------------------
(* What the Worker promises about one dispatched tool call, whatever happens *)
(* to the channels below it:                                                 *)
(*   - at every moment a call in flight is held by one channel or by none;   *)
(*   - it moves only between channels of the daemon instance it was sent to; *)
(*   - a daemon's answer settles it only through the channel that holds it;  *)
(*   - it is settled once, and what settled it never changes.                *)
(* Calls evolve independently, and one handler may move many at once.        *)
CONSTANTS Calls, Channels, Instances, NoChannel, NoInstance,
          InstanceOf     \* the daemon instance behind each channel

VARIABLE call

Call == [phase  : {"new", "held", "orphaned", "answered", "failed"},
         holder : Channels \cup {NoChannel},
         home   : Instances \cup {NoInstance}]

Unsent   == [phase |-> "new", holder |-> NoChannel, home |-> NoInstance]
Failed   == [phase |-> "failed", holder |-> NoChannel, home |-> NoInstance]
AnsweredBy(ch) == [phase |-> "answered", holder |-> ch, home |-> NoInstance]
HeldBy(ch)     == [phase |-> "held", holder |-> ch, home |-> InstanceOf[ch]]

(* The steps one call may take, as a relation between its old and new state. *)
Send(a, b)    == a = Unsent /\ \E ch \in Channels : b = HeldBy(ch)
Move(a, b)    == /\ a.phase \in {"held", "orphaned"}
                 /\ \E ch \in Channels : InstanceOf[ch] = a.home /\ b = HeldBy(ch)
Orphan(a, b)  == a.phase = "held"
                 /\ b = [phase |-> "orphaned", holder |-> NoChannel, home |-> a.home]
Answer(a, b)  == a.phase = "held" /\ b = AnsweredBy(a.holder)
Fail(a, b)    == a.phase \in {"held", "orphaned"} /\ b = Failed

CallStep(a, b) == \/ a = b
                  \/ Send(a, b) \/ Move(a, b) \/ Orphan(a, b)
                  \/ Answer(a, b) \/ Fail(a, b)

Init == call = [c \in Calls |-> Unsent]
Next == call' \in [Calls -> Call] /\ \A c \in Calls : CallStep(call[c], call'[c])
Spec == Init /\ [][Next]_call
=============================================================================
