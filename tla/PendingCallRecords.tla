------------------------- MODULE PendingCallRecords -------------------------
(* The record the Worker keeps for one dispatched tool call, and what each   *)
(* operation of worker/pending-calls.ts does to the whole registry.  The     *)
(* operators are pure functions of a registry R \in [Calls -> Record], so    *)
(* that a handler which performs several of them composes them.              *)
(*                                                                           *)
(* Time is kept per call, as the age since startedAt: deadlines are ages too *)
(* (deadlineAt - startedAt, ...), so no absolute clock is needed.            *)
EXTENDS ToolCallCapacity, FiniteSets

CONSTANTS
    Calls,          \* internal call ids (randomToken("call"), never reused)
    Channels,       \* daemon channels: WebSockets and HTTPS fallback channels
    Instances,      \* daemon process instances (instanceId)
    NoChannel,      \* record.socket === undefined
    NoInstance,     \* record of a call not dispatched yet
    Timeout,        \* settlement timeout of each call (timeoutMs)
    DeliveryGrace,  \* relayContract.reconnectResultDeliveryGraceMs
    ReconnectGrace  \* DAEMON_RECONNECT_GRACE_MS

ASSUME RecordsAssumption ==
    /\ NoChannel \notin Channels
    /\ NoInstance \notin Instances
    /\ Timeout \in [Calls -> Nat \ {0}]
    /\ DeliveryGrace \in Nat
    /\ ReconnectGrace \in Nat \ {0}

Failures == {"timed_out", "reconnect_expired", "cancelled", "revoked",
             "disconnected", "not_received", "send_failed"}
Outcomes == Failures \cup {"none", "answered"}

(* PendingCallRecord.  opTimer: record.timeout is armed, for deadline.       *)
(* reDeadline: reconnectDeadlineAt, 0 when undefined; armReconnect and       *)
(* clearReconnect set and clear it together with its timer.  redelivered:    *)
(* provenMissingRedeliveryChannel.  answeredBy is a history of the channel   *)
(* whose terminal result settled the call.                                   *)
Record == [status      : {"new", "pending", "settled"},
           owner       : Channels \cup {NoChannel},
           instance    : Instances \cup {NoInstance},
           age         : Nat,
           original    : Nat,
           deadline    : Nat,
           opTimer     : BOOLEAN,
           reDeadline  : Nat,
           redelivered : Channels \cup {NoChannel},
           outcome     : Outcomes,
           answeredBy  : Channels \cup {NoChannel}]

NewRecord ==
    [status |-> "new", owner |-> NoChannel, instance |-> NoInstance,
     age |-> 0, original |-> 0, deadline |-> 0, opTimer |-> FALSE,
     reDeadline |-> 0, redelivered |-> NoChannel, outcome |-> "none",
     answeredBy |-> NoChannel]

Pending(R)     == {c \in Calls : R[c].status = "pending"}
OwnedBy(R, ch) == {c \in Pending(R) : R[c].owner = ch}

(* resultOwnership *)
ResultOwnership(R, c, ch) ==
    IF c \notin Pending(R) THEN "missing"
    ELSE IF R[c].owner = ch THEN "owned" ELSE "stale"

-----------------------------------------------------------------------------
(* Deadlines: PendingCallDeadlines and pendingCallReconnectSettlement.       *)

(* Granting only a delivery grace to a call whose socket is lost.            *)
Fault_RemainingIsDeliveryGrace(r) == Larger(1, DeliveryGrace)

(* What is left until the deadline, at least the shortest delay.             *)
Remaining(r) == IF r.deadline > r.age THEN r.deadline - r.age ELSE 1

(* isDue *)
Due(r) == IF r.owner # NoChannel
          THEN r.deadline <= r.age
          ELSE r.reDeadline # 0 /\ r.reDeadline <= r.age

(* Granting the delivery grace from the present deadline instead of from the *)
(* original one.                                                             *)
Fault_GraceAccumulates(r) == [r EXCEPT !.deadline = @ + DeliveryGrace]

(* extendSettlementForReconnect *)
ExtendedForReconnect(r) ==
    [r EXCEPT !.deadline = Larger(@, r.original + DeliveryGrace)]

Registered(c, ch, instance) ==
    [NewRecord EXCEPT !.status = "pending", !.owner = ch, !.instance = instance,
                      !.original = Timeout[c], !.deadline = Timeout[c],
                      !.opTimer = TRUE]

(* Detaching that stops the operation timer but never starts the other one.  *)
Fault_DetachedWithoutTimer(r) ==
    [ExtendedForReconnect(r) EXCEPT !.owner = NoChannel, !.opTimer = FALSE]

(* The body of detachSocket's loop. *)
Detached(r) ==
    LET e == ExtendedForReconnect(r)
    IN  [e EXCEPT !.owner = NoChannel, !.opTimer = FALSE,
                  !.reDeadline = e.age + Smaller(ReconnectGrace, Remaining(e))]

(* The body of rebindInstance's loop. *)
Rebound(r, ch) ==
    LET e == ExtendedForReconnect(r)
    IN  [e EXCEPT !.owner = ch, !.opTimer = TRUE,
                  !.reDeadline = IF r.owner = NoChannel THEN 0 ELSE @,
                  !.deadline = e.age + Remaining(e)]

(* take, then settlement.  What the dropped record held no longer matters. *)
Settled(r, outcome, by) ==
    [NewRecord EXCEPT !.status = "settled", !.outcome = outcome,
                      !.redelivered = r.redelivered, !.answeredBy = by]

ExpiryOutcome(r) == IF r.owner # NoChannel THEN "timed_out" ELSE "reconnect_expired"

(* What the settlement says to the caller.  A call that was not received, or *)
(* could not be sent, may be tried again; the other errors leave open what   *)
(* it did (side_effects_started, effect_settlement).                         *)
Told(r) ==
    IF r.status = "new" THEN "unsent"
    ELSE IF r.status = "pending" THEN "waiting"
    ELSE CASE r.outcome = "answered" -> "answered"
           [] r.outcome \in {"not_received", "send_failed"} -> "not_received"
           [] OTHER -> "unknown"
-----------------------------------------------------------------------------
(* Operations on the registry. *)

DetachSocket(R, ch) ==
    [c \in Calls |-> IF c \in OwnedBy(R, ch) THEN Detached(R[c]) ELSE R[c]]

(* The ids rebindInstance returns. *)
ReboundCalls(R, instance, ch) ==
    {c \in Pending(R) : R[c].instance = instance /\ R[c].owner # ch}

RebindInstance(R, instance, ch) ==
    [c \in Calls |-> IF c \in ReboundCalls(R, instance, ch)
                     THEN Rebound(R[c], ch) ELSE R[c]]

(* finish on each pending call of S. *)
SettleAll(R, S, outcome) ==
    [c \in Calls |-> IF c \in S \cap Pending(R)
                     THEN Settled(R[c], outcome, NoChannel) ELSE R[c]]

(* A terminal result that settles whichever call it names. *)
Fault_AnswerAnyChannel(R, c, ch) ==
    IF c \in Pending(R)
    THEN [R EXCEPT ![c] = Settled(R[c], "answered", ch)] ELSE R

(* resolve and reject(id, error, channel): only the owner's result counts. *)
Answer(R, c, ch) ==
    IF ResultOwnership(R, c, ch) = "owned"
    THEN [R EXCEPT ![c] = Settled(R[c], "answered", ch)] ELSE R

(* Time passing: every pending call grows older. *)
Aged(R) == [c \in Calls |-> IF c \in Pending(R)
                            THEN [R[c] EXCEPT !.age = @ + 1] ELSE R[c]]

(* How far a timer may fire behind its due time: the event loop runs it some *)
(* time after, and other handlers run in between.                            *)
TimersWithin(R, lateness) ==
    \A c \in Pending(R) :
        /\ R[c].opTimer => R[c].age < R[c].deadline + lateness
        /\ R[c].reDeadline # 0 => R[c].age < R[c].reDeadline + lateness
=============================================================================
