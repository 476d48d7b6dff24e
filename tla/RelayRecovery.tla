---------------------------- MODULE RelayRecovery ---------------------------
(* One daemon and the Worker across reconnecting WebSockets: what happens to *)
(* tool calls when sockets die under them.  The Worker side is the registry  *)
(* of PendingCallRecords driven by daemon-websocket-controller.ts and        *)
(* daemon-ready-messages.ts; the daemon side is runtime.mjs,                 *)
(* relay-call-recovery.mjs, relay-result-retention.mjs, relay-recovery.mjs   *)
(* and relay-connection.mjs.                                                 *)
(*                                                                           *)
(* Sockets are numbered in the order the daemon opens them, one at a time.   *)
(* A socket is two FIFO queues.  When it dies, what is still queued may be   *)
(* delivered up to the moment the receiver learns of the close, and the two  *)
(* ends learn of it independently: a half-open socket is one that an end has *)
(* not learned about yet.                                                    *)
EXTENDS PendingCallRecords, Sequences

CONSTANTS
    ExecutionBudget,   \* executionTimeoutMs of each call
    MinRedelivery,     \* 1 000 ms in daemonToolRedeliveryArguments
    DaemonGrace,       \* RelayCallRecovery.graceMs
    DaemonMaximum,     \* MAX_CONCURRENT_TOOL_CALLS
    DaemonReserved,    \* RESERVED_CONTROL_TOOL_CALLS (every call here is ordinary)
    MaxLateness,       \* bound: ticks a timer may run late
    Crashes,           \* bound: times the daemon process may die
    Reliable           \* bound: sockets the network never drops

Sockets == Channels
None == NoChannel

ASSUME RelayAssumption ==
    /\ IsFiniteSet(Calls) /\ IsFiniteSet(Channels)
    /\ Channels = 1 .. Cardinality(Channels) /\ NoChannel = 0
    /\ Instances = 1 .. Crashes + 1
    /\ ExecutionBudget \in [Calls -> Nat \ {0}]
    /\ MinRedelivery \in Nat \ {0} /\ DaemonMaximum \in Nat \ {0}
    /\ DaemonReserved \in Nat /\ DaemonGrace \in Nat
    /\ MaxLateness \in Nat \ {0} /\ Crashes \in Nat /\ Reliable \subseteq Channels

(* relay-contract.json: the Worker settles a call before the daemon that     *)
(* lost its socket gives up the calls it runs (at most 75 s + 15 s against   *)
(* 120 s).  The slack covers timers that run late, and the one tick more     *)
(* that each detach or rebind of an overdue call grants it.                  *)
ASSUME GraceOutlivesCalls ==
    \A c \in Calls : Timeout[c] + DeliveryGrace + MaxLateness
                      + (2 * Cardinality(Channels) - 1) * (1 + MaxLateness) < DaemonGrace

VARIABLES
    rec,        \* Worker: the pending-call registry
    role,       \* Worker: role of each socket: none | probing | replaced | daemon | expired
    expected,   \* Worker: ids a resume acknowledgement may report (reconciliations)
    acked,      \* Worker: sockets whose resume acknowledgement was consumed
    alive,      \* network: sockets neither dropped nor closed by an end
    up, down,   \* network: messages to the Worker, to the daemon
    instanceOf, \* the daemon instance that opened each socket
    cur,        \* daemon: its current socket, or None
    phase,      \* daemon: closed | authenticated | ready
    resume,     \* daemon: relayResumeStates, the missing ids found for cur
    local,      \* daemon: none | active | suppressed | retained, per call
    unsafe,     \* daemon: tombstones of results given up (RelayRedeliverySafety)
    expiry,     \* daemon: 0, or 1 + the age of the reconnect timer
    instance,   \* daemon: the running process
    opened,     \* daemon: sockets opened so far
    started,    \* history: executions begun, per call
    violation   \* history: a message one end must treat as a protocol error

workerVars == <<rec, role, expected, acked>>
netVars    == <<alive, up, down, instanceOf>>
daemonVars == <<cur, phase, resume, local, unsafe, expiry, instance, opened>>
history    == <<started, violation>>
vars == <<workerVars, netVars, daemonVars, history>>

NoResume == [known |-> FALSE, missing |-> {}]

Init ==
    /\ rec = [c \in Calls |-> NewRecord]
    /\ role = [s \in Sockets |-> "none"]
    /\ expected = [s \in Sockets |-> {}] /\ acked = {}
    /\ alive = {}
    /\ up = [s \in Sockets |-> <<>>] /\ down = [s \in Sockets |-> <<>>]
    /\ instanceOf = [s \in Sockets |-> 1]
    /\ cur = None /\ phase = "closed" /\ resume = NoResume
    /\ local = [c \in Calls |-> "none"] /\ unsafe = {} /\ expiry = 0
    /\ instance = 1 /\ opened = 0
    /\ started = [c \in Calls |-> 0] /\ violation = FALSE

-----------------------------------------------------------------------------
(* Messages. *)

Probed       == [type |-> "probe_result"]
Resume(S)    == [type |-> "resume_calls", ids |-> S]
ReadyAck     == [type |-> "ready_ack"]
ResumeAck(S) == [type |-> "resume_calls_ack", ids |-> S]
ToolCall(c)  == [type |-> "tool_call", id |-> c]
CancelCall(c)== [type |-> "cancel_call", id |-> c]
Result(c)    == [type |-> "tool_result", id |-> c]
ResultAck(c) == [type |-> "tool_result_ack", id |-> c]
Pong         == [type |-> "pong"]

(* The orders in which the members of S can be sent. *)
Orders(S) == {q \in [1 .. Cardinality(S) -> S] : \A i, j \in DOMAIN q : q[i] = q[j] => i = j}

(* A send on a socket that is dead already is lost without the sender        *)
(* noticing; sockets its end has closed are not sent on at all.              *)
Sent(queues, s, messages) ==
    IF s \in alive THEN [queues EXCEPT ![s] = @ \o messages] ELSE queues
Popped(queues, s) == [queues EXCEPT ![s] = Tail(@)]

(* A message an end takes from the head of a socket's queue. *)
WorkerHandles(s, type) ==
    up[s] # <<>> /\ Head(up[s]).type = type
DaemonHandles(s, type) ==
    /\ cur = s /\ s # None
    /\ down[s] # <<>> /\ Head(down[s]).type = type

-----------------------------------------------------------------------------
(* The network. *)

Drop(s) ==
    /\ s \in alive \ Reliable
    /\ alive' = alive \ {s}
    /\ UNCHANGED <<workerVars, up, down, instanceOf, daemonVars, history>>

-----------------------------------------------------------------------------
(* The Worker. *)

(* webSocketMessage first awaits the sweep of overdue calls (ExpireCall):    *)
(* when the handler of a ready socket goes on, none is left.                 *)
Swept == \A c \in Pending(rec) : ~Due(rec[c])

(* webSocketClose, webSocketError and the liveness and readiness alarms:     *)
(* the socket is expired and its calls detached (beginCleanup).  The ids it  *)
(* was to acknowledge are forgotten with it.                                 *)
WorkerCloses(s) ==
    /\ role[s] \in {"probing", "replaced", "daemon"} /\ s \notin alive
    /\ role' = [role EXCEPT ![s] = "expired"]
    /\ rec' = DetachSocket(rec, s)
    /\ expected' = [expected EXCEPT ![s] = {}]
    /\ up' = [up EXCEPT ![s] = <<>>]
    /\ UNCHANGED <<acked, alive, down, instanceOf, daemonVars, history>>

(* Announcing readiness before the calls to resume. *)
Fault_ReadyFirst(S) == <<ReadyAck, Resume(S)>>
PromotionMessages(S) == <<Resume(S), ReadyAck>>

(* handleProbeResult.  The socket takes over the calls of its instance, the  *)
(* daemon is told which, and every other ready socket is closed.             *)
Promote(s) ==
    LET previous == {t \in Sockets \ {s} : role[t] = "daemon"}
        rebound  == RebindInstance(rec, instanceOf[s], s)
    IN  /\ WorkerHandles(s, "probe_result")
        /\ role[s] = "probing"
        /\ role' = [t \in Sockets |-> IF t = s THEN "daemon"
                                      ELSE IF t \in previous THEN "expired" ELSE role[t]]
        /\ rec' = [c \in Calls |->
                      IF \E t \in previous : c \in OwnedBy(rebound, t)
                      THEN Detached(rebound[c]) ELSE rebound[c]]
        /\ expected' = [t \in Sockets |->
                            IF t = s THEN ReboundCalls(rec, instanceOf[s], s)
                            ELSE IF t \in previous THEN {} ELSE expected[t]]
        /\ down' = Sent(down, s, PromotionMessages(ReboundCalls(rec, instanceOf[s], s)))
        /\ alive' = alive \ previous
        /\ up' = [t \in Sockets |-> IF t = s THEN Tail(up[s])
                                    ELSE IF t \in previous THEN <<>> ELSE up[t]]
        /\ UNCHANGED <<acked, instanceOf, daemonVars, history>>

(* Its failure path: a send throws, after resume_calls went out or before.   *)
(* The calls are detached again and rebound to a socket of the same instance *)
(* that the Worker still believes open, which may well be dead.              *)
PromotionFails(s, resumeSent) ==
    LET taken    == RebindInstance(rec, instanceOf[s], s)
        detached == DetachSocket(taken, s)
        previous == {t \in Sockets \ {s} : role[t] = "daemon" /\ instanceOf[t] = instanceOf[s]}
    IN  /\ WorkerHandles(s, "probe_result")
        /\ role[s] \in {"probing", "replaced"}
        /\ s \notin alive
        /\ role' = [role EXCEPT ![s] = "expired"]
        /\ \/ previous = {} /\ rec' = detached
           \/ \E t \in previous : rec' = RebindInstance(detached, instanceOf[s], t)
        /\ down' = IF resumeSent
                   THEN [down EXCEPT ![s] = @ \o <<Resume(ReboundCalls(rec, instanceOf[s], s))>>]
                   ELSE down
        /\ up' = [up EXCEPT ![s] = <<>>]
        /\ UNCHANGED <<expected, acked, alive, instanceOf, daemonVars, history>>

(* callDaemonTool: register on a ready socket and send. *)
Dispatch(c, s) ==
    /\ rec[c].status = "new"
    /\ role[s] = "daemon"
    /\ rec' = [rec EXCEPT ![c] = Registered(c, s, instanceOf[s])]
    /\ down' = Sent(down, s, <<ToolCall(c)>>)
    /\ UNCHANGED <<role, expected, acked, alive, up, instanceOf, daemonVars, history>>

(* Its send fails on a socket the Worker finds closed: the call is rejected  *)
(* and the socket invalidated.                                               *)
DispatchFails(c, s) ==
    /\ rec[c].status = "new"
    /\ role[s] = "daemon" /\ s \notin alive
    /\ role' = [role EXCEPT ![s] = "expired"]
    /\ rec' = DetachSocket([rec EXCEPT ![c] =
                  Settled(Registered(c, s, instanceOf[s]), "send_failed", None)], s)
    /\ expected' = [expected EXCEPT ![s] = {}]
    /\ up' = [up EXCEPT ![s] = <<>>]
    /\ UNCHANGED <<acked, alive, down, instanceOf, daemonVars, history>>

(* Settling a call the daemon may be running: cancel_call to its owner, if   *)
(* it has one.                                                               *)
GiveUp(c, outcome) ==
    /\ rec' = SettleAll(rec, {c}, outcome)
    /\ down' = IF rec[c].owner = None THEN down
               ELSE Sent(down, rec[c].owner, <<CancelCall(c)>>)
    /\ UNCHANGED <<role, expected, acked, alive, up, instanceOf, daemonVars, history>>

CancelRequest(c) == c \in Pending(rec) /\ GiveUp(c, "cancelled")

(* The operation and reconnect timers, and the overdue sweep. *)
ExpireCall(c) ==
    /\ c \in Pending(rec) /\ Due(rec[c])
    /\ GiveUp(c, ExpiryOutcome(rec[c]))

(* The acknowledgement with its condition inverted. *)
Fault_AcknowledgeInverted(c, s) ==
    IF ResultOwnership(rec, c, s) = "stale" THEN <<ResultAck(c)>> ELSE <<>>

(* The acknowledgement of a terminal result: none for a call another socket  *)
(* owns, whose daemon must keep the result for it.                           *)
Acknowledgement(c, s) ==
    IF ResultOwnership(rec, c, s) = "stale" THEN <<>> ELSE <<ResultAck(c)>>

(* handleReadyDaemonMessage: tool_result. *)
WorkerResult(s) ==
    /\ WorkerHandles(s, "tool_result") /\ role[s] = "daemon" /\ Swept
    /\ LET c == Head(up[s]).id
       IN  /\ rec' = Answer(rec, c, s)
           /\ down' = Sent(down, s, Acknowledgement(c, s))
    /\ up' = Popped(up, s)
    /\ UNCHANGED <<role, expected, acked, alive, instanceOf, daemonVars, history>>

(* redeliverAfterProvenMissing: what is left of the original execution       *)
(* budget must reach the minimum.                                            *)
RedeliveryAllowed(c) == rec[c].age + MinRedelivery <= ExecutionBudget[c]

(* settleDaemonProvenMissingCalls: of the calls this socket owns and the     *)
(* daemon proved it never received, redeliver what may be, and reject the    *)
(* rest as not received.                                                     *)
WorkerResumeAck(s) ==
    LET ids      == Head(up[s]).ids
        owned    == ids \cap OwnedBy(rec, s)
        again    == {c \in owned : rec[c].redelivered = None /\ RedeliveryAllowed(c)}
        rejected == {c \in owned : rec[c].redelivered \notin {None, s}
                                   \/ (rec[c].redelivered = None /\ ~RedeliveryAllowed(c))}
        valid    == ids \subseteq expected[s] /\ s \notin acked
    IN  /\ WorkerHandles(s, "resume_calls_ack") /\ role[s] = "daemon" /\ Swept
        /\ acked' = acked \cup {s}
        /\ IF valid
           THEN /\ rec' = [c \in Calls |->
                             IF c \in again THEN [rec[c] EXCEPT !.redelivered = s]
                             ELSE IF c \in rejected THEN Settled(rec[c], "not_received", None)
                             ELSE rec[c]]
                /\ \E q \in Orders(again) :
                      down' = Sent(down, s, [i \in DOMAIN q |-> ToolCall(q[i])])
                /\ UNCHANGED violation
           ELSE violation' = TRUE /\ UNCHANGED <<rec, down>>
        /\ up' = Popped(up, s)
        /\ UNCHANGED <<role, expected, alive, instanceOf, daemonVars, started>>

(* A heartbeat answered with pong.  Bound: only while a tool runs, one at a  *)
(* time, when everything the daemon sent before it has been handled.         *)
WorkerPong(s) ==
    /\ role[s] = "daemon" /\ s \in alive /\ s = cur /\ phase = "ready"
    /\ up[s] = <<>> /\ Swept
    /\ \E c \in Calls : local[c] = "active"
    /\ \A i \in DOMAIN down[s] : down[s][i].type # "pong"
    /\ down' = Sent(down, s, <<Pong>>)
    /\ UNCHANGED <<workerVars, alive, up, instanceOf, daemonVars, history>>

-----------------------------------------------------------------------------
(* The daemon. *)

Active   == {c \in Calls : local[c] \in {"active", "suppressed"}}
Retained == {c \in Calls : local[c] = "retained"}
Owned    == Active \cup Retained

(* scheduleExpiry: the timer already running is kept. *)
Scheduled == IF expiry = 0 THEN 1 ELSE expiry

(* connect, then the handshake up to the probe result it sends: welcome,     *)
(* hello, hello_ack and relay_probe change nothing about calls.  hello_ack   *)
(* starts a new session and forgets the resume state.  The Worker closes the *)
(* sockets that were still probing, and learns of their close event later.   *)
Connect(s) ==
    /\ cur = None /\ s = opened + 1
    /\ opened' = s /\ cur' = s /\ phase' = "authenticated" /\ resume' = NoResume
    /\ instanceOf' = [instanceOf EXCEPT ![s] = instance]
    /\ role' = [t \in Sockets |-> IF t = s THEN "probing"
                                  ELSE IF role[t] = "probing" THEN "replaced" ELSE role[t]]
    /\ alive' = {t \in alive : role[t] # "probing"} \cup {s}
    /\ up' = [up EXCEPT ![s] = <<Probed>>]
    /\ UNCHANGED <<rec, expected, acked, down, local, unsafe, expiry, instance, history>>

(* The socket's close event: onDisconnect, only if it was ready, starts the  *)
(* reconnect grace when there is anything to keep.                           *)
DaemonCloses ==
    /\ cur # None /\ cur \notin alive
    /\ down' = [down EXCEPT ![cur] = <<>>]
    /\ cur' = None /\ phase' = "closed" /\ resume' = NoResume
    /\ expiry' = IF phase = "ready" /\ Owned # {} THEN Scheduled ELSE expiry
    /\ UNCHANGED <<workerVars, alive, up, instanceOf, local, unsafe, instance, opened, history>>

(* Reporting nothing as missing. *)
Fault_NothingMissing(ids) == {}

(* reconcile: what the daemon can prove it never received. *)
ProvenMissing(ids) == ids \ (Owned \cup unsafe)

(* handleResumeCalls and reconcileRelayCalls: cancel what the Worker no      *)
(* longer waits for.                                                         *)
DaemonResume ==
    /\ DaemonHandles(cur, "resume_calls")
    /\ LET ids == Head(down[cur]).ids
       IN  IF phase = "authenticated" /\ ~resume.known
           THEN /\ resume' = [known |-> TRUE, missing |-> ProvenMissing(ids)]
                /\ unsafe' = unsafe \cap ids
                /\ local' = [c \in Calls |->
                      IF c \in ids THEN local[c]
                      ELSE IF c \in Active THEN "suppressed" ELSE "none"]
                /\ UNCHANGED violation
           ELSE violation' = TRUE /\ UNCHANGED <<resume, unsafe, local>>
    /\ down' = Popped(down, cur)
    /\ UNCHANGED <<workerVars, alive, up, instanceOf, cur, phase, expiry,
                   instance, opened, started>>

(* ready_ack: the session is ready, the grace timer stops, every retained    *)
(* result is sent again, then the resume acknowledgement.                    *)
DaemonReady ==
    /\ DaemonHandles(cur, "ready_ack")
    /\ IF resume.known /\ phase = "authenticated"
       THEN /\ phase' = "ready" /\ expiry' = 0 /\ resume' = NoResume
            /\ \E q \in Orders(Retained) :
                  up' = Sent(up, cur, [i \in DOMAIN q |-> Result(q[i])]
                                      \o <<ResumeAck(resume.missing)>>)
            /\ UNCHANGED violation
       ELSE violation' = TRUE /\ UNCHANGED <<phase, expiry, resume, up>>
    /\ down' = Popped(down, cur)
    /\ UNCHANGED <<workerVars, alive, instanceOf, cur, local, unsafe, instance,
                   opened, started>>

(* Admission that forgets the results still waiting for acknowledgement. *)
Fault_RetainedNotCounted ==
    ~Admission(Cardinality(Active), 0, DaemonMaximum, DaemonReserved, FALSE)

(* relayRecoveryCapacityRejection: running calls and retained results count  *)
(* together.                                                                 *)
AtCapacity ==
    ~Admission(Cardinality(Owned), 0, DaemonMaximum, DaemonReserved, FALSE)

(* handleRelayToolCall up to the start of the tool.  A rejection is sent     *)
(* once and not retained.                                                    *)
DaemonToolCall ==
    /\ DaemonHandles(cur, "tool_call")
    /\ LET c == Head(down[cur]).id
       IN  IF phase # "ready" \/ c \in Active
           THEN violation' = TRUE /\ UNCHANGED <<local, started, up>>
           ELSE IF AtCapacity
           THEN up' = Sent(up, cur, <<Result(c)>>) /\ UNCHANGED <<local, started, violation>>
           ELSE /\ local' = [local EXCEPT ![c] = "active"]
                /\ started' = [started EXCEPT ![c] = @ + 1]
                /\ UNCHANGED <<up, violation>>
    /\ down' = Popped(down, cur)
    /\ UNCHANGED <<workerVars, alive, instanceOf, cur, phase, resume, unsafe, expiry,
                   instance, opened>>

(* cancelRelayCall *)
DaemonCancel ==
    /\ DaemonHandles(cur, "cancel_call")
    /\ LET c == Head(down[cur]).id
       IN  IF phase = "ready"
           THEN /\ local' = [local EXCEPT ![c] = IF c \in Active THEN "suppressed" ELSE "none"]
                /\ UNCHANGED violation
           ELSE violation' = TRUE /\ UNCHANGED local
    /\ down' = Popped(down, cur)
    /\ UNCHANGED <<workerVars, alive, up, instanceOf, cur, phase, resume, unsafe, expiry,
                   instance, opened, started>>

(* tool_result_ack: the retained result is no longer needed. *)
DaemonAck ==
    /\ DaemonHandles(cur, "tool_result_ack")
    /\ LET c == Head(down[cur]).id
       IN  IF phase = "ready"
           THEN /\ local' = [local EXCEPT ![c] = IF @ = "retained" THEN "none" ELSE @]
                /\ UNCHANGED violation
           ELSE violation' = TRUE /\ UNCHANGED local
    /\ down' = Popped(down, cur)
    /\ UNCHANGED <<workerVars, alive, up, instanceOf, cur, phase, resume, unsafe, expiry,
                   instance, opened, started>>

(* handlePong: every unacknowledged result is sent again. *)
DaemonPong ==
    /\ DaemonHandles(cur, "pong")
    /\ \E q \in Orders(Retained) : up' = Sent(up, cur, [i \in DOMAIN q |-> Result(q[i])])
    /\ down' = Popped(down, cur)
    /\ UNCHANGED <<workerVars, alive, instanceOf, daemonVars, history>>

(* Delivering a result without retaining it first. *)
Fault_NotRetained(c) == "none"
(* deliver retains before it sends. *)
AfterDelivery(c) == "retained"

(* The tool of a call ends.  A suppressed result is dropped; any other is    *)
(* sent if the session is ready, and otherwise waits for the next one.       *)
Finish(c) ==
    /\ c \in Active
    /\ IF local[c] = "suppressed"
       THEN /\ local' = [local EXCEPT ![c] = "none"]
            /\ UNCHANGED <<up, expiry>>
       ELSE /\ local' = [local EXCEPT ![c] = AfterDelivery(c)]
            /\ IF phase = "ready"
               THEN up' = Sent(up, cur, <<Result(c)>>) /\ UNCHANGED expiry
               ELSE expiry' = Scheduled /\ UNCHANGED up
    /\ UNCHANGED <<workerVars, alive, down, instanceOf, cur, phase, resume, unsafe,
                   instance, opened, history>>

(* The reconnect timer: running calls are cancelled and their results        *)
(* suppressed, retained results are given up and remembered as unsafe.       *)
GraceExpires ==
    /\ expiry > DaemonGrace
    /\ expiry' = 0
    /\ local' = [c \in Calls |-> IF c \in Active THEN "suppressed" ELSE "none"]
    /\ unsafe' = unsafe \cup Retained
    /\ UNCHANGED <<workerVars, netVars, cur, phase, resume, instance, opened, history>>

(* The daemon process dies and another starts, with nothing of the first. *)
Crash ==
    /\ instance <= Crashes
    /\ instance' = instance + 1
    /\ alive' = alive \ {cur}
    /\ down' = [s \in Sockets |-> IF s = cur THEN <<>> ELSE down[s]]
    /\ cur' = None /\ phase' = "closed" /\ resume' = NoResume
    /\ local' = [c \in Calls |-> "none"] /\ unsafe' = {} /\ expiry' = 0
    /\ UNCHANGED <<workerVars, up, instanceOf, opened, history>>

-----------------------------------------------------------------------------
(* Time passes while a call is pending or the grace timer runs. *)
Tick ==
    /\ Pending(rec) # {} \/ expiry > 0
    /\ TimersWithin(rec, MaxLateness)
    /\ expiry < DaemonGrace + MaxLateness
    /\ rec' = Aged(rec)
    /\ expiry' = IF expiry = 0 THEN 0 ELSE expiry + 1
    /\ UNCHANGED <<role, expected, acked, netVars, cur, phase, resume, local, unsafe,
                   instance, opened, history>>

WorkerStep ==
    \/ \E s \in Sockets : WorkerCloses(s)
    \/ \E s \in Sockets : Promote(s)
    \/ \E s \in Sockets, resumeSent \in BOOLEAN : PromotionFails(s, resumeSent)
    \/ \E s \in Sockets : WorkerResult(s)
    \/ \E s \in Sockets : WorkerResumeAck(s)
    \/ \E s \in Sockets : WorkerPong(s)
    \/ \E c \in Calls, s \in Sockets : Dispatch(c, s)
    \/ \E c \in Calls, s \in Sockets : DispatchFails(c, s)
    \/ \E c \in Calls : CancelRequest(c)

DaemonStep ==
    \/ \E s \in Sockets : Connect(s)
    \/ DaemonCloses
    \/ DaemonResume
    \/ DaemonReady
    \/ DaemonToolCall
    \/ DaemonCancel
    \/ DaemonAck
    \/ DaemonPong
    \/ \E c \in Calls : Finish(c)
    \/ Crash

Untimed == WorkerStep \/ DaemonStep \/ \E s \in Sockets : Drop(s)
Timed   == (\E c \in Calls : ExpireCall(c)) \/ GraceExpires \/ Tick

Spec == Init /\ [][Untimed \/ Timed]_vars

(* Both ends handle what reaches them and notice, in the end, that a socket  *)
(* is dead (heartbeats, liveness alarm); the daemon reconnects; tools end; a *)
(* timer that is due fires.  Time need not pass, no call need be made or     *)
(* cancelled, and the network drops what it likes outside Reliable.          *)
Fairness ==
    /\ \A s \in Sockets :
         /\ WF_vars(WorkerCloses(s)) /\ WF_vars(Promote(s))
         /\ WF_vars(WorkerResult(s)) /\ WF_vars(WorkerResumeAck(s))
         /\ WF_vars(Connect(s))
    /\ WF_vars(DaemonCloses) /\ WF_vars(DaemonResume) /\ WF_vars(DaemonReady)
    /\ WF_vars(DaemonToolCall) /\ WF_vars(DaemonCancel) /\ WF_vars(DaemonAck)
    /\ WF_vars(DaemonPong)
    /\ \A c \in Calls : WF_vars(Finish(c)) /\ WF_vars(ExpireCall(c))
    /\ WF_vars(GraceExpires)

FairSpec == Spec /\ Fairness
-----------------------------------------------------------------------------
Message == [type : {"probe_result", "ready_ack", "pong"}]
           \cup [type : {"resume_calls", "resume_calls_ack"}, ids : SUBSET Calls]
           \cup [type : {"tool_call", "cancel_call", "tool_result", "tool_result_ack"},
                 id : Calls]

(* Type invariant. *)
TypeOK ==
    /\ rec \in [Calls -> Record]
    /\ role \in [Sockets -> {"none", "probing", "replaced", "daemon", "expired"}]
    /\ expected \in [Sockets -> SUBSET Calls] /\ acked \in SUBSET Sockets
    /\ alive \in SUBSET Sockets
    /\ up \in [Sockets -> Seq(Message)] /\ down \in [Sockets -> Seq(Message)]
    /\ instanceOf \in [Sockets -> Instances]
    /\ cur \in Sockets \cup {None} /\ phase \in {"closed", "authenticated", "ready"}
    /\ resume \in [known : BOOLEAN, missing : SUBSET Calls]
    /\ local \in [Calls -> {"none", "active", "suppressed", "retained"}]
    /\ unsafe \in SUBSET Calls
    /\ expiry \in 0 .. DaemonGrace + MaxLateness
    /\ instance \in Instances /\ opened \in Sockets \cup {None}
    /\ started \in [Calls -> Nat] /\ violation \in BOOLEAN

(* However often sockets die, calls are detached, rebound and redelivered,   *)
(* no tool call is executed twice (settleDaemonProvenMissingCalls and        *)
(* reconcile: "no possibly executed tool call is automatically replayed").   *)
AtMostOnceExecution == \A c \in Calls : started[c] <= 1

(* A call the caller was told did not reach the daemon, and which it may     *)
(* repeat, was not executed and never will be, by a late tool_call either    *)
(* (daemonCallNotReceivedAfterReconnectError, side_effects_started: false).  *)
NotReceivedMeansNotExecuted ==
    \A c \in Calls : rec[c].outcome \in {"not_received", "send_failed"} => started[c] = 0

(* What the Worker still waits for and the living daemon has begun, the      *)
(* daemon still runs or keeps the result of: no disconnect, reconciliation,  *)
(* cancellation or grace expiry makes it drop a result somebody awaits.      *)
NoLostResult ==
    \A c \in Pending(rec) :
        started[c] > 0 /\ rec[c].instance = instance => local[c] \in {"active", "retained"}

(* The three together are what a call keeps of every failure: it runs once   *)
(* at most, not at all where the caller was told so, and its result stays.   *)
CallsSurvive == AtMostOnceExecution /\ NotReceivedMeansNotExecuted /\ NoLostResult

(* No interleaving of deaths, handshakes and late messages makes one end     *)
(* send what the other must treat as a protocol error and stop for           *)
(* (handleRelayProtocolViolation, rejectDaemonMessage).                      *)
NoProtocolViolation == ~violation

(* Running calls and unacknowledged results together never exceed the        *)
(* capacity, so retention always has room for a result and the emergency     *)
(* slot of retainForDelivery is never needed.                                *)
RetentionWithinCapacity == Cardinality(Owned) <= DaemonMaximum

(* Every call sent on is settled, without the help of any timeout, as long   *)
(* as the last socket holds and the process that has the call lives: lost    *)
(* tool_calls are redelivered or rejected, lost results sent again.  A call  *)
(* of a process that died waits for its deadline.                            *)
EventuallyAnswered ==
    \A c \in Calls : rec[c].status = "pending"
                     ~> rec[c].status = "settled" \/ rec[c].instance # instance

(* Likewise, the daemon comes to hold nothing of a call that is settled.     *)
EventuallyReleased ==
    \A c \in Calls : rec[c].status = "settled" ~> local[c] = "none"

(* Worker and daemon implement CallDelivery: in particular, a call that a    *)
(* daemon refused at its capacity, of which the caller is told that it may   *)
(* be retried, is never executed afterwards (relayRecoveryCapacityRejection).*)
Delivery == INSTANCE CallDelivery
              WITH Refusals <- TRUE,
                   call <- [c \in Calls |-> [told |-> Told(rec[c]), runs |-> started[c]]]
ImplementsDelivery == Delivery!Spec
=============================================================================
