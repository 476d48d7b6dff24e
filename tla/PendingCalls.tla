---------------------------- MODULE PendingCalls ----------------------------
(* The Worker's pending-call registry (worker/pending-calls.ts) with the     *)
(* handlers that drive it: dispatch (index.ts callDaemonTool), promotion of  *)
(* a probed channel and its failure path (daemon-websocket-controller.ts     *)
(* handleProbeResult), channel cleanup, terminal results and resume          *)
(* acknowledgements (daemon-ready-messages.ts), cancellation, authority      *)
(* revocation, the two timers of a record and the overdue sweep.             *)
(*                                                                           *)
(* One JavaScript thread runs the handlers; an `await` lets others in.  A    *)
(* handler is therefore one action up to its next `await`: what it captured  *)
(* before the `await` is a variable (due, flush, unsent, fallback).  Every   *)
(* request and message first awaits the sweep of overdue calls, StartSweep   *)
(* and SweepOne; storage and network awaits may follow it, so that a handler *)
(* can still find a call that has become overdue since.                      *)
EXTENDS PendingCallRecords

CONSTANTS
    RequestKeys, NoKey, NoCall,
    KeyOf,           \* clientRequestKey of each call, or NoKey
    ToolOf,          \* "control" | "read_job" | "ordinary"
    AuthorityOf,     \* [account (id and version), client, family] of each call
    Scopes,          \* authority revocations that may be committed
    AnyClient, AnyFamily,   \* client_id, family_id absent from a revocation
    InstanceOf,      \* the daemon instance behind each channel
    ExecutionBudget, \* dispatchBudget.executionTimeoutMs of each call
    MinRedelivery,   \* 1 000 ms in daemonToolRedeliveryArguments
    Maximum, Reserved,      \* 32 and 2 in pending-call-capacity.ts
    ReadJobMaximum,         \* 8 per account
    MaxLateness      \* bound: ticks a timer may run late

ASSUME PendingAssumption ==
    /\ NoKey \notin RequestKeys /\ NoCall \notin Calls
    /\ KeyOf \in [Calls -> RequestKeys \cup {NoKey}]
    /\ ToolOf \in [Calls -> {"control", "read_job", "ordinary"}]
    /\ InstanceOf \in [Channels -> Instances]
    /\ ExecutionBudget \in [Calls -> Nat \ {0}]
    /\ \A c \in Calls : ExecutionBudget[c] <= Timeout[c]
    /\ MinRedelivery \in Nat \ {0}
    /\ Maximum \in Nat \ {0} /\ Reserved \in Nat /\ ReadJobMaximum \in Nat
    /\ MaxLateness \in Nat \ {0}

VARIABLES
    rec,           \* byId, with a record for calls not made yet or settled
    byRequestKey,  \* request key -> call id
    channel,       \* unused | ready | draining | failing | closing | closed
    resumed,       \* ids a channel may still report missing (reconciliations)
    unsent,        \* channel a call could not be sent on, handled after an await
    fallback,      \* channel a failed promotion will hand its calls back to
    due,           \* expireDue's captured records
    revoked,       \* revocations committed to storage with the OAuth state
    flush,         \* cancelAuthority's revocation and its captured ids
    flushed        \* revocations whose cancelAuthority has finished

vars == <<rec, byRequestKey, channel, resumed, unsent, fallback, due,
          revoked, flush, flushed>>

Idle == [active |-> FALSE, scopes |-> {}, ids |-> {}]

Init ==
    /\ rec = [c \in Calls |-> NewRecord]
    /\ byRequestKey = [k \in RequestKeys |-> NoCall]
    /\ channel = [ch \in Channels |-> "unused"]
    /\ resumed = [ch \in Channels |-> {}]
    /\ unsent = [c \in Calls |-> NoChannel]
    /\ fallback = NoChannel
    /\ due = {}
    /\ revoked = {}
    /\ flush = Idle
    /\ flushed = {}

(* readyAttachment: a draining channel still has one. *)
Ready(ch) == channel[ch] \in {"ready", "draining"}

(* recordMatchesAuthorityRevocation. *)
Matches(c, s) ==
    /\ AuthorityOf[c].account = s.account
    /\ s.client \in {AnyClient, AuthorityOf[c].client}
    /\ s.family \in {AnyFamily, AuthorityOf[c].family}

-----------------------------------------------------------------------------
(* Settlement: finish and take on each call of S. *)

(* take: a key is freed only if it still maps to the call being taken. *)
Unindexed(S) ==
    [k \in RequestKeys |-> IF byRequestKey[k] \in S THEN NoCall ELSE byRequestKey[k]]

Fail(S, outcome) ==
    /\ rec' = SettleAll(rec, S, outcome)
    /\ byRequestKey' = Unindexed(S \cap Pending(rec))

-----------------------------------------------------------------------------
(* Dispatch: the section of callDaemonTool that runs under the OAuth lock.   *)

Active(S)   == Cardinality(S)
Control(S)  == {c \in S : ToolOf[c] = "control"}
ReadJobs(a) == {c \in Pending(rec) : ToolOf[c] = "read_job" /\ AuthorityOf[c].account = a}

Admitted(c) ==
    Admission(Active(Pending(rec)), Active(Control(Pending(rec))),
              Maximum, Reserved, ToolOf[c] = "control")

(* Dispatch on the authority that was current before the wait for the daemon. *)
Fault_StaleAuthority(c) == TRUE

(* runWithCurrentAuthority: the authority is read again under the lock. *)
AuthorityCurrent(c) == \A s \in revoked : ~Matches(c, s)

(* assertPendingCallRegistration *)
Registrable(c) ==
    /\ Admitted(c)
    /\ KeyOf[c] # NoKey => byRequestKey[KeyOf[c]] = NoCall
    /\ ToolOf[c] = "read_job" =>
           Active(ReadJobs(AuthorityOf[c].account)) < ReadJobMaximum

(* The channel was selected before the lock's await and is only tested for   *)
(* readyAttachment under it, so it may have begun to drain since.  A call    *)
(* whose tool_call cannot be sent is registered all the same; its rejection  *)
(* runs after the lock is released.                                          *)
Dispatch(c, ch, sent) ==
    /\ rec[c].status = "new"
    /\ Ready(ch)
    /\ AuthorityCurrent(c)
    /\ Registrable(c)
    /\ rec' = [rec EXCEPT ![c] = Registered(c, ch, InstanceOf[ch])]
    /\ byRequestKey' = IF KeyOf[c] = NoKey THEN byRequestKey
                       ELSE [byRequestKey EXCEPT ![KeyOf[c]] = c]
    /\ unsent' = IF sent THEN unsent ELSE [unsent EXCEPT ![c] = ch]
    /\ UNCHANGED <<channel, resumed, fallback, due, revoked, flush, flushed>>

(* if (!sent): reject the call if the failed channel still owns it, and      *)
(* invalidate that channel.                                                  *)
HandleUnsent(c) ==
    /\ unsent[c] # NoChannel
    /\ Fail({c} \cap OwnedBy(rec, unsent[c]), "send_failed")
    /\ channel' = IF Ready(unsent[c]) THEN [channel EXCEPT ![unsent[c]] = "closing"]
                  ELSE channel
    /\ unsent' = [unsent EXCEPT ![c] = NoChannel]
    /\ UNCHANGED <<resumed, fallback, due, revoked, flush, flushed>>

-----------------------------------------------------------------------------
(* Channels. *)

(* handleProbeResult: the channel is ready and takes over the calls of its   *)
(* daemon instance; every other channel is closed.                           *)
Promote(ch) ==
    /\ channel[ch] = "unused"
    /\ channel' = [x \in Channels |-> IF x = ch THEN "ready"
                                     ELSE IF Ready(x) THEN "closing" ELSE channel[x]]
    /\ rec' = RebindInstance(rec, InstanceOf[ch], ch)
    /\ resumed' = [resumed EXCEPT ![ch] = ReboundCalls(rec, InstanceOf[ch], ch)]
    /\ UNCHANGED <<byRequestKey, unsent, fallback, due, revoked, flush, flushed>>

(* A send of handleProbeResult throws: the channel is invalidated with the   *)
(* calls it has just taken, to be handed back to a channel of the same       *)
(* instance that was ready before, if there was one (bound: one promotion    *)
(* fails at a time).                                                         *)
PromotionFails(ch) ==
    /\ channel[ch] = "unused"
    /\ fallback = NoChannel
    /\ channel' = [channel EXCEPT ![ch] = "failing"]
    /\ rec' = RebindInstance(rec, InstanceOf[ch], ch)
    /\ LET previous == {x \in Channels : Ready(x) /\ InstanceOf[x] = InstanceOf[ch]}
       IN  fallback' \in IF previous = {} THEN {NoChannel} ELSE previous
    /\ UNCHANGED <<byRequestKey, resumed, unsent, due, revoked, flush, flushed>>

(* The end of its catch block, after the cleanup and the alarm's storage     *)
(* write: the calls of the instance go to that channel if it is still open.  *)
FallbackRebind ==
    /\ fallback # NoChannel
    /\ \A ch \in Channels : channel[ch] # "failing"
    /\ rec' = IF Ready(fallback) THEN RebindInstance(rec, InstanceOf[fallback], fallback)
              ELSE rec
    /\ fallback' = NoChannel
    /\ UNCHANGED <<byRequestKey, channel, resumed, unsent, due, revoked, flush, flushed>>

(* A channel that closed, failed or timed out: its role is expired at once,  *)
(* its calls are detached one microtask later.                               *)
LoseChannel(ch) ==
    /\ Ready(ch)
    /\ channel' = [channel EXCEPT ![ch] = "closing"]
    /\ UNCHANGED <<rec, byRequestKey, resumed, unsent, fallback, due, revoked, flush, flushed>>

(* beginCleanup's operation: detachDaemonChannelCalls. *)
CleanUp(ch) ==
    /\ channel[ch] \in {"closing", "failing"}
    /\ channel' = [channel EXCEPT ![ch] = "closed"]
    /\ rec' = DetachSocket(rec, ch)
    /\ resumed' = [resumed EXCEPT ![ch] = {}]
    /\ UNCHANGED <<byRequestKey, unsent, fallback, due, revoked, flush, flushed>>

(* settleDaemonPlannedDrain: no new call selects the channel, and the calls  *)
(* it owns are rejected.                                                     *)
Drain(ch) ==
    /\ channel[ch] = "ready"
    /\ channel' = [channel EXCEPT ![ch] = "draining"]
    /\ Fail(OwnedBy(rec, ch), "disconnected")
    /\ UNCHANGED <<resumed, unsent, fallback, due, revoked, flush, flushed>>

-----------------------------------------------------------------------------
(* Messages from the daemon. *)

(* tool_result *)
ToolResult(c, ch) ==
    /\ Ready(ch)
    /\ rec' = Answer(rec, c, ch)
    /\ byRequestKey' = Unindexed({c} \cap OwnedBy(rec, ch))
    /\ UNCHANGED <<channel, resumed, unsent, fallback, due, revoked, flush, flushed>>

(* redeliverAfterProvenMissing without its execution-budget test. *)
Fault_RedeliverRegardlessOfBudget(c) == TRUE

(* redeliverAfterProvenMissing: what is left of the original execution       *)
(* budget must reach the minimum.                                            *)
RedeliveryAllowed(c) == rec[c].age + MinRedelivery <= ExecutionBudget[c]

(* beforeReject of settleDaemonProvenMissingCalls: at most one redelivery.   *)
(* A call already redelivered on this very channel is left alone.            *)
MissingDisposition(c, ch, sent) ==
    IF rec[c].redelivered # NoChannel
    THEN IF rec[c].redelivered = ch THEN "keep" ELSE "reject"
    ELSE IF RedeliveryAllowed(c) /\ sent THEN "redeliver" ELSE "reject"

(* resume_calls_ack, for one id it reports missing; a second, equal          *)
(* acknowledgement is ignored.  The ids are handled one await apart.         *)
ReportedMissing(c, ch, sent) ==
    /\ Ready(ch)
    /\ c \in resumed[ch]
    /\ resumed' = [resumed EXCEPT ![ch] = @ \ {c}]
    /\ IF c \notin OwnedBy(rec, ch) \/ MissingDisposition(c, ch, sent) = "keep"
       THEN UNCHANGED <<rec, byRequestKey>>
       ELSE IF MissingDisposition(c, ch, sent) = "redeliver"
       THEN /\ rec' = [rec EXCEPT ![c].redelivered = ch]
            /\ UNCHANGED byRequestKey
       ELSE Fail({c}, "not_received")
    /\ UNCHANGED <<channel, unsent, fallback, due, revoked, flush, flushed>>

-----------------------------------------------------------------------------
(* Cancellation and revocation. *)

(* cancelRequest: the call a request key maps to. *)
CancelRequest(k) ==
    /\ byRequestKey[k] # NoCall
    /\ Fail({byRequestKey[k]}, "cancelled")
    /\ UNCHANGED <<channel, resumed, unsent, fallback, due, revoked, flush, flushed>>

(* The abort signal of the request that made the call. *)
Abort(c) ==
    /\ c \in Pending(rec)
    /\ Fail({c}, "cancelled")
    /\ UNCHANGED <<channel, resumed, unsent, fallback, due, revoked, flush, flushed>>

(* OAuth commits a revocation with the state it changes (external). *)
CommitRevocation(s) ==
    /\ s \notin revoked
    /\ revoked' = revoked \cup {s}
    /\ UNCHANGED <<rec, byRequestKey, channel, resumed, unsent, fallback, due, flush, flushed>>

(* flushAuthorityRevocations reads the queue and cancelAuthority captures    *)
(* the matching ids.  Bounds: one flush at a time, and one of each           *)
(* revocation, which the code repeats until the daemon acknowledges it.      *)
StartFlush(s) ==
    /\ s \in revoked /\ s \notin flushed
    /\ ~flush.active
    /\ flush' = [active |-> TRUE, scopes |-> {s},
                 ids |-> {c \in Pending(rec) : Matches(c, s)}]
    /\ UNCHANGED <<rec, byRequestKey, channel, resumed, unsent, fallback, due, revoked, flushed>>

FlushOne(c) ==
    /\ c \in flush.ids
    /\ flush' = [flush EXCEPT !.ids = @ \ {c}]
    /\ Fail({c}, "revoked")
    /\ UNCHANGED <<channel, resumed, unsent, fallback, due, revoked, flushed>>

FinishFlush ==
    /\ flush.active /\ flush.ids = {}
    /\ flushed' = flushed \cup flush.scopes
    /\ flush' = Idle
    /\ UNCHANGED <<rec, byRequestKey, channel, resumed, unsent, fallback, due, revoked>>

-----------------------------------------------------------------------------
(* Deadlines. *)

(* expireRecord that only knows attached calls. *)
Fault_ExpireOnlyAttached(c) ==
    IF rec[c].owner # NoChannel THEN Fail({c}, "timed_out")
    ELSE UNCHANGED <<rec, byRequestKey>>

(* expireRecord: the error is the one for the state the record is in now. *)
Expire(c) == Fail({c}, ExpiryOutcome(rec[c]))

OperationTimer(c) ==
    /\ c \in Pending(rec)
    /\ rec[c].opTimer /\ rec[c].deadline <= rec[c].age
    /\ Expire(c)
    /\ UNCHANGED <<channel, resumed, unsent, fallback, due, revoked, flush, flushed>>

ReconnectTimer(c) ==
    /\ c \in Pending(rec)
    /\ rec[c].reDeadline # 0 /\ rec[c].reDeadline <= rec[c].age
    /\ rec[c].owner = NoChannel
    /\ Expire(c)
    /\ UNCHANGED <<channel, resumed, unsent, fallback, due, revoked, flush, flushed>>

(* expireDue: capture the due records, then expire them one await apart      *)
(* (bound: one sweep at a time).                                             *)
StartSweep ==
    /\ due = {}
    /\ due' = {c \in Pending(rec) : Due(rec[c])}
    /\ due' # {}
    /\ UNCHANGED <<rec, byRequestKey, channel, resumed, unsent, fallback, revoked, flush, flushed>>

SweepOne(c) ==
    /\ c \in due
    /\ due' = due \ {c}
    /\ Expire(c)
    /\ UNCHANGED <<channel, resumed, unsent, fallback, revoked, flush, flushed>>

(* Time passes.  The registry's own awaits take no time: they are promises   *)
(* already settled.                                                          *)
Tick ==
    /\ Pending(rec) # {}
    /\ due = {} /\ flush.ids = {}
    /\ \A ch \in Channels : channel[ch] \notin {"closing", "failing"}
    /\ \A c \in Calls : unsent[c] = NoChannel
    /\ TimersWithin(rec, MaxLateness)
    /\ rec' = Aged(rec)
    /\ UNCHANGED <<byRequestKey, channel, resumed, unsent, fallback, due, revoked, flush, flushed>>

Next ==
    \/ \E c \in Calls, ch \in Channels, sent \in BOOLEAN : Dispatch(c, ch, sent)
    \/ \E c \in Calls : HandleUnsent(c)
    \/ \E ch \in Channels : Promote(ch)
    \/ \E ch \in Channels : PromotionFails(ch)
    \/ FallbackRebind
    \/ \E ch \in Channels : LoseChannel(ch)
    \/ \E ch \in Channels : CleanUp(ch)
    \/ \E ch \in Channels : Drain(ch)
    \/ \E c \in Calls, ch \in Channels : ToolResult(c, ch)
    \/ \E c \in Calls, ch \in Channels, sent \in BOOLEAN : ReportedMissing(c, ch, sent)
    \/ \E k \in RequestKeys : CancelRequest(k)
    \/ \E c \in Calls : Abort(c)
    \/ \E s \in Scopes : CommitRevocation(s)
    \/ \E s \in Scopes : StartFlush(s)
    \/ \E c \in Calls : FlushOne(c)
    \/ FinishFlush
    \/ \E c \in Calls : OperationTimer(c)
    \/ \E c \in Calls : ReconnectTimer(c)
    \/ StartSweep
    \/ \E c \in Calls : SweepOne(c)
    \/ Tick

Spec == Init /\ [][Next]_vars

-----------------------------------------------------------------------------
(* Type invariant. *)
TypeOK ==
    /\ rec \in [Calls -> Record]
    /\ byRequestKey \in [RequestKeys -> Calls \cup {NoCall}]
    /\ channel \in [Channels -> {"unused", "ready", "draining", "failing",
                                 "closing", "closed"}]
    /\ resumed \in [Channels -> SUBSET Calls]
    /\ unsent \in [Calls -> Channels \cup {NoChannel}]
    /\ fallback \in Channels \cup {NoChannel}
    /\ due \in SUBSET Calls
    /\ revoked \in SUBSET Scopes
    /\ flush \in [active : BOOLEAN, scopes : SUBSET Scopes, ids : SUBSET Calls]
    /\ flushed \in SUBSET Scopes

(* A pending call is always waiting on exactly one timer, the one of its     *)
(* phase: without it the caller would hang for ever, with the other one a    *)
(* reconnected call would be failed under a daemon that is running it        *)
(* (detachSocket, rebindInstance and the timers they stop and start).        *)
TimersArmed ==
    \A c \in Calls :
        /\ rec[c].opTimer <=> (c \in Pending(rec) /\ rec[c].owner # NoChannel)
        /\ rec[c].reDeadline # 0 <=> (c \in Pending(rec) /\ rec[c].owner = NoChannel)

(* However often a call is detached and rebound, its deadlines stay within   *)
(* one delivery grace of the original timeout (or the next tick, if it is    *)
(* overdue already): the grace of pendingCallReconnectSettlement is absolute *)
(* and never accumulates.                                                    *)
SettlementBounded ==
    \A c \in Pending(rec) :
        LET ceiling == Larger(rec[c].original + DeliveryGrace, rec[c].age + 1)
        IN  rec[c].deadline <= ceiling /\ rec[c].reDeadline <= ceiling

(* The request-key index and the records agree in both directions, through   *)
(* every way a call can end and a key be used again: otherwise a client      *)
(* cancels another request's call, or cannot cancel its own.                 *)
RequestIndexConsistent ==
    /\ \A k \in RequestKeys : byRequestKey[k] # NoCall =>
           byRequestKey[k] \in Pending(rec) /\ KeyOf[byRequestKey[k]] = k
    /\ \A c \in Pending(rec) : KeyOf[c] # NoKey => byRequestKey[KeyOf[c]] = c

(* No call is held by a channel whose cleanup has run: nobody would detach   *)
(* it again, and its caller would wait out the whole timeout                 *)
(* (beginCleanup runs detachDaemonChannelCalls once per channel).            *)
OwnerIsOpen ==
    \A c \in Pending(rec) :
        rec[c].owner # NoChannel => channel[rec[c].owner] \notin {"unused", "closed"}

(* What the registry keeps about a call agrees: its timers with its owner,   *)
(* its owner with the channels, the request keys with the records.           *)
RegistryConsistent == TimersArmed /\ RequestIndexConsistent /\ OwnerIsOpen

(* Once cancelAuthority has run for a revocation, no call under that         *)
(* authority is pending, whether it was dispatched before the flush or raced *)
(* it: dispatch reads the authority again under the lock.                    *)
RevocationSticks ==
    \A s \in flushed : \A c \in Pending(rec) : ~Matches(c, s)

(* A call is sent again at most once in its life, only while it is pending   *)
(* on the channel it is sent on, and only with enough of its original        *)
(* execution budget left (daemonToolRedeliveryArguments).                    *)
RedeliverOnceWithinBudget ==
    [][\A c \in Calls :
         rec'[c].redelivered # rec[c].redelivered =>
            /\ rec[c].redelivered = NoChannel
            /\ c \in OwnedBy(rec, rec'[c].redelivered)
            /\ rec[c].age + MinRedelivery <= ExecutionBudget[c]]_vars

(* No timer or sweep fails a call before its original timeout is over, even  *)
(* when the sweep's captured list is stale: reconnecting never costs a call  *)
(* time it was promised.  It needs ReconnectGrace to cover every timeout, as *)
(* the 120 s of relay-contract.json cover the 75 s a read_job can have.      *)
NoEarlyExpiry ==
    [][\A c \in Pending(rec) :
         rec'[c].outcome \in {"timed_out", "reconnect_expired"} =>
            rec[c].age >= rec[c].original]_vars

-----------------------------------------------------------------------------
(* The registry implements CallOwnership. *)

OwnershipOf(r) ==
    [phase  |-> IF r.status = "settled"
                THEN IF r.outcome = "answered" THEN "answered" ELSE "failed"
                ELSE IF r.status = "new" THEN "new"
                ELSE IF r.owner = NoChannel THEN "orphaned" ELSE "held",
     holder |-> IF r.status = "settled" THEN r.answeredBy ELSE r.owner,
     home   |-> r.instance]

Ownership == INSTANCE CallOwnership WITH call <- [c \in Calls |-> OwnershipOf(rec[c])]

(* A call moves only between channels of its own daemon instance, only the   *)
(* channel that holds it can answer it, and it is settled once.              *)
ImplementsOwnership == Ownership!Spec
=============================================================================
