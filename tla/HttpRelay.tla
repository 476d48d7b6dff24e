------------------------------ MODULE HttpRelay ------------------------------
(* The HTTPS fallback: one daemon polling the Worker when no WebSocket is    *)
(* ready, and the tool calls carried by the polls.  The Worker side is       *)
(* handleDaemonHttpRelay (worker/daemon-http-controller.ts) with             *)
(* DaemonHttpChannel, DaemonHttpRegistry and the registry of                 *)
(* PendingCallRecords; the daemon side is DaemonHttpRelayConnection with     *)
(* runtime-relay-control.mjs and relay-call-recovery.mjs.                    *)
(*                                                                           *)
(* A poll the daemon gives up may still reach the Worker, at any later time  *)
(* and while another is being handled.  Handlers of the Worker interleave at *)
(* each await between classifying a message and committing its number.       *)
(* Channels are the Worker's channel objects, numbered as created; one       *)
(* stands for its random activation token too.                               *)
EXTENDS PendingCallRecords, RelaySequence

CONSTANTS
    Sessions,   \* transport session ids the daemon draws, in order
    MaxFaults   \* bound: lost polls, garbled responses, interruptions, reclaims

None == NoChannel
ThisInstance == CHOOSE i \in Instances : TRUE

ASSUME HttpAssumption ==
    /\ IsFiniteSet(Calls) /\ IsFiniteSet(Channels) /\ IsFiniteSet(Sessions)
    /\ Channels = 1 .. Cardinality(Channels) /\ NoChannel = 0
    /\ Sessions = 1 .. Cardinality(Sessions) /\ Sessions # {}
    /\ Instances = {ThisInstance} /\ MaxFaults \in Nat

VARIABLES
    rec,        \* Worker: the pending-call registry
    chan,       \* Worker: the channel objects
    posts,      \* polls travelling or being handled by the Worker
    reply,      \* the response travelling to the daemon or being read by it
    sid,        \* daemon: transportSessionId
    link,       \* daemon: the state of its session
    local,      \* daemon: none | active | suppressed | retained, per call
    started,    \* history: executions begun, per call
    violation,  \* history: a message one end must treat as a protocol error
    faults      \* bound: faults so far

vars == <<rec, chan, posts, reply, sid, link, local, started, violation, faults>>

(* expected and answered: the reconciliation of the channel, and the missing *)
(* ids its first acknowledgement named.                                      *)
NoAnswer  == [known |-> FALSE, ids |-> {}]
NewChannel == [state |-> "none", sid |-> 0, out |-> NothingSent, seen |-> 0,
               expected |-> {}, answered |-> NoAnswer]
NewLink   == [token |-> None, localReady |-> FALSE, ready |-> FALSE,
              out |-> NothingSent, seen |-> 0, resume |-> NoAnswer]
NoReply   == [kind |-> "none", phase |-> "none", token |-> None, ack |-> 0,
              batch |-> NothingSent]

Init ==
    /\ rec = [c \in Calls |-> NewRecord]
    /\ chan = [o \in Channels |-> NewChannel]
    /\ posts = {} /\ reply = NoReply
    /\ sid = 1 /\ link = NewLink
    /\ local = [c \in Calls |-> "none"]
    /\ started = [c \in Calls |-> 0] /\ violation = FALSE /\ faults = 0

-----------------------------------------------------------------------------
(* Messages. *)

HttpsReady   == [type |-> "https_ready"]
Resume(S)    == [type |-> "resume_calls", ids |-> S]
ReadyAck     == [type |-> "ready_ack"]
ResumeAck(S) == [type |-> "resume_calls_ack", ids |-> S]
ToolCall(c)  == [type |-> "tool_call", id |-> c]
CancelCall(c)== [type |-> "cancel_call", id |-> c]
Result(c)    == [type |-> "tool_result", id |-> c]
ResultAck(c) == [type |-> "tool_result_ack", id |-> c]

(* The orders in which the members of S can be sent. *)
Orders(S) == {q \in [1 .. Cardinality(S) -> S] : \A i, j \in DOMAIN q : q[i] = q[j] => i = j}

-----------------------------------------------------------------------------
(* The Worker's channels. *)

Open(o) == o # None /\ chan[o].state \in {"probing", "ready"}

(* trySendDaemonChannel: nothing is sent on a channel that is not ready. *)
TrySend(channels, o, messages) ==
    IF o # None /\ channels[o].state = "ready"
    THEN [channels EXCEPT ![o].out = Enqueued(@, messages)] ELSE channels

(* DaemonHttpChannel.close *)
ClosedChannels(S) ==
    [o \in Channels |-> IF o \in S
                        THEN [chan[o] EXCEPT !.state = "closed", !.out = NothingSent]
                        ELSE chan[o]]

(* Leaving the calls of a channel that is not ready alone. *)
Fault_ProbingCallsForgotten(S) ==
    [c \in Calls |-> IF c \in Pending(rec) /\ rec[c].owner \in {o \in S : chan[o].state = "ready"}
                     THEN Detached(rec[c]) ELSE rec[c]]

(* detachDaemonChannelCalls: calls of a ready channel wait for a reconnect,  *)
(* calls of one that is not ready have no readyAttachment and are rejected.  *)
CallsAfterLoss(S) ==
    [c \in Calls |->
        IF c \in Pending(rec) /\ rec[c].owner \in S
        THEN IF chan[rec[c].owner].state = "ready"
             THEN Detached(rec[c]) ELSE Settled(rec[c], "disconnected", None)
        ELSE rec[c]]

(* The response to a poll, which nobody waits for once it was given up. *)
Replied(p, answer) == IF p.live THEN answer ELSE reply
Refusal(kind) == [NoReply EXCEPT !.kind = kind]

(* The first poll of a session: channels of the same instance are closed,    *)
(* and the new one takes over the calls.  advanceHandshake at once offers    *)
(* what the daemon needs to become ready (no authority revocations here).    *)
OpenChannel(p) ==
    LET o        == Cardinality({x \in Channels : chan[x].state # "none"}) + 1
        previous == {x \in Channels : Open(x)}
        kept     == CallsAfterLoss(previous)
        ids      == ReboundCalls(kept, ThisInstance, o)
        out      == Enqueued(NothingSent, <<Resume(ids), ReadyAck>>)
    IN  /\ p.stage = "sent" /\ p.token = None
        /\ \A x \in previous : chan[x].sid # p.sid
        /\ o \in Channels
        /\ chan' = [ClosedChannels(previous) EXCEPT
                      ![o] = [NewChannel EXCEPT !.state = "probing", !.sid = p.sid,
                                                !.out = out, !.expected = ids]]
        /\ rec' = RebindInstance(kept, ThisInstance, o)
        /\ posts' = posts \ {p}
        /\ reply' = Replied(p, [kind |-> "ok", phase |-> "probing", token |-> o,
                                ack |-> 0, batch |-> out])
        /\ UNCHANGED <<sid, link, local, started, violation, faults>>

(* A poll for a session the Worker does not know, or with the wrong token or *)
(* an acknowledgement of what was never sent.                                *)
Refuse(p) ==
    /\ p.stage = "sent"
    /\ ~ \E o \in Channels :
           Open(o) /\ chan[o].sid = p.sid /\ p.token = o /\ AckValid(chan[o].out, p.ack)
    /\ p.token # None \/ \E o \in Channels : Open(o) /\ chan[o].sid = p.sid
    /\ posts' = posts \ {p}
    /\ reply' = Replied(p, Refusal("conflict"))
    /\ UNCHANGED <<rec, chan, sid, link, local, started, violation, faults>>

(* Any other poll: its acknowledgement is applied, its messages are next. *)
Begin(p) ==
    /\ p.stage = "sent" /\ Open(p.token) /\ chan[p.token].sid = p.sid
    /\ AckValid(chan[p.token].out, p.ack)
    /\ chan' = [chan EXCEPT ![p.token].out = Acknowledged(@, p.ack)]
    /\ posts' = (posts \ {p}) \cup
                {[p EXCEPT !.stage = "handling", !.next = p.batch.acked + 1,
                           !.wasReady = chan[p.token].state = "ready"]}
    /\ UNCHANGED <<rec, reply, sid, link, local, started, violation, faults>>

(* The message p's handler looks at. *)
Message(p) == MessageAt(p.batch, p.next)
Handles(p, type) ==
    /\ p.stage = "handling" /\ p.next <= LastSeq(p.batch)
    /\ Classify(chan[p.token].seen, p.next) = "new"
    /\ Message(p).type = type

(* invalidate: the channel is detached and closed.  Nothing but a handler    *)
(* that outlived its channel may come here.                                  *)
Invalidate(p) ==
    /\ rec' = CallsAfterLoss({p.token} \cap {o \in Channels : Open(o)})
    /\ chan' = ClosedChannels({p.token})
    /\ posts' = posts \ {p}
    /\ reply' = Replied(p, Refusal("conflict"))
    /\ violation' = (violation \/ Open(p.token))
    /\ UNCHANGED <<sid, link, local, started, faults>>

(* A duplicate is skipped, a gap ends the channel. *)
OutOfOrder(p) ==
    LET class == Classify(chan[p.token].seen, p.next)
    IN  /\ p.stage = "handling" /\ p.next <= LastSeq(p.batch) /\ class # "new"
        /\ IF class = "duplicate"
           THEN /\ posts' = (posts \ {p}) \cup {[p EXCEPT !.next = @ + 1]}
                /\ UNCHANGED <<rec, chan, reply, sid, link, local, started, violation, faults>>
           ELSE Invalidate(p)

(* The controls offered to the daemon have all been acknowledged. *)
ControlsAcknowledged(p) == chan[p.token].out.msgs = <<>>

(* https_ready, which only the probing branch accepts: verifyReady.  On a    *)
(* channel closed meanwhile it throws.                                       *)
Ready(p) ==
    /\ Handles(p, "https_ready")
    /\ IF p.wasReady \/ ~ControlsAcknowledged(p) THEN Invalidate(p)
       ELSE IF ~Open(p.token)
       THEN /\ posts' = posts \ {p} /\ reply' = Replied(p, Refusal("failed"))
            /\ UNCHANGED <<rec, chan, sid, link, local, started, violation, faults>>
       ELSE /\ chan' = [chan EXCEPT ![p.token].state = "ready", ![p.token].seen = p.next]
            /\ posts' = (posts \ {p}) \cup {[p EXCEPT !.next = @ + 1]}
            /\ UNCHANGED <<rec, reply, sid, link, local, started, violation, faults>>

(* Acknowledging only what was expected. *)
Fault_AcknowledgeOwnedOnly(c, o) ==
    IF ResultOwnership(rec, c, o) = "owned" THEN <<ResultAck(c)>> ELSE <<>>

(* Results of settled calls are acknowledged, results of another owner not. *)
Acknowledgement(c, o) ==
    IF ResultOwnership(rec, c, o) = "stale" THEN <<>> ELSE <<ResultAck(c)>>

(* handleReadyDaemonMessage up to its await: tool_result.  The               *)
(* acknowledgement it decides on is sent after the await.                    *)
TakeResult(p) ==
    LET c == Message(p).id
    IN  /\ Handles(p, "tool_result")
        /\ rec' = Answer(rec, c, p.token)
        /\ posts' = (posts \ {p}) \cup
                    {[p EXCEPT !.stage = "committing", !.after = Acknowledgement(c, p.token)]}
        /\ UNCHANGED <<chan, reply, sid, link, local, started, violation, faults>>

(* resume_calls_ack: of the calls this channel owns and the daemon never     *)
(* received, those with execution budget left (outside spent) are sent       *)
(* again, once; the others are rejected.                                     *)
TakeResumeAck(p) ==
    LET o     == p.token
        ids   == Message(p).ids
        first == ~chan[o].answered.known
        valid == /\ chan[o].state = "ready" /\ ids \subseteq chan[o].expected
                 /\ first \/ chan[o].answered.ids = ids
        owned == IF first THEN ids \cap OwnedBy(rec, o) ELSE {}
        fresh == {c \in owned : rec[c].redelivered = None}
    IN  /\ Handles(p, "resume_calls_ack")
        /\ IF ~valid THEN Invalidate(p)
           ELSE \E spent \in SUBSET fresh : \E again \in Orders(fresh \ spent) :
                  /\ rec' = [c \in Calls |->
                               IF c \in fresh \ spent
                               THEN [rec[c] EXCEPT !.redelivered = o]
                               ELSE IF c \in spent \/ (c \in owned /\ rec[c].redelivered # o)
                               THEN Settled(rec[c], "not_received", None)
                               ELSE rec[c]]
                  /\ chan' = TrySend([chan EXCEPT ![o].answered = [known |-> TRUE, ids |-> ids]],
                                     o, [i \in DOMAIN again |-> ToolCall(again[i])])
                  /\ posts' = (posts \ {p}) \cup {[p EXCEPT !.stage = "committing"]}
                  /\ UNCHANGED <<reply, sid, link, local, started, violation, faults>>

(* After the await: commitDaemonSequence, which throws if another handler of *)
(* the same message was faster.                                              *)
Commit(p) ==
    LET sent == TrySend(chan, p.token, p.after)
    IN  /\ p.stage = "committing"
        /\ IF Classify(chan[p.token].seen, p.next) = "new"
           THEN /\ chan' = [sent EXCEPT ![p.token].seen = p.next]
                /\ posts' = (posts \ {p}) \cup
                            {[p EXCEPT !.stage = "handling", !.next = @ + 1, !.after = <<>>]}
                /\ UNCHANGED reply
           ELSE /\ chan' = sent
                /\ posts' = posts \ {p}
                /\ reply' = Replied(p, Refusal("failed"))
        /\ UNCHANGED <<rec, sid, link, local, started, violation, faults>>

Phase(p) == IF p.wasReady \/ chan[p.token].state = "ready" THEN "ready" ELSE "probing"

(* The response, with everything unacknowledged. *)
Respond(p) ==
    /\ p.stage = "handling" /\ p.next > LastSeq(p.batch)
    /\ posts' = posts \ {p}
    /\ reply' = Replied(p, [kind |-> "ok", phase |-> Phase(p), token |-> p.token,
                            ack |-> chan[p.token].seen, batch |-> chan[p.token].out])
    /\ UNCHANGED <<rec, chan, sid, link, local, started, violation, faults>>

(* staleOwned and invalidateDaemonChannel: the alarm closes a channel it has *)
(* not heard of for httpFallbackLivenessTimeoutMs.                           *)
Reclaim(o) ==
    /\ Open(o) /\ faults < MaxFaults
    /\ \A p \in posts : p.token = o => p.stage = "sent"
    /\ rec' = CallsAfterLoss({o})
    /\ chan' = ClosedChannels({o})
    /\ faults' = faults + 1
    /\ UNCHANGED <<posts, reply, sid, link, local, started, violation>>

(* callDaemonTool on a ready channel. *)
Dispatch(c, o) ==
    /\ rec[c].status = "new" /\ chan[o].state = "ready"
    /\ rec' = [rec EXCEPT ![c] = Registered(c, o, ThisInstance)]
    /\ chan' = TrySend(chan, o, <<ToolCall(c)>>)
    /\ UNCHANGED <<posts, reply, sid, link, local, started, violation, faults>>

(* The caller cancels. *)
CancelRequest(c) ==
    /\ c \in Pending(rec)
    /\ rec' = SettleAll(rec, {c}, "cancelled")
    /\ chan' = TrySend(chan, rec[c].owner, <<CancelCall(c)>>)
    /\ UNCHANGED <<posts, reply, sid, link, local, started, violation, faults>>

-----------------------------------------------------------------------------
(* The daemon. *)

Active   == {c \in Calls : local[c] \in {"active", "suppressed"}}
Retained == {c \in Calls : local[c] = "retained"}

InFlight == reply # NoReply \/ \E p \in posts : p.live

(* poll *)
Poll ==
    /\ ~InFlight
    /\ posts' = posts \cup
         {[sid |-> sid, token |-> link.token, ack |-> link.seen, batch |-> link.out,
           live |-> TRUE, stage |-> "sent", next |-> 0, wasReady |-> FALSE, after |-> <<>>]}
    /\ UNCHANGED <<rec, chan, reply, sid, link, local, started, violation, faults>>

(* Polls nobody waits for any more. *)
GivenUp == {[p EXCEPT !.live = FALSE] : p \in posts}

(* resetSession *)
ResetSession ==
    /\ sid + 1 \in Sessions
    /\ sid' = sid + 1 /\ link' = NewLink

(* The request times out or fails, wherever it is: handleFailure.  A ready   *)
(* session ends if nothing succeeded for livenessTimeoutMs.                  *)
PollFails ==
    /\ InFlight /\ reply.kind # "reading" /\ faults < MaxFaults
    /\ posts' = GivenUp /\ reply' = NoReply /\ faults' = faults + 1
    /\ \/ UNCHANGED <<sid, link>>
       \/ link.ready /\ ResetSession
    /\ UNCHANGED <<rec, chan, local, started, violation>>

(* A response that does not parse: handleSessionFailure. *)
ResponseGarbled ==
    /\ reply.kind \in {"ok", "conflict", "failed"} /\ faults < MaxFaults
    /\ ResetSession /\ reply' = NoReply /\ faults' = faults + 1
    /\ UNCHANGED <<rec, chan, posts, local, started, violation>>

(* interrupt: the device session rotates, or a control handler fails. *)
Interrupt ==
    /\ faults < MaxFaults
    /\ ResetSession /\ posts' = GivenUp /\ reply' = NoReply /\ faults' = faults + 1
    /\ UNCHANGED <<rec, chan, local, started, violation>>

(* handleResponse: statuses 409 and 500, and a successful answer up to its   *)
(* messages.  Becoming ready sends every retained result again.              *)
Conflict ==
    /\ reply.kind = "conflict"
    /\ ResetSession /\ reply' = NoReply
    /\ UNCHANGED <<rec, chan, posts, local, started, violation, faults>>

Failed ==
    /\ reply.kind = "failed" /\ reply' = NoReply
    /\ UNCHANGED <<rec, chan, posts, sid, link, local, started, violation, faults>>

Receive ==
    /\ reply.kind = "ok"
    /\ IF AckValid(link.out, reply.ack)
       THEN LET out  == Acknowledged(link.out, reply.ack)
                next == [link EXCEPT !.out = out, !.token = IF @ = None THEN reply.token ELSE @]
            IN  /\ IF reply.phase = "ready" /\ link.localReady /\ ~link.ready
                   THEN \E q \in Orders(Retained) :
                          link' = [next EXCEPT !.ready = TRUE,
                                     !.out = Enqueued(out, [i \in DOMAIN q |-> Result(q[i])])]
                   ELSE link' = next
                /\ reply' = [reply EXCEPT !.kind = "reading"]
                /\ UNCHANGED <<sid, violation>>
       ELSE ResetSession /\ reply' = NoReply /\ violation' = TRUE
    /\ UNCHANGED <<rec, chan, posts, local, started, faults>>

(* The next message of the response that the daemon has not handled. *)
Reads(type) ==
    /\ reply.kind = "reading" /\ link.seen < LastSeq(reply.batch)
    /\ link.seen >= reply.batch.acked
    /\ MessageAt(reply.batch, link.seen + 1).type = type
Read == MessageAt(reply.batch, link.seen + 1)

(* No new message is left, or there is a gap before the next. *)
EndResponse ==
    /\ reply.kind = "reading" /\ ~(link.seen \in reply.batch.acked .. LastSeq(reply.batch) - 1)
    /\ reply' = NoReply
    /\ IF link.seen < reply.batch.acked
       THEN ResetSession /\ violation' = TRUE
       ELSE UNCHANGED <<sid, link, violation>>
    /\ UNCHANGED <<rec, chan, posts, local, started, faults>>

(* Reporting nothing as missing. *)
Fault_NothingMissing(ids) == {}

(* The resumed calls this daemon has nothing of. *)
ProvenMissing(ids) == ids \ (Active \cup Retained)

(* handleResumeCalls and reconcileRelayCalls *)
DaemonResume ==
    /\ Reads("resume_calls")
    /\ LET ids == Read.ids
       IN  /\ link' = [link EXCEPT !.seen = @ + 1,
                         !.resume = [known |-> TRUE, ids |-> ProvenMissing(ids)]]
           /\ local' = [c \in Calls |->
                 IF c \in ids THEN local[c] ELSE IF c \in Active THEN "suppressed" ELSE "none"]
    /\ violation' = (violation \/ link.ready \/ link.resume.known)
    /\ UNCHANGED <<rec, chan, posts, reply, sid, started, faults>>

ReadinessProof(missing) == <<HttpsReady, ResumeAck(missing)>>

(* ready_ack: confirmReady queues the proof, then the acknowledgement of the *)
(* resume.                                                                   *)
DaemonReady ==
    /\ Reads("ready_ack")
    /\ link' = [link EXCEPT !.seen = @ + 1, !.localReady = TRUE, !.resume = NoAnswer,
                            !.out = Enqueued(@, ReadinessProof(link.resume.ids))]
    /\ violation' = (violation \/ ~link.resume.known \/ link.localReady)
    /\ UNCHANGED <<rec, chan, posts, reply, sid, local, started, faults>>

(* handleRelayToolCall; the number is committed without awaiting the tool. *)
DaemonToolCall ==
    /\ Reads("tool_call")
    /\ link' = [link EXCEPT !.seen = @ + 1]
    /\ IF link.ready /\ Read.id \notin Active
       THEN /\ local' = [local EXCEPT ![Read.id] = "active"]
            /\ started' = [started EXCEPT ![Read.id] = @ + 1]
            /\ UNCHANGED violation
       ELSE violation' = TRUE /\ UNCHANGED <<local, started>>
    /\ UNCHANGED <<rec, chan, posts, reply, sid, faults>>

(* cancelRelayCall *)
DaemonCancel ==
    /\ Reads("cancel_call")
    /\ link' = [link EXCEPT !.seen = @ + 1]
    /\ local' = [local EXCEPT ![Read.id] = IF Read.id \in Active THEN "suppressed" ELSE "none"]
    /\ violation' = (violation \/ ~link.ready)
    /\ UNCHANGED <<rec, chan, posts, reply, sid, started, faults>>

(* tool_result_ack *)
DaemonAck ==
    /\ Reads("tool_result_ack")
    /\ link' = [link EXCEPT !.seen = @ + 1]
    /\ local' = [local EXCEPT ![Read.id] = IF @ = "retained" THEN "none" ELSE @]
    /\ violation' = (violation \/ ~link.ready)
    /\ UNCHANGED <<rec, chan, posts, reply, sid, started, faults>>

(* Delivering a result without retaining it first. *)
Fault_NotRetained(c) == "none"
AfterDelivery(c) == "retained"

(* The tool of a call ends: deliver. *)
Finish(c) ==
    /\ c \in Active
    /\ IF local[c] = "suppressed"
       THEN local' = [local EXCEPT ![c] = "none"] /\ UNCHANGED link
       ELSE /\ local' = [local EXCEPT ![c] = AfterDelivery(c)]
            /\ link' = IF link.ready THEN [link EXCEPT !.out = Enqueued(@, <<Result(c)>>)]
                       ELSE link
    /\ UNCHANGED <<rec, chan, posts, reply, sid, started, violation, faults>>

-----------------------------------------------------------------------------
Handler(p) ==
    \/ OpenChannel(p)
    \/ Refuse(p)
    \/ Begin(p)
    \/ OutOfOrder(p)
    \/ Ready(p)
    \/ TakeResult(p)
    \/ TakeResumeAck(p)
    \/ Commit(p)
    \/ Respond(p)

Reading == EndResponse \/ DaemonResume \/ DaemonReady \/ DaemonToolCall
           \/ DaemonCancel \/ DaemonAck

Next ==
    \/ \E p \in posts : Handler(p)
    \/ \E o \in Channels : Reclaim(o)
    \/ \E c \in Calls, o \in Channels : Dispatch(c, o)
    \/ \E c \in Calls : CancelRequest(c)
    \/ Poll
    \/ PollFails
    \/ ResponseGarbled
    \/ Interrupt
    \/ Conflict
    \/ Failed
    \/ Receive
    \/ Reading
    \/ \E c \in Calls : Finish(c)

Spec == Init /\ [][Next]_vars

(* The daemon keeps polling, the Worker handles what it is handling and the  *)
(* poll the daemon waits for, and tools end.  A poll given up may be lost.   *)
Fairness ==
    /\ WF_vars(\E p \in posts : (p.live \/ p.stage # "sent") /\ Handler(p))
    /\ WF_vars(Poll) /\ WF_vars(Conflict) /\ WF_vars(Failed) /\ WF_vars(Receive)
    /\ WF_vars(Reading)
    /\ \A c \in Calls : WF_vars(Finish(c))

FairSpec == Spec /\ Fairness
-----------------------------------------------------------------------------
MessageType ==
    [type : {"https_ready", "ready_ack"}]
    \cup [type : {"resume_calls", "resume_calls_ack"}, ids : SUBSET Calls]
    \cup [type : {"tool_call", "cancel_call", "tool_result", "tool_result_ack"}, id : Calls]
Batch  == [acked : Nat, msgs : Seq(MessageType)]
AnswerState == [known : BOOLEAN, ids : SUBSET Calls]
ChannelState ==
    [state : {"none", "probing", "ready", "closed"}, sid : Sessions \cup {0}, out : Batch,
     seen : Nat, expected : SUBSET Calls, answered : AnswerState]
PostState ==
    [sid : Sessions, token : Channels \cup {None}, ack : Nat, batch : Batch, live : BOOLEAN,
     stage : {"sent", "handling", "committing"}, next : Nat, wasReady : BOOLEAN,
     after : Seq(MessageType)]
ReplyState ==
    [kind : {"none", "ok", "conflict", "failed", "reading"},
     phase : {"none", "probing", "ready"}, token : Channels \cup {None}, ack : Nat,
     batch : Batch]
LinkState ==
    [token : Channels \cup {None}, localReady : BOOLEAN, ready : BOOLEAN, out : Batch,
     seen : Nat, resume : AnswerState]

(* Type invariant. *)
TypeOK ==
    /\ rec \in [Calls -> Record] /\ chan \in [Channels -> ChannelState]
    /\ posts \subseteq PostState /\ reply \in ReplyState
    /\ sid \in Sessions /\ link \in LinkState
    /\ local \in [Calls -> {"none", "active", "suppressed", "retained"}]
    /\ started \in [Calls -> Nat] /\ violation \in BOOLEAN /\ faults \in 0 .. MaxFaults

(* Whatever polls and responses are lost, repeated or overtaken, a batch on  *)
(* its way between the two ends of a live session never names, under a       *)
(* number its receiver has still to handle, another message than the sender  *)
(* gave that number, and what the sender dropped has been handled: nothing   *)
(* is lost, reordered or handled twice (RelayInboundSequence,                *)
(* acceptDaemonSequence).                                                    *)
Carries(batch, out, seen) ==
    /\ batch.acked <= seen /\ LastSeq(batch) <= LastSeq(out)
    /\ \A n \in seen + 1 .. LastSeq(batch) : MessageAt(batch, n) = MessageAt(out, n)
StreamsAgree ==
    LET o == link.token
    IN  Open(o) =>
          /\ Carries(chan[o].out, chan[o].out, link.seen)
          /\ Carries(link.out, link.out, chan[o].seen)
          /\ reply.kind \in {"ok", "reading"} /\ reply.token = o =>
                Carries(reply.batch, chan[o].out, link.seen)
          /\ \A p \in posts : p.token = o /\ p.sid = sid =>
                Carries(p.batch, link.out, chan[o].seen)

(* However polls fail, no tool call is executed twice.                       *)
AtMostOnceExecution == \A c \in Calls : started[c] <= 1

(* A call rejected as never received has not run and never will.             *)
NotReceivedMeansNotExecuted ==
    \A c \in Calls : rec[c].outcome = "not_received" => started[c] = 0

(* What the Worker waits for and the daemon has begun, the daemon still runs *)
(* or keeps the result of.                                                   *)
NoLostResult ==
    \A c \in Pending(rec) : started[c] > 0 => local[c] \in {"active", "retained"}

(* The three together are what a call keeps of every failed poll: it runs    *)
(* once at most, not at all where the caller was told so, its result stays.  *)
CallsSurvive == AtMostOnceExecution /\ NotReceivedMeansNotExecuted /\ NoLostResult

(* Neither end ever sees a message out of order, a proof of readiness before *)
(* its controls were acknowledged, a call or a cancellation before it is     *)
(* ready, or an acknowledgement it cannot accept: invalidate and             *)
(* handleRelayProtocolViolation are for foreign daemons only.                *)
NoProtocolViolation == ~violation

(* The relay between the two ends stays one: they agree on the streams, and  *)
(* neither rejects what the other sends.                                     *)
RelayKept == StreamsAgree /\ NoProtocolViolation

(* No pending call is held by a channel that is closed, and at most one      *)
(* channel is open.                                                          *)
OwnerIsOpen ==
    /\ \A c \in Pending(rec) : rec[c].owner # None => Open(rec[c].owner)
    /\ \A x, y \in Channels : Open(x) /\ Open(y) => x = y

(* Every call is settled, without any timeout, once faults stop.             *)
EventuallyAnswered ==
    \A c \in Calls : rec[c].status = "pending" ~> rec[c].status = "settled"

(* And the daemon comes to hold nothing of it.                               *)
EventuallyReleased ==
    \A c \in Calls : rec[c].status = "settled" ~> local[c] = "none"

(* What docs/THREAT_MODEL.md says of the fallback: it preserves the          *)
(* ownership of pending calls, so that losing a channel alone fails none of  *)
(* them.                                                                     *)
OwnershipPreserved == \A c \in Calls : rec[c].outcome # "disconnected"

(* Worker and daemon implement CallDelivery: however polls fail, a call is   *)
(* answered only from its one execution.  No daemon refuses a call here, its *)
(* capacity is left out.                                                     *)
Delivery == INSTANCE CallDelivery
              WITH Refusals <- FALSE,
                   call <- [c \in Calls |-> [told |-> Told(rec[c]), runs |-> started[c]]]
ImplementsDelivery == Delivery!Spec
=============================================================================
