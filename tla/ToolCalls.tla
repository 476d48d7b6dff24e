------------------------------ MODULE ToolCalls ------------------------------
(* Tool calls on the Worker, from their arrival to the registry: callDaemon- *)
(* Tool (worker/index.ts) with the wait for a ready daemon (daemon-ready-    *)
(* dispatch.ts, daemon-ready-waiters.ts) in front of PendingCalls.  A call   *)
(* takes a ready channel at once if nobody waits, or joins the waiters, who  *)
(* are all released when a promotion ends, by a revocation, or by a timer.   *)
(* Then it queues for the OAuth lock, under which it is dispatched or        *)
(* refused.  Whatever a call does before that leaves the registry alone, so  *)
(* that each behaviour is one of PendingCalls.                               *)
EXTENDS PendingCalls

VARIABLES
    stage,       \* new | waiting | holding (a channel, until the lock) | refused | sent
    held,        \* the channel a call holds
    announcing   \* promoted channels that have not yet called notifyReadyDaemon

waitVars == <<stage, held, announcing>>
callVars == <<vars, waitVars>>

WInit ==
    /\ Init
    /\ stage = [c \in Calls |-> "new"]
    /\ held = [c \in Calls |-> NoChannel]
    /\ announcing = {}

Waiting == {c \in Calls : stage[c] = "waiting"}

(* readyChannels: a draining channel takes no new call. *)
ReadyChannels == {ch \in Channels : channel[ch] = "ready"}

(* waitForReadyDaemon counts the waiters with the calls in the registry. *)
WaitAdmitted(c) ==
    LET taken == Pending(rec) \cup Waiting IN
    /\ Admission(Active(taken), Active(Control(taken)), Maximum, Reserved,
                 ToolOf[c] = "control")
    /\ ToolOf[c] = "read_job" =>
           Active({d \in taken : /\ ToolOf[d] = "read_job"
                                 /\ AuthorityOf[d].account = AuthorityOf[c].account})
               < ReadJobMaximum

(* immediateReadyDaemonForDispatch: nobody overtakes those who wait. *)
Immediate == IF Waiting = {} THEN ReadyChannels ELSE {}

Take(c, ch) ==
    /\ stage' = [stage EXCEPT ![c] = "holding"]
    /\ held' = [held EXCEPT ![c] = ch]

Refuse(c) ==
    /\ stage' = [stage EXCEPT ![c] = "refused"]
    /\ held' = [held EXCEPT ![c] = NoChannel]

(* readyDaemonForDispatch *)
Arrive(c) ==
    /\ stage[c] = "new"
    /\ IF Immediate # {} THEN \E ch \in Immediate : Take(c, ch)
       ELSE IF WaitAdmitted(c)
       THEN stage' = [stage EXCEPT ![c] = "waiting"] /\ UNCHANGED held
       ELSE Refuse(c)
    /\ UNCHANGED <<vars, announcing>>

(* The grace timer of a waiter, or the abort of its request. *)
GiveUp(c) ==
    /\ c \in Waiting
    /\ Refuse(c)
    /\ UNCHANGED <<vars, announcing>>

(* Waking one waiter for the channel instead of all of them. *)
Fault_WakesOne(ch) ==
    IF Waiting = {} THEN {} ELSE {CHOOSE c \in Waiting : TRUE}

(* notifyReadyDaemon: the waiters are released if a channel is ready still. *)
Released(ch) == IF ReadyChannels = {} THEN {} ELSE Waiting

Notify(ch) ==
    /\ ch \in announcing
    /\ announcing' = announcing \ {ch}
    /\ \E ready \in IF ReadyChannels = {} THEN {NoChannel} ELSE ReadyChannels :
           /\ stage' = [c \in Calls |-> IF c \in Released(ch) THEN "holding" ELSE stage[c]]
           /\ held' = [c \in Calls |-> IF c \in Released(ch) THEN ready ELSE held[c]]
    /\ UNCHANGED vars

(* runWithCurrentAuthority: its turn at the lock. *)
Send(c, ch, sent) ==
    /\ stage[c] = "holding" /\ held[c] = ch
    /\ Dispatch(c, ch, sent)
    /\ stage' = [stage EXCEPT ![c] = "sent"]
    /\ held' = [held EXCEPT ![c] = NoChannel]
    /\ UNCHANGED announcing

(* Its channel is gone, its authority is no longer current, the registry has *)
(* no place for it, it was aborted, or the wait left too little of its time. *)
DispatchRefused(c) ==
    /\ stage[c] = "holding"
    /\ Refuse(c)
    /\ UNCHANGED <<vars, announcing>>

PromoteAndAnnounce(ch) ==
    /\ Promote(ch)
    /\ announcing' = announcing \cup {ch}
    /\ UNCHANGED <<stage, held>>

(* flushAuthorityRevocations: cancelReadyDaemonAuthority, then the registry. *)
FlushWaiters(s) ==
    /\ StartFlush(s)
    /\ stage' = [c \in Calls |-> IF c \in Waiting /\ Matches(c, s) THEN "refused" ELSE stage[c]]
    /\ UNCHANGED <<held, announcing>>

(* The steps of the registry and its channels that no waiter takes part in. *)
RegistryStep ==
    /\ \/ \E c \in Calls : HandleUnsent(c)
       \/ \E ch \in Channels : PromotionFails(ch)
       \/ FallbackRebind
       \/ \E ch \in Channels : LoseChannel(ch)
       \/ \E ch \in Channels : CleanUp(ch)
       \/ \E ch \in Channels : Drain(ch)
       \/ \E c \in Calls, ch \in Channels : ToolResult(c, ch)
       \/ \E c \in Calls, ch \in Channels, sent \in BOOLEAN : ReportedMissing(c, ch, sent)
       \/ \E k \in RequestKeys : CancelRequest(k)
       \/ \E c \in Calls : Abort(c)
       \/ \E s \in Scopes : CommitRevocation(s)
       \/ \E c \in Calls : FlushOne(c)
       \/ FinishFlush
       \/ \E c \in Calls : OperationTimer(c)
       \/ \E c \in Calls : ReconnectTimer(c)
       \/ StartSweep
       \/ \E c \in Calls : SweepOne(c)
       \/ Tick
    /\ UNCHANGED waitVars

WNext ==
    \/ \E c \in Calls : Arrive(c)
    \/ \E c \in Calls : GiveUp(c)
    \/ \E ch \in Channels : Notify(ch)
    \/ \E c \in Calls, ch \in Channels, sent \in BOOLEAN : Send(c, ch, sent)
    \/ \E c \in Calls : DispatchRefused(c)
    \/ \E ch \in Channels : PromoteAndAnnounce(ch)
    \/ \E s \in Scopes : FlushWaiters(s)
    \/ RegistryStep

WSpec == WInit /\ [][WNext]_callVars

(* The event loop does not stop while a timer is due, a continuation is      *)
(* ready or the lock is free.  No order among them is assumed; channels may  *)
(* come or not, and no daemon has to answer.                                 *)
EventLoop ==
    \/ \E c \in Calls : GiveUp(c) \/ DispatchRefused(c)
    \/ /\ \/ Tick
          \/ FallbackRebind
          \/ \E ch \in Channels : CleanUp(ch)
          \/ \E c \in Calls : \/ SweepOne(c) \/ FlushOne(c) \/ HandleUnsent(c)
                             \/ OperationTimer(c) \/ ReconnectTimer(c)
       /\ UNCHANGED waitVars

FairWSpec == WSpec /\ WF_callVars(EventLoop)
-----------------------------------------------------------------------------
(* Type invariant of what is added to the registry's. *)
WaitTypeOK ==
    /\ TypeOK
    /\ stage \in [Calls -> {"new", "waiting", "holding", "refused", "sent"}]
    /\ held \in [Calls -> Channels \cup {NoChannel}]
    /\ announcing \in SUBSET Channels

(* No call waits beside a channel that could take it unless the promotion    *)
(* that will wake it is still on its way: joining the waiters, draining,     *)
(* promotions that overlap and waiters in front of a call never leave one    *)
(* asleep until its grace timer (waitForReadyDaemon, notifyReadyDaemon).     *)
NoWakeupLost == Waiting # {} /\ ReadyChannels # {} => announcing # {}

(* Every call that arrives ends, refused or settled, whatever the channels   *)
(* and the daemons do: what callDaemonTool awaits never hangs.  Said of all  *)
(* calls at once: again and again there is a moment when none is underway.   *)
(* As each call has one life, that is each call's ~> .                       *)
Underway == {c \in Calls : stage[c] \notin {"new", "refused"} /\ rec[c].status # "settled"}
EventuallyEnds == []<>(Underway = {})
=============================================================================
