------------------------- MODULE AuthorityRevocations -------------------------
(***************************************************************************)
(* How the end of an authority reaches the work it started.  The Worker    *)
(* ends an account version, a client or a refresh family and queues a      *)
(* revocation in the same transaction (src/worker/authority-revocations.ts, *)
(* account-admin.ts, oauth-client-admin.ts); the queue is delivered to the  *)
(* daemon until it acknowledges (index.ts, daemon-websocket-controller.ts), *)
(* and the daemon stops the calls, process sessions and managed jobs the   *)
(* authority owns (runtime.mjs, runtime-relay-control.mjs).                *)
(***************************************************************************)
EXTENDS Naturals, Sequences, FiniteSets, Functions

CONSTANTS Families, Clients,
          ClientOf,        \* the client each refresh family belongs to
          MaxRevocations,  \* MAX_AUTHORITY_REVOCATIONS
          MaxVersions,     \* bound: versions of the account
          MaxCalls,        \* bound: calls dispatched
          MaxMutations,    \* bound: authorities ended
          MaxFaults,       \* bound: connections lost and local revocations that fail
          None             \* no client, no family: the scope is wider

ASSUME RevocationAssumption ==
    /\ ClientOf \in [Families -> Clients] /\ None \notin Families \cup Clients
    /\ IsFiniteSet(Families)
    /\ MaxRevocations \in Nat \ {0} /\ MaxVersions \in Nat \ {0}
    /\ {MaxCalls, MaxMutations, MaxFaults} \subseteq Nat

VARIABLES
    version,  \* the account's version
    grant,    \* the version each family was authorized under, 0: not yet
    removed,  \* clients removed
    revoked,  \* families revoked
    queue,    \* the durable queue of revocations
    nextId,   \* the next revocation's id
    flush,    \* the records flushAuthorityRevocations has read and not yet sent
    pending,  \* families with a call in the Worker's registry
    conn,     \* the daemon's channel: "down", "probing", "ready"
    probed,   \* the records read when the channel proved itself
    down, up, \* messages to and from the daemon
    call,     \* the daemon's call of each family
    session,  \* its process session
    work,     \* its managed job
    applying, \* revocations the daemon is applying
    calls, faults

authorities == <<version, grant, removed, revoked>>
worker == <<queue, nextId, flush, pending>>
channel == <<conn, probed, down, up>>
daemon == <<call, session, work, applying>>
bounds == <<calls, faults>>
vars == <<authorities, worker, channel, daemon, bounds>>

Scope(f) == [ver |-> grant[f], client |-> ClientOf[f], family |-> f]

Fault_CoversClientOnly(left, right) ==
    left.ver = right.ver /\ left.client \in {None, right.client}
\* covers, and recordMatchesAuthorityRevocation on the daemon
Covers(left, right) ==
    /\ left.ver = right.ver
    /\ \/ left.client = None
       \/ left.client = right.client /\ left.family \in {None, right.family}

\* currentOAuthTokenAuthority: tokens of the family are accepted
Current(f) == /\ grant[f] # 0 /\ grant[f] = version
              /\ ClientOf[f] \notin removed /\ f \notin revoked

-----------------------------------------------------------------------------
\* mergeRevocation: covered by a record that waits, or replacing those it
\* covers; a full queue keeps one record for the whole account version
Merge(records, candidate) ==
    LET kept == {r \in records : ~Covers(candidate, r)}
        account == [candidate EXCEPT !.client = None, !.family = None]
    IN IF \E r \in records : Covers(r, candidate) THEN records
       ELSE IF Cardinality(kept) < MaxRevocations THEN kept \cup {candidate}
       ELSE {r \in kept : r.ver # candidate.ver} \cup {account}

\* putWithAuthorityRevocation: the queue and the mutation it belongs to are one
\* transaction, refused as a whole when the queue stays full; afterwards the
\* queue is read to be flushed before another event is delivered
Commit(ver, client, family) ==
    LET next == Merge(queue, [id |-> nextId, ver |-> ver, client |-> client,
                              family |-> family])
    IN /\ Cardinality(next) <= MaxRevocations
       /\ flush = {} /\ nextId <= MaxMutations
       /\ queue' = next /\ flush' = next /\ nextId' = nextId + 1
       /\ UNCHANGED <<pending, channel, daemon, bounds>>

Init ==
    /\ version = 1 /\ grant = [f \in Families |-> 0] /\ removed = {} /\ revoked = {}
    /\ queue = {} /\ nextId = 1 /\ flush = {} /\ pending = {}
    /\ conn = "down" /\ probed = {} /\ down = <<>> /\ up = <<>>
    /\ call = [f \in Families |-> "none"]
    /\ session = [f \in Families |-> "none"]
    /\ work = [f \in Families |-> "none"]
    /\ applying = {} /\ calls = 0 /\ faults = 0

-----------------------------------------------------------------------------
(* Worker: authorities.                                                    *)
\* authorizeSubmit and the code exchange: a family under the current version
Authorize(f) ==
    /\ grant[f] = 0 /\ ClientOf[f] \notin removed
    /\ grant' = [grant EXCEPT ![f] = version]
    /\ UNCHANGED <<version, removed, revoked, worker, channel, daemon, bounds>>

\* update, remove and rotatePassword of an account
EndVersion ==
    /\ version < MaxVersions /\ version' = version + 1
    /\ Commit(version, None, None)
    /\ UNCHANGED <<grant, removed, revoked>>

\* the version the client was last trusted under: none if it never was
Trusted(c) ==
    LET granted == {grant[f] : f \in {g \in Families : ClientOf[g] = c}}
    IN {v \in granted \ {0} : \A u \in granted : u <= v}

\* handleOAuthClientAdminOperation, DELETE
RemoveClient(c) ==
    /\ c \notin removed
    /\ removed' = removed \cup {c}
    /\ \E v \in Trusted(c) : Commit(v, c, None)
    /\ UNCHANGED <<version, grant, revoked>>

\* exchangeRefreshToken: the replay of a consumed token ends its family
RevokeFamily(f) ==
    /\ grant[f] # 0 /\ f \notin revoked
    /\ revoked' = revoked \cup {f}
    /\ Commit(grant[f], ClientOf[f], f)
    /\ UNCHANGED <<version, grant, removed>>

-----------------------------------------------------------------------------
(* Worker: delivery.  No event is delivered while the queue is being read. *)
Message(type, about) == [type |-> type, about |-> about]
\* the records in the order of the queue, to which each is appended
InOrder(records) == {order \in [1 .. Cardinality(records) -> records] :
                        \A i, j \in DOMAIN order : i < j => order[i].id < order[j].id}
Wire(order) == [i \in DOMAIN order |-> Message("revoke", order[i])]

\* flushAuthorityRevocations: calls of a revoked authority leave the registry,
\* and every record is sent to the ready channel
Flush ==
    /\ flush # {} /\ flush' = {}
    /\ pending' = {f \in pending : ~\E r \in flush : Covers(r, Scope(f))}
    /\ IF conn = "ready"
       THEN \E order \in InOrder(flush) : down' = down \o Wire(order)
       ELSE UNCHANGED down
    /\ UNCHANGED <<authorities, queue, nextId, conn, probed, up, daemon, bounds>>

Fault_Nothing == {}
Unacknowledged == queue

\* alarm: while a channel is ready its liveness deadline keeps an alarm due, far
\* apart on the scale of a delivery
Alarm ==
    /\ conn = "ready" /\ flush = {} /\ Unacknowledged # {} /\ down = <<>> /\ up = <<>>
    /\ applying = {}
    /\ flush' = Unacknowledged
    /\ UNCHANGED <<authorities, queue, nextId, pending, channel, daemon, bounds>>

\* handleProbeResult: the queue is read ...
Probe ==
    /\ conn = "down" /\ flush = {}
    /\ conn' = "probing" /\ probed' = queue
    /\ UNCHANGED <<authorities, worker, down, up, daemon, bounds>>

\* ... and the channel promoted, with what was read delivered before the ready_ack
Promote ==
    /\ conn = "probing" /\ conn' = "ready"
    /\ \E order \in InOrder(probed) : down' = Wire(order)
    /\ probed' = {}
    /\ UNCHANGED <<authorities, worker, up, daemon, bounds>>

\* the channel is lost with the messages under way; what the daemon is applying
\* then ends without an acknowledgement
Lose ==
    /\ conn' = "down" /\ probed' = {} /\ down' = <<>> /\ up' = <<>> /\ applying' = {}

Drop ==
    /\ conn # "down" /\ faults < MaxFaults /\ faults' = faults + 1 /\ Lose
    /\ UNCHANGED <<authorities, worker, call, session, work, calls>>

\* runWithCurrentAuthority: the authority is checked and the call dispatched
Dispatch(f) ==
    /\ Current(f) /\ conn = "ready" /\ flush = {} /\ f \notin pending
    /\ call[f] = "none" /\ calls < MaxCalls
    /\ calls' = calls + 1 /\ pending' = pending \cup {f}
    /\ down' = Append(down, Message("call", f))
    /\ UNCHANGED <<authorities, queue, nextId, flush, conn, probed, up, daemon, faults>>

\* settleDaemonProvenMissingCalls: a call that was lost with its channel
Redeliver(f) ==
    /\ f \in pending /\ conn = "ready" /\ flush = {} /\ call[f] = "none"
    /\ Message("call", f) \notin Range(down)
    /\ down' = Append(down, Message("call", f))
    /\ UNCHANGED <<authorities, worker, conn, probed, up, daemon, bounds>>

\* acknowledgeAuthorityRevocation
Acknowledge ==
    /\ up # <<>> /\ flush = {}
    /\ up' = Tail(up) /\ queue' = {r \in queue : r.id # Head(up)}
    /\ UNCHANGED <<authorities, nextId, flush, pending, conn, probed, down, daemon, bounds>>

-----------------------------------------------------------------------------
(* The daemon.                                                             *)
ReceiveCall ==
    /\ down # <<>> /\ Head(down).type = "call"
    /\ down' = Tail(down) /\ call' = [call EXCEPT ![Head(down).about] = "run"]
    /\ UNCHANGED <<authorities, worker, conn, probed, up, session, work, applying, bounds>>

Fault_AlwaysComplete(failed) == failed = failed
Complete(failed) == failed = {}

\* applyAuthorityRevocation: calls are cancelled, sessions are asked to end, jobs
\* get their cancellation marker; a session that cannot be signalled and a job
\* whose transition is owned elsewhere make it incomplete, the others go on
Apply ==
    /\ down # <<>> /\ Head(down).type = "revoke"
    /\ LET rec == Head(down).about
           matching == {f \in Families : Covers(rec, Scope(f))}
       IN \E failed \in SUBSET {<<kind, f>> : kind \in {"session", "job"}, f \in matching} :
            /\ \A x \in failed : IF x[1] = "session" THEN session[x[2]] # "none"
                                                     ELSE work[x[2]] = "run"
            /\ faults + Cardinality(failed) <= MaxFaults
            /\ faults' = faults + Cardinality(failed)
            /\ call' = [f \in Families |-> IF f \in matching /\ call[f] = "run"
                                           THEN "cancelled" ELSE call[f]]
            /\ session' = [f \in Families |->
                  IF f \in matching /\ session[f] = "run" /\ <<"session", f>> \notin failed
                  THEN "ending" ELSE session[f]]
            /\ work' = [f \in Families |->
                  IF f \in matching /\ work[f] = "run" /\ <<"job", f>> \notin failed
                  THEN "cancelled" ELSE work[f]]
            /\ applying' = applying \cup {[rec |-> rec, complete |-> Complete(failed)]}
    /\ down' = Tail(down)
    /\ UNCHANGED <<authorities, worker, conn, probed, up, calls>>

Ending(a) == {f \in Families : session[f] = "ending" /\ Covers(a.rec, Scope(f))}

\* the sessions have ended: complete, it is acknowledged on its own connection
Applied ==
    \E a \in applying :
        /\ a.complete /\ Ending(a) = {}
        /\ applying' = applying \ {a}
        /\ up' = Append(up, a.rec.id)
        /\ UNCHANGED <<authorities, worker, conn, probed, down, call, session, work, bounds>>

\* incomplete, or sessions that do not end within five seconds: the daemon
\* interrupts the connection so that the queue is delivered again
Interrupt ==
    /\ \E a \in applying :
          \/ ~a.complete /\ UNCHANGED faults
          \/ /\ a.complete /\ Ending(a) # {}
             /\ faults < MaxFaults /\ faults' = faults + 1
    /\ Lose
    /\ UNCHANGED <<authorities, worker, call, session, work, calls>>

\* throwIfCancelled, in the same turn as what it guards
Permitted(f) == call[f] = "run"

\* ProcessSessionManager.start: checked again after the wait for resources, then
\* spawned and registered at once
StartSession(f) ==
    /\ Permitted(f) /\ session[f] = "none"
    /\ session' = [session EXCEPT ![f] = "run"]
    /\ UNCHANGED <<authorities, worker, channel, call, work, applying, bounds>>

\* ManagedJobManager.createJob, synchronous after the check
StartJob(f) ==
    /\ Permitted(f) /\ work[f] = "none"
    /\ work' = [work EXCEPT ![f] = "run"]
    /\ UNCHANGED <<authorities, worker, channel, call, session, applying, bounds>>

\* the handler returns and its result settles the call
EndCall(f) ==
    /\ call[f] # "none"
    /\ call' = [call EXCEPT ![f] = "none"] /\ pending' = pending \ {f}
    /\ UNCHANGED <<authorities, queue, nextId, flush, channel, session, work, applying, bounds>>

\* a session ends, and is kept no longer than its revocation needs it
EndSession(f) ==
    /\ session[f] # "none"
    /\ session' = [session EXCEPT ![f] = "none"]
    /\ UNCHANGED <<authorities, worker, channel, call, work, applying, bounds>>

Traffic == Flush \/ Alarm \/ Probe \/ Promote \/ Acknowledge
Local == ReceiveCall \/ Apply \/ Applied \/ Interrupt

Next ==
    \/ EndVersion \/ Drop \/ Traffic \/ Local
    \/ \E c \in Clients : RemoveClient(c)
    \/ \E f \in Families : \/ Authorize(f) \/ RevokeFamily(f) \/ Dispatch(f) \/ Redeliver(f)
                           \/ StartSession(f) \/ StartJob(f) \/ EndCall(f) \/ EndSession(f)

\* The daemon reconnects and handles what it gets, the Worker's alarms go off,
\* and a killed process ends; nothing else has to happen.
Fairness ==
    /\ WF_vars(Flush) /\ WF_vars(Alarm) /\ WF_vars(Probe) /\ WF_vars(Promote)
    /\ WF_vars(Acknowledge) /\ WF_vars(ReceiveCall) /\ WF_vars(Apply) /\ WF_vars(Applied)
    /\ WF_vars(Interrupt)
    /\ \A f \in Families : WF_vars(session[f] = "ending" /\ EndSession(f))

Spec == Init /\ [][Next]_vars /\ Fairness

-----------------------------------------------------------------------------
Records == [id : Nat \ {0}, ver : 1 .. MaxVersions, client : Clients \cup {None},
            family : Families \cup {None}]
Messages == [type : {"call"}, about : Families] \cup [type : {"revoke"}, about : Records]

\* Types, and the bound mergeRevocation promises for the stored queue.
TypeOK ==
    /\ version \in 1 .. MaxVersions /\ grant \in [Families -> 0 .. MaxVersions]
    /\ removed \subseteq Clients /\ revoked \subseteq Families
    /\ queue \subseteq Records /\ Cardinality(queue) <= MaxRevocations
    /\ nextId \in Nat \ {0}
    /\ flush \subseteq Records /\ probed \subseteq Records /\ pending \subseteq Families
    /\ conn \in {"down", "probing", "ready"}
    /\ down \in Seq(Messages) /\ up \in Seq(Nat \ {0})
    /\ call \in [Families -> {"none", "run", "cancelled"}]
    /\ session \in [Families -> {"none", "run", "ending"}]
    /\ work \in [Families -> {"none", "run", "cancelled"}]
    /\ applying \subseteq [rec : Records, complete : BOOLEAN]
    /\ calls \in 0 .. MaxCalls /\ faults \in 0 .. MaxFaults

\* work of the family that nothing has stopped, here or on its way
Running(f) ==
    \/ call[f] = "run" \/ session[f] = "run" \/ work[f] = "run"
    \/ f \in pending \/ Message("call", f) \in Range(down)

Ended(f) == grant[f] # 0 /\ ~Current(f)

\* A revocation is acknowledged only after it has been applied completely: as
\* long as work of an ended authority runs, a record that stops it is queued,
\* whatever was lost, refused or answered in between.
RevokedWorkStaysQueued ==
    \A f \in Families : Ended(f) /\ Running(f) => \E r \in queue : Covers(r, Scope(f))

\* A revocation is targeted: work of an authority that still holds is never
\* stopped by the end of another family, client or version.
OnlyRevokedStopped ==
    \A f \in Families : Current(f) =>
        call[f] # "cancelled" /\ session[f] # "ending" /\ work[f] # "cancelled"

\* Whatever fails or is lost, work of an ended authority is stopped for good: a
\* call that is delivered again or a session started late does not bring it back.
EventuallyStopped == \A f \in Families : Ended(f) ~> []~Running(f)

=============================================================================
