# machine-bridge-mcp: a verification development

machine-bridge-mcp lets a hosted MCP client use tools on a person's machine. This
directory models, in TLA+,

- how a *tool call* travels through it: it waits for a daemon, is dispatched by the
  Worker, sent over connections that die and are replaced, executed, answered,
  cancelled, revoked or timed out;
- how an *authority* ends: refresh tokens that are rotated, retried and replayed, and
  revocations that are followed until the work they are about has stopped;
- what outlives a call: *managed jobs*, whose processes crash between any two writes,
  and the *MCP tasks* through which clients poll them;
- how the daemon changes *files*: one mutation per path at a time, and patches of
  several files that are carried out as a whole or undone.

TLC checks the models on small instances; TLAPS proves what matters most about the
registry of calls and its waiters, the recovery of calls across reconnects, revocations,
refresh families, tasks, file mutations and patches for every value of the constants.

Paths below are relative to the repository (`src/worker/...`, `src/local/...`,
`src/shared/...`). `PROJECT.json` maps every definition to the lines it translates.

## 1. The system

    MCP client --HTTPS+OAuth--> Worker (Durable Object) ==relay==> daemon --> files, processes,
    MCP client --stdio-------------------------------------------> daemon      jobs, browser, apps

The Worker and the daemon each run on one JavaScript thread: a handler runs alone up
to its next `await`, and any other handler may run there. Between them messages are
FIFO while a connection lives, and lost with it.

### Inventory

| Component (source) | State | Operations | Hard because | Correct when |
|---|---|---|---|---|
| **Pending-call registry** `worker/pending-calls.ts`, `pending-call-*.ts` | records by id, index by request key, two timers per record | register, detach, rebind, resolve, reject, cancel, revoke, expire | timers, handovers and sweeps interleave; lists captured before an `await` | each call is settled once, by its owner, in bounded time; the index is exact |
| **Tool-call capacity** `shared/tool-call-capacity.mjs`, `worker/pending-call-capacity.ts` | counts | admit | reserve for one class of tools | control-plane tools are admissible while they use less than their reserve |
| **Dispatch** `worker/index.ts` | the OAuth lock | callDaemonTool, timeout, cancel | authority and channel may change while it waits | no call is sent on a revoked authority; a failed send is reported once |
| **Daemon sockets** `worker/daemon-websocket-controller.ts`, `daemon-sockets.ts`, `daemon-registry.ts` | role of each socket | accept, hello, probe, promote, close, drain, clean up | two sockets of one daemon overlap; sends fail half-way | calls follow the daemon instance, never another one; none is left on a closed socket |
| **Ready-channel messages** `worker/daemon-ready-messages.ts`, `daemon-resume-reconciliation.ts` | expected ids per channel | result, resume acknowledgement, pong | stale and repeated messages | redelivered once; a result is acknowledged unless someone else waits for it |
| **Call recovery** `local/relay-call-recovery.mjs`, `relay-result-retention.mjs`, `relay-recovery.mjs` | retained results, tombstones, grace timer | deliver, reconcile, acknowledge, pulse, expire | the daemon must prove a negative: that it never received a call | no call runs twice; no awaited result is lost |
| **Daemon runtime, relay control** `local/runtime.mjs`, `runtime-relay-control.mjs` | active and suppressed calls, resume state | handshake, admit, cancel, finish | message order across reconnects | handshake order never violates the protocol |
| **Daemon connections** `local/relay-connection.mjs`, `resilient-relay-connection.mjs`, `relay-liveness*.mjs`, `relay-heartbeat*.mjs` | current socket, phase, backoff | connect, close, probe, switch transport | half-open sockets | liveness is noticed by both ends |
| **HTTPS fallback** `worker/daemon-http-*.ts`, `local/daemon-http-relay-*.mjs` | sequence numbers, queues, activation token | poll, deliver, acknowledge, take over | retried requests overlap; commits after `await` | each message is handled once and in order |
| **Ready waiters** `worker/daemon-ready-waiter*.ts` | waiting requests | wait, notify, time out, revoke | check-then-act on capacity | bounded, no waiter forgotten |
| **Runtime alarm** `worker/runtime-alarm*.ts` | one storage alarm | schedule, fire | several writers across awaits | the earliest deadline is never overwritten |
| **Authority revocation** `worker/authority-revocations.ts`, `shared/authority-revocation.mjs` | bounded queue in storage | commit, flush, deliver, acknowledge | races dispatch; collapse when full | a revoked authority has no call, here or on the daemon |
| **OAuth** `worker/oauth-*.ts` | clients, codes, tokens, refresh families | authorise, exchange, rotate, revoke | lost responses against replay | one live family member; replay revokes |
| **DPoP, nonces, device sessions** `worker/dpop.ts`, `nonce-store.ts` | seen nonces | insert, prune | | a proof is used once |
| **MCP endpoint, tasks, job monitor** `worker/mcp-*.ts` | streams, subscriptions, task rows, leases | call, cancel, poll, subscribe | concurrent polls | a finished task stays finished |
| **Call registry, executor** `local/call-registry.mjs`, `tool-executor.mjs`, `lifecycle.mjs` | nested calls | begin, cancel, drain | cancellation against completion | a drain ends |
| **File mutations** `local/file-mutation-coordinator.mjs`, `workspace-file-*.mjs`, `patch.mjs` | promise chain per path, rollback journal | reserve, mutate, undo | several paths at once | exclusion without deadlock |
| **Process locks, state files** `local/state.mjs`, `owner-state-lock.mjs`, `exclusive-*.mjs` | lock files | claim, inspect, reclaim, release | several processes, crashes | one owner |
| **Managed jobs** `local/managed-job*.mjs`, `job-runner.mjs` | job directories | start, claim, run, cancel, recover, retain | crashes between any two writes | run once, end recorded |
| **Resource admission** `local/resource-*.mjs` | leases, waiters in a state file | request, wait, grant, release | several processes | limits hold; no waiter starves |
| **Processes** `local/process-*.mjs` | sessions, trees | start, read, stop | signals | no orphan |
| **Audit log, browser bridge, computer use, service, deployment, CLI, agent context, git, device identity** | various | | mostly calls of external programs | |

The parts about calls (the first seven rows, the HTTPS fallback, the waiters),
revocation, refresh families, tasks, managed jobs and file mutations are modelled, some
of them in part. `PROJECT.json` lists every component with its status and what of it is
left out, and every hazard found while reading, with its line and the property that
watches it (or the reason none does yet).

## 2. The modules

| Module | What it is |
|---|---|
| `ToolCallCapacity` | the admission rule shared by Worker and daemon, as operators |
| `PendingCallRecords` | one call's record and the pure registry operations: `Detached`, `Rebound`, `Settled`, `RebindInstance`, `Answer`, ... |
| `CallOwnership` | **abstract specification**: a call is held by one channel or none, moves only within its daemon instance, is answered only by its holder, is settled once |
| `CallDelivery` | **abstract specification**: what Worker and daemons promise together about one call; it runs once at most, and what its caller was told stays true |
| `PendingCalls` | the Worker: the registry with every handler that drives it |
| `RelayRecovery` | the Worker's registry and one daemon, across numbered sockets that die |
| `RelaySequence` | one sequenced stream: enqueue, acknowledge, classify, as operators |
| `HttpRelay` | the Worker's registry and one daemon, over the polls of the HTTPS fallback |
| `ToolCalls` | `PendingCalls` composed with the calls that wait for a ready daemon in front of it |
| `AuthorityRevocations` | the queue of revocations, its delivery, and the work the daemon stops |
| `RefreshFamilies` | the token endpoint: rotation, retry, replay, expiry, stores that fill up |
| `ManagedJobs` | one durable job: its files, the managers and the runner processes that share them |
| `McpTasks` | the task store and the handlers that poll jobs and record what they learn |
| `FileMutations` | the daemon's queues of file mutations, one chain of promises per path |
| `PatchTransaction` | one `apply_patch` on several files, its rollback, and the other programs that use the same files |
| `MCToolCalls`, `MCRelayRecovery`, `MCHttpRelay`, `MCAuthorityRevocations`, `MCRefreshFamilies`, `MCManagedJobs`, `MCMcpTasks`, `MCFileMutations`, `MCPatchTransaction` | instances for TLC |
| `PendingCallsProofs` | the invariants and action properties of `PendingCalls`, and its refinement of `CallOwnership`; that `ToolCalls` implements `PendingCalls` and forgets no waiter |
| `RelayRecoveryProofs` | that no call runs twice and no awaited result is lost, over any number of sockets and daemon processes; refinement of `CallDelivery` |
| `HttpRelayProofs` | that the streams agree, no call runs twice and no awaited result is lost, over any number of polls, channels and sessions; refinement of `CallDelivery` |
| `AuthorityRevocationsProofs` | that a revocation is followed until the work it is about has stopped, and stops no other |
| `RefreshFamiliesProofs` | one live token per family; a revoked family stays revoked; a prompt client keeps its family |
| `ManagedJobsProofs` | with one manager: one runner at a time, main steps once, a true and final outcome |
| `McpTasksProofs` | truthful statuses that are never taken back, exact result chunks, room for every result |
| `FileChangesProofs` | order, exclusion and exact queues of `FileMutations`; all or nothing, no original and no other program's work lost, nothing left behind unreported, of `PatchTransaction` |

The modules about calls use the operators of `PendingCallRecords`, so that what is
checked end to end is about the same registry that is proved correct on its own.

### `PendingCalls`

`rec[c]` is the record of call `c`, with the status `new` before it is made and
`settled` after it is taken. `byRequestKey` is the second map of the registry.
`channel[ch]` summarises what the Worker knows of a WebSocket or HTTPS channel;
`ready` and `draining` are those with a ready attachment. What a handler holds across
an `await` is a variable: `due` (the list `expireDue` captured), `flush` (the ids
`cancelAuthority` captured), `unsent` (a call to be rejected once the lock is
released), `fallback` (the channel a failed promotion returns its calls to). `revoked`
and `flushed` are the revocations committed and those whose flush has ended.

Time is an age per record, so deadlines are ages too. A timer may fire up to
`MaxLateness` ticks late, and `Tick` is disabled while a microtask is outstanding:
continuations of settled promises take no time.

Each action is one handler up to its `await`. `Dispatch` is the body that
`runWithCurrentAuthority` runs under the OAuth lock: authority and channel are tested
again, then the call is registered and sent. `Promote` and `PromotionFails` are the
two ends of `handleProbeResult`; `LoseChannel`/`CleanUp` the two halves of a
disconnect; `ReportedMissing` one id of a resume acknowledgement; `StartFlush`,
`FlushOne`, `FinishFlush` a revocation; `StartSweep`, `SweepOne` the overdue sweep;
`OperationTimer`, `ReconnectTimer` the two timers.

### `ToolCalls`

`stage[c]` is where a call is in `callDaemonTool`: waiting, holding the ready channel it
was handed (`held[c]`) until it has the OAuth lock, refused, or sent. `announcing` are
the channels whose promotion has not yet reached `notifyReadyDaemon`. `Arrive` is
`readyDaemonForDispatch`: a call takes a ready channel only if nobody waits, else it
joins the waiters, whom `WaitAdmitted` counts together with the pending calls. `Notify`
releases all of them, `FlushWaiters` those of a revoked authority, `GiveUp` is a waiter's
timer or its abort. `Send` and `DispatchRefused` are the two outcomes of the section
under the lock; every other step of `PendingCalls` leaves the waiters alone.

A wait takes no time in the model, where time is the age of registered calls; that it may
leave a call too little of its own is one of the reasons of `DispatchRefused`. A call
that was handed a channel may still register after waiters have taken the last places
beside it: `docs/OPERATIONS.md:163` admits 32 "across already-dispatched pending calls and
pre-dispatch daemon-recovery waiters", and at that moment their sum can be larger.

### `AuthorityRevocations`

`version`, `grant`, `removed` and `revoked` say which authorities hold; `queue` is the
stored list. A record that covers others replaces them, and a full queue keeps one
record for a whole account version (`Merge`). `Commit` is the transaction that ends an
authority and queues its record; `flush` is the list `flushAuthorityRevocations` has read
and not yet sent. The Durable Object delivers no event while it waits for its storage, so
nothing happens between the two. `Probe`/`Promote` deliver the queue to a channel before
it is ready, `Alarm` again later, `Acknowledge` removes a record. On the daemon, `Apply`
is the synchronous part of `applyAuthorityRevocation`; sessions end afterwards
(`EndSession`), and `Applied` or `Interrupt` concludes. `StartSession` and `StartJob` are
what a running handler may do after its own check (`Permitted`).

The channel is the WebSocket with its FIFO queues; delivery over HTTPS, subscriptions,
job monitors and a crash of the daemon (its sessions die with it, its jobs do not) are
left out.

### `RefreshFamilies`

A token is a family and a number: the pair derived from token n is token n + 1. `live`,
`access`, `consumed`, `open` and `tombs` are the stores of refresh tokens, access tokens,
consumption markers, markers that still carry their retry source, and tombstones of
revoked families; `older` is the order of consumption. `Rotate`, `Retry`, `Busy`,
`Replay` and `Reject` are the outcomes of `exchangeRefreshToken`, which runs under
`blockConcurrencyWhile` as a whole. Each store that is full drops something: refresh and
access tokens are cut with the new pair in them and the spent one not yet taken out, a
dropped marker revokes its family, a tombstone makes room for a newer one. A client holds
one token, asks and repeats until it gets an answer; families in `Shared` are presented by
anybody at any time. Time is the order in which records run out.

Signatures, DPoP binding, the comparison of client, resource and scope
(`validateRefreshGrant`) and the removal of accounts and clients are left out. One corner
shows in a property: `refreshFamilyAuthority` (`oauth-refresh-exchange.ts:73`) finds the
owner of a replayed token through the marker's source, or a token that is left. When the
source was compacted and no token of the family remains it finds none, and the family is
revoked without a record for the daemon, although `docs/MULTI_ACCOUNT.md:159` says that
the same transaction "durably queues the matching local-authority revocation".

### `ManagedJobs`

`job`, `plan`, `result`, `claim`, `child`, `recovery`, `transition` and `cancel` are the
files of the job's directory (`status.json`, `plan.json`, `result.json`, `runner.pid`,
`active-child.json`, the two lock files, the cancellation marker). A manager's handler
(`mgr[m]`) and a runner (`runner[r]`) are processes that make one observable file
operation per action; each may die between any two (`ManagerCrash`, `RunnerCrash`), and a
step's process tree lives on without its runner (`proc`). `Accept`, `Replay`, `Cancel` and
`ExpireStaged` are requests; `ScrubTerminal`, `AdoptResult` and `Reconcile` are
`reconcileStatus`, whose recovery goes on in `Recheck`, `Relaunch`, `Spawn`, `Publish`,
`Commit` and `Handoff`. A runner boots, confirms its claim, reaps its predecessor's child
(`Reap`), takes over the recovery lock, runs its steps and persists the end in three
writes, each of which may fail.

Steps are reduced to one of the main and one of the finally phase. Two reads that nothing
can tell apart are one action (those of a replay, and a cancellation's read with its
marker). Left out: retention and removal of ended jobs, the limit of 512 jobs, output, a
child whose identity cannot be established, and the race of two processes that reclaim
the same stale lock (`state.mjs:482`).

### `McpTasks`

`task` is the record of each task, `chunks` the stored pieces of results, `lapsed` the
tasks whose expiry has passed and which the next transaction prunes. Every operation of
the store is one transaction and one action; a handler (`request[r]`) steps from one to
the next and to its calls of the daemon, and may fail at each `await`. `CreateTask`
reserves room for the largest result, `Update` is `updateStatus`, `Collect` reads the
result back, `Reread` and `Lost` are the branches for a result that is missing and a job
that is gone. `shown` is the last status a client was told. `tasks/cancel` and
`tasks/update` change no record; leases of job monitors are left out. A task may be
created for an authority that was revoked while its `start_job` was answered: it keeps
its reservation until the next flush or its expiry.

### `RelayRecovery`

Sockets are numbered in the order the daemon opens them. `up` and `down` are the FIFO
queues of each; `alive` the ones whose TCP connection works. `Drop` kills a socket
without telling either end: `WorkerCloses` and `DaemonCloses` notice it later, each on
its own, and what is queued may be read until then. `local[c]` is what the daemon
knows of a call: running (`active`), running with its result no longer wanted
(`suppressed`), finished and kept until acknowledged (`retained`). `started` counts
executions and `violation` records a message that the receiving end treats as a
protocol error. `Crash` replaces the daemon by a new instance that knows nothing.

The handshake is one action up to the probe result (nothing about calls changes in
it), then `resume_calls` and `ready_ack` travel in order like every other message.

### `HttpRelay`

When no WebSocket is ready the daemon polls: each request carries the daemon's
unacknowledged messages and an acknowledgement, each response those of the Worker.
`posts` holds the polls under way, those the daemon has given up included: such a poll
may reach the Worker at any later time, while another is being handled. A poll passes
through the stages `sent`, `handling` (its messages one by one) and `committing` (the
`await` of `handleReadyDaemonMessage`, between the effect of a message and the commit of
its number); other handlers run in between, and a handler goes on when its channel has
been closed. `reply` is the one response the daemon waits for or reads. `chan[o]` is a
`DaemonHttpChannel` with its queue, its reconciliation and its phase, `link` the daemon's
session, whose two streams are records of `RelaySequence`. `sid` numbers the random
session ids in the order they are drawn; a channel's number stands for its activation
token as well.

`OpenChannel`, `Refuse`, `Begin`, `Ready`, `TakeResult`, `TakeResumeAck`, `Commit` and
`Respond` are the parts of `handleDaemonHttpRelay`; `Invalidate` its failure. `Poll`,
`PollFails`, `ResponseGarbled`, `Conflict`, `Failed`, `Receive` and the `Daemon...`
actions are the daemon's `poll` and `handleResponse`.

### `FileMutations`

`withPaths` reserves every key of a call in one synchronous step (`WithPaths`): it notes
whose tail is last on each (`current`) and becomes the last itself (`queues`). A promise
is represented by the call whose tail it is; `settled[m]` is the set of keys on which the
tail of `m` has resolved. `Start` is the continuation of `Promise.all`, `Finish` the
`finally` block, `TailSettles` the microtasks that resolve `current.then(() => gate)`,
which come after `finally` and in any order among the keys. `KeyOf` folds the spellings
of a file (`fileMutationPathKey`: case on macOS and Windows).

### `PatchTransaction`

A directory is three functions, for the workspace files, the staged files and the
backups; an entry holds an inode, and `version` counts the edits an inode has had, which
stands for its content hash and its change time alike. `at` and `i` are the call about to
be made and the operation it is made for, so that every file system call is one action
and every state is one in which the process may die. The records of the rollback are
`committed`, `created`, `targetIdentity` and `backupIdentity`. Any call may fail without
effect (`Fault`), at the cost of one of `MaxFaults`; `Refused` failures (`ENOENT`,
`EEXIST`) cost nothing. `Replaced`, `Deleted` and `Edited` are what another program may
do to a workspace file between any two calls.

Four abstractions: the staged files and backups are removed in one action, any subset
of the removals failing (nothing else looks at them by then); a link and the rename are
atomic, as POSIX has them; other programs edit by path and leave the randomly named
artifacts alone; the directories created for a target are left out.

## 3. What TLC checks

| Run | States | What it shows |
|---|---|---|
| `tool_calls` | 0.63 M | registry invariants, waiters, action properties, the refinement of `CallOwnership`, and that every call ends |
| `relay_recovery` | 0.21 M | end-to-end safety and recovery for one call, three sockets, a daemon crash, all timers |
| `relay_recovery_pair` | 1.0 M | two calls that compete for one place on the daemon |
| `http_relay` | 0.37 M | end-to-end safety and recovery over the HTTPS fallback: one call, two faults; no deadlock |
| `file_mutations` | 29 k | exclusion, order and progress of four overlapping mutations |
| `patch_transaction` | 0.29 M | all-or-nothing, and nothing lost, under two faults and two interventions |
| `managed_jobs` | 0.37 M | one durable job, one manager that restarts, four runners, two crashes, one failing write |
| `authority_revocations` | 0.18 M | two families, two account versions, two calls, one fault |
| `refresh_families` | 1.42 M | two families, one of them shared, stores that all fill up |
| `mcp_tasks` | 2.26 M | two tasks polled by two overlapping handlers, room for less than two results |
| `http_relay_ownership` | | **violated**: see below |
| `managed_jobs_two_managers` | | **violated**: see below |

**Properties of `PendingCalls`**, checked on `ToolCalls`. `RegistryConsistent` says that
the three things the registry keeps of a call agree: a pending call waits on exactly the
timer of its phase (`TimersArmed`), the key index and the records agree in both
directions (`RequestIndexConsistent`), and no call is held by a channel whose cleanup has
run (`OwnerIsOpen`). `SettlementBounded`: reconnect grace never accumulates.
`RevocationSticks`: after a revocation is flushed no call under it is pending.
`RedeliverOnceWithinBudget` and `NoEarlyExpiry` constrain steps: at most one redelivery,
on the owning channel, within the budget; no expiry before the timeout the call was
given. `ImplementsOwnership` is the refinement, with `OwnershipOf` as mapping.

**Properties of `ToolCalls`.** `NoWakeupLost`: nobody waits beside a ready channel unless
a promotion that will wake him is on its way. `EventuallyEnds`: whatever channels and
daemons do, and whether they answer or not, no call stays underway for ever.

**Properties of `RelayRecovery`.** `CallsSurvive` has three parts. `AtMostOnceExecution`
is what `docs/ARCHITECTURE.md` calls "no possibly executed tool call is automatically
replayed". `NotReceivedMeansNotExecuted`: a caller told that its call did not reach the
daemon may repeat it. `NoLostResult`: what the Worker waits for and the daemon has begun,
the daemon still runs or keeps. `NoProtocolViolation`: no interleaving makes an end send
what the other must stop for. `RetentionWithinCapacity`: retained results and running
calls fit the capacity together. `EventuallyAnswered`, `EventuallyReleased`: lost
messages are recovered, and the daemon forgets what is settled.

**Properties of `HttpRelay`.** `RelayKept` says that no end meets a protocol violation,
and that the streams agree. `StreamsAgree` is what the sequence numbers are for: however
polls are lost, repeated or overtaken, a batch under way between the two ends of a live
session never shows its receiver another message under a number than the sender gave it,
and nothing is dropped before it has been handled. `OwnerIsOpen`: no pending call is held
by a closed channel, and there is one open channel at most. The others have the meaning
they have for `RelayRecovery`.

**Properties of `AuthorityRevocations`.** `RevokedWorkStaysQueued`: while work of an ended
authority runs, or a call of it is pending or under way, a record that stops it is in the
queue, so that a revocation is never acknowledged too early. `OnlyRevokedStopped`: work
of an authority that holds is never stopped. `EventuallyStopped`: in the end the work of
an ended authority stops, for good. All three speak of a queue that has room. A full
queue collapses to a record for the account, which by design stops the account's other
families too; and when such a record is acknowledged it no longer covers work that starts
late under one of the collapsed ones.

**Properties of `RefreshFamilies`.** `OneBranch`: a family has one live refresh token at
most, newer than all it consumed. `RevocationComplete`: a revoked family never has a
token again, access tokens included, though its marker or tombstone is dropped for room,
and its work is queued for revocation wherever the stores can still name its owner.
`PromptClientKept`: a client that repeats a lost exchange in time keeps its family.

**Properties of `ManagedJobs`.** `RecoveryNeverReplaysMain`: main steps start at most
once. `OneRunnerWorks`: one runner works, and one claimed step process lives.
`SettledHonestly`: a terminal status agrees with the saved result and with what ran.
`OutcomeKept`: an outcome is final. `EventuallySettled`: every launched job gets one.

**Properties of `McpTasks`.** `AnswersStick`: what a client was told of an ended task
stays so, whichever poll writes last. A result too large to be stored is the exception:
it is announced once read, and lost with the job, so that overlapping polls may say
"completed" and "failed" in turn. `EndsTruthfully`: a status tells how the job ended, and
a result of an allowed size has been stored with it. `StateReadable`: the store never
writes a state that its own validation would refuse. `ChunksExact`: the stored chunks are
exactly those the records name.

**Properties of `FileMutations`.** `MutualExclusion`: two mutations that name one file,
under whatever spelling, never run at once. `RunInOrder`: they run in the order they
reserved. `EventuallyRuns`: no cyclic wait; a mutation runs unless an earlier one on one
of its own files hangs.

**Properties of `PatchTransaction`.** `OriginalsKept`: as long as the call has not
succeeded, and so wherever the process dies before the final cleanup, every original has
a name. `ForeignWorkKept`: what another program wrote is neither overwritten nor removed.
The code inspects an entry and then acts on it by path, which leaves two windows open: an
edit of a published target before its identity is taken is taken for the published
content, and what arrives between the inspection of a target and its removal is removed.
The history variable `raced` records exactly what falls in them, and the property holds
of everything else. `AllOrNothing`: for the entries other programs left alone, a failure
that does not say "recovery was incomplete" has put back every file itself, and a success
has made every change. `ArtifactsReported`: no temporary file or backup stays behind
unreported.

**First divergence.** `OwnershipPreserved` says that losing an HTTPS channel alone fails no
call: `docs/THREAT_MODEL.md:41` promises that "the fallback preserves the same
daemon-instance/pending-call ownership", and `docs/OPERATIONS.md:270` that a reconnect of
the same instance resumes its calls. TLC finds it violated. The first poll of a session
already moves the daemon's calls to the new channel (`daemon-http-controller.ts:97`),
which stays in its probing phase until `https_ready`. If that channel is lost before
(a response that does not parse and the first poll of the next session, or the alarm),
`detachDaemonChannelCalls` (`index.ts:476`) asks for the channel's `readyAttachment`,
finds none because the channel is not ready, and rejects the calls as disconnected
instead of detaching them. `tests/architecture/module-boundaries.mjs:1571` calls that
branch the one for identity-damaged sockets. Everything else holds in that case too: the
daemon's next resume discards what it still runs.

**Second divergence.** `docs/MANAGED_JOBS.md:214` says that "recovery does not replay main
steps". With one manager that holds (`managed_jobs`); with two, the daemon and the `job`
command of the CLI on the same job directory, TLC finds it violated. A manager A reads
under `recovery.lock` that no runner is current (`managed-jobs.mjs:484`) and is held up.
Manager B replays the request (`createJob`, under `transition.lock`, which A does not
look at), and its runner confirms its claim. A goes on, clears that claim
(`managed-job-relaunch.mjs:45`), writes `interrupted` and launches a recovery runner,
which exits when it finds the `queued` of B's runner. Its dead claim now hides that
runner, another one is launched beside it, and both run the main steps.

**Bounds.** In `tool_calls` two calls suffice for what two records do to each other (they
share a request key but not a token family, so that one can be revoked alone); two
channels of one instance let a call wait, move, be handed back and drain; what a channel
of *another* instance may not do is in `relay_recovery`, after the crash, and in the
proofs. Timeouts of 1 and 2 ticks with a grace of 1 make every deadline comparison go
both ways. In `RelayRecovery` a third socket is needed to reconnect after
a redelivery was lost; a second call is needed for capacity only. In `HttpRelay` every fault (a
poll given up, a garbled response, an interruption, a reclaimed channel) costs one of
`MaxFaults`; two suffice to lose a session and then the next half-way through its
handshake, and to have two polls handled at once. With f faults the daemon draws at most
2f + 1 sessions and the Worker opens at most 3f + 1 channels, so that neither bound is
ever reached. Polls given up that are alike count as one. In `FileMutations` four
calls on three files form every shape of overlap: a chain, a branch, a call that spans
two others, and one file under two spellings. In `PatchTransaction` two operations of
every pair of kinds suffice for a rollback that meets a complete and a half-made record;
two faults let the rollback itself fail, two interventions let a file be replaced and
its replacement edited. In `ManagedJobs` two crashes kill a runner and then the manager
or the runner that recovers for it, and four runners are enough for a launch, a replay
and both recoveries; each of the three terminal writes may be the one that fails. In
`AuthorityRevocations` two of a family, a client and a version end, so
that one record covers another; `MaxRevocations` exceeds the records there can be. In
`RefreshFamilies` a family has three generations, the retry budget is two, and live and
consumed tokens of the two families do not fit their stores together. In `McpTasks` a
result is 1 to 3 chunks of which 2 are allowed and 3 fit the total: a result may be too
large alone, and room for a second task may be missing. `Channels` and
`Sockets` are used once each, which bounds reconnections. One flush, one sweep and one
failing promotion run at a time; one `pong` is outstanding at a time. Where a cfg turns
the deadlock check off, a bounded instance ends when its calls, sockets, families or jobs
are used up or settled; `HttpRelay` polls for ever and is checked for deadlock. So are
`FileMutations` and `PatchTransaction`, whose only final states are those in which
everything has returned.

**Fairness.** `ToolCalls` asks for one thing: an event loop that has a timer due, a
continuation ready or the lock free does not stand still (`EventLoop`, weakly fair as a
whole, so that no order among them is assumed). Nothing is asked of channels or daemons.
`RelayRecovery!Fairness` asks that both ends handle what reaches them, notice dead
sockets (both run heartbeats), that the daemon reconnects and that tools end; the
network may drop every socket but the last (`Reliable`). Time need not pass there, so
that recovery does not rest on a timeout settling the call. `HttpRelay!Fairness`
asks that the daemon keeps polling and reads its responses, that the Worker handles the
poll the daemon waits for and finishes what it has begun, and that tools end; polls given
up may be lost, and there are no timeouts. `AuthorityRevocations!Fairness` asks that the
daemon reconnects, both ends handle what they get, alarms go off and killed sessions end.
`ManagedJobs!Fairness` asks that handlers and runners run on, step processes end (they
have a timeout), and that somebody looks at the job again (its client, or a manager's
scan). `FileMutations!MutationsFairness` asks that microtasks run and that callbacks end, those in
`Hanging` excepted. `PatchTransaction`, `RefreshFamilies` and `McpTasks` state no
liveness: a sequence of calls, and answers to whoever asks.

## 4. What is proved

The proof modules prove, for every set of calls, channels, instances and scopes and
every timeout and grace, for every set of mutations, paths and spellings, for
patches of any length under any number of faults and interventions, for any number of
sockets, crashes and families, for any number of polls, channels, sessions and faults,
for refresh stores of any size, for any number of tasks
and handlers, and for any number of runners, recoveries and failing writes of a job:

| Module | Theorem | States |
|---|---|---|
| `PendingCallsProofs` | `TypeCorrect`, `NeverExtendedTwice`, `RevocationComplete` | `Spec => []` of `TypeOK`, `SettlementBounded`, `RevocationSticks` |
| | `AlwaysTimed`, `IndexExact`, `NeverStranded`, `Consistent` | `Spec => []` of `TimersArmed`, `RequestIndexConsistent`, `OwnerIsOpen`, and of `RegistryConsistent` |
| | `Refinement` | `Spec => ImplementsOwnership` |
| | `RedeliveredOnce` | `Spec => RedeliverOnceWithinBudget` |
| | `NeverEarly` | `Spec => NoEarlyExpiry`, if the reconnect grace covers every timeout |
| | `ImplementsRegistry` | `WSpec => Spec`: all of the above holds of `ToolCalls` |
| | `AlwaysWoken` | `WSpec => []NoWakeupLost` |
| `RelayRecoveryProofs` | `TypeCorrect`, `Survives` | `Spec => []` of `TypeOK`, `CallsSurvive` |
| | `WellBehaved`, `WithinCapacity` | `Spec => []` of `NoProtocolViolation`, `RetentionWithinCapacity` |
| | `DeliversOnce` | `Spec => ImplementsDelivery`, where a daemon may refuse a call |
| `HttpRelayProofs` | `TypeCorrect`, `RelayIsKept` | `Spec => []` of `TypeOK`, `RelayKept` |
| | `CallsSurviveFailures`, `OwnersAreOpen` | `Spec => []` of `CallsSurvive`, `OwnerIsOpen` |
| | `DeliversOnce` | `Spec => ImplementsDelivery`, without refusals: the model leaves this capacity out |
| `AuthorityRevocationsProofs` | `TypeCorrect` | `Spec => []TypeOK` |
| | `WorkStaysQueued`, `Targeted` | `Spec /\ []Room => []` of `RevokedWorkStaysQueued`, `OnlyRevokedStopped` |
| `RefreshFamiliesProofs` | `TypeCorrect`, `NeverBranches` | `Spec => []` of `TypeOK`, `OneBranch` |
| | `StaysRevoked`, `PromptKept` | `Spec => []` of `RevocationComplete`, `PromptClientKept` |
| `ManagedJobsProofs` | `TypeCorrect` | `Spec => []TypeOK` |
| | `MainStartsOnce`, `OneRunnerAtATime`, `SettlesHonestly` | `Spec => []` of `RecoveryNeverReplaysMain`, `OneRunnerWorks`, `SettledHonestly`, with one manager |
| | `OutcomesStay` | `Spec => OutcomeKept`, with one manager |
| `McpTasksProofs` | `TypeCorrect`, `NoChunkLostOrLeft`, `NeverMisreported` | `Spec => []` of `TypeOK`, `ChunksExact`, `StatusTruthful` |
| | `Readable`, `ResultsStored` | `Spec => []` of `StateReadable`, `EndsTruthfully` |
| | `NeverTakenBack` | `Spec => AnswersStick` |
| `FileChangesProofs` | `MutationsTypeCorrect`, `Ordered`, `Exclusive`, `NothingLeftBehind` | `MutationsSpec => []` of `MutationsTypeOK`, `RunInOrder`, `MutualExclusion`, `QueuesExact` |
| | `TypeCorrect`, `NoOriginalLost`, `LeftoversReported` | `Spec => []` of `TypeOK`, `OriginalsKept`, `ArtifactsReported` |
| | `OthersKept`, `Atomic` | `Spec => []` of `ForeignWorkKept`, `AllOrNothing` |

The assumptions are the named ones of the constants (`RecordsAssumption`,
`PendingAssumption`, `RelayAssumption`, `GraceOutlivesCalls`, `HttpAssumption`,
`RevocationAssumption`, `RefreshAssumption`, `BoundsAssumption`, `NoneAssumption`,
`McpTasksAssumption`, `FileMutationsAssumption`, `PatchAssumption`), which TLC evaluates
on every run. Calls, channels, families and jobs form finite sets, of any size.
`GraceOutlivesCalls` says that the Worker settles a call before a daemon without a
socket gives up what it runs: `relay-contract.json` has 75 s and 15 s against 120 s, and
the slack covers late timers. `QueuesExact` and the type invariants are left to the
proofs where those cover every instance.

`Room` is a hypothesis about behaviours: the stored queue never reaches
`MAX_AUTHORITY_REVOCATIONS` (1024 in the code). It is needed. In an instance whose limit
is one, TLC finds a behaviour in which the queue has collapsed to one record for the
account, a family is authorized after that and then revoked; its record merges into the
one that is there, and the acknowledgement of that one, sent before, removes both.
`TypeCorrect` of that module, the bound of the queue included, needs no such hypothesis.

`OneManager` (any two managers are the same) is a hypothesis of the theorems on what a job
does, and a manager that crashes is started anew under the same name. It is needed: with
two managers the run `managed_jobs_two_managers` finds main steps that run twice. The
type invariant holds for any number of them.

*The argument.* Most of the registry's invariant is local to a record: `RecordOK` ties status,
owner, the two timers, the deadlines' ceiling, and the owner's instance. Each record
operator keeps it and takes a step of `CallOwnership` (lemmas `RegisteredOK` ...
`AnsweredOK`); each registry operation does so for all records at once
(`DetachRecords` ... `AnswerRecords`); each action applies those. Three parts relate
records to other state. `RequestIndexConsistent` is inductive by itself.
`OwnerIsOpen` needs that calls handed back go to a channel that still has a ready
attachment. `RevocationSticks` is not inductive: a flush in progress must have captured
every matching pending call (`FlushCovers`), which holds because dispatch reads the
committed revocations again under the lock, so no matching call is added while the
flush runs. The refinement then follows from the same invariant, each step being a
`CallStep` of every call.

For the action properties `EveryRecordSteps` classifies what any step can do to any
record in seven ways. Redelivery is read off it. `NoEarlyExpiry` needs `OnTime`: every
deadline of a pending call lies at or after its original timeout, and a call in a
captured sweep list has already reached it, whatever happened to its record since.

Every step of `ToolCalls` is a step of `PendingCalls` or leaves the registry alone, which
is `ImplementsRegistry`. `NoWakeupLost` is inductive on top of the registry's types: only
`Promote` makes a channel ready, and it announces it in the same step; only `Arrive` adds
a waiter, and it does so beside a ready channel only if another one waits there already,
for whom the announcement is due; and `Notify` either empties the waiters or finds no
ready channel.

`CallsSurvive` relates three places at once, the Worker's record, the messages under way
and what the daemon holds, and is far from inductive. `RelayRecoveryProofs` reads all
three off the queues. `NetworkOK` and `HandshakeOK` say that only the daemon's newest
socket can be alive, and which messages its handshake has still to deliver; `AcksOK` that
a resume acknowledgement comes once and names only ids the Worker expects; `NamesOK` which
messages may name a call in each of its states. `RunsOK` is the heart: a call reported
missing (`Claimed`) has not run and no message that starts it is under way, and a call
that is awaited and has begun is held by the daemon or its result is in the queue. That
the daemon gives nothing up too early is a matter of time (`TimingOK`): its grace timer
was armed after the call was registered, each socket lost or gained puts a deadline off by
one tick and its lateness at most, and there are finitely many sockets.

Over HTTPS the queues of `RelayRecovery` are replaced by numbered messages of which any
number of copies may be under way, old and new, and the handlers of two polls may run side
by side. `HttpRelayProofs` therefore says what a number means, and not what a queue holds:
`Has` and `Holds` read a message off a batch by its number. `WorkerStreams` and
`DaemonStreams` give the meaning of each number, in every copy: 1 is the resume or the
readiness of the fallback, 2 its acknowledgement or the list of missing calls, and from 3
on a message names a call whose record or run is far enough for it. `ReplyShape`, `PostShape`
and `Ends` say that a copy agrees with its sender, and that no end has dropped what the
other has still to handle; that is `StreamsAgree`. It rests on `OneAtATime` and `Tokens`: of
the polls under way only one is waited for, and a poll of a session given up can no longer
reach the channel of the next. With the numbers known a bad message cannot arrive, which is
`NoProtocolViolation`; `StageShape` keeps this true of a handler that was overtaken while it
awaited something, whose number may have been committed by another in the meantime. `CallsSurvive`
then follows the one list of missing calls of a session, the same in every copy
(`OneReport`): a call on it has not run, and no copy the daemon has still to read starts it
(`MissingOK`), until the Worker has taken the list; only then may the call be sent again, and
under one number (`SentOnce`). `OwnerIsOpen` is `Owners` with the order in which channels open
(`Ordered`). Each action is shown to keep the parts through one of a few lemmas on the two
ends, by what it does to the streams: a channel's batch is trimmed, extended or discarded
(`Trimmed`, `Extended`), and so is the daemon's.

Both modules implement `CallDelivery`: the state of a call is what its caller was told
(`Told` of the record) and how often it ran. Each step of a call is one the record
allows (`ToldStep`, `StepMoves`), and a run tells nobody anything (`RunStep`,
`StepRuns`). What `CallsSurvive` does not say is that an answer is final for the daemon
as well. Over HTTPS a result only comes from a run, and one run is all there is
(`OutcomesOK`). Over sockets a daemon at its capacity answers a call without running it,
and tells the caller to try again (`relayRecoveryCapacityRejection`); were the same call
sent to it later, the caller would have both. `RefusalsOK` is the invariant that
excludes this. A refusal takes the one `tool_call` off the queue (`RefusedOnce`). The
call cannot be redelivered, because the daemon sends nothing but the probe result before
its session is ready (`SilenceStep`): when it finds calls missing no refusal is on that
socket, and a call it reports is on no queue on which it could be met, and refused,
before the report arrives. Only a call whose effects the caller was told are unknown may
still begin afterwards. `ImplementsDelivery` is proved, and no run lists it.

In `AuthorityRevocations` the invariant follows one record. It covers only what has ended
(`Sound`, which needs `Room`). Before it leaves the Worker, the flush has taken the calls it
covers out of the registry (`Heard`), and the channel is FIFO, so that no call it covers
comes behind it (`SentOK`). When the daemon has applied it completely, the work it covers
is idle (`AppliedOK`), and it stays so until the acknowledgement of that id arrives
(`AnsweredOK`).

In `RefreshFamilies` each rotation takes the spent token out in the transaction that adds
its successor, whatever it drops for room (`RotateEffect`). That a dead family stays dead
needs that records only ever belong to families that were authorized (`Rooted`), so that
no code exchange brings one back; that its work is queued needs that a family nothing
happened to still has its live token (`NamedByTokens`), which names the owner. A prompt
client's family is followed by `Prompt`: its token is live and was not answered yet, or it
was exchanged for the live one, its marker is still open, and the pairs issued for it are
accounted for by the responses lost and the one under way, so that it never exceeds the
retry budget. A family whose records a full store dropped (`evicted`) makes no claim.

In `ManagedJobs` everything hangs on who may act. A runner past `confirmRunnerClaim`
holds the exact claim (`ClaimHeld`), so there is one of them. A manager between reading
the status and launching has found no current runner, and until it publishes a claim
nothing else can move: the job is as it read it, active and without a result, the claim
names nobody who lives, and the runner it spawned cannot confirm a claim it does not have
(`ManagerAlone`); that is where a second manager breaks the argument. What the files say
then agrees with whoever acts (`ClaimantWorks`): a job is active until its claimant writes
the end, and the result is the one it is about to report. Main steps start once since a
job is only launched afresh from a status it leaves for good before they start, and a
claimant that still may start them finds none started (`StartsOnce`). `CleanupTold`
follows the way to a status that says the finally steps were reached, `Untouched` the
statuses that say nothing was started, `ChildrenClaimed` the one child the claim file
names. `OutcomeKept` is read off the same invariant, action by action.

In `McpTasks` only a completed task has a result (`ResultsOfCompleted`), so that a status
never writes over chunks it would have to remove first; and what a handler has read of a
job is final when it is an end (`ReadsHold`), however late it writes it. `RoomInv` counts
the room of a task in chunks, as the cardinality of a set of places, so that the sum over
all tasks is that of the others plus its own (`RetainedSplit`) without induction: a result
of an allowed size is never larger than the reservation it replaces. `AnswersStick` rests
on `ClientInv`: what a client was told agrees with the record or the record has gone
(`ShownOf`); a handler on its way to answer "completed" knows of a result, and no failure
was told meanwhile but of one too large to be stored (`CollectsOf`); and no late
`create` makes a task anew whose end was told (`Recorded`).

`FileMutations` is a ticket lock per path. A tail settles only after the one before it,
so a settled tail speaks for every earlier call on its key (`SettledCovers`); and the
tail a call found was that of the last unfinished call on the key, so it speaks for every
earlier one that was not done (`PredecessorCovers`). A call that may start then finds all
of them done (`StartedAfter`), which is `RunInOrder`, and exclusion follows because two
tickets are never equal.

`OriginalsKept` is not inductive: the invariant `KeptInv` follows each original through
the transaction. Before its operation is reached it is under its own name (or another
program discarded it); from the rename on it is the backup (`MovedKept`), and it stays
there until it has been linked back (`RestoredKept`); only then does `DropBackup` remove
the second name. That `committed` counts exactly the records up to the operation at hand
(`Counts`) is what ties the position of the call to the backups that exist.

The other properties of `PatchTransaction` add three parts. `ArtifactsInv`: a staged file
or a backup exists only for an operation that is still to remove it, or it is in the
report. `WorkInv`: an entry whose identity was confirmed still holds what was confirmed,
unless it was replaced or edited since (`Confirmed`), and an inode of another program has
a name unless it fell into one of the two windows (`WorkKept`). `EffectInv` says how far
each operation is carried out (`AsPlanned`) and what its backup holds (`BackedUp`), entry
by entry and only for the files nobody else touched, in both directions of the
transaction; at its end that is `AllOrNothing`.

Every safety property of the passing runs is thus a theorem. *Only model-checked*:
`ManagedJobs` with several managers but for its types; and liveness under fairness
(`EventuallyEnds`, `EventuallyAnswered`, `EventuallyReleased`, `EventuallyStopped`,
`EventuallySettled`, `EventuallyRuns`), which is out of the prover's reach: it has no
rule for `ENABLED`.

## 5. Not modelled, and why

Payloads, error texts, logs and counters: no property depends on them. Byte limits and
the age limit of retained results (315 s, longer than any call lives). Authentication
of daemons and clients, which decides whether a connection exists at all. Liveness
probes: what they decide, that a socket is dead, may happen in the model at any time.
Over HTTPS: standby beside a ready WebSocket and takeover, revocations, queue and
envelope limits, the daemon's capacity, and the calls' timers, which `ToolCalls` and `RelayRecovery` cover.
The runtime alarm as one storage cell with several writers (`runtime-alarm.ts:119`); what
the alarm does is in the models, at any time it may be due. The reserve for control-plane
tools, whose admission rule is in `ToolCalls` but of which the instance has none.
Hibernation and restart of the Durable Object. Locks between processes and their
reclaiming, resource admission, job monitors, streams and subscriptions: see the plan.
The parts in the last row of the inventory mostly call external programs, and their
own state is small. Large parts of the repository (browser and desktop automation,
service installation, deployment, the CLI) are of that kind, which is why the models
cover a small share of its lines.

## 6. Plan

1. **Done**: registry, capacity, ownership, waiters, relay recovery, the HTTPS fallback,
   revocation, refresh families, managed jobs, tasks, file mutations, patch transactions;
   proofs of every safety property of all of them.
2. Both transports at once: standby, takeover of a zombie WebSocket, calls that move
   between them; revocations over HTTPS.
3. `RuntimeAlarm`: the shared storage alarm. Restart of the Worker, whose registry and
   reconciliation live in memory.
4. `ProcessLocks`: claim, reclaim and release of lock files by processes that crash.
   `ResourceAdmission` on top of it.
5. Job monitors with their leases; an instance with control-plane tools.
6. Proofs: that `HttpRelay` and `RelayRecovery` implement `CallOwnership` as well, and that
   `CallDelivery` holds across both transports once they are modelled together.
