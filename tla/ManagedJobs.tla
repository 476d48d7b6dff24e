----------------------------- MODULE ManagedJobs -----------------------------
(***************************************************************************)
(* One durable managed job: the files of its directory, the manager        *)
(* processes (daemon and CLI) that accept, replay, cancel and recover it,  *)
(* and the detached runner processes that execute it (src/local/           *)
(* managed-jobs.mjs, job-runner.mjs and the managed-job-*.mjs files).       *)
(*                                                                          *)
(* A manager's handler is synchronous JavaScript, but another process may   *)
(* act between any two of its file operations and it may die there: each    *)
(* action below is one file operation that others can observe.              *)
(***************************************************************************)
EXTENDS Naturals, FiniteSets

CONSTANTS Managers,       \* manager processes sharing the job directory
          MaxRunners,     \* bound: runner processes ever spawned
          MaxRecoveries,  \* MAX_MANAGED_JOB_RECOVERY_ATTEMPTS
          MaxCrashes,     \* bound: crashes of runners and managers
          MaxWriteFaults, \* bound: terminal writes that fail
          None, Dead      \* no file; a lock whose owner is a dead process

ASSUME BoundsAssumption ==
    /\ MaxRunners \in Nat \ {0} /\ MaxRecoveries \in Nat \ {0}
    /\ MaxCrashes \in Nat /\ MaxWriteFaults \in Nat

Runners == 1 .. MaxRunners
Active == {"queued", "running", "cleaning", "interrupted"}
Terminal == {"succeeded", "failed", "cancelled", "succeeded_cleanup_failed",
             "failed_cleanup_failed", "cancelled_cleanup_failed",
             "recovered", "recovery_failed",
             "runner_failed", "runner_launch_failed", "recovery_exhausted",
             "cancelled_before_start", "expired_before_start"}
Claims == [run : Runners, phase : {"provisional", "committed", "exact"}]

ASSUME NoneAssumption == None \notin Terminal /\ None \notin Runners /\ None \notin Claims

VARIABLES
    job,        \* status.json
    plan,       \* plan.json is there
    result,     \* result.json: None or the outcome it records
    claim,      \* runner.pid: None or [run, phase]
    child,      \* active-child.json: None or the runner whose child it names
    recovery,   \* recovery.lock: None, a manager, a runner or Dead
    transition, \* transition.lock: None, a manager or Dead
    cancel,     \* the cancellation marker is there
    upstream,   \* the jobs this one depends on: "none", "pending", "ok", "failed"
    mgr,        \* the handler each manager is in
    runner,     \* the runner processes
    proc,       \* the step process each runner spawned: "none", "main", "finally", "exited"
    owned,      \* runners whose last step process was claimed (history)
    starts,     \* main steps started so far (history)
    cleaned,    \* a finally step was started after the last main step (history)
    crashes, faults

files == <<job, plan, result, claim, child, recovery, transition, cancel>>
history == <<owned, starts, cleaned>>
vars == <<files, upstream, mgr, runner, proc, history, crashes, faults>>

NoJob == [st |-> "none", waiting |-> FALSE, att |-> 0, pid |-> 0, stale |-> FALSE,
          saved |-> TRUE, pending |-> FALSE]
Idle == [pc |-> "idle", seen |-> NoJob, mode |-> "none", run |-> 0]
Unborn == [pc |-> "unborn", rec |-> FALSE, att |-> 0, pid |-> 0, phase |-> "main",
           err |-> "none", dirty |-> FALSE]
Live(r) == runner[r].pc \notin {"unborn", "dead"}

-----------------------------------------------------------------------------
(* Locks and claims.  A pid lock of a dead process may be reclaimed.       *)
Fault_FreeUnheldOnly(lock) == lock = None
Free(lock) == lock \in {None, Dead} \/ (lock \in Runners /\ ~Live(lock))

Fault_StatusOwnerOnly(status) == status.pid # 0 /\ Live(status.pid)
\* runnerProcessIsCurrent: the claim file names a live process, or there is none
\* and the status does
RunnerCurrent(status) ==
    LET pid == IF claim # None THEN claim.run ELSE status.pid
    IN pid # 0 /\ Live(pid)

Fault_ChildIgnored == TRUE
\* managedJobActiveChildRecoveryState: "ready" when no claimed child is alive
ChildReady == ~\E r \in Runners : child = r /\ proc[r] \in {"main", "finally"}

Write(st, waiting, att, pid) ==
    [NoJob EXCEPT !.st = st, !.waiting = waiting, !.att = att, !.pid = pid]

\* the files a terminal transition removes
Scrub == plan' = FALSE /\ claim' = None /\ cancel' = FALSE

\* scrubTerminalJobArtifacts: a claim of an ended child goes too, one of a child
\* that is still alive leaves the cleanup pending
ScrubTerminalArtifacts(status) ==
    /\ Scrub
    /\ child' = IF ChildReady THEN None ELSE child
    /\ job' = [status EXCEPT !.pending = ~ChildReady]

(* persistManagedJobTerminal: the result first, then the status, then the  *)
(* artifacts.  Each write may fail, or the writer may die before it; a      *)
(* status that is not written leaves the artifacts in place.               *)
PersistTerminal(old, outcome) ==
    \E lost \in SUBSET {"result", "status", "artifacts"} :
        /\ faults + Cardinality(lost) <= MaxWriteFaults
        /\ faults' = faults + Cardinality(lost)
        /\ result' = IF "result" \in lost THEN result ELSE outcome
        /\ job' = IF "status" \in lost THEN job
                  ELSE [Write(outcome, FALSE, old.att, old.pid) EXCEPT
                   !.saved = "result" \notin lost, !.pending = "artifacts" \in lost]
        /\ IF lost \cap {"status", "artifacts"} = {}
           THEN Scrub
           ELSE UNCHANGED <<plan, claim, cancel>>

-----------------------------------------------------------------------------
Init ==
    /\ job = NoJob /\ plan = FALSE /\ result = None /\ claim = None /\ child = None
    /\ recovery = None /\ transition = None /\ cancel = FALSE
    /\ upstream \in {"none", "pending"}
    /\ mgr = [m \in Managers |-> Idle]
    /\ runner = [r \in Runners |-> Unborn]
    /\ proc = [r \in Runners |-> "none"]
    /\ owned = {} /\ starts = 0 /\ cleaned = FALSE /\ crashes = 0 /\ faults = 0

-----------------------------------------------------------------------------
(* Managers.                                                               *)
Unlock(m) == /\ recovery' = IF recovery = m THEN None ELSE recovery
             /\ transition' = IF transition = m THEN None ELSE transition

Return(m) == mgr' = [mgr EXCEPT ![m] = Idle] /\ Unlock(m)
Goto(m, pc, mode, seen) ==
    mgr' = [mgr EXCEPT ![m] = [Idle EXCEPT !.pc = pc, !.mode = mode, !.seen = seen]]

\* a terminal record with artifacts left behind; a runner that is still at its
\* own cleanup is let finish
Leftovers ==
    /\ job.st \in Terminal
    /\ plan \/ claim # None \/ cancel \/ (child # None /\ ChildReady) \/ (job.pending /\ ChildReady)
    /\ job.pending => ~RunnerCurrent(job)
    /\ job.saved => result = job.st

\* reconcileStatus reaches the recovery lock: active, no runner, no result,
\* not updated for ten seconds
Recoverable == /\ job.st \in Active /\ ~RunnerCurrent(job)
               /\ result = None /\ job.stale

\* reconcileStatus, called first by the handlers that read the record, returns at
\* once: they are taken after whatever it had to do (Maintain)
Reconciled ==
    /\ ~(Recoverable /\ Free(recovery))
    /\ job.st \in Active => RunnerCurrent(job) \/ result = None
    /\ ~Leftovers

\* createJob, no record under this key yet: plan and status are written, a
\* launched job goes on to spawn its runner, a staged one stays unexecuted
Accept(m) ==
    /\ mgr[m].pc = "idle" /\ job.st = "none" /\ Free(transition)
    /\ plan' = TRUE
    /\ \/ /\ job' = Write("queued", FALSE, 0, 0)
          /\ transition' = m
          /\ Goto(m, "spawn", "start", Write("queued", FALSE, 0, 0))
       \/ /\ job' = Write("staged", FALSE, 0, 0)
          /\ UNCHANGED <<mgr, transition>>
    /\ UNCHANGED <<result, claim, child, recovery, cancel, upstream, runner, proc,
                   history, crashes, faults>>

\* createJob, the key is already bound: reconcileStatus had nothing to do, the
\* record is read again, and its runner launched once more if it is gone (the
\* two reads are taken as one: no job runs to its end between them)
Replay(m) ==
    /\ mgr[m].pc = "idle" /\ job.st = "queued" /\ plan /\ Free(transition)
    /\ Reconciled /\ ~RunnerCurrent(job)
    /\ transition' = m
    /\ Goto(m, "spawn", "start", job)
    /\ UNCHANGED <<job, plan, result, claim, child, recovery, cancel, upstream, runner,
                   proc, history, crashes, faults>>

\* reconcileStatus of a terminal record whose artifacts were left behind
ScrubTerminal(m) ==
    /\ mgr[m].pc = "idle" /\ Leftovers
    /\ ScrubTerminalArtifacts(job)
    /\ UNCHANGED <<result, recovery, transition, upstream, mgr, runner,
                   proc, history, crashes, faults>>

\* reconcileTerminalResult: a result without its terminal status
AdoptResult(m) ==
    /\ mgr[m].pc = "idle" /\ job.st \in Active /\ ~RunnerCurrent(job) /\ result # None
    /\ ScrubTerminalArtifacts(Write(result, FALSE, job.att, job.pid))
    /\ UNCHANGED <<result, recovery, transition, upstream, mgr, runner, proc,
                   history, crashes, faults>>

\* acquireRecoveryLock, then the record is read again under the lock
Reconcile(m) ==
    /\ mgr[m].pc = "idle" /\ Recoverable /\ Free(recovery)
    /\ recovery' = m
    /\ Goto(m, "recheck", "recover", job)
    /\ UNCHANGED <<job, plan, result, claim, child, transition, cancel, upstream,
                   runner, proc, history, crashes, faults>>

Fault_ReplaysRunning(seen) ==
    IF seen.waiting \/ seen.st = "running" THEN "wait" ELSE "recover"

\* a job that still waits for its dependencies has started nothing and is queued
\* again; any other one is recovered
RelaunchMode(seen) == IF seen.waiting THEN "wait" ELSE "recover"

\* the checks on the record read under the lock, made on the files as they are
\* now; recoveries used up end the job once no claimed child is alive
Recheck(m) ==
    LET seen == mgr[m].seen IN
    /\ mgr[m].pc = "recheck"
    /\ \/ /\ RunnerCurrent(seen) \/ seen.st \notin Active
          /\ Return(m)
          /\ UNCHANGED <<job, plan, result, claim, child, cancel, faults>>
       \/ /\ ~RunnerCurrent(seen) /\ seen.st \in Active /\ result # None
          /\ ScrubTerminalArtifacts(Write(result, FALSE, seen.att, seen.pid))
          /\ Return(m)
          /\ UNCHANGED <<result, faults>>
       \/ /\ ~RunnerCurrent(seen) /\ seen.st \in Active /\ result = None
          /\ seen.att >= MaxRecoveries
          /\ Return(m)
          /\ IF ChildReady
             THEN child' = None /\ PersistTerminal(seen, "recovery_exhausted")
             ELSE UNCHANGED <<job, plan, result, claim, child, cancel, faults>>
       \/ /\ ~RunnerCurrent(seen) /\ seen.st \in Active /\ result = None
          /\ seen.att < MaxRecoveries
          /\ mgr' = [mgr EXCEPT ![m].pc = "clear",
                                ![m].mode = RelaunchMode(seen)]
          /\ UNCHANGED <<job, plan, result, claim, child, recovery, transition, cancel,
                         faults>>
    /\ UNCHANGED <<upstream, runner, proc, history, crashes>>

\* relaunchInterruptedManagedJob / relaunchDependencyWaitManagedJob up to the
\* launch: the plan is verified, the old claim cleared, the attempt recorded
Relaunch(m) ==
    LET seen == mgr[m].seen
        next == IF mgr[m].mode = "wait" THEN Write("queued", TRUE, seen.att + 1, 0)
                                        ELSE Write("interrupted", FALSE, seen.att + 1, seen.pid)
    IN /\ mgr[m].pc = "clear"
       /\ IF plan
          THEN /\ claim' = None /\ job' = next
               /\ mgr' = [mgr EXCEPT ![m].pc = "spawn", ![m].seen = next]
               /\ UNCHANGED <<recovery, transition>>
          ELSE Return(m) /\ UNCHANGED <<claim, job>>
       /\ UNCHANGED <<plan, result, child, cancel, upstream, runner, proc, history,
                      crashes, faults>>

\* launchRunner throws: the launch of an accepted or replayed job ends the job
\* as runner_launch_failed, a relaunch leaves it to the next recovery
LaunchFails(m) ==
    /\ Return(m)
    /\ IF mgr[m].mode = "start"
       THEN PersistTerminal(mgr[m].seen, "runner_launch_failed")
       ELSE UNCHANGED <<job, plan, result, claim, cancel, faults>>

\* launchRunner: the detached process exists before its claim does
Spawn(m) ==
    /\ mgr[m].pc = "spawn"
    /\ \E r \in Runners :
        /\ runner[r].pc = "unborn" /\ \A q \in 1 .. r - 1 : runner[q].pc # "unborn"
        /\ runner' = [runner EXCEPT ![r].pc = "boot", ![r].rec = mgr[m].mode = "recover"]
        /\ mgr' = [mgr EXCEPT ![m].pc = "publish", ![m].run = r]
    /\ UNCHANGED <<files, upstream, proc, history, crashes, faults>>

\* launchRunner: no runtime executable, or the process does not start
SpawnFails(m) ==
    /\ mgr[m].pc = "spawn" /\ crashes < MaxCrashes
    /\ crashes' = crashes + 1
    /\ LaunchFails(m)
    /\ UNCHANGED <<child, upstream, runner, proc, history>>

\* publishProvisionalRunnerClaim creates the claim exclusively; when one is
\* there already the child is killed, unless the kill fails
Publish(m) ==
    LET r == mgr[m].run IN
    /\ mgr[m].pc = "publish"
    /\ IF claim = None
       THEN /\ claim' = [run |-> r, phase |-> "provisional"]
            /\ mgr' = [mgr EXCEPT ![m].pc = "commit"]
            /\ UNCHANGED <<job, plan, result, cancel, recovery, transition, runner, faults>>
       ELSE /\ runner' \in {runner, [runner EXCEPT ![r].pc = "dead"]}
            /\ LaunchFails(m)
    /\ UNCHANGED <<child, upstream, proc, history, crashes>>

\* the claim is committed by an atomic replace
Commit(m) ==
    /\ mgr[m].pc = "commit"
    /\ claim' = [run |-> mgr[m].run, phase |-> "committed"]
    /\ IF mgr[m].mode = "recover"
       THEN /\ mgr' = [mgr EXCEPT ![m].pc = "handoff"]
            /\ UNCHANGED <<recovery, transition>>
       ELSE Return(m)
    /\ UNCHANGED <<job, plan, result, child, cancel, upstream, runner, proc, history,
                   crashes, faults>>

\* recoveryLock.handoff: the lock now names the recovery runner
Handoff(m) ==
    /\ mgr[m].pc = "handoff"
    /\ recovery' = mgr[m].run
    /\ mgr' = [mgr EXCEPT ![m] = Idle]
    /\ UNCHANGED <<job, plan, result, claim, child, transition, cancel, upstream, runner,
                   proc, history, crashes, faults>>

\* cancelManagedJob and revokeAuthority: a staged job ends, an active one gets
\* the cancellation marker its runner polls
Cancel(m) ==
    /\ mgr[m].pc = "idle" /\ Free(transition) /\ Reconciled
    /\ \/ /\ job.st = "staged"
          /\ PersistTerminal(job, "cancelled_before_start")
       \/ /\ job.st \in Active /\ ~cancel
          /\ cancel' = TRUE
          /\ UNCHANGED <<job, plan, result, claim, faults>>
    /\ UNCHANGED <<child, recovery, transition, upstream, mgr, runner, proc, history, crashes>>

\* pruneManagedJobs: a staged draft expires under the transition lock
ExpireStaged(m) ==
    /\ mgr[m].pc = "idle" /\ Free(transition) /\ job.st = "staged" /\ job.stale
    /\ PersistTerminal(job, "expired_before_start")
    /\ UNCHANGED <<child, recovery, transition, upstream, mgr, runner, proc, history, crashes>>

\* a manager process dies and is started again: its locks name a dead process
ManagerCrash(m) ==
    /\ mgr[m].pc # "idle" /\ crashes < MaxCrashes
    /\ crashes' = crashes + 1
    /\ mgr' = [mgr EXCEPT ![m] = Idle]
    /\ recovery' = IF recovery = m THEN Dead ELSE recovery
    /\ transition' = IF transition = m THEN Dead ELSE transition
    /\ UNCHANGED <<job, plan, result, claim, child, cancel, upstream, runner, proc,
                   history, faults>>

-----------------------------------------------------------------------------
(* Runners.                                                                *)
Step(r, pc) == runner' = [runner EXCEPT ![r].pc = pc]
Exit(r) == Step(r, "dead")
Expected(r) == IF runner[r].rec THEN "interrupted" ELSE "queued"

\* updateStatus and the first status write of main: the runner's own record,
\* taken from the status it was launched with, replaces the file
RunnerWrites(r, st, waiting) == job' = Write(st, waiting, runner[r].att, r)

\* assertLaunchState on the status as the runner starts
Boot(r) ==
    /\ runner[r].pc = "boot"
    /\ IF job.st = Expected(r)
       THEN runner' = [runner EXCEPT ![r].pc = "claim", ![r].att = job.att, ![r].pid = job.pid]
       ELSE Exit(r)
    /\ UNCHANGED <<files, upstream, mgr, proc, history, crashes, faults>>

\* confirmRunnerClaim: wait for the committed claim naming this process and
\* make it exact; a recovery runner goes on to reap the old child, another
\* one refuses to start beside a live one
Confirm(r) ==
    /\ runner[r].pc = "claim" /\ claim # None
    /\ \/ /\ claim.run # r /\ Exit(r)
          /\ UNCHANGED <<claim, child>>
       \/ /\ claim = [run |-> r, phase |-> "committed"]
          /\ claim' = [claim EXCEPT !.phase = "exact"]
          /\ \/ /\ runner[r].rec /\ Step(r, "reap") /\ UNCHANGED child
             \/ /\ ~runner[r].rec /\ ChildReady /\ Step(r, "plan") /\ child' = None
             \/ /\ ~runner[r].rec /\ ~ChildReady /\ Exit(r) /\ UNCHANGED child
    /\ UNCHANGED <<job, plan, result, recovery, transition, cancel, upstream, mgr, proc,
                   history, crashes, faults>>

\* the claim, or the handed-off lock, does not come within thirty seconds: the
\* manager that launched this runner is no longer at it
GiveUp(r) ==
    /\ \A m \in Managers : mgr[m].run # r
    /\ \/ /\ runner[r].pc = "claim"
          /\ claim = None \/ claim = [run |-> r, phase |-> "provisional"]
       \/ runner[r].pc = "handoff" /\ recovery # r
    /\ Exit(r)
    /\ UNCHANGED <<files, upstream, mgr, proc, history, crashes, faults>>

\* terminateManagedJobActiveChild: the claimed process tree is stopped and its
\* claim removed before anything else
Reap(r) ==
    /\ runner[r].pc = "reap" /\ Step(r, "handoff")
    /\ child' = None
    /\ proc' = IF ChildReady THEN proc ELSE [proc EXCEPT ![child] = "exited"]
    /\ UNCHANGED <<job, plan, result, claim, recovery, transition, cancel, upstream, mgr,
                   history, crashes, faults>>

\* releaseRecoveryClaim: remove the lock that names this process
TakeOver(r) ==
    /\ runner[r].pc = "handoff" /\ recovery = r
    /\ recovery' = None /\ Step(r, "plan")
    /\ UNCHANGED <<job, plan, result, claim, child, transition, cancel, upstream, mgr,
                   proc, history, crashes, faults>>

\* the plan is read and checked, then main writes its first status; without a
\* plan recordFatalRunnerError ends a job that is still active and not another's
Begin(r) ==
    /\ runner[r].pc = "plan"
    /\ \/ /\ plan /\ runner[r].rec
          /\ RunnerWrites(r, "cleaning", FALSE)
          /\ runner' = [runner EXCEPT ![r].pc = "spawn", ![r].phase = "finally"]
       \/ /\ plan /\ ~runner[r].rec /\ upstream = "none"
          /\ RunnerWrites(r, "running", FALSE) /\ Step(r, "spawn")
       \/ /\ plan /\ ~runner[r].rec /\ upstream # "none"
          /\ RunnerWrites(r, "queued", TRUE) /\ Step(r, "gate")
       \/ /\ ~plan /\ job.st \in Active /\ job.pid \in {0, r, runner[r].pid}
          /\ runner' = [runner EXCEPT ![r].pc = "result", ![r].err = "fatal"]
          /\ UNCHANGED job
       \/ /\ ~plan /\ ~(job.st \in Active /\ job.pid \in {0, r, runner[r].pid})
          /\ Exit(r) /\ UNCHANGED job
    /\ UNCHANGED <<plan, result, claim, child, recovery, transition, cancel, upstream,
                   mgr, proc, history, crashes, faults>>

\* the way to the finally steps, with the error the main steps ended in
ToFinally(r, err) ==
    /\ runner' = [runner EXCEPT ![r].pc = "spawn", ![r].phase = "finally", ![r].err = err]
    /\ RunnerWrites(r, "cleaning", FALSE)

\* waitForManagedJobDependencyGate
Gate(r) ==
    /\ runner[r].pc = "gate"
    /\ \/ cancel /\ ToFinally(r, "cancelled")
       \/ ~cancel /\ upstream = "failed" /\ ToFinally(r, "failed")
       \/ /\ ~cancel /\ upstream = "ok"
          /\ RunnerWrites(r, "running", FALSE) /\ Step(r, "spawn")
    /\ UNCHANGED <<plan, result, claim, child, recovery, transition, cancel, upstream,
                   mgr, proc, history, crashes, faults>>

\* runStep and spawnStep up to the spawn: resources are materialised and admitted,
\* which may fail; the cancellation marker is read once more at the launch
\* decision of a main step
SpawnStep(r) ==
    /\ runner[r].pc = "spawn"
    /\ \/ /\ runner[r].phase = "main" /\ cancel
          /\ ToFinally(r, "cancelled")
          /\ UNCHANGED <<proc, history>>
       \/ /\ runner[r].phase = "main" /\ ~cancel
          /\ ToFinally(r, "failed")
          /\ UNCHANGED <<proc, history>>
       \/ /\ runner[r].phase = "finally"
          /\ runner' = [runner EXCEPT ![r].pc = "result", ![r].dirty = TRUE]
          /\ UNCHANGED <<job, proc, history>>
       \/ /\ runner[r].phase = "main" => ~cancel
          /\ RunnerWrites(r, IF runner[r].phase = "main" THEN "running" ELSE "cleaning", FALSE)
          /\ proc' = [proc EXCEPT ![r] = runner[r].phase]
          /\ starts' = IF runner[r].phase = "main" THEN starts + 1 ELSE starts
          /\ cleaned' = (runner[r].phase = "finally")
          /\ owned' = owned \ {r}
          /\ Step(r, "own")
    /\ UNCHANGED <<plan, result, claim, child, recovery, transition, cancel, upstream,
                   mgr, crashes, faults>>

\* publishManagedJobActiveChild: a claim whose process is alive refuses the new
\* one, which is then terminated
OwnChild(r) ==
    /\ runner[r].pc = "own"
    /\ \/ /\ ChildReady
          /\ child' = r /\ owned' = owned \cup {r}
          /\ Step(r, "wait") /\ UNCHANGED proc
       \/ /\ ~ChildReady
          /\ runner' = [runner EXCEPT ![r].pc = "wait",
                ![r].err = IF runner[r].phase = "main" THEN "failed" ELSE @,
                ![r].dirty = runner[r].phase = "finally"]
          /\ proc' = [proc EXCEPT ![r] = "exited"] /\ UNCHANGED <<child, owned>>
    /\ UNCHANGED <<job, plan, result, claim, recovery, transition, cancel, upstream, mgr,
                   starts, cleaned, crashes, faults>>

\* the step's process ends: on its own, at its timeout, or terminated by the
\* runner's cancellation poll; it may outlive its runner
StepEnds(r) ==
    /\ proc[r] \in {"main", "finally"} /\ runner[r].pc # "own"
    /\ proc' = [proc EXCEPT ![r] = "exited"]
    /\ UNCHANGED <<files, upstream, mgr, runner, history, crashes, faults>>

\* settlement: the child claim is removed; the main phase goes on to the
\* finally steps, the finally phase to the result
Settle(r) ==
    /\ runner[r].pc = "wait" /\ proc[r] = "exited"
    /\ child' = IF child = r THEN None ELSE child
    /\ \/ /\ runner[r].phase = "main"
          /\ \E err \in {"none", "failed", "cancelled"} :
                /\ err = "cancelled" <=> (cancel /\ runner[r].err = "none")
                /\ ToFinally(r, IF runner[r].err # "none" THEN runner[r].err ELSE err)
       \/ /\ runner[r].phase = "finally"
          /\ \E dirty \in {runner[r].dirty, TRUE} :
                runner' = [runner EXCEPT ![r].pc = "result", ![r].dirty = dirty]
          /\ UNCHANGED job
    /\ UNCHANGED <<plan, result, claim, recovery, transition, cancel, upstream, mgr, proc,
                   history, crashes, faults>>

\* managedJobFinalStatus; the marker is read one last time
FinalStatus(r) ==
    LET err == runner[r].err
        dirty == runner[r].dirty
    IN IF runner[r].rec THEN IF err # "none" \/ dirty THEN "recovery_failed" ELSE "recovered"
       ELSE IF err = "fatal" THEN "runner_failed"
       ELSE IF cancel \/ err = "cancelled"
            THEN IF dirty THEN "cancelled_cleanup_failed" ELSE "cancelled"
       ELSE IF err = "failed"
            THEN IF dirty THEN "failed_cleanup_failed" ELSE "failed"
       ELSE IF dirty THEN "succeeded_cleanup_failed" ELSE "succeeded"

\* persistManagedJobTerminal, one write at a time: the result ...
WriteResult(r) ==
    /\ runner[r].pc = "result"
    /\ \/ /\ result' = FinalStatus(r) /\ UNCHANGED faults
          /\ runner' = [runner EXCEPT ![r].pc = "status", ![r].phase = FinalStatus(r),
                                      ![r].err = "none", ![r].dirty = FALSE]
       \/ /\ faults < MaxWriteFaults /\ faults' = faults + 1 /\ UNCHANGED result
          /\ runner' = [runner EXCEPT ![r].pc = "status", ![r].phase = FinalStatus(r),
                                      ![r].err = "unsaved", ![r].dirty = FALSE]
    /\ UNCHANGED <<job, plan, claim, child, recovery, transition, cancel, upstream, mgr,
                   proc, history, crashes>>

Fault_AlwaysSaved(r, pending) ==
    [Write(runner[r].phase, FALSE, runner[r].att, r) EXCEPT !.pending = pending]
SettledStatus(r, pending) ==
    [Write(runner[r].phase, FALSE, runner[r].att, r) EXCEPT
        !.saved = runner[r].err # "unsaved", !.pending = pending]

\* ... the terminal status, whose failure leaves the recovery material ...
WriteStatus(r) ==
    /\ runner[r].pc = "status"
    /\ \/ /\ job' = SettledStatus(r, TRUE)
          /\ Step(r, "scrub") /\ UNCHANGED faults
       \/ /\ faults < MaxWriteFaults /\ faults' = faults + 1
          /\ Exit(r) /\ UNCHANGED job
    /\ UNCHANGED <<plan, result, claim, child, recovery, transition, cancel, upstream,
                   mgr, proc, history, crashes>>

\* ... and the artifacts, after which the status says so and the process exits
ScrubArtifacts(r) ==
    /\ runner[r].pc = "scrub" /\ Scrub /\ Exit(r)
    /\ job' = SettledStatus(r, FALSE)
    /\ UNCHANGED <<result, child, recovery, transition, upstream, mgr, proc, history,
                   crashes, faults>>

\* a runner dies; the detached step process it spawned lives on
RunnerCrash(r) ==
    /\ Live(r) /\ crashes < MaxCrashes
    /\ crashes' = crashes + 1 /\ Exit(r)
    /\ UNCHANGED <<files, upstream, mgr, proc, history, faults>>

-----------------------------------------------------------------------------
(* Environment.                                                            *)
\* ten seconds pass without an update; a handler takes less than that
Age == /\ \A m \in Managers : mgr[m].pc = "idle"
       /\ job.st \in Active \cup {"staged"} /\ ~job.stale
       /\ job' = [job EXCEPT !.stale = TRUE]
       /\ UNCHANGED <<plan, result, claim, child, recovery, transition, cancel, upstream,
                      mgr, runner, proc, history, crashes, faults>>

\* the jobs this one depends on all succeed, or one of them fails
UpstreamSettles ==
    /\ upstream = "pending" /\ upstream' \in {"ok", "failed"}
    /\ UNCHANGED <<files, mgr, runner, proc, history, crashes, faults>>

Handler(m) ==
    \/ Recheck(m) \/ Relaunch(m) \/ Spawn(m) \/ SpawnFails(m) \/ Publish(m) \/ Commit(m)
    \/ Handoff(m)
Maintain(m) == ScrubTerminal(m) \/ AdoptResult(m) \/ Reconcile(m)
Request(m) == Accept(m) \/ Replay(m) \/ Cancel(m) \/ ExpireStaged(m)
Run(r) == \/ Boot(r) \/ Confirm(r) \/ GiveUp(r) \/ Reap(r) \/ TakeOver(r) \/ Begin(r)
          \/ Gate(r) \/ SpawnStep(r) \/ OwnChild(r) \/ Settle(r) \/ WriteResult(r)
          \/ WriteStatus(r) \/ ScrubArtifacts(r)

Next ==
    \/ \E m \in Managers : Handler(m) \/ Maintain(m) \/ Request(m) \/ ManagerCrash(m)
    \/ \E r \in Runners : Run(r) \/ StepEnds(r) \/ RunnerCrash(r)
    \/ Age \/ UpstreamSettles

\* Handlers and runners run on; step processes end (timeout); the job is looked
\* at again and again (its client reads it, or a manager starts and scans)
Fairness ==
    /\ \A m \in Managers : WF_vars(Handler(m)) /\ WF_vars(Maintain(m))
    /\ \A r \in Runners : WF_vars(Run(r)) /\ WF_vars(StepEnds(r))
    /\ WF_vars(Age) /\ WF_vars(UpstreamSettles)

Spec == Init /\ [][Next]_vars /\ Fairness

-----------------------------------------------------------------------------
\* The files of the job, the claim and the lock files hold values the code writes
\* (managed-jobs.mjs, job-runner.mjs, managed-job-runner-claim.mjs).
Status == [st : {"none", "staged"} \cup Active \cup Terminal, waiting : BOOLEAN,
           att : 0 .. MaxRecoveries, pid : {0} \cup Runners, stale : BOOLEAN,
           saved : BOOLEAN, pending : BOOLEAN]
ManagerState ==
    [pc : {"idle", "recheck", "clear", "spawn", "publish", "commit", "handoff"},
     seen : Status, mode : {"none", "start", "wait", "recover"}, run : {0} \cup Runners]
Points == {"unborn", "boot", "claim", "reap", "handoff", "plan", "gate", "spawn", "own",
           "wait", "result", "status", "scrub", "dead"}
Phases == {"main", "finally"} \cup Terminal
Errors == {"none", "failed", "cancelled", "fatal", "unsaved"}
RunnerState ==
    [pc : Points, rec : BOOLEAN, att : 0 .. MaxRecoveries, pid : {0} \cup Runners,
     phase : Phases, err : Errors, dirty : BOOLEAN]
TypeOK ==
    /\ job \in Status
    /\ plan \in BOOLEAN /\ cancel \in BOOLEAN
    /\ result \in {None} \cup Terminal
    /\ claim \in {None} \cup Claims
    /\ child \in {None} \cup Runners
    /\ recovery \in {None, Dead} \cup Managers \cup Runners
    /\ transition \in {None, Dead} \cup Managers
    /\ upstream \in {"none", "pending", "ok", "failed"}
    /\ mgr \in [Managers -> ManagerState] /\ runner \in [Runners -> RunnerState]
    /\ proc \in [Runners -> {"none", "main", "finally", "exited"}]
    /\ owned \subseteq Runners /\ starts \in Nat /\ cleaned \in BOOLEAN
    /\ crashes \in 0 .. MaxCrashes /\ faults \in 0 .. MaxWriteFaults

\* Recovery does not replay main steps: whatever dies, and whoever replays or
\* recovers the job, its main steps are started at most once.
RecoveryNeverReplaysMain == starts <= 1

\* One runner works at a time, and of the step processes that were claimed one
\* lives: recovery cleans up only when what its predecessor ran is gone.
Working == {r \in Runners : runner[r].pc \in
              {"gate", "spawn", "own", "wait", "result", "status", "scrub"}}
OneRunnerWorks ==
    /\ \A r, q \in Working : r = q
    /\ \A r, q \in owned : {proc[r], proc[q]} \subseteq {"main", "finally"} => r = q

\* What a settled job says of itself is true: its result, when it claims one,
\* is the outcome in its status; a job whose main steps ran reached its finally
\* steps unless it says that its runner or its recovery failed; and a job that
\* says nothing was started had nothing started.
SettledHonestly ==
    job.st \in Terminal =>
        /\ job.saved => result = job.st
        /\ starts > 0 /\ job.st \in {"succeeded", "failed", "cancelled", "recovered"} => cleaned
        /\ job.st \in {"cancelled_before_start", "expired_before_start"} => starts = 0

\* A durable outcome is final: once a launched job has a result or a terminal
\* status, no crash, replay, recovery or late cancellation changes it.
OutcomeKept ==
    [][/\ result # None /\ job.st # "staged" => result' = result
       /\ job.st \in Terminal => job'.st = job.st]_vars

\* Every launched job is settled: whatever crashes, after finitely many
\* recoveries its status is terminal.
EventuallySettled == job.st \in Active ~> job.st \in Terminal

=============================================================================
