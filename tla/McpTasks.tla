------------------------------ MODULE McpTasks ------------------------------
(* MCP tasks on the Worker: the durable store of task records and results    *)
(* (worker/mcp-task-store.ts) and the handlers that poll a managed job and   *)
(* record what they learn (mcp-task-dispatch.ts, mcp-task-seed.ts).          *)
(*                                                                           *)
(* Every operation of the store is one transaction, and so one action; the   *)
(* handlers await between them and while they call the daemon, so that polls *)
(* of one task overlap each other, the end of the job, its removal by the    *)
(* daemon's retention, the expiry of the task and a revocation.  A handler   *)
(* may fail at each await: a call that gets no answer, a transaction that    *)
(* throws, a Worker that restarts.  A result is measured in chunks.          *)
(* tasks/cancel and tasks/update change no task and are left out: the first  *)
(* forwards cancel_job, of which the job may or may not be cancelled.        *)
EXTENDS Integers, FiniteSets

CONSTANTS
    Jobs,         \* managed jobs, whose ids are the task ids
    Owners,       \* authorities: account version, client, family and role
    OwnerOf,      \* the authority that started each job
    Requests,     \* handlers in flight at once
    MaxTasks,     \* MAX_MCP_TASKS
    MaxResult,    \* MAX_MCP_TASK_RESULT_BYTES
    Total,        \* MAX_MCP_TASK_RESULT_BYTES_TOTAL
    MaxSize,      \* bound: the size of the largest result of a job
    None

ASSUME McpTasksAssumption ==
    /\ OwnerOf \in [Jobs -> Owners] /\ IsFiniteSet(Jobs)
    /\ MaxTasks \in Nat /\ MaxResult \in Nat \ {0} /\ Total \in Nat /\ MaxSize \in Nat
    /\ None \notin Jobs

VARIABLES
    job,      \* the daemon's job: status and size of its result
    task,     \* mcp-tasks-v1: the record of each task
    chunks,   \* mcp-task-result-v1: the result chunks
    lapsed,   \* tasks whose expiresAt has passed
    revoked,  \* authorities OAuth has revoked
    request,  \* the handlers
    shown     \* the last status a client was given of each task

vars == <<job, task, chunks, lapsed, revoked, request, shown>>

JobStatuses  == {"none", "active", "done", "cancelled", "removed"}
TaskStatuses == {"working", "completed", "cancelled", "failed"}
Steps == {"idle", "create", "look", "cached", "read", "update", "collect", "reread", "lost"}

Idle   == [step |-> "idle", job |-> None, read |-> "none"]
NoTask == [status |-> "none", bytes |-> 0, reserved |-> 0]

Init ==
    /\ job = [j \in Jobs |-> [status |-> "none", size |-> 0]]
    /\ task = [j \in Jobs |-> NoTask]
    /\ chunks = {}
    /\ lapsed = {}
    /\ revoked = {}
    /\ request = [r \in Requests |-> Idle]
    /\ shown = [j \in Jobs |-> "none"]

-----------------------------------------------------------------------------
(* The store. *)

ChunksOf(j) == {<<j, i>> : i \in 1..task[j].bytes}

(* Chunks of removed tasks that stay behind. *)
Fault_RecordsOnly(S) == chunks

(* deleteTaskResult of each task of S. *)
ChunksWithout(S) == chunks \ UNION {ChunksOf(j) : j \in S}

Without(S) == [j \in Jobs |-> IF j \in S THEN NoTask ELSE task[j]]

(* prune, with which every transaction but cancelAuthority's begins. *)
Pruned == Without(lapsed)
Live(j) == Pruned[j].status # "none"

(* The room a task takes: for its result, and for the largest it may get. *)
RoomOf(j, t) == {j} \X (1..(t.bytes + t.reserved))

Retained(ts, S) == Cardinality(UNION {RoomOf(j, ts[j]) : j \in S})

(* Room counted for the results that are there, not for those to come. *)
Fault_StoredOnly ==
    /\ Cardinality({j \in Jobs : Live(j)}) < MaxTasks
    /\ Retained([j \in Jobs |-> [Pruned[j] EXCEPT !.reserved = 0]], Jobs) + MaxResult <= Total

(* create's limits: an active task reserves room for the largest result. *)
Room ==
    /\ Cardinality({j \in Jobs : Live(j)}) < MaxTasks
    /\ Retained(Pruned, Jobs) + MaxResult <= Total

Created == [status |-> "working", bytes |-> 0, reserved |-> MaxResult]

(* A poll that overwrites whatever the record says. *)
Fault_Overwrites(old, status) == TRUE

(* updateStatus: an active task may take any status; a completed one without *)
(* a stored result may still become failed.                                  *)
MayBecome(old, status) ==
    \/ old.status = "working"
    \/ old.status = "completed" /\ old.bytes = 0 /\ status = "failed"

(* The result is stored if it fits, alone and with what others hold. *)
Stored(j, status) ==
    IF /\ status = "completed"
       /\ job[j].size <= MaxResult
       /\ Retained(Pruned, Jobs \ {j}) + job[j].size <= Total
    THEN job[j].size ELSE 0

Updated(j, status) ==
    IF ~MayBecome(Pruned[j], status) THEN Pruned[j]
    ELSE [status   |-> status,
          bytes    |-> Stored(j, status),
          reserved |-> IF status = "working" THEN MaxResult ELSE 0]

UpdateStatus(j, status) ==
    LET new == Updated(j, status) IN
    /\ task' = [Pruned EXCEPT ![j] = new]
    /\ chunks' = ChunksWithout(lapsed) \cup {<<j, i>> : i \in 1..new.bytes}
    /\ lapsed' = {}

(* A transaction that only prunes. *)
Prune ==
    /\ task' = Pruned
    /\ chunks' = ChunksWithout(lapsed)
    /\ lapsed' = {}

(* getResult: every chunk of the record must be there, or it throws. *)
HasResult(j) == Live(j) /\ task[j].status = "completed" /\ task[j].bytes > 0
Intact(j) == ChunksOf(j) \subseteq ChunksWithout(lapsed)

-----------------------------------------------------------------------------
(* The handlers. *)

At(r, step) == request[r].step = step
Job(r) == request[r].job
Goto(r, step) == request' = [request EXCEPT ![r].step = step]
Finish(r) == request' = [request EXCEPT ![r] = Idle]

(* The request is answered with a status of its task. *)
Answer(r, status) ==
    /\ Finish(r)
    /\ shown' = [shown EXCEPT ![Job(r)] = status]

(* ... or with an error, which says nothing of the task. *)
AnswerError(r) == Finish(r) /\ UNCHANGED shown

(* start_job is accepted by the daemon, or repeated for a job that is still  *)
(* active; its answer goes on to createWorkerTaskSeed.                       *)
StartJob(r, j) ==
    /\ At(r, "idle")
    /\ OwnerOf[j] \notin revoked
    /\ job[j].status \in {"none", "active"}
    /\ job' = [job EXCEPT ![j].status = "active"]
    /\ request' = [request EXCEPT ![r] = [step |-> "create", job |-> j, read |-> "none"]]
    /\ UNCHANGED <<task, chunks, lapsed, revoked, shown>>

(* create: without room the client gets the plain result of start_job. *)
CreateTask(r) ==
    /\ At(r, "create")
    /\ IF Live(Job(r))
       THEN Prune /\ Answer(r, task[Job(r)].status)
       ELSE IF Room
       THEN /\ task' = [Pruned EXCEPT ![Job(r)] = Created]
            /\ chunks' = ChunksWithout(lapsed)
            /\ lapsed' = {}
            /\ Answer(r, "working")
       ELSE Prune /\ AnswerError(r)
    /\ UNCHANGED <<job, revoked>>

(* tasks/get *)
Ask(r, j) ==
    /\ At(r, "idle")
    /\ job[j].status # "none"
    /\ OwnerOf[j] \notin revoked
    /\ request' = [request EXCEPT ![r] = [step |-> "look", job |-> j, read |-> "none"]]
    /\ UNCHANGED <<job, task, chunks, lapsed, revoked, shown>>

Look(r) ==
    /\ At(r, "look")
    /\ Prune
    /\ IF ~Live(Job(r)) THEN AnswerError(r)
       ELSE IF task[Job(r)].status \in {"cancelled", "failed"}
       THEN Answer(r, task[Job(r)].status)
       ELSE /\ Goto(r, IF task[Job(r)].status = "completed" THEN "cached" ELSE "read")
            /\ UNCHANGED shown
    /\ UNCHANGED <<job, revoked>>

Cached(r) ==
    /\ At(r, "cached")
    /\ Prune
    /\ IF ~HasResult(Job(r)) THEN Goto(r, "read") /\ UNCHANGED shown
       ELSE IF Intact(Job(r)) THEN Answer(r, "completed")
       ELSE AnswerError(r)
    /\ UNCHANGED <<job, revoked>>

(* taskStatusForJob *)
TaskStatusForJob(status) ==
    CASE status = "active" -> "working"
      [] status = "done" -> "completed"
      [] status = "cancelled" -> "cancelled"

(* Any failed read taken for the loss of the job. *)
Fault_AnyErrorIsLoss(r) == TRUE

(* The error of a read is not_found: the daemon has no such job. *)
NotFound(r) == job[Job(r)].status = "removed"

(* read_job, under an authority that is still current. *)
ReadJob(r) ==
    /\ At(r, "read")
    /\ OwnerOf[Job(r)] \notin revoked
    /\ job[Job(r)].status # "removed"
    /\ request' = [request EXCEPT ![r].step = "update",
                                  ![r].read = TaskStatusForJob(job[Job(r)].status)]
    /\ UNCHANGED <<job, task, chunks, lapsed, revoked, shown>>

(* The catch clause of dispatchWorkerTaskOperation. *)
ReadFails(r) ==
    /\ request[r].step \in {"read", "reread"}
    /\ NotFound(r)
    /\ OwnerOf[Job(r)] \notin revoked
    /\ Goto(r, "lost")
    /\ UNCHANGED <<job, task, chunks, lapsed, revoked, shown>>

Update(r) ==
    /\ At(r, "update")
    /\ IF ~Live(Job(r)) THEN Prune /\ AnswerError(r)
       ELSE /\ UpdateStatus(Job(r), request[r].read)
            /\ IF Updated(Job(r), request[r].read).status = "completed"
               THEN Goto(r, "collect") /\ UNCHANGED shown
               ELSE Answer(r, Updated(Job(r), request[r].read).status)
    /\ UNCHANGED <<job, revoked>>

(* The stored result, or the one this poll has read, or none yet: another    *)
(* poll completed the task, and its result was not stored.                   *)
Collect(r) ==
    /\ At(r, "collect")
    /\ Prune
    /\ IF HasResult(Job(r)) /\ ~Intact(Job(r)) THEN AnswerError(r)
       ELSE IF HasResult(Job(r)) \/ request[r].read = "completed"
       THEN Answer(r, "completed")
       ELSE Goto(r, "reread") /\ UNCHANGED shown
    /\ UNCHANGED <<job, revoked>>

Reread(r) ==
    /\ At(r, "reread")
    /\ OwnerOf[Job(r)] \notin revoked
    /\ job[Job(r)].status # "removed"
    /\ IF TaskStatusForJob(job[Job(r)].status) = "completed" THEN Answer(r, "completed")
       ELSE AnswerError(r)
    /\ UNCHANGED <<job, task, chunks, lapsed, revoked>>

(* The job is gone: the task fails, unless it has ended otherwise meanwhile. *)
Lost(r) ==
    /\ At(r, "lost")
    /\ IF ~Live(Job(r)) THEN Prune /\ AnswerError(r)
       ELSE /\ UpdateStatus(Job(r), "failed")
            /\ IF Updated(Job(r), "failed").status = "failed" THEN Answer(r, "failed")
               ELSE AnswerError(r)
    /\ UNCHANGED <<job, revoked>>

(* An await that throws, or a restart of the Worker. *)
Fail(r) ==
    /\ ~At(r, "idle")
    /\ AnswerError(r)
    /\ UNCHANGED <<job, task, chunks, lapsed, revoked>>

-----------------------------------------------------------------------------
(* The daemon, time and revocations. *)

JobEnds(j, status, size) ==
    /\ job[j].status = "active"
    /\ job' = [job EXCEPT ![j] = [status |-> status, size |-> size]]
    /\ UNCHANGED <<task, chunks, lapsed, revoked, request, shown>>

JobRemoved(j) ==
    /\ job[j].status \in {"done", "cancelled"}
    /\ job' = [job EXCEPT ![j].status = "removed"]
    /\ UNCHANGED <<task, chunks, lapsed, revoked, request, shown>>

(* expiresAt passes, 24 hours after the task was created: a start_job that    *)
(* was in flight then has been answered since.                               *)
Lapse(j) ==
    /\ task[j].status # "none" /\ j \notin lapsed
    /\ \A r \in Requests : ~(At(r, "create") /\ Job(r) = j)
    /\ lapsed' = lapsed \cup {j}
    /\ UNCHANGED <<job, task, chunks, revoked, request, shown>>

Revoke(o) ==
    /\ o \notin revoked
    /\ revoked' = revoked \cup {o}
    /\ UNCHANGED <<job, task, chunks, lapsed, request, shown>>

(* cancelAuthority, which prunes nothing and may run more than once. *)
CancelAuthority(o) ==
    LET removed == {j \in Jobs : OwnerOf[j] = o /\ task[j].status # "none"} IN
    /\ o \in revoked
    /\ removed # {}
    /\ task' = Without(removed)
    /\ chunks' = ChunksWithout(removed)
    /\ lapsed' = lapsed \ removed
    /\ UNCHANGED <<job, revoked, request, shown>>

Next ==
    \/ \E r \in Requests, j \in Jobs : StartJob(r, j) \/ Ask(r, j)
    \/ \E r \in Requests : CreateTask(r)
    \/ \E r \in Requests : Look(r)
    \/ \E r \in Requests : Cached(r)
    \/ \E r \in Requests : ReadJob(r)
    \/ \E r \in Requests : ReadFails(r)
    \/ \E r \in Requests : Update(r)
    \/ \E r \in Requests : Collect(r)
    \/ \E r \in Requests : Reread(r)
    \/ \E r \in Requests : Lost(r)
    \/ \E r \in Requests : Fail(r)
    \/ \E j \in Jobs, size \in 1..MaxSize : JobEnds(j, "done", size)
    \/ \E j \in Jobs : JobEnds(j, "cancelled", 0)
    \/ \E j \in Jobs : JobRemoved(j)
    \/ \E j \in Jobs : Lapse(j)
    \/ \E o \in Owners : Revoke(o)
    \/ \E o \in Owners : CancelAuthority(o)

Spec == Init /\ [][Next]_vars
-----------------------------------------------------------------------------
(* Type invariant. *)
TypeOK ==
    /\ job \in [Jobs -> [status : JobStatuses, size : Nat]]
    /\ task \in [Jobs -> [status : TaskStatuses \cup {"none"}, bytes : Nat, reserved : Nat]]
    /\ chunks \in SUBSET (Jobs \X Nat)
    /\ lapsed \in SUBSET Jobs
    /\ revoked \in SUBSET Owners
    /\ request \in [Requests -> [step : Steps, job : Jobs \cup {None},
                                 read : TaskStatuses \cup {"none"}]]
    /\ shown \in [Jobs -> TaskStatuses \cup {"none"}]

(* What a client has been told of an ended task stays true while its         *)
(* authority stands: no overlapping or late poll takes a task back.  Only a  *)
(* result too large to be stored can be lost after it was announced, and an  *)
(* overlapping poll that still holds it then announces it once more          *)
(* (updateStatus, and the catch clause of dispatchWorkerTaskOperation).      *)
AnswersStick ==
    [][\A j \in Jobs :
         shown[j] \in {"completed", "cancelled", "failed"} /\ OwnerOf[j] \notin revoked =>
            \/ shown'[j] = shown[j]
            \/ /\ job[j].size > MaxResult
               /\ {shown[j], shown'[j]} = {"completed", "failed"}]_vars

(* An ended task tells how its job ended, and it is failed only if the job   *)
(* is gone (taskStatusForJob, updateStatus).                                 *)
StatusTruthful ==
    \A j \in Jobs :
        /\ task[j].status = "cancelled" => job[j].status \in {"cancelled", "removed"}
        /\ task[j].status = "failed" => job[j].status = "removed"
        /\ task[j].status = "completed" => job[j].status \in {"done", "removed"}

(* A result of an allowed size has been stored with the task's end: the room *)
(* reserved by create is there when the result comes, however the tasks      *)
(* around it grew.                                                           *)
EndsTruthfully ==
    /\ StatusTruthful
    /\ \A j \in Jobs : task[j].status = "completed" /\ job[j].size <= MaxResult =>
                           task[j].bytes = job[j].size

(* validState accepts every state the store writes: otherwise each later     *)
(* operation on any task would throw.                                        *)
StateReadable ==
    /\ Cardinality({j \in Jobs : task[j].status # "none"}) <= MaxTasks
    /\ Retained(task, Jobs) <= Total
    /\ \A j \in Jobs :
          /\ task[j].bytes <= MaxResult
          /\ task[j].reserved = IF task[j].status = "working" THEN MaxResult ELSE 0

(* The chunks in storage are those of the recorded results: none is missing  *)
(* for getResult, and none is left behind by expiry, revocation or a second  *)
(* result of one task.                                                       *)
ChunksExact == chunks = UNION {ChunksOf(j) : j \in Jobs}
=============================================================================
