--------------------------- MODULE McpTasksProofs ---------------------------
(* Theorems of McpTasks for any number of jobs, handlers and owners, and     *)
(* results of any size: what is stored is what the records say, the store    *)
(* has room for what create promised, an ended task tells how its job ended, *)
(* and what a client was told of it stands.                                  *)
EXTENDS McpTasks, FiniteSetTheorems, TLAPS

(* Only a completed task has a result: what updateStatus adds chunks to had  *)
(* none.                                                                     *)
ResultsOfCompleted == \A j \in Jobs : task[j].bytes > 0 => task[j].status = "completed"

(* What a handler has read, and what it goes on to do with it, is final: the *)
(* daemon never takes back the end of a job.                                 *)
ReadsHold ==
    \A r \in Requests :
        LET q == request[r] IN
        /\ q.step # "idle" => q.job \in Jobs /\ job[q.job].status # "none"
        /\ q.step = "update" =>
              /\ q.read \in {"working", "completed", "cancelled"}
              /\ q.read = "completed" => job[q.job].status \in {"done", "removed"}
              /\ q.read = "cancelled" => job[q.job].status \in {"cancelled", "removed"}
        /\ q.step = "lost" => job[q.job].status = "removed"

IInv == TypeOK /\ ResultsOfCompleted /\ ReadsHold /\ ChunksExact /\ StatusTruthful

-----------------------------------------------------------------------------
(* The store. *)

LEMMA PrunedFacts ==
    ASSUME IInv
    PROVE  /\ Pruned \in [Jobs -> [status : TaskStatuses \cup {"none"}, bytes : Nat,
                                   reserved : Nat]]
           /\ \A j \in Jobs : Pruned[j] = IF j \in lapsed THEN NoTask ELSE task[j]
  BY DEF IInv, TypeOK, Pruned, Without, NoTask

(* Chunks are those of the tasks of S: what is left when S goes. *)
LEMMA ChunksLeft ==
    ASSUME IInv, NEW S \in SUBSET Jobs
    PROVE  ChunksWithout(S) = UNION {ChunksOf(j) : j \in Jobs \ S}
  BY DEF IInv, ChunksExact, ChunksWithout, ChunksOf

(* What is true of the store alone, whatever the handlers do. *)
StoreOK ==
    /\ task \in [Jobs -> [status : TaskStatuses \cup {"none"}, bytes : Nat, reserved : Nat]]
    /\ chunks \in SUBSET (Jobs \X Nat) /\ lapsed \in SUBSET Jobs
    /\ ResultsOfCompleted /\ ChunksExact /\ StatusTruthful

(* Removing tasks with their results. *)
LEMMA RemoveOK ==
    ASSUME IInv, NEW S \in SUBSET Jobs,
           task' = Without(S), chunks' = ChunksWithout(S), lapsed' \in SUBSET Jobs,
           UNCHANGED job
    PROVE  StoreOK'
<1> USE DEF IInv
<1>1. /\ task' \in [Jobs -> [status : TaskStatuses \cup {"none"}, bytes : Nat, reserved : Nat]]
      /\ \A j \in Jobs : task'[j] = IF j \in S THEN NoTask ELSE task[j]
  BY DEF TypeOK, Without, NoTask
<1>2. chunks' \in SUBSET (Jobs \X Nat)
  BY DEF TypeOK, ChunksWithout
<1>3. ResultsOfCompleted' /\ StatusTruthful'
  BY <1>1 DEF ResultsOfCompleted, StatusTruthful, NoTask
<1>4. ChunksExact'
  <2>1. \A j \in S : {<<j, i>> : i \in 1..task'[j].bytes} = {}
    BY <1>1 DEF NoTask
  <2>2. \A j \in Jobs \ S : {<<j, i>> : i \in 1..task'[j].bytes} = ChunksOf(j)
    BY <1>1 DEF ChunksOf
  <2>3. UNION {{<<j, i>> : i \in 1..task'[j].bytes} : j \in Jobs}
            = UNION {ChunksOf(j) : j \in Jobs \ S}
    BY <2>1, <2>2
  <2> QED BY <2>3, ChunksLeft DEF ChunksExact, ChunksOf
<1> QED BY <1>1, <1>2, <1>3, <1>4 DEF StoreOK

LEMMA PruneOK == ASSUME IInv, Prune, UNCHANGED job PROVE StoreOK'
  BY RemoveOK DEF Prune, Pruned, IInv, TypeOK

(* Writing the record of j, of which there was no result before or which     *)
(* stays as it is.                                                           *)
LEMMA WriteOK ==
    ASSUME IInv, NEW j \in Jobs,
           NEW new \in [status : TaskStatuses \cup {"none"}, bytes : Nat, reserved : Nat],
           new = Pruned[j] \/ Pruned[j].bytes = 0,
           new.bytes > 0 => new.status = "completed",
           new.status = "cancelled" => job[j].status \in {"cancelled", "removed"},
           new.status = "failed" => job[j].status = "removed",
           new.status = "completed" => job[j].status \in {"done", "removed"},
           task' = [Pruned EXCEPT ![j] = new],
           chunks' = ChunksWithout(lapsed) \cup {<<j, i>> : i \in 1..new.bytes},
           lapsed' = {}, UNCHANGED job
    PROVE  StoreOK'
<1> USE DEF IInv
<1>1. /\ task' \in [Jobs -> [status : TaskStatuses \cup {"none"}, bytes : Nat, reserved : Nat]]
      /\ \A k \in Jobs : task'[k] = IF k = j THEN new ELSE Pruned[k]
  BY PrunedFacts
<1>2. \A k \in Jobs : Pruned[k] = IF k \in lapsed THEN NoTask ELSE task[k]
  BY PrunedFacts
<1>3. chunks' \in SUBSET (Jobs \X Nat)
  BY DEF TypeOK, ChunksWithout
<1>4. ResultsOfCompleted' /\ StatusTruthful'
  BY <1>1, <1>2 DEF ResultsOfCompleted, StatusTruthful, NoTask
<1>5. ChunksExact'
  <2> DEFINE Said(k) == {<<k, i>> : i \in 1..Pruned[k].bytes}
             Now(k) == {<<k, i>> : i \in 1..task'[k].bytes}
  <2>1. ChunksWithout(lapsed) = UNION {ChunksOf(k) : k \in Jobs \ lapsed}
    BY ChunksLeft DEF TypeOK
  <2>2. \A k \in Jobs : Said(k) = IF k \in lapsed THEN {} ELSE ChunksOf(k)
    BY <1>2 DEF NoTask, ChunksOf
  <2>3. ChunksWithout(lapsed) = UNION {Said(k) : k \in Jobs}
    BY <2>1, <2>2
  <2>4. \A k \in Jobs \ {j} : Now(k) = Said(k)
    BY <1>1
  <2>5. Now(j) = {<<j, i>> : i \in 1..new.bytes}
    BY <1>1
  <2>6. Said(j) \subseteq Now(j)
    <3>1. CASE new = Pruned[j]
      BY <2>5, <3>1
    <3>2. CASE Pruned[j].bytes = 0
      BY <3>2
    <3> QED BY <3>1, <3>2
  <2> HIDE DEF Said, Now
  <2>7. chunks' = UNION {Now(k) : k \in Jobs}
    BY <2>3, <2>4, <2>5, <2>6
  <2> QED BY <2>7 DEF ChunksExact, ChunksOf, Now
<1> QED BY <1>1, <1>3, <1>4, <1>5, lapsed' \in SUBSET Jobs DEF StoreOK

(* A status that is true of the job may be recorded. *)
LEMMA UpdateOK ==
    ASSUME IInv, NEW j \in Jobs, NEW status \in TaskStatuses,
           status = "cancelled" => job[j].status \in {"cancelled", "removed"},
           status = "failed" => job[j].status = "removed",
           status = "completed" => job[j].status \in {"done", "removed"},
           Live(j), UpdateStatus(j, status), UNCHANGED job
    PROVE  StoreOK'
<1> USE DEF IInv
<1> DEFINE new == Updated(j, status)
<1>1. /\ Pruned[j] \in [status : TaskStatuses \cup {"none"}, bytes : Nat, reserved : Nat]
      /\ Pruned[j] = IF j \in lapsed THEN NoTask ELSE task[j]
  BY PrunedFacts
<1>2. Stored(j, status) \in Nat /\ (Stored(j, status) > 0 => status = "completed")
  BY DEF Stored, TypeOK
<1>3. CASE ~MayBecome(Pruned[j], status)
  <2>1. new = Pruned[j]
    BY <1>3 DEF Updated
  <2>2. /\ new.bytes > 0 => new.status = "completed"
        /\ new.status = "cancelled" => job[j].status \in {"cancelled", "removed"}
        /\ new.status = "failed" => job[j].status = "removed"
        /\ new.status = "completed" => job[j].status \in {"done", "removed"}
    BY <1>1, <2>1 DEF ResultsOfCompleted, StatusTruthful, NoTask
  <2> QED BY <1>1, <2>1, <2>2, WriteOK DEF UpdateStatus
<1>4. CASE MayBecome(Pruned[j], status)
  <2>1. new = [status |-> status, bytes |-> Stored(j, status),
               reserved |-> IF status = "working" THEN MaxResult ELSE 0]
    BY <1>4 DEF Updated
  <2>2. /\ new \in [status : TaskStatuses \cup {"none"}, bytes : Nat, reserved : Nat]
        /\ new.status = status /\ new.bytes = Stored(j, status)
    BY <1>2, <2>1, McpTasksAssumption
  <2>3. Pruned[j].bytes = 0
    BY <1>1, <1>4 DEF MayBecome, ResultsOfCompleted, NoTask
  <2> HIDE DEF new
  <2> QED BY <1>2, <2>2, <2>3, WriteOK DEF UpdateStatus, new
<1> QED BY <1>3, <1>4

-----------------------------------------------------------------------------
(* The handlers. *)

(* What is true of the handlers, whatever they do to the store. *)
HandlersOK ==
    /\ job \in [Jobs -> [status : JobStatuses, size : Nat]]
    /\ revoked \in SUBSET Owners
    /\ request \in [Requests -> [step : Steps, job : Jobs \cup {None},
                                 read : TaskStatuses \cup {"none"}]]
    /\ shown \in [Jobs -> TaskStatuses \cup {"none"}]
    /\ ReadsHold

LEMMA IInvParts == StoreOK' /\ HandlersOK' => IInv'
  BY DEF IInv, StoreOK, HandlersOK, TypeOK

(* A step that leaves the store alone. *)
LEMMA StoreKept ==
    ASSUME IInv, UNCHANGED <<job, task, chunks, lapsed>> PROVE StoreOK'
  BY DEF IInv, StoreOK, TypeOK, ResultsOfCompleted, ChunksExact, ChunksOf, StatusTruthful

LEMMA FinishOK ==
    ASSUME IInv, NEW r \in Requests, Finish(r), UNCHANGED <<job, revoked>>,
           shown' \in [Jobs -> TaskStatuses \cup {"none"}]
    PROVE  HandlersOK'
<1> USE DEF IInv, HandlersOK, TypeOK
<1>1. request' \in [Requests -> [step : Steps, job : Jobs \cup {None},
                                 read : TaskStatuses \cup {"none"}]]
  BY DEF Finish, Idle, Steps
<1>2. \A q \in Requests : request'[q] = IF q = r THEN Idle ELSE request[q]
  BY DEF Finish
<1>3. ReadsHold'
  BY <1>2 DEF ReadsHold, Idle
<1> QED BY <1>1, <1>3

LEMMA AnswerOK ==
    ASSUME IInv, NEW r \in Requests, NEW status \in TaskStatuses,
           Answer(r, status), UNCHANGED <<job, revoked>>
    PROVE  HandlersOK'
<1>1. shown' \in [Jobs -> TaskStatuses \cup {"none"}]
  BY DEF Answer, Job, IInv, TypeOK
<1> QED BY <1>1, FinishOK DEF Answer

LEMMA ErrorOK ==
    ASSUME IInv, NEW r \in Requests, AnswerError(r), UNCHANGED <<job, revoked>>
    PROVE  HandlersOK'
  BY FinishOK DEF AnswerError, IInv, TypeOK

LEMMA GotoOK ==
    ASSUME IInv, NEW r \in Requests, NEW step \in {"cached", "read", "collect", "reread", "lost"},
           ~At(r, "idle"), Goto(r, step), UNCHANGED <<job, revoked, shown>>,
           step = "lost" => job[Job(r)].status = "removed"
    PROVE  HandlersOK'
<1> USE DEF IInv, HandlersOK, TypeOK
<1>1. \A q \in Requests : request'[q] = IF q = r THEN [request[r] EXCEPT !.step = step]
                                        ELSE request[q]
  BY DEF Goto
<1>2. request' \in [Requests -> [step : Steps, job : Jobs \cup {None},
                                 read : TaskStatuses \cup {"none"}]]
  BY <1>1 DEF Goto, Steps
<1>3. ReadsHold'
  BY <1>1 DEF ReadsHold, At, Job
<1> QED BY <1>2, <1>3

(* A handler in progress has a job, and what the record of a live task says  *)
(* is a status.                                                              *)
LEMMA JobKnown ==
    ASSUME IInv, NEW r \in Requests, ~At(r, "idle")
    PROVE  /\ Job(r) \in Jobs
           /\ Live(Job(r)) => task[Job(r)].status \in TaskStatuses
<1>1. Job(r) \in Jobs
  BY DEF IInv, ReadsHold, At, Job
<1> QED BY <1>1, PrunedFacts DEF Live, IInv, TypeOK, NoTask

(* A job that starts, ends or is removed takes no end back. *)
LEMMA JobOK ==
    ASSUME IInv, NEW j \in Jobs, NEW new \in [status : JobStatuses, size : Nat],
           job' = [job EXCEPT ![j] = new], new.status # "none",
           \/ job[j].status \in {"none", "active"}
           \/ job[j].status \in {"done", "cancelled"} /\ new.status = "removed",
           UNCHANGED <<task, chunks, lapsed, revoked, shown>>,
           \/ UNCHANGED request
           \/ \E r \in Requests :
                request' = [request EXCEPT ![r] = [step |-> "create", job |-> j, read |-> "none"]]
    PROVE  IInv'
<1> USE DEF IInv
<1>1. /\ job' \in [Jobs -> [status : JobStatuses, size : Nat]]
      /\ \A k \in Jobs : job'[k] = IF k = j THEN new ELSE job[k]
  BY DEF TypeOK
<1>2. StatusTruthful'
  BY <1>1 DEF StatusTruthful
<1>3. /\ request' \in [Requests -> [step : Steps, job : Jobs \cup {None},
                                    read : TaskStatuses \cup {"none"}]]
      /\ \A r \in Requests :
           \/ request'[r] = request[r]
           \/ request'[r] = [step |-> "create", job |-> j, read |-> "none"]
  BY DEF TypeOK, Steps
<1>4. ReadsHold'
  <2> SUFFICES ASSUME NEW r \in Requests
               PROVE  LET q == request'[r] IN
                      /\ q.step # "idle" => q.job \in Jobs /\ job'[q.job].status # "none"
                      /\ q.step = "update" =>
                            /\ q.read \in {"working", "completed", "cancelled"}
                            /\ q.read = "completed" => job'[q.job].status \in {"done", "removed"}
                            /\ q.read = "cancelled" =>
                                  job'[q.job].status \in {"cancelled", "removed"}
                      /\ q.step = "lost" => job'[q.job].status = "removed"
    BY DEF ReadsHold
  <2>1. CASE request'[r] = request[r]
    BY <1>1, <2>1 DEF ReadsHold
  <2>2. CASE request'[r] = [step |-> "create", job |-> j, read |-> "none"]
    BY <1>1, <2>2
  <2> QED BY <1>3, <2>1, <2>2
<1>5. ResultsOfCompleted' /\ ChunksExact'
  BY DEF ResultsOfCompleted, ChunksExact, ChunksOf
<1> QED BY <1>1, <1>2, <1>3, <1>4, <1>5 DEF TypeOK

-----------------------------------------------------------------------------
(* The actions. *)

LEMMA CreateOK == ASSUME IInv, NEW r \in Requests, CreateTask(r) PROVE IInv'
<1>0. ~At(r, "idle") /\ UNCHANGED <<job, revoked>>
  BY DEF CreateTask, At
<1>1. Job(r) \in Jobs /\ (Live(Job(r)) => task[Job(r)].status \in TaskStatuses)
  BY <1>0, JobKnown
<1>2. CASE Live(Job(r))
  <2>1. Prune /\ Answer(r, task[Job(r)].status)
    BY <1>2 DEF CreateTask
  <2>2. StoreOK'
    BY <1>0, <2>1, PruneOK
  <2>3. HandlersOK'
    BY <1>0, <1>1, <1>2, <2>1, AnswerOK
  <2> QED BY <2>2, <2>3, IInvParts
<1>3. CASE ~Live(Job(r)) /\ Room
  <2>1. /\ task' = [Pruned EXCEPT ![Job(r)] = Created]
        /\ chunks' = ChunksWithout(lapsed) /\ lapsed' = {}
        /\ Answer(r, "working")
    BY <1>3 DEF CreateTask
  <2>2. StoreOK'
    <3>1. /\ Created \in [status : TaskStatuses \cup {"none"}, bytes : Nat, reserved : Nat]
          /\ Created.status = "working" /\ Created.bytes = 0
      BY McpTasksAssumption DEF Created, TaskStatuses
    <3>2. Pruned[Job(r)].bytes = 0
      BY <1>1, <1>3, PrunedFacts DEF Live, IInv, ResultsOfCompleted, TypeOK, NoTask
    <3>3. chunks' = ChunksWithout(lapsed) \cup {<<Job(r), i>> : i \in 1..Created.bytes}
      BY <2>1, <3>1
    <3> PICK j \in Jobs : j = Job(r)
      BY <1>1
    <3> DEFINE new == Created
    <3> HIDE DEF new
    <3>4. /\ new \in [status : TaskStatuses \cup {"none"}, bytes : Nat, reserved : Nat]
          /\ new.status = "working" /\ new.bytes = 0
          /\ task' = [Pruned EXCEPT ![j] = new] /\ Pruned[j].bytes = 0
          /\ chunks' = ChunksWithout(lapsed) \cup {<<j, i>> : i \in 1..new.bytes}
      BY <2>1, <3>1, <3>2, <3>3 DEF new
    <3>5. /\ new.bytes > 0 => new.status = "completed"
          /\ new.status = "cancelled" => job[j].status \in {"cancelled", "removed"}
          /\ new.status = "failed" => job[j].status = "removed"
          /\ new.status = "completed" => job[j].status \in {"done", "removed"}
      BY <3>4
    <3>6. lapsed' = {} /\ UNCHANGED job
      BY <1>0, <2>1
    <3> QED BY <3>4, <3>5, <3>6, WriteOK
  <2>3. HandlersOK'
    BY <1>0, <2>1, AnswerOK DEF TaskStatuses
  <2> QED BY <2>2, <2>3, IInvParts
<1>4. CASE ~Live(Job(r)) /\ ~Room
  <2>1. Prune /\ AnswerError(r)
    BY <1>4 DEF CreateTask
  <2>2. StoreOK'
    BY <1>0, <2>1, PruneOK
  <2>3. HandlersOK'
    BY <1>0, <2>1, ErrorOK
  <2> QED BY <2>2, <2>3, IInvParts
<1> QED BY <1>2, <1>3, <1>4

(* Handlers whose transaction only prunes, or that have none. *)
LEMMA ReaderOK ==
    ASSUME IInv, NEW r \in Requests,
           \/ Look(r) \/ Cached(r) \/ Collect(r) \/ Reread(r) \/ ReadFails(r) \/ Fail(r)
    PROVE  IInv'
<1>0. ~At(r, "idle") /\ UNCHANGED <<job, revoked>>
  BY DEF Look, Cached, Collect, Reread, ReadFails, Fail, At
<1>1. StoreOK'
  BY PruneOK, StoreKept DEF Look, Cached, Collect, Reread, ReadFails, Fail
<1>2. \/ AnswerError(r)
      \/ \E status \in TaskStatuses : Answer(r, status)
      \/ \E step \in {"cached", "read", "collect", "reread"} : Goto(r, step) /\ UNCHANGED shown
      \/ Goto(r, "lost") /\ UNCHANGED shown /\ job[Job(r)].status = "removed"
  BY DEF Look, Cached, Collect, Reread, ReadFails, Fail, NotFound, TaskStatuses
<1>3. HandlersOK'
  <2>1. CASE AnswerError(r)
    BY <1>0, <2>1, ErrorOK
  <2>2. ASSUME NEW status \in TaskStatuses, Answer(r, status) PROVE HandlersOK'
    BY <1>0, <2>2, AnswerOK
  <2>3. ASSUME NEW step \in {"cached", "read", "collect", "reread"},
               Goto(r, step), UNCHANGED shown
        PROVE  HandlersOK'
    BY <1>0, <2>3, GotoOK
  <2>4. CASE Goto(r, "lost") /\ UNCHANGED shown /\ job[Job(r)].status = "removed"
    BY <1>0, <2>4, GotoOK
  <2> QED BY <1>2, <2>1, <2>2, <2>3, <2>4
<1> QED BY <1>1, <1>3, IInvParts

(* What a read of the job tells is true of it. *)
LEMMA ReadOK == ASSUME IInv, NEW r \in Requests, ReadJob(r) PROVE IInv'
<1> USE DEF IInv
<1> DEFINE st == job[Job(r)].status
           told == TaskStatusForJob(st)
<1>0. ~At(r, "idle")
  BY DEF ReadJob, At
<1>1. Job(r) \in Jobs /\ st \in {"active", "done", "cancelled"}
  BY <1>0, JobKnown DEF ReadJob, TypeOK, JobStatuses, ReadsHold, At, Job
<1>2. /\ told \in {"working", "completed", "cancelled"}
      /\ told = "completed" => st = "done"
      /\ told = "cancelled" => st = "cancelled"
  BY <1>1 DEF TaskStatusForJob
<1> HIDE DEF told
<1> DEFINE q == [step |-> "update", job |-> Job(r), read |-> told]
<1>3. /\ request' = [request EXCEPT ![r] = q]
      /\ q \in [step : Steps, job : Jobs \cup {None}, read : TaskStatuses \cup {"none"}]
  <2>1. request' = [request EXCEPT ![r].step = "update", ![r].read = told]
    BY DEF ReadJob, told
  <2>2. request[r] \in [step : Steps, job : Jobs \cup {None}, read : TaskStatuses \cup {"none"}]
    BY DEF TypeOK
  <2>3. request'[r] = [request[r] EXCEPT !.step = "update", !.read = told]
    BY <2>1 DEF TypeOK
  <2>4. request'[r] = [step |-> "update", job |-> request[r].job, read |-> told]
    BY <2>2, <2>3
  <2>5. request' = [request EXCEPT ![r] = q]
    BY <2>1, <2>3, <2>4 DEF Job, TypeOK
  <2> QED BY <1>1, <1>2, <2>5 DEF Steps, TaskStatuses
<1>4. ReadsHold'
  BY <1>1, <1>2, <1>3 DEF ReadsHold, ReadJob, TypeOK
<1>5. StoreOK'
  BY StoreKept DEF ReadJob
<1>6. HandlersOK'
  <2>1. request' \in [Requests -> [step : Steps, job : Jobs \cup {None},
                                   read : TaskStatuses \cup {"none"}]]
    BY <1>3 DEF TypeOK
  <2> QED BY <1>4, <2>1 DEF ReadJob, HandlersOK, TypeOK
<1> QED BY <1>5, <1>6, IInvParts

(* A poll records what it has read, or the loss of the job. *)
LEMMA RecordOK ==
    ASSUME IInv, NEW r \in Requests, Update(r) \/ Lost(r) PROVE IInv'
<1> DEFINE status == IF At(r, "lost") THEN "failed" ELSE request[r].read
<1>0. ~At(r, "idle") /\ UNCHANGED <<job, revoked>>
  BY DEF Update, Lost, At
<1>1. Job(r) \in Jobs
  BY <1>0, JobKnown
<1>2. /\ status \in TaskStatuses
      /\ status = "cancelled" => job[Job(r)].status \in {"cancelled", "removed"}
      /\ status = "failed" => job[Job(r)].status = "removed"
      /\ status = "completed" => job[Job(r)].status \in {"done", "removed"}
  BY DEF Update, Lost, At, Job, IInv, ReadsHold, TaskStatuses
<1>3. CASE ~Live(Job(r))
  <2>1. Prune /\ AnswerError(r)
    BY <1>3 DEF Update, Lost
  <2>2. StoreOK' /\ HandlersOK'
    BY <1>0, <2>1, PruneOK, ErrorOK
  <2> QED BY <2>2, IInvParts
<1>4. CASE Live(Job(r))
  <2>1. UpdateStatus(Job(r), status)
    BY <1>4 DEF Update, Lost, At
  <2>2. StoreOK'
    BY <1>0, <1>1, <1>2, <1>4, <2>1, UpdateOK
  <2>3. Updated(Job(r), status).status \in TaskStatuses
    BY <1>1, <1>2, <1>4, PrunedFacts DEF Updated, Live
  <2>4. \/ AnswerError(r)
        \/ \E told \in TaskStatuses : Answer(r, told)
        \/ Goto(r, "collect") /\ UNCHANGED shown
    BY <1>4, <2>3 DEF Update, Lost, At, TaskStatuses
  <2>5. HandlersOK'
    <3>1. CASE AnswerError(r)
      BY <1>0, <3>1, ErrorOK
    <3>2. ASSUME NEW told \in TaskStatuses, Answer(r, told) PROVE HandlersOK'
      BY <1>0, <3>2, AnswerOK
    <3>3. CASE Goto(r, "collect") /\ UNCHANGED shown
      BY <1>0, <3>3, GotoOK
    <3> QED BY <2>4, <3>1, <3>2, <3>3
  <2> QED BY <2>2, <2>5, IInvParts
<1> QED BY <1>3, <1>4

LEMMA AskOK == ASSUME IInv, NEW r \in Requests, NEW j \in Jobs, Ask(r, j) PROVE IInv'
<1> USE DEF IInv
<1>1. /\ \A q \in Requests : request'[q] =
             IF q = r THEN [step |-> "look", job |-> j, read |-> "none"] ELSE request[q]
      /\ request' \in [Requests -> [step : Steps, job : Jobs \cup {None},
                                    read : TaskStatuses \cup {"none"}]]
  BY DEF Ask, TypeOK, Steps
<1>2. ReadsHold'
  BY <1>1 DEF ReadsHold, Ask
<1>3. StoreOK'
  BY StoreKept DEF Ask
<1> QED BY <1>1, <1>2, <1>3, IInvParts DEF Ask, HandlersOK, TypeOK

(* The daemon and its jobs. *)
LEMMA DaemonOK ==
    ASSUME IInv,
           \/ \E r \in Requests, j \in Jobs : StartJob(r, j)
           \/ \E j \in Jobs, size \in 1..MaxSize : JobEnds(j, "done", size)
           \/ \E j \in Jobs : JobEnds(j, "cancelled", 0)
           \/ \E j \in Jobs : JobRemoved(j)
    PROVE  IInv'
<1>1. \E j \in Jobs, new \in [status : JobStatuses, size : Nat] :
        /\ job' = [job EXCEPT ![j] = new] /\ new.status # "none"
        /\ \/ job[j].status \in {"none", "active"}
           \/ job[j].status \in {"done", "cancelled"} /\ new.status = "removed"
        /\ UNCHANGED <<task, chunks, lapsed, revoked, shown>>
        /\ \/ UNCHANGED request
           \/ \E r \in Requests :
                request' = [request EXCEPT ![r] = [step |-> "create", job |-> j, read |-> "none"]]
  <2>1. ASSUME NEW r \in Requests, NEW j \in Jobs, StartJob(r, j) PROVE <1>1!:
    <3>1. [job[j] EXCEPT !.status = "active"] \in [status : JobStatuses, size : Nat]
      BY DEF IInv, TypeOK, JobStatuses
    <3> QED BY <2>1, <3>1 DEF StartJob, IInv, TypeOK
  <2>2. ASSUME NEW j \in Jobs, NEW size \in Nat, NEW status \in {"done", "cancelled"},
               JobEnds(j, status, size)
        PROVE  <1>1!:
    BY <2>2 DEF JobEnds, JobStatuses
  <2>3. ASSUME NEW j \in Jobs, JobRemoved(j) PROVE <1>1!:
    <3>1. [job[j] EXCEPT !.status = "removed"] \in [status : JobStatuses, size : Nat]
      BY DEF IInv, TypeOK, JobStatuses
    <3> QED BY <2>3, <3>1 DEF JobRemoved, IInv, TypeOK
  <2> QED BY <2>1, <2>2, <2>3, McpTasksAssumption
<1> QED BY <1>1, JobOK

(* Time and revocations. *)
LEMMA EndOK ==
    ASSUME IInv,
           \/ \E j \in Jobs : Lapse(j)
           \/ \E o \in Owners : Revoke(o) \/ CancelAuthority(o)
    PROVE  IInv'
<1>0. UNCHANGED <<job, request, shown>> /\ revoked' \in SUBSET Owners
  BY DEF Lapse, Revoke, CancelAuthority, IInv, TypeOK
<1>1. HandlersOK'
  BY <1>0 DEF IInv, HandlersOK, TypeOK, ReadsHold
<1>2. ASSUME NEW o \in Owners, Revoke(o) PROVE StoreOK'
  <2>1. UNCHANGED <<job, task, chunks, lapsed>>
    BY <1>2 DEF Revoke
  <2> QED BY <2>1, StoreKept
<1>4. ASSUME NEW j \in Jobs, Lapse(j) PROVE StoreOK'
  <2>1. UNCHANGED <<job, task, chunks>> /\ lapsed' \in SUBSET Jobs
    BY <1>4 DEF Lapse, IInv, TypeOK
  <2>2. ChunksExact'
    BY <2>1 DEF IInv, ChunksExact, ChunksOf
  <2>3. ResultsOfCompleted' /\ StatusTruthful'
    BY <2>1 DEF IInv, ResultsOfCompleted, StatusTruthful
  <2> QED BY <2>1, <2>2, <2>3 DEF IInv, TypeOK, StoreOK
<1>3. ASSUME NEW o \in Owners, CancelAuthority(o) PROVE StoreOK'
  <2> DEFINE S == {j \in Jobs : OwnerOf[j] = o /\ task[j].status # "none"}
  <2>1. /\ S \in SUBSET Jobs /\ task' = Without(S) /\ chunks' = ChunksWithout(S)
        /\ lapsed' \in SUBSET Jobs /\ UNCHANGED job
    BY <1>3 DEF CancelAuthority, IInv, TypeOK
  <2> HIDE DEF S
  <2> QED BY <2>1, RemoveOK
<1> QED BY <1>1, <1>2, <1>3, <1>4, IInvParts

LEMMA InitOK == Init => IInv
  BY McpTasksAssumption
     DEF Init, IInv, TypeOK, ResultsOfCompleted, ReadsHold, ChunksExact, ChunksOf,
         StatusTruthful, Idle, NoTask, Steps, JobStatuses

LEMMA NextOK == IInv /\ [Next]_vars => IInv'
<1> SUFFICES ASSUME IInv, [Next]_vars PROVE IInv'
  OBVIOUS
<1>1. CASE UNCHANGED vars
  BY <1>1 DEF vars, IInv, TypeOK, ResultsOfCompleted, ReadsHold, ChunksExact, ChunksOf,
              StatusTruthful
<1>2. CASE Next
  BY <1>2, CreateOK, ReaderOK, ReadOK, RecordOK, AskOK, DaemonOK, EndOK DEF Next
<1> QED BY <1>1, <1>2

LEMMA Invariance == Spec => []IInv
  BY InitOK, NextOK, PTL DEF Spec

(* Type correctness. *)
THEOREM TypeCorrect == Spec => []TypeOK
<1>1. IInv => TypeOK
  BY DEF IInv
<1> QED BY <1>1, Invariance, PTL

(* The chunks in storage are those the records speak of, however polls, the  *)
(* expiry of tasks and revocations overlap.                                  *)
THEOREM NoChunkLostOrLeft == Spec => []ChunksExact
<1>1. IInv => ChunksExact
  BY DEF IInv
<1> QED BY <1>1, Invariance, PTL

(* No overlapping, late or failed poll records an end the job does not have. *)
THEOREM NeverMisreported == Spec => []StatusTruthful
<1>1. IInv => StatusTruthful
  BY DEF IInv
<1> QED BY <1>1, Invariance, PTL

-----------------------------------------------------------------------------
(* The room the store has counted. *)

Records == [Jobs -> [status : TaskStatuses \cup {"none"}, bytes : Nat, reserved : Nat]]

(* No record takes more room than a result and a reservation. *)
Bounded(ts) == \A j \in Jobs : ts[j].bytes + ts[j].reserved <= MaxResult + MaxResult

RoomOfAll(ts, S) == UNION {RoomOf(j, ts[j]) : j \in S}

(* A task takes the room of its result and of its reservation.               *)
LEMMA RoomSize ==
    ASSUME NEW ts \in Records, NEW j \in Jobs
    PROVE  /\ IsFiniteSet(RoomOf(j, ts[j]))
           /\ Cardinality(RoomOf(j, ts[j])) = ts[j].bytes + ts[j].reserved
  <1>1. PICK n \in Nat : n = ts[j].bytes + ts[j].reserved
    BY DEF Records
  <1>2. IsFiniteSet(1..n) /\ Cardinality(1..n) = n
    BY FS_Interval
  <1>3. IsFiniteSet({j}) /\ Cardinality({j}) = 1
    BY FS_Singleton
  <1>4. IsFiniteSet({j} \X (1..n)) /\ Cardinality({j} \X (1..n)) = 1 * n
    BY <1>2, <1>3, FS_Product
  <1> QED BY <1>1, <1>4 DEF RoomOf

(* The room of the tasks of S is finite, of bounded records.                 *)
LEMMA RetainedNat ==
    ASSUME NEW ts \in Records, Bounded(ts), NEW S \in SUBSET Jobs
    PROVE  IsFiniteSet(RoomOfAll(ts, S)) /\ Retained(ts, S) \in Nat
  <1>1. PICK n \in Nat : n = MaxResult + MaxResult
    BY McpTasksAssumption
  <1>2. IsFiniteSet(Jobs \X (1..n))
    <2>1. IsFiniteSet(1..n) /\ IsFiniteSet(Jobs)
      BY McpTasksAssumption, FS_Interval
    <2> QED BY <2>1, FS_Product
  <1>3. RoomOfAll(ts, S) \in SUBSET (Jobs \X (1..n))
    <2>1. ASSUME NEW j \in S PROVE RoomOf(j, ts[j]) \subseteq Jobs \X (1..n)
      <3>1. ts[j].bytes + ts[j].reserved \in Nat /\ ts[j].bytes + ts[j].reserved <= n
        BY <1>1 DEF Records, Bounded
      <3> QED BY <3>1 DEF RoomOf
    <2> QED BY <2>1 DEF RoomOfAll
  <1>4. IsFiniteSet(RoomOfAll(ts, S)) /\ Cardinality(RoomOfAll(ts, S)) \in Nat
    BY <1>2, <1>3, FS_Subset, FS_CardinalityType
  <1> QED BY <1>4 DEF RoomOfAll, Retained

(* The room of one task and that of the others. *)
LEMMA RetainedSplit ==
    ASSUME NEW ts \in Records, Bounded(ts), NEW j \in Jobs
    PROVE  Retained(ts, Jobs) = Retained(ts, Jobs \ {j}) + ts[j].bytes + ts[j].reserved
  <1> DEFINE A == RoomOfAll(ts, Jobs \ {j})
             B == RoomOf(j, ts[j])
  <1>1. IsFiniteSet(A) /\ Retained(ts, Jobs \ {j}) \in Nat
    BY RetainedNat
  <1>2. IsFiniteSet(B) /\ Cardinality(B) = ts[j].bytes + ts[j].reserved
    BY RoomSize
  <1>3. A \cap B = {}
    BY DEF RoomOfAll, RoomOf
  <1>4. RoomOfAll(ts, Jobs) = A \cup B
    BY DEF RoomOfAll
  <1>5. /\ Cardinality(A) = Retained(ts, Jobs \ {j})
        /\ Cardinality(RoomOfAll(ts, Jobs)) = Retained(ts, Jobs)
    BY DEF RoomOfAll, Retained
  <1>6. ts[j].bytes + ts[j].reserved \in Nat
    BY DEF Records
  <1> HIDE DEF A, B
  <1>7. Cardinality(A \cup B) = Cardinality(A) + Cardinality(B) - Cardinality({})
    BY <1>1, <1>2, <1>3, FS_Union
  <1>8. Retained(ts, Jobs) = Retained(ts, Jobs \ {j}) + (ts[j].bytes + ts[j].reserved)
    BY <1>1, <1>2, <1>4, <1>5, <1>6, <1>7, FS_EmptySet
  <1> QED BY <1>1, <1>8 DEF Records

(* Records that shrink take no more room, and records that stay the same.    *)
LEMMA RetainedShrinks ==
    ASSUME NEW ts \in Records, NEW us \in Records, Bounded(ts), NEW S \in SUBSET Jobs,
           \A j \in S : us[j].bytes + us[j].reserved <= ts[j].bytes + ts[j].reserved
    PROVE  Retained(us, S) <= Retained(ts, S) /\ Retained(us, S) \in Nat
  <1>1. IsFiniteSet(RoomOfAll(ts, S))
    BY RetainedNat
  <1>2. ASSUME NEW j \in S PROVE RoomOf(j, us[j]) \subseteq RoomOf(j, ts[j])
    <2>1. PICK m \in Nat : m = us[j].bytes + us[j].reserved
      BY DEF Records
    <2>2. PICK n \in Nat : n = ts[j].bytes + ts[j].reserved
      BY DEF Records
    <2>3. m <= n
      BY <2>1, <2>2
    <2>4. 1..m \subseteq 1..n
      BY <2>3
    <2> QED BY <2>1, <2>2, <2>4 DEF RoomOf
  <1>3. RoomOfAll(us, S) \in SUBSET RoomOfAll(ts, S)
    BY <1>2 DEF RoomOfAll
  <1>4. /\ Cardinality(RoomOfAll(us, S)) <= Cardinality(RoomOfAll(ts, S))
        /\ Cardinality(RoomOfAll(us, S)) \in Nat
    BY <1>1, <1>3, FS_Subset, FS_CardinalityType
  <1> QED BY <1>4 DEF RoomOfAll, Retained

(* Tasks whose records stay the same take the same room.                     *)
LEMMA RetainedSame ==
    ASSUME NEW ts \in Records, NEW us \in Records, NEW S \in SUBSET Jobs,
           \A j \in S : us[j] = ts[j]
    PROVE  Retained(us, S) = Retained(ts, S)
  BY DEF Retained
-----------------------------------------------------------------------------
(* Results and the room for them. *)

(* Only a job that is done has a result, and never an empty one. *)
SizesOK ==
    \A j \in Jobs :
        /\ job[j].status \in {"none", "active", "cancelled"} => job[j].size = 0
        /\ job[j].status = "done" => job[j].size > 0

(* A task that is completed has a job with a result, one that is cancelled a *)
(* job without; a result of an allowed size is stored.                       *)
TaskSizesOK ==
    \A j \in Jobs :
        /\ task[j].status = "completed" => job[j].size > 0
        /\ task[j].status = "cancelled" => job[j].size = 0
        /\ task[j].status = "completed" /\ job[j].size <= MaxResult => task[j].bytes = job[j].size

(* So it is with what a handler has read. *)
ReadSizesOK ==
    \A r \in Requests : request[r].step = "update" =>
        /\ request[r].read = "completed" => job[request[r].job].size > 0
        /\ request[r].read = "cancelled" => job[request[r].job].size = 0

RoomInv == SizesOK /\ TaskSizesOK /\ ReadSizesOK /\ StateReadable

(* The records, and those left by prune.                                     *)
LEMMA RecordFacts ==
    ASSUME IInv, StateReadable
    PROVE  /\ task \in Records /\ Pruned \in Records /\ Bounded(task) /\ Bounded(Pruned)
           /\ \A j \in Jobs : Pruned[j] = IF j \in lapsed THEN NoTask ELSE task[j]
  <1>1. /\ task \in Records /\ Pruned \in Records
        /\ \A j \in Jobs : Pruned[j] = IF j \in lapsed THEN NoTask ELSE task[j]
    BY PrunedFacts DEF Records, IInv, TypeOK
  <1>2. \A j \in Jobs : task[j].bytes <= MaxResult /\ task[j].reserved <= MaxResult
    BY McpTasksAssumption DEF StateReadable
  <1>3. Bounded(task)
    BY <1>1, <1>2, McpTasksAssumption DEF Bounded, Records
  <1>4. Bounded(Pruned)
    BY <1>1, <1>3, McpTasksAssumption DEF Bounded, NoTask
  <1> QED BY <1>1, <1>3, <1>4

Tasks(ts) == {j \in Jobs : ts[j].status # "none"}

(* Removing tasks. *)
LEMMA RemoveRoom ==
    ASSUME IInv, RoomInv, NEW S \in SUBSET Jobs, task' = Without(S), UNCHANGED job
    PROVE  StateReadable' /\ TaskSizesOK'
  <1>1. /\ task' \in Records
        /\ \A j \in Jobs : task'[j] = IF j \in S THEN NoTask ELSE task[j]
    BY DEF IInv, TypeOK, Without, NoTask, Records
  <1>2. task \in Records /\ Bounded(task)
    BY RecordFacts DEF RoomInv
  <1>3. Cardinality(Tasks(task')) <= MaxTasks
    <2>1. IsFiniteSet(Tasks(task)) /\ Tasks(task') \in SUBSET Tasks(task)
      BY <1>1, McpTasksAssumption, FS_Subset DEF Tasks, NoTask
    <2>2. /\ Cardinality(Tasks(task')) <= Cardinality(Tasks(task))
          /\ Cardinality(Tasks(task')) \in Nat /\ Cardinality(Tasks(task)) \in Nat
      BY <2>1, FS_Subset, FS_CardinalityType
    <2>3. Cardinality(Tasks(task)) <= MaxTasks
      BY DEF RoomInv, StateReadable, Tasks
    <2> QED BY <2>2, <2>3, McpTasksAssumption
  <1>4. Retained(task', Jobs) <= Total
    <2>1. \A j \in Jobs : task'[j].bytes + task'[j].reserved <= task[j].bytes + task[j].reserved
      BY <1>1, <1>2 DEF NoTask, Records
    <2>2. /\ Retained(task', Jobs) <= Retained(task, Jobs)
          /\ Retained(task', Jobs) \in Nat /\ Retained(task, Jobs) \in Nat
      BY <1>1, <1>2, <2>1, RetainedShrinks, RetainedNat
    <2>3. Retained(task, Jobs) <= Total
      BY DEF RoomInv, StateReadable
    <2> QED BY <2>2, <2>3, McpTasksAssumption
  <1>5. StateReadable'
    <2>1. \A j \in Jobs :
            /\ task'[j].bytes <= MaxResult
            /\ task'[j].reserved = IF task'[j].status = "working" THEN MaxResult ELSE 0
      BY <1>1, McpTasksAssumption DEF RoomInv, StateReadable, NoTask
    <2> QED BY <1>3, <1>4, <2>1 DEF StateReadable, Tasks
  <1> QED BY <1>1, <1>5 DEF RoomInv, TaskSizesOK, NoTask

(* Writing the record of j, in the room left by the others. *)
LEMMA WriteRoom ==
    ASSUME IInv, RoomInv, NEW j \in Jobs,
           NEW new \in [status : TaskStatuses \cup {"none"}, bytes : Nat, reserved : Nat],
           task' = [Pruned EXCEPT ![j] = new], UNCHANGED job,
           new.bytes <= MaxResult,
           new.reserved = IF new.status = "working" THEN MaxResult ELSE 0,
           Live(j) \/ Cardinality(Tasks(Pruned)) < MaxTasks,
           Retained(Pruned, Jobs \ {j}) + new.bytes + new.reserved <= Total,
           new.status = "completed" => job[j].size > 0,
           new.status = "cancelled" => job[j].size = 0,
           new.status = "completed" /\ job[j].size <= MaxResult => new.bytes = job[j].size
    PROVE  StateReadable' /\ TaskSizesOK'
  <1>1. /\ Pruned \in Records /\ Bounded(Pruned) /\ Bounded(task)
        /\ \A k \in Jobs : Pruned[k] = IF k \in lapsed THEN NoTask ELSE task[k]
    BY RecordFacts DEF RoomInv
  <1>2. /\ task' \in Records
        /\ \A k \in Jobs : task'[k] = IF k = j THEN new ELSE Pruned[k]
    BY <1>1 DEF Records
  <1>3. \A k \in Jobs :
          /\ task'[k].bytes <= MaxResult
          /\ task'[k].reserved = IF task'[k].status = "working" THEN MaxResult ELSE 0
    BY <1>1, <1>2, McpTasksAssumption DEF RoomInv, StateReadable, NoTask
  <1>4. Bounded(task')
    BY <1>2, <1>3, McpTasksAssumption DEF Bounded, Records
  <1>5. Retained(task', Jobs) <= Total
    <2>1. Retained(task', Jobs \ {j}) = Retained(Pruned, Jobs \ {j})
      <3>1. Jobs \ {j} \in SUBSET Jobs /\ \A k \in Jobs \ {j} : task'[k] = Pruned[k]
        BY <1>2
      <3> QED BY <1>1, <1>2, <3>1, RetainedSame
    <2>2. Retained(task', Jobs) = Retained(task', Jobs \ {j}) + task'[j].bytes + task'[j].reserved
      BY <1>2, <1>4, RetainedSplit
    <2> QED BY <1>2, <2>1, <2>2
  <1>6. Cardinality(Tasks(task')) <= MaxTasks
    <2>1. Tasks(task') \in SUBSET (Tasks(Pruned) \cup {j}) /\ Tasks(Pruned) \in SUBSET Tasks(task)
      BY <1>1, <1>2 DEF Tasks, NoTask
    <2>2. IsFiniteSet(Tasks(task)) /\ IsFiniteSet(Tasks(Pruned))
      BY McpTasksAssumption, FS_Subset DEF Tasks
    <2>3. /\ IsFiniteSet(Tasks(Pruned) \cup {j})
          /\ Cardinality(Tasks(Pruned) \cup {j}) =
                IF j \in Tasks(Pruned) THEN Cardinality(Tasks(Pruned))
                ELSE Cardinality(Tasks(Pruned)) + 1
      BY <2>2, FS_AddElement
    <2>4. /\ Cardinality(Tasks(task')) <= Cardinality(Tasks(Pruned) \cup {j})
          /\ Cardinality(Tasks(Pruned)) <= Cardinality(Tasks(task))
          /\ Cardinality(Tasks(task')) \in Nat /\ Cardinality(Tasks(Pruned)) \in Nat
          /\ Cardinality(Tasks(task)) \in Nat
      BY <2>1, <2>2, <2>3, FS_Subset, FS_CardinalityType
    <2>5. Cardinality(Tasks(task)) <= MaxTasks
      BY DEF RoomInv, StateReadable, Tasks
    <2>6. Live(j) => j \in Tasks(Pruned)
      BY DEF Live, Tasks
    <2> QED BY <2>3, <2>4, <2>5, <2>6, McpTasksAssumption
  <1>7. StateReadable'
    BY <1>3, <1>5, <1>6 DEF StateReadable, Tasks
  <1>8. TaskSizesOK'
    BY <1>1, <1>2, McpTasksAssumption DEF RoomInv, TaskSizesOK, NoTask
  <1> QED BY <1>7, <1>8

(* What prune leaves has room in the store.                                  *)
LEMMA PrunedRoom ==
    ASSUME IInv, RoomInv, NEW j \in Jobs
    PROVE  /\ Retained(Pruned, Jobs) \in Nat /\ Retained(Pruned, Jobs \ {j}) \in Nat
           /\ Retained(Pruned, Jobs) =
                 Retained(Pruned, Jobs \ {j}) + Pruned[j].bytes + Pruned[j].reserved
           /\ Retained(Pruned, Jobs) <= Total
  <1>1. /\ task \in Records /\ Pruned \in Records /\ Bounded(task) /\ Bounded(Pruned)
        /\ \A k \in Jobs : Pruned[k] = IF k \in lapsed THEN NoTask ELSE task[k]
    BY RecordFacts DEF RoomInv
  <1>2. \A k \in Jobs : Pruned[k].bytes + Pruned[k].reserved <= task[k].bytes + task[k].reserved
    BY <1>1 DEF NoTask, Records
  <1>3. /\ Retained(Pruned, Jobs) <= Retained(task, Jobs)
        /\ Retained(task, Jobs) \in Nat /\ Retained(Pruned, Jobs) \in Nat
    BY <1>1, <1>2, RetainedShrinks, RetainedNat
  <1>4. Retained(Pruned, Jobs \ {j}) \in Nat
    BY <1>1, RetainedNat
  <1>5. Retained(task, Jobs) <= Total
    BY DEF RoomInv, StateReadable
  <1> QED BY <1>1, <1>3, <1>4, <1>5, RetainedSplit, McpTasksAssumption

(* updateStatus: the reservation of the task has room for its result.        *)
LEMMA UpdateRoom ==
    ASSUME IInv, RoomInv, NEW j \in Jobs, NEW status \in TaskStatuses, Live(j),
           UpdateStatus(j, status), UNCHANGED job,
           status = "completed" => job[j].size > 0,
           status = "cancelled" => job[j].size = 0
    PROVE  StateReadable' /\ TaskSizesOK'
  <1>1. /\ Pruned \in Records /\ Pruned[j] = task[j] /\ task[j].status # "none"
        /\ task \in Records
    BY RecordFacts DEF RoomInv, Live, NoTask
  <1>2. /\ Retained(Pruned, Jobs \ {j}) \in Nat
        /\ Retained(Pruned, Jobs \ {j}) + task[j].bytes + task[j].reserved <= Total
    BY <1>1, PrunedRoom
  <1>3. /\ task[j].bytes \in Nat /\ task[j].bytes <= MaxResult
        /\ task[j].reserved = IF task[j].status = "working" THEN MaxResult ELSE 0
        /\ task[j].bytes > 0 => task[j].status = "completed"
        /\ task[j].status = "completed" => job[j].size > 0
        /\ task[j].status = "cancelled" => job[j].size = 0
        /\ task[j].status = "completed" /\ job[j].size <= MaxResult => task[j].bytes = job[j].size
    BY <1>1 DEF RoomInv, StateReadable, TaskSizesOK, IInv, ResultsOfCompleted, Records
  <1>4. job[j].size \in Nat /\ MaxResult \in Nat /\ Total \in Nat
    BY McpTasksAssumption DEF IInv, TypeOK
  <1> DEFINE new == Updated(j, status)
  <1>5. CASE ~MayBecome(Pruned[j], status)
    <2>1. new = task[j]
      BY <1>1, <1>5 DEF Updated
    <2>2. task[j] \in [status : TaskStatuses \cup {"none"}, bytes : Nat, reserved : Nat]
      BY <1>1 DEF Records
    <2>3. task' = [Pruned EXCEPT ![j] = task[j]]
      BY <2>1 DEF UpdateStatus
    <2> HIDE DEF new
    <2> QED BY <1>2, <1>3, <2>2, <2>3, WriteRoom
  <1>6. CASE MayBecome(Pruned[j], status)
    <2>1. new = [status |-> status, bytes |-> Stored(j, status),
                 reserved |-> IF status = "working" THEN MaxResult ELSE 0]
      BY <1>6 DEF Updated
    <2>2. task[j].bytes = 0 /\ (status # "failed" => task[j].reserved = MaxResult)
      BY <1>1, <1>3, <1>6 DEF MayBecome
    <2>3. /\ Stored(j, status) \in Nat /\ Stored(j, status) <= MaxResult
          /\ Stored(j, status) # 0 => status = "completed"
          /\ Retained(Pruned, Jobs \ {j}) + Stored(j, status) <= Total
          /\ status = "completed" /\ job[j].size <= MaxResult => Stored(j, status) = job[j].size
      BY <1>2, <1>3, <1>4, <2>2 DEF Stored
    <2>4. PICK rec \in [status : TaskStatuses \cup {"none"}, bytes : Nat, reserved : Nat] :
             /\ rec = new /\ rec.status = status /\ rec.bytes = Stored(j, status)
             /\ rec.reserved = IF status = "working" THEN MaxResult ELSE 0
      BY <1>4, <2>1, <2>3
    <2>5. task' = [Pruned EXCEPT ![j] = rec]
      BY <2>4 DEF UpdateStatus
    <2>6. Retained(Pruned, Jobs \ {j}) + rec.bytes + rec.reserved <= Total
      BY <1>2, <1>3, <1>4, <2>2, <2>3, <2>4
    <2> HIDE DEF new
    <2> QED BY <2>3, <2>4, <2>5, <2>6, WriteRoom
  <1> QED BY <1>5, <1>6
(* The store, with the jobs as they are. *)
LEMMA StoreRoom ==
    ASSUME IInv, RoomInv, Next, UNCHANGED job PROVE StateReadable' /\ TaskSizesOK'
  <1>1. CASE UNCHANGED task
    BY <1>1 DEF RoomInv, StateReadable, TaskSizesOK, Retained, RoomOf
  <1>2. ASSUME NEW S \in SUBSET Jobs, task' = Without(S) PROVE StateReadable' /\ TaskSizesOK'
    BY <1>2, RemoveRoom
  <1>3. ASSUME NEW j \in Jobs, NEW status \in TaskStatuses, Live(j), UpdateStatus(j, status),
               status = "completed" => job[j].size > 0,
               status = "cancelled" => job[j].size = 0
        PROVE  StateReadable' /\ TaskSizesOK'
    BY <1>3, UpdateRoom
  <1>4. ASSUME NEW r \in Requests, CreateTask(r), ~Live(Job(r)), Room
        PROVE  StateReadable' /\ TaskSizesOK'
    <2>1. Job(r) \in Jobs
      BY <1>4, JobKnown DEF CreateTask, At
    <2>2. PICK new \in [status : TaskStatuses \cup {"none"}, bytes : Nat, reserved : Nat] :
             /\ new = Created /\ new.status = "working" /\ new.bytes = 0
             /\ new.reserved = MaxResult
      <3>1. Created \in [status : TaskStatuses \cup {"none"}, bytes : Nat, reserved : Nat]
        BY McpTasksAssumption DEF Created, TaskStatuses
      <3> QED BY <3>1 DEF Created
    <2>3. task' = [Pruned EXCEPT ![Job(r)] = new]
      BY <1>4, <2>2 DEF CreateTask
    <2>4. /\ Cardinality(Tasks(Pruned)) < MaxTasks
          /\ Retained(Pruned, Jobs) + MaxResult <= Total
      BY <1>4 DEF Room, Live, Tasks
    <2>5. PICK j \in Jobs : j = Job(r)
      BY <2>1
    <2>6. /\ Retained(Pruned, Jobs \ {j}) \in Nat
          /\ Retained(Pruned, Jobs \ {j}) <= Retained(Pruned, Jobs)
          /\ Retained(Pruned, Jobs) \in Nat
      BY PrunedRoom, RecordFacts DEF Records, RoomInv
    <2>7. Retained(Pruned, Jobs \ {j}) + new.bytes + new.reserved <= Total
      BY <2>2, <2>4, <2>6, McpTasksAssumption
    <2>8. /\ new.bytes <= MaxResult
          /\ new.reserved = IF new.status = "working" THEN MaxResult ELSE 0
          /\ new.status # "completed" /\ new.status # "cancelled"
          /\ task' = [Pruned EXCEPT ![j] = new]
      BY <2>2, <2>3, <2>5, McpTasksAssumption
    <2> QED BY <2>4, <2>7, <2>8, WriteRoom
  <1>5. lapsed \in SUBSET Jobs
    BY DEF IInv, TypeOK
  <1>6. ASSUME NEW r \in Requests, CreateTask(r) PROVE StateReadable' /\ TaskSizesOK'
    <2>1. CASE task' = Without(lapsed)
      BY <2>1, <1>2, <1>5
    <2>2. CASE ~Live(Job(r)) /\ Room
      BY <2>2, <1>4, <1>6
    <2> QED BY <1>6, <2>1, <2>2 DEF CreateTask, Prune, Pruned
  <1>7. ASSUME NEW r \in Requests, Look(r) \/ Cached(r) \/ Collect(r)
        PROVE  task' = Without(lapsed)
    BY <1>7 DEF Look, Cached, Collect, Prune, Pruned
  <1>8. ASSUME NEW r \in Requests, Update(r) \/ Lost(r) PROVE StateReadable' /\ TaskSizesOK'
    <2>1. Job(r) \in Jobs
      BY <1>8, JobKnown DEF Update, Lost, At
    <2>2. CASE ~Live(Job(r))
      BY <1>8, <2>2, <1>2, <1>5 DEF Update, Lost, Prune, Pruned
    <2>3. CASE Live(Job(r)) /\ Update(r)
      <3>1. /\ request[r].read \in TaskStatuses
            /\ request[r].read = "completed" => job[Job(r)].size > 0
            /\ request[r].read = "cancelled" => job[Job(r)].size = 0
        BY <2>3 DEF Update, RoomInv, ReadSizesOK, IInv, ReadsHold, At, Job, TaskStatuses
      <3>2. UpdateStatus(Job(r), request[r].read)
        BY <2>3 DEF Update
      <3> QED BY <2>1, <2>3, <3>1, <3>2, <1>3
    <2>4. CASE Live(Job(r)) /\ Lost(r)
      <3>1. UpdateStatus(Job(r), "failed")
        BY <2>4 DEF Lost
      <3>2. "failed" \in TaskStatuses
        BY DEF TaskStatuses
      <3> QED BY <2>1, <2>4, <3>1, <3>2, <1>3
    <2> QED BY <1>8, <2>2, <2>3, <2>4
  <1>9. ASSUME NEW o \in Owners, CancelAuthority(o) PROVE StateReadable' /\ TaskSizesOK'
    <2>1. PICK S \in SUBSET Jobs : task' = Without(S)
      BY <1>9 DEF CancelAuthority
    <2> QED BY <2>1, <1>2
  <1>10. CASE \E r \in Requests : Look(r) \/ Cached(r) \/ Collect(r)
    BY <1>10, <1>7, <1>2, <1>5
  <1>11. CASE \/ \E r \in Requests, j \in Jobs : StartJob(r, j) \/ Ask(r, j)
              \/ \E r \in Requests : ReadJob(r) \/ ReadFails(r) \/ Reread(r) \/ Fail(r)
              \/ \E j \in Jobs, size \in 1..MaxSize : JobEnds(j, "done", size)
              \/ \E j \in Jobs : JobEnds(j, "cancelled", 0) \/ JobRemoved(j) \/ Lapse(j)
              \/ \E o \in Owners : Revoke(o)
    BY <1>1, <1>11 DEF StartJob, Ask, ReadJob, ReadFails, Reread, Fail, JobEnds, JobRemoved,
                        Lapse, Revoke
  <1> QED BY <1>6, <1>8, <1>9, <1>10, <1>11 DEF Next

(* A job that starts, ends or is removed. *)
JobStep ==
    \/ \E r \in Requests, j \in Jobs : StartJob(r, j)
    \/ \E j \in Jobs, size \in 1..MaxSize : JobEnds(j, "done", size)
    \/ \E j \in Jobs : JobEnds(j, "cancelled", 0) \/ JobRemoved(j)

(* One job changes, and no task.                                             *)
LEMMA JobStepFacts ==
    ASSUME IInv, RoomInv, JobStep
    PROVE  /\ UNCHANGED <<task, chunks, lapsed, revoked, shown>>
           /\ \E j \in Jobs :
                /\ \A k \in Jobs : k # j => job'[k] = job[k]
                /\ \/ /\ job[j].status \in {"none", "active"} /\ job'[j].status = "active"
                      /\ job'[j].size = job[j].size
                      /\ \E r \in Requests : request' =
                            [request EXCEPT ![r] = [step |-> "create", job |-> j, read |-> "none"]]
                   \/ /\ job[j].status = "active" /\ UNCHANGED request
                      /\ \/ job'[j].status = "done" /\ job'[j].size > 0
                         \/ job'[j].status = "cancelled" /\ job'[j].size = 0
                   \/ /\ job[j].status \in {"done", "cancelled"} /\ job'[j].status = "removed"
                      /\ job'[j].size = job[j].size /\ UNCHANGED request
  <1>0. job \in [Jobs -> [status : JobStatuses, size : Nat]]
    BY DEF IInv, TypeOK
  <1>1. CASE \E r \in Requests, j \in Jobs : StartJob(r, j)
    <2>1. PICK r \in Requests, j \in Jobs : StartJob(r, j)
      BY <1>1
    <2>2. job'[j].status = "active" /\ job'[j].size = job[j].size
      BY <2>1, <1>0 DEF StartJob
    <2> QED BY <2>1, <2>2, <1>0 DEF StartJob
  <1>2. CASE \E j \in Jobs : JobRemoved(j)
    <2>1. PICK j \in Jobs : JobRemoved(j)
      BY <1>2
    <2>2. job'[j].status = "removed" /\ job'[j].size = job[j].size
      BY <2>1, <1>0 DEF JobRemoved
    <2> QED BY <2>1, <2>2, <1>0 DEF JobRemoved
  <1>3. CASE \E j \in Jobs, size \in 1..MaxSize : JobEnds(j, "done", size)
    <2>1. PICK j \in Jobs, size \in 1..MaxSize : JobEnds(j, "done", size)
      BY <1>3
    <2>2. size > 0 /\ job'[j].status = "done" /\ job'[j].size = size
      BY <2>1, <1>0, McpTasksAssumption DEF JobEnds
    <2> QED BY <2>1, <2>2, <1>0 DEF JobEnds
  <1>4. CASE \E j \in Jobs : JobEnds(j, "cancelled", 0)
    <2>1. PICK j \in Jobs : JobEnds(j, "cancelled", 0)
      BY <1>4
    <2>2. job'[j].status = "cancelled" /\ job'[j].size = 0
      BY <2>1, <1>0 DEF JobEnds
    <2> QED BY <2>1, <2>2, <1>0 DEF JobEnds
  <1> QED BY <1>1, <1>2, <1>3, <1>4 DEF JobStep

(* Every step leaves room for the results to come.                           *)
LEMMA RoomStep == ASSUME IInv, RoomInv, [Next]_vars PROVE RoomInv'
  <1>1. CASE UNCHANGED vars
    BY <1>1 DEF vars, RoomInv, SizesOK, TaskSizesOK, ReadSizesOK, StateReadable, Retained,
                RoomOf, At, Job
  <1>2. CASE JobStep
    <2>1. PICK j \in Jobs :
            /\ \A k \in Jobs : k # j => job'[k] = job[k]
            /\ \/ /\ job[j].status \in {"none", "active"} /\ job'[j].status = "active"
                  /\ job'[j].size = job[j].size
                  /\ \E r \in Requests : request' =
                        [request EXCEPT ![r] = [step |-> "create", job |-> j, read |-> "none"]]
               \/ /\ job[j].status = "active" /\ UNCHANGED request
                  /\ \/ job'[j].status = "done" /\ job'[j].size > 0
                     \/ job'[j].status = "cancelled" /\ job'[j].size = 0
               \/ /\ job[j].status \in {"done", "cancelled"} /\ job'[j].status = "removed"
                  /\ job'[j].size = job[j].size /\ UNCHANGED request
      BY <1>2, JobStepFacts
    <2>2. UNCHANGED <<task, lapsed>>
      BY <1>2, JobStepFacts
    <2>3. SizesOK'
      BY <2>1 DEF RoomInv, SizesOK
    <2>4. TaskSizesOK'
      BY <2>1, <2>2 DEF RoomInv, TaskSizesOK, IInv, StatusTruthful
    <2>5. ReadSizesOK'
      <3>1. ASSUME NEW r \in Requests, request'[r].step = "update"
            PROVE  request'[r] = request[r]
        BY <2>1, <3>1 DEF At, IInv, TypeOK
      <3>2. ASSUME NEW r \in Requests, request'[r].step = "update"
            PROVE  /\ request'[r].read = "completed" => job'[request'[r].job].size > 0
                   /\ request'[r].read = "cancelled" => job'[request'[r].job].size = 0
        <4>1. /\ request[r].step = "update" /\ request[r].job \in Jobs
              /\ request[r].read = "completed" =>
                    job[request[r].job].status \in {"done", "removed"}
              /\ request[r].read = "cancelled" =>
                    job[request[r].job].status \in {"cancelled", "removed"}
              /\ request[r].read = "completed" => job[request[r].job].size > 0
              /\ request[r].read = "cancelled" => job[request[r].job].size = 0
          BY <3>1, <3>2 DEF At, Job, IInv, ReadsHold, RoomInv, ReadSizesOK
        <4> QED BY <2>1, <3>1, <3>2, <4>1
      <3> QED BY <3>2 DEF ReadSizesOK
    <2>6. StateReadable'
      BY <2>2 DEF RoomInv, StateReadable, Retained, RoomOf
    <2> QED BY <2>3, <2>4, <2>5, <2>6 DEF RoomInv
  <1>3. CASE Next /\ ~JobStep
    <2>1. UNCHANGED job
      BY <1>3 DEF Next, JobStep, CreateTask, Ask, Look, Cached, ReadJob, ReadFails, Update,
                  Collect, Reread, Lost, Fail, Lapse, Revoke, CancelAuthority
    <2>2. StateReadable' /\ TaskSizesOK'
      BY <1>3, <2>1, StoreRoom
    <2>3. SizesOK'
      BY <2>1 DEF RoomInv, SizesOK
    <2>4. ASSUME NEW r \in Requests, ReadJob(r) PROVE ReadSizesOK'
      <3>1. Job(r) \in Jobs
        BY <2>4, JobKnown DEF ReadJob, At
      <3>2. job[Job(r)].status \in {"active", "done", "cancelled"}
        BY <2>4, <3>1 DEF ReadJob, IInv, ReadsHold, TypeOK, JobStatuses, At, Job
      <3>3. PICK told : told = TaskStatusForJob(job[Job(r)].status)
        OBVIOUS
      <3>4. /\ told = "completed" => job[Job(r)].size > 0
            /\ told = "cancelled" => job[Job(r)].size = 0
        BY <3>1, <3>2, <3>3 DEF TaskStatusForJob, RoomInv, SizesOK
      <3>5. /\ request'[r].read = told /\ request'[r].job = Job(r)
            /\ \A q \in Requests : q # r => request'[q] = request[q]
        BY <2>4, <3>3 DEF ReadJob, IInv, TypeOK, Job
      <3> QED BY <2>1, <3>4, <3>5 DEF ReadSizesOK, RoomInv, At, Job
    <2>8. ReadSizesOK
      BY DEF RoomInv
    <2>5. ASSUME \E r \in Requests : \/ Look(r) \/ Cached(r) \/ ReadFails(r) \/ Update(r)
                                     \/ Collect(r) \/ Reread(r) \/ Lost(r) \/ Fail(r)
                                     \/ CreateTask(r) \/ \E j \in Jobs : Ask(r, j)
          PROVE  ReadSizesOK'
      <3>1. PICK r \in Requests :
              /\ \A q \in Requests : q # r => request'[q] = request[q]
              /\ request'[r].step # "update"
        BY <2>5 DEF Look, Cached, ReadFails, Update, Collect, Reread, Lost, Fail, CreateTask, Ask,
                    Answer, AnswerError, Finish, Goto, Idle, IInv, TypeOK
      <3>2. ASSUME NEW q \in Requests, request'[q].step = "update"
            PROVE  /\ request'[q].read = "completed" => job'[request'[q].job].size > 0
                   /\ request'[q].read = "cancelled" => job'[request'[q].job].size = 0
        <4>1. request'[q] = request[q] /\ request[q].step = "update"
          BY <3>1, <3>2
        <4> QED BY <2>1, <2>8, <4>1 DEF ReadSizesOK
      <3> QED BY <3>2 DEF ReadSizesOK
    <2>6. ASSUME \/ \E j \in Jobs : Lapse(j)
                 \/ \E o \in Owners : Revoke(o) \/ CancelAuthority(o)
          PROVE  ReadSizesOK'
      <3>1. UNCHANGED request
        BY <2>6 DEF Lapse, Revoke, CancelAuthority
      <3> QED BY <2>1, <2>8, <3>1 DEF ReadSizesOK
    <2>7. ReadSizesOK'
      <3>1. CASE \E r \in Requests : ReadJob(r)
        BY <2>4, <3>1
      <3> QED BY <1>3, <2>5, <2>6, <3>1 DEF Next, JobStep
    <2> QED BY <2>2, <2>3, <2>7 DEF RoomInv
  <1> QED BY <1>1, <1>2, <1>3

(* An empty store has room.                                                  *)
LEMMA RoomInit == Init => RoomInv
  <1> SUFFICES ASSUME Init PROVE RoomInv
    OBVIOUS
  <1>1. \A j \in Jobs : task[j] = NoTask /\ job[j].size = 0 /\ job[j].status = "none"
    BY DEF Init
  <1>2. SizesOK /\ TaskSizesOK /\ ReadSizesOK
    BY <1>1 DEF SizesOK, TaskSizesOK, ReadSizesOK, Init, NoTask, Idle, At
  <1>3. Tasks(task) = {} /\ RoomOfAll(task, Jobs) = {}
    BY <1>1 DEF Tasks, RoomOfAll, RoomOf, NoTask
  <1>4. Cardinality(Tasks(task)) = 0 /\ Retained(task, Jobs) = 0
    BY <1>3, FS_EmptySet DEF RoomOfAll, Retained
  <1>5. StateReadable
    BY <1>1, <1>4, McpTasksAssumption DEF StateReadable, Tasks, NoTask
  <1> QED BY <1>2, <1>5 DEF RoomInv

-----------------------------------------------------------------------------
(* What clients have been told. *)

Ended == {"completed", "cancelled", "failed"}
Standing(j) == OwnerOf[j] \notin revoked

(* Two statuses of one task that a client may be told one after the other:   *)
(* only a result too large to be stored is lost after it was announced.      *)
Same(j, old, new) ==
    \/ old = new
    \/ /\ job[j].size > MaxResult
       /\ old \in {"completed", "failed"} /\ new \in {"completed", "failed"}

(* No late create will make the task anew: it is there, and has not lapsed.  *)
Recorded(j) ==
    \A r \in Requests : request[r].step = "create" /\ request[r].job = j =>
        task[j].status # "none" /\ j \notin lapsed

(* An answer of an ended task fits the job and the record.                   *)
ShownOf(j) == shown[j] \in Ended =>
    /\ job[j].status \in {"done", "cancelled", "removed"}
    /\ shown[j] = "completed" => job[j].size > 0
    /\ shown[j] = "cancelled" => job[j].size = 0
    /\ task[j].status = "none" \/ Same(j, task[j].status, shown[j])
    /\ Recorded(j)

(* A handler on its way to the answer "completed" has good reason to be.     *)
CollectsOf(j) ==
    \A r \in Requests : request[r].step \in {"cached", "collect", "reread"}
                        /\ request[r].job = j =>
        /\ job[j].size > 0
        /\ Recorded(j)
        /\ \/ shown[j] # "failed" /\ task[j].status \in {"none", "completed"}
           \/ job[j].size > MaxResult /\ task[j].status # "working"

ClientOf(j) == Standing(j) => ShownOf(j) /\ CollectsOf(j)
ClientInv == \A j \in Jobs : ClientOf(j)

Sticks(j) == Standing(j) /\ shown[j] \in Ended => Same(j, shown[j], shown'[j])

TasksInv == IInv /\ RoomInv /\ ClientInv

(* A step that tells the client of a task nothing, and starts no answer.     *)
LEMMA Kept ==
    ASSUME TasksInv, NEW j \in Jobs, job'[j] = job[j], shown'[j] = shown[j],
           Standing(j)' => Standing(j),
           \A r \in Requests : request'[r].step \in {"create", "cached", "collect", "reread"}
                                 /\ request'[r].job = j => request'[r] = request[r],
           Standing(j)' => task'[j] = task[j] \/ (j \in lapsed /\ task'[j] = NoTask),
           j \notin lapsed /\ Recorded(j) => j \notin lapsed' \/ Recorded(j)'
    PROVE  ClientOf(j)' /\ Sticks(j)
  <1>1. ClientOf(j)
    BY DEF TasksInv, ClientInv
  <1>2. Sticks(j)
    BY DEF Sticks, Same
  <1>3. Standing(j)' /\ Recorded(j) => Recorded(j)'
    BY DEF Recorded
  <1>4. ASSUME Standing(j)' PROVE ShownOf(j)'
    BY <1>1, <1>3, <1>4 DEF ClientOf, ShownOf, Same, NoTask
  <1>5. ASSUME Standing(j)' PROVE CollectsOf(j)'
    <2>1. CollectsOf(j)
      BY <1>1, <1>5 DEF ClientOf
    <2>2. ASSUME NEW r \in Requests, request'[r].step \in {"cached", "collect", "reread"},
                 request'[r].job = j
          PROVE  /\ job[j].size > 0 /\ Recorded(j)
                 /\ \/ shown[j] # "failed" /\ task[j].status \in {"none", "completed"}
                    \/ job[j].size > MaxResult /\ task[j].status # "working"
      BY <2>1, <2>2 DEF CollectsOf
    <2>3. task'[j].status = task[j].status \/ task'[j].status = "none"
      BY <1>5 DEF NoTask
    <2> QED BY <2>2, <2>3, <1>3, <1>5 DEF CollectsOf
  <1> QED BY <1>2, <1>4, <1>5 DEF ClientOf

(* A step of a handler, seen from the other tasks. *)
HandlerStep(r) ==
    \/ CreateTask(r) \/ Look(r) \/ Cached(r) \/ ReadJob(r) \/ ReadFails(r)
    \/ Update(r) \/ Collect(r) \/ Reread(r) \/ Lost(r) \/ Fail(r)

(* One handler moves, and answers of its own task only.                      *)
LEMMA HandlerFacts ==
    ASSUME IInv, NEW r \in Requests, HandlerStep(r)
    PROVE  /\ UNCHANGED <<job, revoked>> /\ Job(r) \in Jobs
           /\ \A q \in Requests : q # r => request'[q] = request[q]
           /\ \/ request'[r] = Idle
              \/ request'[r].job = Job(r) /\ request'[r].step # "create"
           /\ lapsed' = {} \/ lapsed' = lapsed
           /\ \A j \in Jobs : j # Job(r) =>
                 /\ shown'[j] = shown[j]
                 /\ task'[j] = task[j] \/ (j \in lapsed /\ task'[j] = NoTask)
  <1>0. /\ request \in [Requests -> [step : Steps, job : Jobs \cup {None},
                                     read : TaskStatuses \cup {"none"}]]
        /\ shown \in [Jobs -> TaskStatuses \cup {"none"}]
        /\ \A j \in Jobs : Pruned[j] = IF j \in lapsed THEN NoTask ELSE task[j]
        /\ Pruned \in [Jobs -> [status : TaskStatuses \cup {"none"}, bytes : Nat, reserved : Nat]]
    BY PrunedFacts DEF IInv, TypeOK
  <1>1. Job(r) \in Jobs
    BY JobKnown DEF HandlerStep, CreateTask, Look, Cached, ReadJob, ReadFails, Update, Collect,
                    Reread, Lost, Fail, At
  <1>2. ASSUME Prune
        PROVE  /\ lapsed' = {}
               /\ \A j \in Jobs : task'[j] = task[j] \/ (j \in lapsed /\ task'[j] = NoTask)
    BY <1>0, <1>2 DEF Prune
  <1>3. ASSUME NEW new, task' = [Pruned EXCEPT ![Job(r)] = new]
        PROVE  \A j \in Jobs : j # Job(r) =>
                   task'[j] = task[j] \/ (j \in lapsed /\ task'[j] = NoTask)
    BY <1>0, <1>3
  <1>4. ASSUME NEW status, Answer(r, status)
        PROVE  /\ request'[r] = Idle /\ \A q \in Requests : q # r => request'[q] = request[q]
               /\ \A j \in Jobs : j # Job(r) => shown'[j] = shown[j]
    BY <1>0, <1>4 DEF Answer, Finish
  <1>5. ASSUME AnswerError(r)
        PROVE  /\ request'[r] = Idle /\ \A q \in Requests : q # r => request'[q] = request[q]
               /\ shown' = shown
    BY <1>0, <1>5 DEF AnswerError, Finish
  <1>6. ASSUME NEW step, Goto(r, step)
        PROVE  /\ \A q \in Requests : q # r => request'[q] = request[q]
               /\ request'[r].step = step /\ request'[r].job = Job(r)
    BY <1>0, <1>6 DEF Goto, Job
  <1>7. CASE CreateTask(r)
    BY <1>1, <1>2, <1>3, <1>4, <1>5, <1>7 DEF CreateTask
  <1>8. CASE Look(r)
    BY <1>1, <1>2, <1>4, <1>5, <1>6, <1>8 DEF Look
  <1>9. CASE Cached(r)
    BY <1>1, <1>2, <1>4, <1>5, <1>6, <1>9 DEF Cached
  <1>10. CASE ReadJob(r)
    BY <1>0, <1>1, <1>10 DEF ReadJob, Job
  <1>11. CASE ReadFails(r)
    BY <1>1, <1>6, <1>11 DEF ReadFails
  <1>12. CASE Update(r)
    BY <1>1, <1>2, <1>3, <1>4, <1>5, <1>6, <1>12 DEF Update, UpdateStatus
  <1>13. CASE Collect(r)
    BY <1>1, <1>2, <1>4, <1>5, <1>6, <1>13 DEF Collect
  <1>14. CASE Reread(r)
    BY <1>1, <1>4, <1>5, <1>14 DEF Reread
  <1>15. CASE Lost(r)
    BY <1>1, <1>2, <1>3, <1>4, <1>5, <1>15 DEF Lost, UpdateStatus
  <1>16. CASE Fail(r)
    BY <1>1, <1>5, <1>16 DEF Fail
  <1> QED BY <1>7, <1>8, <1>9, <1>10, <1>11, <1>12, <1>13, <1>14, <1>15, <1>16 DEF HandlerStep

(* What a handler says of its own task leaves the other tasks as they are.   *)
LEMMA OthersKept ==
    ASSUME TasksInv, NEW r \in Requests, HandlerStep(r),
           NEW k \in Jobs, k = Job(r), ClientOf(k)', Sticks(k)
    PROVE  \A j \in Jobs : ClientOf(j)' /\ Sticks(j)
  <1>1. IInv
    BY DEF TasksInv
  <1>2. ASSUME NEW j \in Jobs, j # k PROVE ClientOf(j)' /\ Sticks(j)
    <2>1. /\ UNCHANGED <<job, revoked>>
          /\ lapsed' = {} \/ lapsed' = lapsed
          /\ shown'[j] = shown[j]
          /\ task'[j] = task[j] \/ (j \in lapsed /\ task'[j] = NoTask)
      BY <1>1, <1>2, HandlerFacts
    <2>2. \A q \in Requests : request'[q].step \in {"create", "cached", "collect", "reread"}
                                /\ request'[q].job = j => request'[q] = request[q]
      BY <1>1, <1>2, HandlerFacts DEF Idle
    <2>3. Recorded(j) /\ j \notin lapsed => j \notin lapsed' \/ Recorded(j)'
      BY <2>1
    <2>4. /\ Standing(j)' => Standing(j)
          /\ Standing(j)' => task'[j] = task[j] \/ (j \in lapsed /\ task'[j] = NoTask)
      BY <2>1 DEF Standing
    <2> QED BY <2>1, <2>2, <2>3, <2>4, Kept
  <1> QED BY <1>2

(* A task that is there, and has not lapsed, keeps its record in a           *)
(* transaction that prunes; one that has lapsed loses it.                    *)
LEMMA LiveFacts ==
    ASSUME TasksInv, NEW j \in Jobs
    PROVE  /\ Live(j) => /\ j \notin lapsed /\ Pruned[j] = task[j]
                         /\ task[j].status \in TaskStatuses
           /\ ~Live(j) => Pruned[j].status = "none"
           /\ ~Live(j) => task[j].status = "none" \/ j \in lapsed
           /\ Pruned[j] = task[j] \/ (j \in lapsed /\ Pruned[j] = NoTask)
           /\ Prune => task'[j] = Pruned[j] /\ lapsed' = {}
  <1>1. \A k \in Jobs : Pruned[k] = IF k \in lapsed THEN NoTask ELSE task[k]
    BY PrunedFacts DEF TasksInv, IInv
  <1>2. task[j].status \in TaskStatuses \cup {"none"}
    BY DEF TasksInv, IInv, TypeOK
  <1> QED BY <1>1, <1>2 DEF Live, NoTask, Prune

(* Nothing is answered, and no answer is started.                            *)
LEMMA Silent ==
    ASSUME TasksInv, NEW r \in Requests, HandlerStep(r), NEW j \in Jobs, j = Job(r),
           shown' = shown, request'[r].step \notin {"cached", "collect", "reread"},
           task'[j] = task[j] \/ (j \in lapsed /\ task'[j] = NoTask)
    PROVE  ClientOf(j)' /\ Sticks(j)
  <1>1. /\ UNCHANGED <<job, revoked>>
        /\ lapsed' = {} \/ lapsed' = lapsed
        /\ \A q \in Requests : q # r => request'[q] = request[q]
        /\ request'[r] = Idle \/ request'[r].step # "create"
    BY HandlerFacts DEF TasksInv
  <1>2. \A q \in Requests : request'[q].step \in {"create", "cached", "collect", "reread"}
                              /\ request'[q].job = j => request'[q] = request[q]
    BY <1>1 DEF Idle
  <1>3. /\ Standing(j)' => Standing(j)
        /\ Recorded(j) /\ j \notin lapsed => j \notin lapsed' \/ Recorded(j)'
    BY <1>1 DEF Standing
  <1> QED BY <1>1, <1>2, <1>3, Kept

(* A status is answered that the record confirms.                            *)
LEMMA Told ==
    ASSUME TasksInv, NEW r \in Requests, HandlerStep(r), NEW j \in Jobs, j = Job(r),
           NEW status \in TaskStatuses, Answer(r, status),
           status \in Ended => job[j].status \in {"done", "cancelled", "removed"},
           status = "completed" => job[j].size > 0,
           status = "cancelled" => job[j].size = 0,
           Standing(j) /\ shown[j] \in Ended => Same(j, shown[j], status),
           Standing(j) /\ status \in Ended => Recorded(j)',
           Standing(j) => task'[j].status = "none" \/ status \notin Ended
                          \/ Same(j, task'[j].status, status),
           Standing(j) /\ CollectsOf(j)
             /\ (\E q \in Requests : q # r /\ request[q].step \in {"cached", "collect", "reread"}
                                           /\ request[q].job = j) =>
                 /\ Recorded(j)'
                 /\ \/ status # "failed" /\ task'[j].status \in {"none", "completed"}
                    \/ job[j].size > MaxResult /\ task'[j].status # "working"
    PROVE  ClientOf(j)' /\ Sticks(j)
  <1>1. /\ UNCHANGED <<job, revoked>>
        /\ \A q \in Requests : q # r => request'[q] = request[q]
    BY HandlerFacts DEF TasksInv
  <1>2. shown'[j] = status /\ request'[r] = Idle
    BY DEF Answer, Finish, TasksInv, IInv, TypeOK
  <1>3. ClientOf(j)
    BY DEF TasksInv, ClientInv
  <1>4. Sticks(j)
    BY <1>2 DEF Sticks
  <1>5. Standing(j)' => Standing(j)
    BY <1>1 DEF Standing
  <1>6. ASSUME Standing(j)' PROVE ShownOf(j)'
    BY <1>1, <1>2, <1>5, <1>6 DEF ShownOf, Same
  <1>7. ASSUME Standing(j)' PROVE CollectsOf(j)'
    <2>1. CollectsOf(j) /\ Standing(j)
      BY <1>3, <1>5, <1>7 DEF ClientOf
    <2>2. ASSUME NEW q \in Requests, request'[q].step \in {"cached", "collect", "reread"},
                 request'[q].job = j
          PROVE  /\ job'[j].size > 0 /\ Recorded(j)'
                 /\ \/ shown'[j] # "failed" /\ task'[j].status \in {"none", "completed"}
                    \/ job'[j].size > MaxResult /\ task'[j].status # "working"
      <3>1. q # r /\ request'[q] = request[q]
        BY <1>1, <1>2, <2>2 DEF Idle
      <3>2. job[j].size > 0
        BY <2>1, <2>2, <3>1 DEF CollectsOf
      <3> QED BY <1>1, <1>2, <2>1, <2>2, <3>1, <3>2
    <2> QED BY <2>2 DEF CollectsOf
  <1> QED BY <1>4, <1>6, <1>7 DEF ClientOf

(* A handler starts for the answer "completed". *)
LEMMA Started ==
    ASSUME TasksInv, NEW r \in Requests, HandlerStep(r), NEW j \in Jobs, j = Job(r),
           shown' = shown,
           Standing(j) => Recorded(j)' /\ job[j].size > 0,
           Standing(j) => \/ shown[j] # "failed" /\ task'[j].status \in {"none", "completed"}
                          \/ job[j].size > MaxResult /\ task'[j].status # "working",
           Standing(j) /\ shown[j] \in Ended =>
               task'[j].status = "none" \/ Same(j, task'[j].status, shown[j])
    PROVE  ClientOf(j)' /\ Sticks(j)
  <1>1. UNCHANGED <<job, revoked>>
    BY HandlerFacts DEF TasksInv
  <1>2. ClientOf(j)
    BY DEF TasksInv, ClientInv
  <1>3. Sticks(j)
    BY DEF Sticks, Same
  <1>4. Standing(j)' => Standing(j)
    BY <1>1 DEF Standing
  <1>5. ASSUME Standing(j)' PROVE ShownOf(j)'
    BY <1>1, <1>2, <1>4, <1>5 DEF ShownOf, Same, ClientOf
  <1>6. ASSUME Standing(j)' PROVE CollectsOf(j)'
    BY <1>1, <1>4, <1>6 DEF CollectsOf
  <1> QED BY <1>3, <1>5, <1>6 DEF ClientOf

(* What the invariant says of one task. *)
LEMMA TaskFacts ==
    ASSUME TasksInv, NEW j \in Jobs
    PROVE  /\ task[j].status \in {"completed", "cancelled", "failed"} =>
                 job[j].status \in {"done", "cancelled", "removed"}
           /\ task[j].status = "completed" => job[j].size > 0
           /\ task[j].status = "cancelled" => job[j].size = 0
           /\ task[j].status = "completed" /\ job[j].size <= MaxResult =>
                 task[j].bytes = job[j].size
           /\ job[j].size > 0 => job[j].status \in {"done", "removed"}
           /\ job[j].status \in {"done", "removed"} \/ job[j].size = 0
           /\ job[j].size \in Nat /\ job[j].status \in JobStatuses
           /\ task[j].status \in TaskStatuses \cup {"none"}
           /\ task[j].reserved = IF task[j].status = "working" THEN MaxResult ELSE 0
  BY DEF TasksInv, IInv, TypeOK, RoomInv, SizesOK, TaskSizesOK, StatusTruthful, JobStatuses,
         StateReadable

(* The record of a live task is answered, or collected if it is completed.   *)
LEMMA RecordTold ==
    ASSUME TasksInv, NEW r \in Requests, HandlerStep(r), NEW j \in Jobs, j = Job(r), Live(j),
           Answer(r, task[j].status), task'[j] = task[j], lapsed' = {}
    PROVE  ClientOf(j)' /\ Sticks(j)
  <1>1. task[j].status \in TaskStatuses /\ j \notin lapsed /\ task[j].status # "none"
    BY LiveFacts DEF TaskStatuses
  <1>2. ClientOf(j)
    BY DEF TasksInv, ClientInv
  <1>3. Recorded(j)'
    BY <1>1 DEF Recorded
  <1>4. Standing(j) /\ shown[j] \in Ended => Same(j, shown[j], task[j].status)
    BY <1>1, <1>2 DEF ClientOf, ShownOf, Same
  <1>5. ASSUME CollectsOf(j),
               \E q \in Requests : q # r /\ request[q].step \in {"cached", "collect", "reread"}
                                         /\ request[q].job = j
        PROVE  \/ task[j].status # "failed" /\ task'[j].status \in {"none", "completed"}
               \/ job[j].size > MaxResult /\ task'[j].status # "working"
    BY <1>5 DEF CollectsOf
  <1>6. Same(j, task'[j].status, task[j].status)
    BY DEF Same
  <1> QED BY <1>1, <1>3, <1>4, <1>5, <1>6, TaskFacts, Told DEF Ended

(* The record of a live task is completed: its result is looked for.         *)
LEMMA RecordCollected ==
    ASSUME TasksInv, NEW r \in Requests, HandlerStep(r), NEW j \in Jobs, j = Job(r), Live(j),
           task[j].status = "completed", shown' = shown, task'[j] = task[j], lapsed' = {}
    PROVE  ClientOf(j)' /\ Sticks(j)
  <1>1. ClientOf(j)
    BY DEF TasksInv, ClientInv
  <1>2. Recorded(j)'
    BY DEF Recorded
  <1>3. Standing(j) /\ shown[j] \in Ended => Same(j, task'[j].status, shown[j])
    BY <1>1 DEF ClientOf, ShownOf
  <1>4. Standing(j) => \/ shown[j] # "failed" /\ task'[j].status \in {"none", "completed"}
                       \/ job[j].size > MaxResult /\ task'[j].status # "working"
    BY <1>3 DEF Same, Ended
  <1> QED BY <1>2, <1>3, <1>4, TaskFacts, Started

(* The steps of a handler, for its own task: create, after start_job.        *)
LEMMA CreateSticks ==
    ASSUME TasksInv, NEW r \in Requests, CreateTask(r), NEW j \in Jobs, j = Job(r)
    PROVE  ClientOf(j)' /\ Sticks(j)
  <1>0. HandlerStep(r)
    BY DEF HandlerStep
  <1>1. CASE Live(j)
    BY <1>0, <1>1, LiveFacts, RecordTold DEF CreateTask
  <1>2. CASE ~Live(j) /\ Room
    <2>1. Answer(r, "working") /\ "working" \in TaskStatuses /\ "working" \notin Ended
      BY <1>2 DEF CreateTask, TaskStatuses, Ended
    <2>2. ~Recorded(j)
      BY <1>2, LiveFacts DEF CreateTask, Recorded, At, Job
    <2>3. ClientOf(j)
      BY DEF TasksInv, ClientInv
    <2>4. ~(Standing(j) /\ shown[j] \in Ended)
      BY <2>2, <2>3 DEF ClientOf, ShownOf
    <2>5. CollectsOf(j) =>
              ~\E q \in Requests : request[q].step \in {"cached", "collect", "reread"}
                                   /\ request[q].job = j
      BY <2>2 DEF CollectsOf
    <2> QED BY <1>0, <2>1, <2>4, <2>5, Told
  <1>3. CASE ~Live(j) /\ ~Room
    <2>1. Prune /\ AnswerError(r)
      BY <1>3 DEF CreateTask
    <2>2. shown' = shown /\ request'[r].step = "idle"
      BY <2>1 DEF AnswerError, Finish, Idle, TasksInv, IInv, TypeOK
    <2> QED BY <1>0, <2>1, <2>2, LiveFacts, Silent
  <1> QED BY <1>1, <1>2, <1>3

(* The record is looked up.                                                  *)
LEMMA LookSticks ==
    ASSUME TasksInv, NEW r \in Requests, Look(r), NEW j \in Jobs, j = Job(r)
    PROVE  ClientOf(j)' /\ Sticks(j)
  <1>0. HandlerStep(r) /\ Prune
    BY DEF HandlerStep, Look
  <1>1. CASE ~Live(j)
    <2>1. shown' = shown /\ request'[r].step = "idle"
      BY <1>1 DEF Look, AnswerError, Finish, Idle, TasksInv, IInv, TypeOK
    <2> QED BY <1>0, <2>1, LiveFacts, Silent
  <1>2. CASE Live(j) /\ task[j].status \in {"cancelled", "failed"}
    BY <1>0, <1>2, LiveFacts, RecordTold DEF Look
  <1>3. CASE Live(j) /\ task[j].status = "completed"
    BY <1>0, <1>3, LiveFacts, RecordCollected DEF Look
  <1>4. CASE Live(j) /\ task[j].status \notin {"cancelled", "failed", "completed"}
    <2>1. shown' = shown /\ request'[r].step = "read"
      BY <1>4 DEF Look, Goto, TasksInv, IInv, TypeOK
    <2> QED BY <1>0, <2>1, LiveFacts, Silent
  <1> QED BY <1>1, <1>2, <1>3, <1>4

(* The stored result is looked up.                                           *)
LEMMA CachedSticks ==
    ASSUME TasksInv, NEW r \in Requests, Cached(r), NEW j \in Jobs, j = Job(r)
    PROVE  ClientOf(j)' /\ Sticks(j)
  <1>0. HandlerStep(r) /\ Prune
    BY DEF HandlerStep, Cached
  <1>1. CASE ~HasResult(j)
    <2>1. shown' = shown /\ request'[r].step = "read"
      BY <1>1 DEF Cached, Goto, TasksInv, IInv, TypeOK
    <2> QED BY <1>0, <2>1, LiveFacts, Silent
  <1>2. CASE HasResult(j) /\ Intact(j)
    BY <1>0, <1>2, LiveFacts, RecordTold DEF Cached, HasResult
  <1>3. CASE HasResult(j) /\ ~Intact(j)
    <2>1. shown' = shown /\ request'[r].step = "idle"
      BY <1>3 DEF Cached, AnswerError, Finish, Idle, TasksInv, IInv, TypeOK
    <2> QED BY <1>0, <2>1, LiveFacts, Silent
  <1> QED BY <1>1, <1>2, <1>3

(* The job is read, found gone, or the handler fails.                        *)
LEMMA ReadSticks ==
    ASSUME TasksInv, NEW r \in Requests, ReadJob(r) \/ ReadFails(r) \/ Fail(r),
           NEW j \in Jobs, j = Job(r)
    PROVE  ClientOf(j)' /\ Sticks(j)
  <1>1. shown' = shown /\ task' = task /\ request'[r].step \notin {"cached", "collect", "reread"}
    BY DEF ReadJob, ReadFails, Fail, Goto, AnswerError, Finish, Idle, TasksInv, IInv, TypeOK
  <1> QED BY <1>1, Silent DEF HandlerStep

(* A handler that was on its way answers "completed".                        *)
LEMMA CompletedTold ==
    ASSUME TasksInv, NEW r \in Requests, HandlerStep(r), NEW j \in Jobs, j = Job(r),
           request[r].step \in {"cached", "collect", "reread"}, Answer(r, "completed"),
           task'[j] = task[j] \/ (j \in lapsed /\ task'[j] = NoTask),
           lapsed' = {} \/ (lapsed' = lapsed /\ task'[j] = task[j])
    PROVE  ClientOf(j)' /\ Sticks(j)
  <1>1. /\ \A q \in Requests : q # r => request'[q] = request[q]
        /\ request'[r] = Idle \/ request'[r].step # "create"
    BY HandlerFacts DEF TasksInv
  <1>2. Recorded(j) => Recorded(j)'
    BY <1>1 DEF Recorded, Idle
  <1>3. ASSUME Standing(j)
        PROVE  /\ job[j].size > 0 /\ Recorded(j)
               /\ \/ shown[j] # "failed" /\ task[j].status \in {"none", "completed"}
                  \/ job[j].size > MaxResult /\ task[j].status # "working"
    BY <1>3 DEF TasksInv, ClientInv, ClientOf, CollectsOf, Job
  <1>4. task'[j].status = task[j].status \/ task'[j].status = "none"
    BY DEF NoTask
  <1>5. "completed" \in TaskStatuses
    BY DEF TaskStatuses
  <1>6. Standing(j) /\ shown[j] \in Ended => Same(j, shown[j], "completed")
    <2>1. ASSUME Standing(j), shown[j] = "cancelled" PROVE FALSE
      <3>1. job[j].size = 0
        BY <2>1 DEF TasksInv, ClientInv, ClientOf, ShownOf, Ended
      <3> QED BY <3>1, <2>1, <1>3
    <2> QED BY <2>1, <1>3 DEF Same, Ended
  <1>7. Standing(j) => task'[j].status = "none" \/ Same(j, task'[j].status, "completed")
    <2>1. Standing(j) => task[j].status # "cancelled"
      BY <1>3, TaskFacts
    <2> QED BY <1>3, <1>4, <2>1, TaskFacts DEF Same, TaskStatuses
  <1>8. Standing(j) => \/ task'[j].status \in {"none", "completed"}
                       \/ job[j].size > MaxResult /\ task'[j].status # "working"
    BY <1>3, <1>4
  <1>9. (job[j].size > 0 /\ Standing(j)) \/ ~Standing(j)
    BY <1>3
  <1>10. CASE Standing(j)
    <2>1. job[j].status \in {"done", "removed"} /\ job[j].size > 0
      BY <1>3, <1>10, TaskFacts
    <2> QED BY <1>2, <1>3, <1>5, <1>6, <1>7, <1>8, <1>10, <2>1, Told
  <1>11. CASE ~Standing(j)
    <2>1. ~Standing(j)'
      BY <1>11, HandlerFacts DEF Standing, TasksInv
    <2> QED BY <2>1, <1>11 DEF ClientOf, Sticks
  <1> QED BY <1>10, <1>11

(* The result, stored or just read, is answered.                             *)
LEMMA CollectSticks ==
    ASSUME TasksInv, NEW r \in Requests, Collect(r), NEW j \in Jobs, j = Job(r)
    PROVE  ClientOf(j)' /\ Sticks(j)
  <1>0. HandlerStep(r) /\ Prune /\ request[r].step = "collect"
    BY DEF HandlerStep, Collect, At
  <1>1. CASE AnswerError(r)
    <2>1. shown' = shown /\ request'[r].step = "idle"
      BY <1>1 DEF AnswerError, Finish, Idle, TasksInv, IInv, TypeOK
    <2> QED BY <1>0, <2>1, LiveFacts, Silent
  <1>2. CASE Answer(r, "completed")
    BY <1>0, <1>2, LiveFacts, CompletedTold
  <1>3. CASE Goto(r, "reread") /\ UNCHANGED shown
    <2>1. task'[j] = task[j] \/ (j \in lapsed /\ task'[j] = NoTask)
      BY <1>0, LiveFacts
    <2>2. \A q \in Requests : request'[q].step = "create" => request'[q] = request[q]
      BY <1>3 DEF Goto, TasksInv, IInv, TypeOK
    <2>3. Recorded(j) => Recorded(j)'
      BY <1>0, <2>1, <2>2, LiveFacts DEF Recorded
    <2>4. task'[j].status = task[j].status \/ task'[j].status = "none"
      BY <2>1 DEF NoTask
    <2>5. ASSUME Standing(j)
          PROVE  /\ job[j].size > 0 /\ Recorded(j)
                 /\ \/ shown[j] # "failed" /\ task[j].status \in {"none", "completed"}
                    \/ job[j].size > MaxResult /\ task[j].status # "working"
      BY <1>0, <2>5 DEF TasksInv, ClientInv, ClientOf, CollectsOf, Job
    <2>6. Standing(j) /\ shown[j] \in Ended =>
              task[j].status = "none" \/ Same(j, task[j].status, shown[j])
      BY DEF TasksInv, ClientInv, ClientOf, ShownOf
    <2> QED BY <1>0, <1>3, <2>3, <2>4, <2>5, <2>6, Started
  <1> QED BY <1>1, <1>2, <1>3 DEF Collect

(* The job is read once more for its result.                                 *)
LEMMA RereadSticks ==
    ASSUME TasksInv, NEW r \in Requests, Reread(r), NEW j \in Jobs, j = Job(r)
    PROVE  ClientOf(j)' /\ Sticks(j)
  <1>0. HandlerStep(r) /\ request[r].step = "reread" /\ task' = task /\ lapsed' = lapsed
    BY DEF HandlerStep, Reread, At
  <1>1. CASE AnswerError(r)
    <2>1. shown' = shown /\ request'[r].step = "idle"
      BY <1>1 DEF AnswerError, Finish, Idle, TasksInv, IInv, TypeOK
    <2> QED BY <1>0, <2>1, Silent
  <1>2. CASE Answer(r, "completed")
    BY <1>0, <1>2, CompletedTold
  <1> QED BY <1>1, <1>2 DEF Reread

(* A task still active has no result, and no client knows of an end.         *)
LEMMA ActiveFacts ==
    ASSUME TasksInv, NEW j \in Jobs, Live(j), task[j].status = "working", Standing(j)
    PROVE  /\ shown[j] \notin Ended
           /\ ~\E q \in Requests : request[q].step \in {"cached", "collect", "reread"}
                                   /\ request[q].job = j
  BY DEF TasksInv, ClientInv, ClientOf, ShownOf, CollectsOf, Same, Ended

(* A poll records what it has read.                                          *)
LEMMA UpdateSticks ==
    ASSUME TasksInv, NEW r \in Requests, Update(r), NEW j \in Jobs, j = Job(r)
    PROVE  ClientOf(j)' /\ Sticks(j)
  <1>0. HandlerStep(r)
    BY DEF HandlerStep
  <1>1. CASE ~Live(j)
    <2>1. shown' = shown /\ request'[r].step = "idle" /\ Prune
      BY <1>1 DEF Update, AnswerError, Finish, Idle, TasksInv, IInv, TypeOK
    <2> QED BY <1>0, <2>1, LiveFacts, Silent
  <1>2. CASE Live(j)
    <2>1. PICK read : read = request[r].read
      OBVIOUS
    <2>2. PICK new : new = Updated(j, read)
      OBVIOUS
    <2>3. /\ j \notin lapsed /\ Pruned[j] = task[j] /\ task[j].status \in TaskStatuses
          /\ task[j].status # "none"
      BY <1>2, LiveFacts DEF TaskStatuses
    <2>4. /\ read \in {"working", "completed", "cancelled"}
          /\ read = "completed" => job[j].status \in {"done", "removed"} /\ job[j].size > 0
          /\ read = "cancelled" => job[j].status \in {"cancelled", "removed"} /\ job[j].size = 0
      BY <2>1 DEF Update, At, Job, TasksInv, IInv, ReadsHold, RoomInv, ReadSizesOK
    <2>5. /\ task'[j] = new /\ lapsed' = {}
          /\ IF new.status = "completed"
             THEN Goto(r, "collect") /\ UNCHANGED shown
             ELSE Answer(r, new.status)
      BY <1>2, <2>1, <2>2, PrunedFacts DEF Update, UpdateStatus, TasksInv, IInv
    <2>6. CASE ~MayBecome(Pruned[j], read)
      <3>1. new = task[j]
        BY <2>2, <2>3, <2>6 DEF Updated
      <3> QED BY <1>0, <1>2, <2>5, <3>1, RecordTold, RecordCollected
    <2>7. CASE MayBecome(Pruned[j], read)
      <3>1. task[j].status = "working"
        BY <2>3, <2>4, <2>7 DEF MayBecome
      <3>2. new.status = read
        BY <2>2, <2>7 DEF Updated
      <3>3. Recorded(j)'
        BY <2>4, <2>5, <3>2 DEF Recorded
      <3>4. CASE read = "completed"
        <4>1. shown' = shown /\ task'[j].status = "completed"
          BY <2>5, <3>2, <3>4
        <4>2. Standing(j) => shown[j] \notin Ended
          BY <1>2, <3>1, ActiveFacts
        <4> QED BY <1>0, <2>4, <3>3, <3>4, <4>1, <4>2, Started DEF Ended
      <3>5. CASE read # "completed"
        <4>1. Answer(r, read) /\ task'[j].status = read
          BY <2>5, <3>2, <3>5
        <4>2. read \in TaskStatuses /\ Same(j, task'[j].status, read)
          BY <2>4, <4>1 DEF TaskStatuses, Same
        <4>3. Standing(j) =>
                 /\ shown[j] \notin Ended
                 /\ ~\E q \in Requests : request[q].step \in {"cached", "collect", "reread"}
                                         /\ request[q].job = j
          BY <1>2, <3>1, ActiveFacts
        <4> QED BY <1>0, <2>4, <3>3, <3>5, <4>1, <4>2, <4>3, Told DEF Ended
      <3> QED BY <3>4, <3>5
    <2> QED BY <2>6, <2>7
  <1> QED BY <1>1, <1>2

(* A poll records that the job is gone.                                      *)
LEMMA LostSticks ==
    ASSUME TasksInv, NEW r \in Requests, Lost(r), NEW j \in Jobs, j = Job(r)
    PROVE  ClientOf(j)' /\ Sticks(j)
  <1>0. HandlerStep(r)
    BY DEF HandlerStep
  <1>1. CASE ~Live(j)
    <2>1. shown' = shown /\ request'[r].step = "idle" /\ Prune
      BY <1>1 DEF Lost, AnswerError, Finish, Idle, TasksInv, IInv, TypeOK
    <2> QED BY <1>0, <2>1, LiveFacts, Silent
  <1>2. CASE Live(j)
    <2>2. PICK new : new = Updated(j, "failed")
      OBVIOUS
    <2>3. /\ j \notin lapsed /\ Pruned[j] = task[j] /\ task[j].status \in TaskStatuses
          /\ task[j].status # "none"
      BY <1>2, LiveFacts DEF TaskStatuses
    <2>4. job[j].status = "removed"
      BY DEF Lost, At, Job, TasksInv, IInv, ReadsHold
    <2>5. /\ task'[j] = new /\ lapsed' = {}
          /\ IF new.status = "failed" THEN Answer(r, "failed") ELSE AnswerError(r)
      BY <1>2, <2>2, PrunedFacts DEF Lost, UpdateStatus, TasksInv, IInv
    <2>6. CASE ~MayBecome(Pruned[j], "failed")
      <3>1. new = task[j]
        BY <2>2, <2>3, <2>6 DEF Updated
      <3>2. CASE task[j].status = "failed"
        BY <1>0, <1>2, <2>5, <3>1, <3>2, RecordTold
      <3>3. CASE task[j].status # "failed"
        <4>1. shown' = shown /\ request'[r].step = "idle"
          BY <2>5, <3>1, <3>3 DEF AnswerError, Finish, Idle, TasksInv, IInv, TypeOK
        <4> QED BY <1>0, <2>5, <3>1, <4>1, Silent
      <3> QED BY <3>2, <3>3
    <2>7. CASE MayBecome(Pruned[j], "failed")
      <3>1. \/ task[j].status = "working"
            \/ task[j].status = "completed" /\ task[j].bytes = 0
        BY <2>3, <2>7 DEF MayBecome
      <3>2. new.status = "failed"
        BY <2>2, <2>7 DEF Updated
      <3>3. Recorded(j)'
        BY <2>5, <3>2 DEF Recorded
      <3>4. "failed" \in TaskStatuses /\ Same(j, task'[j].status, "failed")
            /\ Answer(r, "failed")
        BY <2>5, <3>2 DEF TaskStatuses, Same
      <3>5. CASE task[j].status = "working"
        <4>1. Standing(j) =>
                 /\ shown[j] \notin Ended
                 /\ ~\E q \in Requests : request[q].step \in {"cached", "collect", "reread"}
                                         /\ request[q].job = j
          BY <1>2, <3>5, ActiveFacts
        <4> QED BY <1>0, <2>4, <3>3, <3>4, <4>1, Told
      <3>6. CASE task[j].status = "completed" /\ task[j].bytes = 0
        <4>1. job[j].size > MaxResult
          BY <3>6, TaskFacts, McpTasksAssumption
        <4>2. Standing(j) /\ shown[j] \in Ended => Same(j, shown[j], "failed")
          BY <2>3, <3>6, <4>1 DEF TasksInv, ClientInv, ClientOf, ShownOf, Same
        <4>3. task'[j].status = "failed"
          BY <2>5, <3>2
        <4> QED BY <1>0, <2>4, <3>3, <3>4, <4>1, <4>2, <4>3, Told
      <3> QED BY <3>1, <3>5, <3>6
    <2> QED BY <2>6, <2>7
  <1> QED BY <1>1, <1>2

(* The daemon starts, ends or removes a job: only of a job that has ended    *)
(* has an end been told.                                                     *)
LEMMA JobSticks ==
    ASSUME TasksInv, JobStep, NEW k \in Jobs PROVE ClientOf(k)' /\ Sticks(k)
  <1>1. UNCHANGED <<task, chunks, lapsed, revoked, shown>>
    BY JobStepFacts DEF TasksInv
  <1>2. PICK j \in Jobs :
          /\ \A i \in Jobs : i # j => job'[i] = job[i]
          /\ \/ /\ job[j].status \in {"none", "active"} /\ job'[j].status = "active"
                /\ job'[j].size = job[j].size
                /\ \E r \in Requests : request' =
                      [request EXCEPT ![r] = [step |-> "create", job |-> j, read |-> "none"]]
             \/ /\ job[j].status = "active" /\ UNCHANGED request
                /\ \/ job'[j].status = "done" /\ job'[j].size > 0
                   \/ job'[j].status = "cancelled" /\ job'[j].size = 0
             \/ /\ job[j].status \in {"done", "cancelled"} /\ job'[j].status = "removed"
                /\ job'[j].size = job[j].size /\ UNCHANGED request
    BY JobStepFacts DEF TasksInv
  <1>3. \A r \in Requests : request'[r] = request[r]
                            \/ (request'[r].step = "create" /\ request'[r].job = j)
    BY <1>2 DEF TasksInv, IInv, TypeOK
  <1>4. ClientOf(k) /\ Sticks(k)
    BY <1>1 DEF TasksInv, ClientInv, Sticks, Same
  <1>5. Standing(k)' => Standing(k)
    BY <1>1 DEF Standing
  <1>6. CASE k # j
    <2>1. Recorded(k) => Recorded(k)'
      BY <1>1, <1>3, <1>6 DEF Recorded
    <2> QED BY <1>1, <1>2, <1>3, <1>4, <1>5, <1>6, <2>1, Kept
  <1>7. CASE k = j /\ job[j].status \in {"none", "active"}
    <2>1. job[j].size = 0
      BY <1>7 DEF TasksInv, RoomInv, SizesOK
    <2>2. Standing(k) => shown[k] \notin Ended
      BY <1>4, <1>7 DEF ClientOf, ShownOf
    <2>3. Standing(k) => \A r \in Requests : request[r].job = k =>
                            request[r].step \notin {"cached", "collect", "reread"}
      BY <1>4, <1>7, <2>1 DEF ClientOf, CollectsOf
    <2>4. Standing(k)' => ShownOf(k)'
      BY <1>1, <1>5, <2>2 DEF ShownOf
    <2>5. Standing(k)' => CollectsOf(k)'
      BY <1>3, <1>5, <2>3 DEF CollectsOf
    <2> QED BY <1>4, <2>4, <2>5 DEF ClientOf
  <1>8. CASE k = j /\ job[j].status \in {"done", "cancelled"}
    <2>1. job'[j].status = "removed" /\ job'[j].size = job[j].size /\ UNCHANGED request
      BY <1>2, <1>8
    <2>2. Recorded(k)' <=> Recorded(k)
      BY <1>1, <2>1 DEF Recorded
    <2>3. Standing(k)' => ShownOf(k)'
      BY <1>1, <1>4, <1>5, <1>8, <2>1, <2>2 DEF ClientOf, ShownOf, Same
    <2>4. Standing(k)' => CollectsOf(k)'
      BY <1>1, <1>4, <1>5, <1>8, <2>1, <2>2 DEF ClientOf, CollectsOf
    <2> QED BY <1>4, <2>3, <2>4 DEF ClientOf
  <1> QED BY <1>2, <1>6, <1>7, <1>8

(* Polls that begin, time and revocations. *)
LEMMA RestSticks ==
    ASSUME TasksInv, NEW k \in Jobs,
           \/ \E r \in Requests, j \in Jobs : Ask(r, j)
           \/ \E j \in Jobs : Lapse(j)
           \/ \E o \in Owners : Revoke(o) \/ CancelAuthority(o)
    PROVE  ClientOf(k)' /\ Sticks(k)
  <1>1. CASE \E r \in Requests, j \in Jobs : Ask(r, j)
    <2>1. UNCHANGED <<job, task, chunks, lapsed, revoked, shown>>
      BY <1>1 DEF Ask
    <2>2. \A r \in Requests : request'[r] = request[r] \/ request'[r].step = "look"
      BY <1>1 DEF Ask, TasksInv, IInv, TypeOK
    <2>3. Standing(k)' => Standing(k)
      BY <2>1 DEF Standing
    <2> QED BY <2>1, <2>2, <2>3, Kept
  <1>2. CASE \E j \in Jobs : Lapse(j)
    <2>1. PICK j \in Jobs : Lapse(j)
      BY <1>2
    <2>2. UNCHANGED <<job, task, revoked, request, shown>> /\ lapsed' = lapsed \cup {j}
      BY <2>1 DEF Lapse
    <2>3. Recorded(k) => k \notin lapsed' \/ Recorded(k)' \/ k \in lapsed
      <3>1. CASE k = j
        BY <2>1, <2>2, <3>1 DEF Lapse, Recorded, At, Job
      <3>2. CASE k # j
        BY <2>2, <3>2
      <3> QED BY <3>1, <3>2
    <2>4. Standing(k)' => Standing(k)
      BY <2>2 DEF Standing
    <2> QED BY <2>2, <2>3, <2>4, Kept
  <1>3. CASE \E o \in Owners : Revoke(o)
    <2>1. UNCHANGED <<job, task, chunks, lapsed, request, shown>> /\ revoked \subseteq revoked'
      BY <1>3 DEF Revoke
    <2>2. Standing(k)' => Standing(k)
      BY <2>1 DEF Standing
    <2> QED BY <2>1, <2>2, Kept
  <1>4. CASE \E o \in Owners : CancelAuthority(o)
    <2>1. PICK o \in Owners : CancelAuthority(o)
      BY <1>4
    <2>2. /\ UNCHANGED <<job, revoked, request, shown>>
          /\ \A j \in lapsed' : j \in lapsed
          /\ OwnerOf[k] # o => task'[k] = task[k]
          /\ o \in revoked
      BY <2>1 DEF CancelAuthority, Without, TasksInv, IInv, TypeOK
    <2>3. Standing(k)' => Standing(k) /\ task'[k] = task[k]
      BY <2>2 DEF Standing
    <2>4. k \notin lapsed => k \notin lapsed'
      BY <2>2
    <2> QED BY <2>2, <2>3, <2>4, Kept
  <1> QED BY <1>1, <1>2, <1>3, <1>4

(* Every step keeps what clients were told.                                  *)
LEMMA NextSticks ==
    ASSUME TasksInv, [Next]_vars PROVE ClientInv' /\ \A j \in Jobs : Sticks(j)
  <1>1. SUFFICES ASSUME NEW j \in Jobs PROVE ClientOf(j)' /\ Sticks(j)
    BY DEF ClientInv
  <1>2. CASE UNCHANGED vars
    <2>1. UNCHANGED <<job, task, chunks, lapsed, revoked, request, shown>>
      BY <1>2 DEF vars
    <2>2. Standing(j)' => Standing(j)
      BY <2>1 DEF Standing
    <2> QED BY <2>1, <2>2, Kept
  <1>3. ASSUME NEW r \in Requests, HandlerStep(r) PROVE ClientOf(j)' /\ Sticks(j)
    <2>1. PICK k \in Jobs : k = Job(r)
      BY <1>3, HandlerFacts DEF TasksInv
    <2>2. ClientOf(k)' /\ Sticks(k)
      BY <1>3, <2>1, CreateSticks, LookSticks, CachedSticks, ReadSticks, UpdateSticks,
         CollectSticks, RereadSticks, LostSticks DEF HandlerStep
    <2> QED BY <1>3, <2>1, <2>2, OthersKept
  <1>4. CASE JobStep
    BY <1>4, JobSticks
  <1>5. CASE \/ \E r \in Requests, i \in Jobs : Ask(r, i)
             \/ \E i \in Jobs : Lapse(i)
             \/ \E o \in Owners : Revoke(o) \/ CancelAuthority(o)
    BY <1>5, RestSticks
  <1> QED BY <1>2, <1>3, <1>4, <1>5 DEF Next, JobStep, HandlerStep

(* The invariant holds of an empty Worker ...                                *)
LEMMA TasksInvInit == Init => TasksInv
  <1> SUFFICES ASSUME Init PROVE TasksInv
    OBVIOUS
  <1>1. \A j \in Jobs : shown[j] = "none"
    BY DEF Init
  <1>2. \A r \in Requests : request[r].step = "idle"
    BY DEF Init, Idle
  <1>3. ClientInv
    BY <1>1, <1>2 DEF ClientInv, ClientOf, ShownOf, CollectsOf, Ended
  <1> QED BY <1>3, InitOK, RoomInit DEF TasksInv

(* ... and every step keeps it.                                              *)
LEMMA TasksInvStep == TasksInv /\ [Next]_vars => TasksInv'
  <1>1. ASSUME TasksInv, [Next]_vars PROVE TasksInv'
    <2>1. IInv' /\ RoomInv'
      BY <1>1, NextOK, RoomStep DEF TasksInv
    <2> QED BY <1>1, <2>1, NextSticks DEF TasksInv
  <1> QED BY <1>1

(* The invariant.                                                            *)
LEMMA TasksInvAlways == Spec => []TasksInv
  BY TasksInvInit, TasksInvStep, PTL DEF Spec

(* validState accepts every state the store writes, whatever polls, expiry   *)
(* and revocations overlap: no later operation on a task throws on what it   *)
(* reads.                                                                    *)
THEOREM Readable == Spec => []StateReadable
  <1>1. TasksInv => StateReadable
    BY DEF TasksInv, RoomInv
  <1> QED BY <1>1, TasksInvAlways, PTL

(* The room create has reserved is there when the result comes: a result of  *)
(* an allowed size is stored with the end of its task, which is how the job  *)
(* ended.                                                                    *)
THEOREM ResultsStored == Spec => []EndsTruthfully
  <1>1. TasksInv => EndsTruthfully
    BY DEF TasksInv, IInv, RoomInv, TaskSizesOK, EndsTruthfully
  <1> QED BY <1>1, TasksInvAlways, PTL

(* No overlapping or late poll takes back the end of a task that a client    *)
(* was told, but for a result too large to be stored.                        *)
THEOREM NeverTakenBack == Spec => AnswersStick
  <1>1. ASSUME TasksInv, [Next]_vars,
               NEW j \in Jobs, shown[j] \in {"completed", "cancelled", "failed"},
               OwnerOf[j] \notin revoked
        PROVE  \/ shown'[j] = shown[j]
               \/ /\ job[j].size > MaxResult
                  /\ {shown[j], shown'[j]} = {"completed", "failed"}
    <2>1. Same(j, shown[j], shown'[j])
      BY <1>1, NextSticks DEF Sticks, Standing, Ended
    <2> QED BY <2>1 DEF Same
  <1>2. TasksInv /\ [Next]_vars =>
          [\A j \in Jobs :
             shown[j] \in {"completed", "cancelled", "failed"} /\ OwnerOf[j] \notin revoked =>
                \/ shown'[j] = shown[j]
                \/ /\ job[j].size > MaxResult
                   /\ {shown[j], shown'[j]} = {"completed", "failed"}]_vars
    BY <1>1
  <1> QED BY <1>2, TasksInvAlways, PTL DEF AnswersStick, Spec
=============================================================================
